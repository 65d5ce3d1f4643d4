---------------------------- MODULE EngineTruth ----------------------------
(***************************************************************************)
(* Proofs that what Engine tells its callers is true and stays so, and     *)
(* that it implements AtMostOnce.                                          *)
(*                                                                         *)
(* A known terminal of a request is found in what callers were told, in    *)
(* the lines of the file, in the calls that are about to write or return   *)
(* it, and in the outcome ledger: it is Said.  A step moves a terminal     *)
(* from one of these places to another; only a call that is at work on the *)
(* request (Active) says a new one.  The invariant is that what is said is *)
(* true, that it is one terminal, and that then nothing can dispatch the   *)
(* request any more (Closed); and that a call at work is the only one, at  *)
(* a time when nothing known is said.                                      *)
(***************************************************************************)
EXTENDS EngineProofs

(* The processes that open one ledger file consult one outcome ledger.     *)
(* Nothing in the code makes a host do so; where it does not, an operation *)
(* can be dispatched twice, and its outcomes need not agree.               *)
StoresFollowFiles ==
  HostLedger = "durable" =>
    \A p, q \in Process : LedgerOf[p] = LedgerOf[q] => StoreOf[p] = StoreOf[q]

(* The call has a terminal that it is about to write or return.            *)
Pending(t) ==
  \/ pc[t] \in {"record", "repair_retry", "begin_reconcile"}
  \/ pc[t] \in Appending /\ ~Claiming(t)

(* The terminals that commit to what happened.                             *)
Known == Terminal \ Unknown

(* The places in which a terminal of k can be found through file f.        *)
InTold(f, k, z) == z \in told[f][k]
InLog(f, k, z) == \E i \in 1..Len(log[f]) : log[f][i] = Finish(k, z)
InCall(f, k, z) ==
  \E t \in Thread : FileOf(t) = f /\ Pending(t) /\ key[t] = k /\ term[t] = z
InStore(f, k, z) ==
  \E p \in Process : LedgerOf[p] = f /\ outcomes[StoreOf[p]][k] = z

(* Terminal z of k can be found through file f.                            *)
Said(f, k, z) ==
  InTold(f, k, z) \/ InLog(f, k, z) \/ InCall(f, k, z) \/ InStore(f, k, z)

(* Nothing will ever dispatch k through f that is not about to.            *)
Closed(f, k) ==
  IF HostLedger = "durable"
  THEN \A p \in Process : LedgerOf[p] = f => outcomes[StoreOf[p]][k] # "absent"
  ELSE DurableClaim(f, k)

(* The call works on k through f: it may dispatch, or has dispatched and   *)
(* has not settled the outcome.                                            *)
Active(t, f, k) ==
  pc[t] \in Granted \union {"executing", "verify"} /\ FileOf(t) = f /\ key[t] = k

(* The call has found no claim of k, and may go on to dispatch.            *)
Fresh(t, f, k) ==
  (Claiming(t) \/ pc[t] = "begin_new") /\ FileOf(t) = f /\ key[t] = k

(* No known outcome of k is found through f or a file that shares outcomes. *)
Unsaid(f, k) == \A g \in Scope(f), z \in Known : ~Said(g, k, z)

(* What is said agrees, is true, and is the last word.                     *)
SaidInv ==
  \A f \in File, k \in Key, z \in Known : Said(f, k, z) =>
    /\ \A g \in Scope(f), y \in Known : Said(g, k, y) => y = z
    /\ z \in NoEffect => \A g \in Scope(f) : world[g][k] = "none"
    /\ z \in Success => \E g \in Scope(f) : world[g][k] = "done"
    /\ Closed(f, k)

(* Before anything is said there is at most one call that can dispatch.    *)
Alone(t, f, k) ==
  /\ Closed(f, k)
  /\ Unsaid(f, k)
  /\ \A g \in Scope(f) \ {f} : world[g][k] = "none"
  /\ pc[t] \in Granted => world[f][k] = "none"
  /\ pc[t] = "verify" => world[f][k] = "done"
  /\ \A u \in Thread, g \in Scope(f) : Active(u, g, k) => u = t

(* A call at work on a request is the only one.                            *)
ActiveInv ==
  \A t \in Thread, f \in File, k \in Key : Active(t, f, k) => Alone(t, f, k)

(* Without a durable outcome ledger the claim decides.                     *)
FreshInv ==
  HostLedger # "durable" =>
    \A t \in Thread, f \in File, k \in Key : Fresh(t, f, k) => Unsaid(f, k)

(* The desktop changes only by a dispatch, after which k is closed.        *)
WorldInv ==
  \A f \in File, k \in Key :
    /\ world[f][k] # "none" => dispatches[f][k] > 0
    /\ dispatches[f][k] > 0 => Closed(f, k)

(* The inductive invariant, given Inv.                                     *)
TruthInv == SaidInv /\ ActiveInv /\ FreshInv /\ WorldInv

-----------------------------------------------------------------------------
(* Scopes                                                                  *)

(* The files that share outcomes do not change.                            *)
LEMMA ScopeRigid == \A f : Scope(f)' = Scope(f)
BY DEF Scope

(* Where processes of one file consult one store, sharing outcomes is an   *)
(* equivalence on the files.                                               *)
LEMMA ScopeIsScope ==
  ASSUME StoresFollowFiles
  PROVE  \A f \in File :
           /\ f \in Scope(f) /\ Scope(f) \subseteq File
           /\ \A g \in Scope(f) : f \in Scope(g) /\ Scope(g) = Scope(f)
<1> SUFFICES ASSUME NEW f \in File
             PROVE  /\ f \in Scope(f) /\ Scope(f) \subseteq File
                    /\ \A g \in Scope(f) : f \in Scope(g) /\ Scope(g) = Scope(f)
  OBVIOUS
<1>1. f \in Scope(f) /\ Scope(f) \subseteq File
  BY DEF Scope
<1>2. ASSUME NEW g \in Scope(f) PROVE f \in Scope(g)
  BY <1>1, <1>2 DEF Scope
<1>3. ASSUME NEW a \in File, NEW b \in Scope(a), NEW h \in Scope(a)
      PROVE  h \in Scope(b)
  <2>1. CASE HostLedger = "durable"
    BY <1>3, <2>1 DEF Scope, StoresFollowFiles
  <2>2. CASE HostLedger # "durable"
    BY <1>3, <2>2 DEF Scope
  <2>. QED BY <2>1, <2>2
<1>4. ASSUME NEW g \in Scope(f) PROVE Scope(g) = Scope(f)
  BY <1>1, <1>2, <1>3, <1>4
<1>. QED BY <1>1, <1>2, <1>4

(* Without a durable outcome ledger no two files share outcomes.           *)
LEMMA OneFileScope ==
  ASSUME HostLedger # "durable"
  PROVE  \A f \in File : Scope(f) = {f}
BY DEF Scope

(* What is closed in a file is closed in all that share outcomes with it.  *)
LEMMA ClosedScope ==
  ASSUME StoresFollowFiles, NEW f \in File, NEW g \in Scope(f), NEW k, Closed(g, k)
  PROVE  Closed(f, k)
<1>1. CASE HostLedger = "durable"
  <2>1. CASE f = g
    BY <2>1
  <2>2. CASE f # g
    <3>1. PICK p \in Process, q \in Process :
            LedgerOf[p] = f /\ LedgerOf[q] = g /\ StoreOf[p] = StoreOf[q]
      BY <1>1, <2>2 DEF Scope
    <3>. QED BY <1>1, <3>1 DEF StoresFollowFiles, Closed
  <2>. QED BY <2>1, <2>2
<1>2. CASE HostLedger # "durable"
  BY <1>2, OneFileScope
<1>. QED BY <1>1, <1>2

-----------------------------------------------------------------------------
(* Steps that say nothing new                                              *)

(* The step does not open k again.                                         *)
Stays(f, k) == Closed(f, k) => Closed(f, k)'

(* Whatever is said of k through f after the step was said before it.      *)
Echo(f, k, z) == Said(f, k, z)' => \E g \in Scope(f) : Said(g, k, z)

(* The step does not put t to work on k, nor moves it but as the desktop   *)
(* allows.                                                                 *)
KeepsActive(t, f, k) ==
  Active(t, f, k)' =>
    /\ Active(t, f, k)
    /\ pc'[t] \in Granted => pc[t] \in Granted
    /\ pc'[t] = "verify" => world'[f][k] = "done"

(* If t is fresh after the step, nothing was said before it.               *)
KeepsFresh(t, f, k) ==
  HostLedger # "durable" /\ Fresh(t, f, k)' => Unsaid(f, k)

(* The step changes nothing about k on the desktop but what is in flight.  *)
KeepsWorld(f, k) ==
  /\ world[f][k] # "inflight" => world'[f][k] = world[f][k]
  /\ dispatches'[f][k] = dispatches[f][k]

(* If nothing new is said, what was unsaid stays so.                       *)
LEMMA UnsaidStays ==
  ASSUME StoresFollowFiles,
         \A f \in File, k \in Key, z \in Known : Echo(f, k, z)
  PROVE  \A f \in File, k \in Key : Unsaid(f, k) => Unsaid(f, k)'
<1> SUFFICES ASSUME NEW f \in File, NEW k \in Key, Unsaid(f, k) PROVE Unsaid(f, k)'
  OBVIOUS
<1> SUFFICES ASSUME NEW g \in Scope(f), NEW z \in Known, Said(g, k, z)'
             PROVE  FALSE
  BY ScopeRigid DEF Unsaid, Known, Terminal
<1>1. PICK h \in Scope(g) : Said(h, k, z)
  BY ScopeIsScope DEF Echo
<1>2. h \in Scope(f)
  BY ScopeIsScope
<1>. QED BY <1>1, <1>2 DEF Unsaid

(* If nothing new is said, and what was settled stays on the desktop, then *)
(* what is said stays true.                                                *)
LEMMA SaidStays ==
  ASSUME StoresFollowFiles, SaidInv,
         \A f \in File, k \in Key, z \in Known : Echo(f, k, z),
         \A f \in File, k \in Key : Stays(f, k),
         \A f \in File, k \in Key : KeepsWorld(f, k) \/ Unsaid(f, k)
  PROVE  SaidInv'
<1> SUFFICES ASSUME NEW f \in File, NEW k \in Key, NEW z \in Known, Said(f, k, z)'
             PROVE  /\ \A g \in Scope(f), y \in Known : Said(g, k, y)' => y = z
                    /\ z \in NoEffect => \A g \in Scope(f) : world'[g][k] = "none"
                    /\ z \in Success => \E g \in Scope(f) : world'[g][k] = "done"
                    /\ Closed(f, k)'
  BY ScopeRigid DEF SaidInv, Known, Terminal
<1>1. PICK h \in Scope(f) : Said(h, k, z)
  BY DEF Echo
<1>2. h \in File /\ Scope(h) = Scope(f) /\ f \in Scope(h)
  BY ScopeIsScope
<1>3. /\ \A g \in Scope(f), y \in Known : Said(g, k, y) => y = z
      /\ z \in NoEffect => \A g \in Scope(f) : world[g][k] = "none"
      /\ z \in Success => \E g \in Scope(f) : world[g][k] = "done"
      /\ Closed(h, k)
  BY <1>1, <1>2 DEF SaidInv
<1>4. ASSUME NEW g \in Scope(f), NEW y \in Known, Said(g, k, y)' PROVE y = z
  <2>1. g \in File /\ Scope(g) = Scope(f)
    BY ScopeIsScope
  <2>2. PICK e \in Scope(g) : Said(e, k, y)
    BY <1>4, <2>1 DEF Echo
  <2>. QED BY <1>3, <2>1, <2>2
<1>5. \A g \in Scope(f) : KeepsWorld(g, k)
  <2> SUFFICES ASSUME NEW g \in Scope(f), Unsaid(g, k) PROVE FALSE
    BY ScopeIsScope
  <2>1. h \in Scope(g)
    BY <1>1, ScopeIsScope
  <2>. QED BY <1>1, <2>1 DEF Unsaid
<1>6. z \in NoEffect => \A g \in Scope(f) : world'[g][k] = "none"
  BY <1>3, <1>5 DEF KeepsWorld
<1>7. z \in Success => \E g \in Scope(f) : world'[g][k] = "done"
  BY <1>3, <1>5 DEF KeepsWorld
<1>8. Closed(f, k)
  BY <1>2, <1>3, ClosedScope
<1>. QED BY <1>4, <1>6, <1>7, <1>8 DEF Stays

(* A step that says nothing new and puts no call to work.                  *)
LEMMA EchoFrame ==
  ASSUME StoresFollowFiles, TruthInv,
         \A f \in File, k \in Key, z \in Known : Echo(f, k, z),
         \A f \in File, k \in Key : Stays(f, k) /\ KeepsWorld(f, k),
         \A t \in Thread, f \in File, k \in Key :
            KeepsActive(t, f, k) /\ KeepsFresh(t, f, k)
  PROVE  TruthInv'
<1>1. \A f \in File, k \in Key : Unsaid(f, k) => Unsaid(f, k)'
  BY UnsaidStays
<1>2. SaidInv'
  BY SaidStays DEF TruthInv
<1>3. ActiveInv'
  <2> SUFFICES ASSUME NEW t \in Thread, NEW f \in File, NEW k \in Key, Active(t, f, k)'
               PROVE  Alone(t, f, k)'
    BY DEF ActiveInv
  <2>1. /\ Active(t, f, k) /\ Alone(t, f, k)
        /\ pc'[t] \in Granted => pc[t] \in Granted
        /\ pc'[t] = "verify" => world'[f][k] = "done"
    BY DEF KeepsActive, TruthInv, ActiveInv
  <2>2. \A g \in Scope(f) : g \in File
    BY ScopeIsScope
  <2>3. /\ \A g \in Scope(f) \ {f} : world'[g][k] = "none"
        /\ pc[t] \in Granted => world'[f][k] = "none"
    BY <2>1, <2>2 DEF KeepsWorld, Alone
  <2>4. Closed(f, k)' /\ Unsaid(f, k)'
    BY <1>1, <2>1 DEF Stays, Alone
  <2>5. \A u \in Thread, g \in Scope(f) : Active(u, g, k)' => u = t
    BY <2>1, <2>2 DEF KeepsActive, Alone
  <2>. QED BY <2>1, <2>3, <2>4, <2>5, ScopeRigid DEF Alone, Granted, Granting
<1>4. FreshInv'
  BY <1>1 DEF FreshInv, KeepsFresh
<1>5. WorldInv'
  <2> SUFFICES ASSUME NEW f \in File, NEW k \in Key
               PROVE  /\ world'[f][k] # "none" => dispatches'[f][k] > 0
                      /\ dispatches'[f][k] > 0 => Closed(f, k)'
    BY DEF WorldInv
  <2>. QED BY DEF TruthInv, WorldInv, KeepsWorld, Stays
<1>. QED BY <1>2, <1>3, <1>4, <1>5 DEF TruthInv

-----------------------------------------------------------------------------
(* The steps that begin and end the work on an operation                   *)

(* A call settles the outcome of an action, whatever it is.                *)
LEMMA SettleFrame ==
  ASSUME StoresFollowFiles, TruthInv, NEW t \in Thread, NEW f \in File, NEW k \in Key,
         Active(t, f, k), NEW z \in Terminal,
         \A g \in File, j \in Key, y \in Known :
           Echo(g, j, y) \/ (g = f /\ j = k /\ y = z),
         \A g \in File, j \in Key : Stays(g, j) /\ KeepsWorld(g, j),
         \A u \in Thread, g \in File, j \in Key :
           /\ Active(u, g, j)' => u # t
           /\ KeepsActive(u, g, j) /\ KeepsFresh(u, g, j)
           /\ HostLedger # "durable" /\ Fresh(u, g, j)' => g # f,
         z \in NoEffect => world'[f][k] = "none",
         z \in Success => world'[f][k] = "done"
  PROVE  TruthInv'
<1>1. /\ Closed(f, k) /\ Unsaid(f, k)
      /\ \A g \in Scope(f) \ {f} : world[g][k] = "none"
      /\ \A u \in Thread, g \in Scope(f) : Active(u, g, k) => u = t
  BY DEF TruthInv, ActiveInv, Alone
<1>2. ASSUME NEW g \in File, NEW j \in Key, Unsaid(g, j), j # k \/ g \notin Scope(f)
      PROVE  Unsaid(g, j)'
  <2> SUFFICES ASSUME NEW h \in Scope(g), NEW y \in Known, Said(h, j, y)'
               PROVE  FALSE
    BY ScopeRigid DEF Unsaid, Known, Terminal
  <2>1. h \in File /\ Scope(h) = Scope(g) /\ g \in Scope(h)
    BY ScopeIsScope
  <2>2. ~(h = f /\ j = k)
    BY <1>2, <2>1
  <2>3. PICK e \in Scope(h) : Said(e, j, y)
    BY <2>1, <2>2 DEF Echo
  <2>. QED BY <1>2, <2>1, <2>3 DEF Unsaid
<1>3. SaidInv'
  <2> SUFFICES ASSUME NEW g \in File, NEW j \in Key, NEW y \in Known, Said(g, j, y)'
               PROVE  /\ \A h \in Scope(g), x \in Known : Said(h, j, x)' => x = y
                      /\ y \in NoEffect => \A h \in Scope(g) : world'[h][j] = "none"
                      /\ y \in Success => \E h \in Scope(g) : world'[h][j] = "done"
                      /\ Closed(g, j)'
    BY ScopeRigid DEF SaidInv, Known, Terminal
  <2>1. CASE j = k /\ g \in Scope(f)
    <3>1. Scope(g) = Scope(f) /\ f \in Scope(g)
      BY <2>1, ScopeIsScope
    <3>2. ASSUME NEW h \in Scope(f), NEW x \in Known, Said(h, k, x)' PROVE x = z
      <4>1. h \in File /\ Scope(h) = Scope(f)
        BY ScopeIsScope
      <4>2. ~ \E e \in Scope(h) : Said(e, k, x)
        BY <1>1, <4>1 DEF Unsaid
      <4>. QED BY <3>2, <4>1, <4>2 DEF Echo
    <3>3. y = z
      BY <2>1, <3>2
    <3>4. \A h \in Scope(f) \ {f} : world'[h][k] = "none"
      BY <1>1, ScopeIsScope DEF KeepsWorld
    <3>5. Closed(g, k)
      BY <1>1, <2>1, <3>1, ClosedScope
    <3>6. Closed(g, k)'
      BY <3>5 DEF Stays
    <3>. QED BY <2>1, <3>1, <3>2, <3>3, <3>4, <3>6
  <2>2. CASE j # k \/ g \notin Scope(f)
    <3>1. ~(g = f /\ j = k)
      BY <2>2, ScopeIsScope
    <3>2. PICK h \in Scope(g) : Said(h, j, y)
      BY <3>1 DEF Echo
    <3>3. h \in File /\ Scope(h) = Scope(g) /\ g \in Scope(h)
      BY ScopeIsScope
    <3>4. /\ \A e \in Scope(g), x \in Known : Said(e, j, x) => x = y
          /\ y \in NoEffect => \A e \in Scope(g) : world[e][j] = "none"
          /\ y \in Success => \E e \in Scope(g) : world[e][j] = "done"
          /\ Closed(h, j)
      BY <3>2, <3>3 DEF TruthInv, SaidInv
    <3>5. ASSUME NEW e \in Scope(g), NEW x \in Known, Said(e, j, x)' PROVE x = y
      <4>1. e \in File /\ Scope(e) = Scope(g) /\ g \in Scope(e)
        BY ScopeIsScope
      <4>2. ~(e = f /\ j = k)
        BY <2>2, <4>1
      <4>3. PICK d \in Scope(e) : Said(d, j, x)
        BY <3>5, <4>1, <4>2 DEF Echo
      <4>. QED BY <3>4, <4>1, <4>3
    <3>6. \A e \in Scope(g) : KeepsWorld(e, j)
      BY ScopeIsScope
    <3>7. y \in NoEffect => \A e \in Scope(g) : world'[e][j] = "none"
      BY <3>4, <3>6 DEF KeepsWorld
    <3>8. y \in Success => \E e \in Scope(g) : world'[e][j] = "done"
      BY <3>4, <3>6 DEF KeepsWorld
    <3>9. Closed(g, j)
      BY <3>3, <3>4, ClosedScope
    <3>. QED BY <3>5, <3>7, <3>8, <3>9 DEF Stays
  <2>. QED BY <2>1, <2>2
<1>4. ActiveInv'
  <2> SUFFICES ASSUME NEW u \in Thread, NEW g \in File, NEW j \in Key, Active(u, g, j)'
               PROVE  Alone(u, g, j)'
    BY DEF ActiveInv
  <2>1. /\ u # t /\ Active(u, g, j) /\ Alone(u, g, j)
        /\ pc'[u] \in Granted => pc[u] \in Granted
        /\ pc'[u] = "verify" => world'[g][j] = "done"
    BY DEF KeepsActive, TruthInv, ActiveInv
  <2>2. j # k \/ g \notin Scope(f)
    BY <1>1, <2>1
  <2>3. \A h \in Scope(g) : h \in File
    BY ScopeIsScope
  <2>4. /\ \A h \in Scope(g) \ {g} : world'[h][j] = "none"
        /\ pc[u] \in Granted => world'[g][j] = "none"
    BY <2>1, <2>3 DEF KeepsWorld, Alone
  <2>5. Closed(g, j)' /\ Unsaid(g, j)'
    BY <1>2, <2>1, <2>2 DEF Stays, Alone
  <2>6. \A v \in Thread, h \in Scope(g) : Active(v, h, j)' => v = u
    BY <2>1, <2>3 DEF KeepsActive, Alone
  <2>. QED BY <2>1, <2>4, <2>5, <2>6, ScopeRigid DEF Alone, Granted, Granting
<1>5. FreshInv'
  <2> SUFFICES ASSUME HostLedger # "durable", NEW u \in Thread, NEW g \in File,
                      NEW j \in Key, Fresh(u, g, j)'
               PROVE  Unsaid(g, j)'
    BY DEF FreshInv
  <2>. QED BY <1>2, OneFileScope DEF KeepsFresh
<1>6. WorldInv'
  <2> SUFFICES ASSUME NEW g \in File, NEW j \in Key
               PROVE  /\ world'[g][j] # "none" => dispatches'[g][j] > 0
                      /\ dispatches'[g][j] > 0 => Closed(g, j)'
    BY DEF WorldInv
  <2>. QED BY DEF TruthInv, WorldInv, KeepsWorld, Stays
<1>. QED BY <1>3, <1>4, <1>5, <1>6 DEF TruthInv

(* A call dispatches.                                                      *)
LEMMA DispatchFrame ==
  ASSUME StoresFollowFiles, TruthInv, NEW t \in Thread, NEW f \in File, NEW k \in Key,
         Active(t, f, k), pc'[t] = "executing",
         \A g \in File, j \in Key, y \in Known : Echo(g, j, y),
         \A g \in File, j \in Key : Stays(g, j),
         \A g \in File, j \in Key : KeepsWorld(g, j) \/ (g = f /\ j = k),
         dispatches'[f][k] > 0,
         \A u \in Thread, g \in File, j \in Key :
           KeepsActive(u, g, j) /\ KeepsFresh(u, g, j)
  PROVE  TruthInv'
<1>1. /\ Closed(f, k) /\ Unsaid(f, k)
      /\ \A g \in Scope(f) \ {f} : world[g][k] = "none"
      /\ \A u \in Thread, g \in Scope(f) : Active(u, g, k) => u = t
  BY DEF TruthInv, ActiveInv, Alone
<1>2. \A g \in File, j \in Key : Unsaid(g, j) => Unsaid(g, j)'
  BY UnsaidStays
<1>3. SaidInv'
  BY <1>1, SaidStays DEF TruthInv
<1>4. ActiveInv'
  <2> SUFFICES ASSUME NEW u \in Thread, NEW g \in File, NEW j \in Key, Active(u, g, j)'
               PROVE  Alone(u, g, j)'
    BY DEF ActiveInv
  <2>1. /\ Active(u, g, j) /\ Alone(u, g, j)
        /\ pc'[u] \in Granted => pc[u] \in Granted
        /\ pc'[u] = "verify" => world'[g][j] = "done"
    BY DEF KeepsActive, TruthInv, ActiveInv
  <2>2. u = t \/ j # k \/ g \notin Scope(f)
    BY <1>1, <2>1
  <2>3. \A h \in Scope(g) : h \in File /\ (g \notin Scope(f) => h # f)
    BY ScopeIsScope
  <2>4. u = t => g = f /\ j = k
    BY <2>1 DEF Active
  <2>5. \A h \in Scope(g) \ {g} : world'[h][j] = "none"
    BY <2>1, <2>2, <2>3, <2>4 DEF KeepsWorld, Alone
  <2>6. pc'[u] \in Granted => world'[g][j] = "none"
    <3>1. CASE u = t
      BY <3>1 DEF Granted, Granting
    <3>2. CASE u # t
      <4>1. ~(g = f /\ j = k)
        BY <2>2, <3>2, ScopeIsScope
      <4>. QED BY <2>1, <4>1 DEF KeepsWorld, Alone
    <3>. QED BY <3>1, <3>2
  <2>7. Closed(g, j)' /\ Unsaid(g, j)'
    BY <1>2, <2>1 DEF Stays, Alone
  <2>8. \A v \in Thread, h \in Scope(g) : Active(v, h, j)' => v = u
    BY <2>1, <2>3 DEF KeepsActive, Alone
  <2>. QED BY <2>1, <2>5, <2>6, <2>7, <2>8, ScopeRigid DEF Alone, Granted, Granting
<1>5. FreshInv'
  BY <1>2 DEF FreshInv, KeepsFresh
<1>6. WorldInv'
  <2> SUFFICES ASSUME NEW g \in File, NEW j \in Key
               PROVE  /\ world'[g][j] # "none" => dispatches'[g][j] > 0
                      /\ dispatches'[g][j] > 0 => Closed(g, j)'
    BY DEF WorldInv
  <2>. QED BY <1>1 DEF TruthInv, WorldInv, KeepsWorld, Stays
<1>. QED BY <1>3, <1>4, <1>5, <1>6 DEF TruthInv

(* A call may go on to dispatch.                                           *)
LEMMA BeginFrame ==
  ASSUME StoresFollowFiles, TruthInv, NEW t \in Thread, NEW f \in File, NEW k \in Key,
         pc'[t] = "capabilities", FileOf(t) = f, key'[t] = k,
         \A g \in File, j \in Key, y \in Known : Echo(g, j, y),
         \A g \in File, j \in Key : Stays(g, j) /\ KeepsWorld(g, j),
         \A u \in Thread, g \in File, j \in Key :
           (u # t => KeepsActive(u, g, j)) /\ KeepsFresh(u, g, j),
         Closed(f, k)', Unsaid(f, k), \A g \in Scope(f) : world[g][k] = "none",
         \A u \in Thread \ {t}, g \in Scope(f) : ~Active(u, g, k)
  PROVE  TruthInv'
<1>1. \A g \in File, j \in Key : Unsaid(g, j) => Unsaid(g, j)'
  BY UnsaidStays
<1>2. SaidInv'
  BY SaidStays DEF TruthInv
<1>3. ActiveInv'
  <2> SUFFICES ASSUME NEW u \in Thread, NEW g \in File, NEW j \in Key, Active(u, g, j)'
               PROVE  Alone(u, g, j)'
    BY DEF ActiveInv
  <2>0. \A h \in Scope(g) : h \in File /\ (h = f => g \in Scope(f) /\ f \in Scope(g))
    BY ScopeIsScope
  <2>1. CASE u # t
    <3>1. /\ Active(u, g, j) /\ Alone(u, g, j)
          /\ pc'[u] \in Granted => pc[u] \in Granted
          /\ pc'[u] = "verify" => world'[g][j] = "done"
      BY <2>1 DEF KeepsActive, TruthInv, ActiveInv
    <3>2. /\ \A h \in Scope(g) \ {g} : world'[h][j] = "none"
          /\ pc[u] \in Granted => world'[g][j] = "none"
      BY <2>0, <3>1 DEF KeepsWorld, Alone
    <3>3. Closed(g, j)' /\ Unsaid(g, j)'
      BY <1>1, <3>1 DEF Stays, Alone
    <3>4. \A v \in Thread, h \in Scope(g) : Active(v, h, j)' => v = u
      <4> SUFFICES ASSUME NEW v \in Thread, NEW h \in Scope(g), Active(v, h, j)'
                   PROVE  v = u
        OBVIOUS
      <4>1. CASE v # t
        BY <2>0, <3>1, <4>1 DEF KeepsActive, Alone
      <4>2. CASE v = t
        <5>1. h = f /\ j = k
          BY <4>2, FileRigid DEF Active
        <5>. QED BY <2>0, <2>1, <3>1, <5>1
      <4>. QED BY <4>1, <4>2
    <3>. QED BY <3>1, <3>2, <3>3, <3>4, ScopeRigid DEF Alone, Granted, Granting
  <2>2. CASE u = t
    <3>1. g = f /\ j = k
      BY <2>2, FileRigid DEF Active
    <3>2. \A h \in Scope(f) : world'[h][k] = "none"
      BY <2>0, <3>1 DEF KeepsWorld
    <3>3. Closed(f, k)' /\ Unsaid(f, k)' /\ f \in Scope(f)
      BY <1>1, ScopeIsScope
    <3>4. \A v \in Thread, h \in Scope(f) : Active(v, h, k)' => v = t
      BY <2>0, <3>1 DEF KeepsActive
    <3>. QED BY <2>2, <3>1, <3>2, <3>3, <3>4, ScopeRigid DEF Alone
  <2>. QED BY <2>1, <2>2
<1>4. FreshInv'
  BY <1>1 DEF FreshInv, KeepsFresh
<1>5. WorldInv'
  <2> SUFFICES ASSUME NEW g \in File, NEW j \in Key
               PROVE  /\ world'[g][j] # "none" => dispatches'[g][j] > 0
                      /\ dispatches'[g][j] > 0 => Closed(g, j)'
    BY DEF WorldInv
  <2>. QED BY DEF TruthInv, WorldInv, KeepsWorld, Stays
<1>. QED BY <1>2, <1>3, <1>4, <1>5 DEF TruthInv

-----------------------------------------------------------------------------
(* Where terminals come from                                               *)

(* A terminal in a file was there, or a call had it to write.              *)
LEMMA LogEcho ==
  ASSUME Inv, [Next]_vars, NEW f \in File, NEW k \in Key, NEW z \in Terminal,
         InLog(f, k, z)'
  PROVE  InLog(f, k, z) \/ InCall(f, k, z)
<1>1. log[f] \in Seq(Record)
  BY DEF Inv, TypeOK
<1>2. PICK i \in 1..Len(log'[f]) : log'[f][i] = Finish(k, z)
  BY DEF InLog
<1>3. CASE SameLines(f)
  BY <1>2, <1>3 DEF SameLines, InLog
<1>4. CASE LosesLines(f)
  <2>1. synced'[f] \in 0..Len(log[f]) /\ log'[f] = SubSeq(log[f], 1, synced'[f])
    BY <1>1, <1>4 DEF LosesLines, Inv, TypeOK
  <2>2. i \in 1..Len(log[f]) /\ log'[f][i] = log[f][i]
    BY <1>1, <1>2, <2>1
  <2>. QED BY <1>2, <2>2 DEF InLog
<1>5. ASSUME NEW t \in Thread, AddsLine(t, f)
      PROVE  InLog(f, k, z) \/ InCall(f, k, z)
  <2>1. pc[t] \in Appending /\ FileOf(t) = f /\ log'[f] = Append(log[f], Line(t))
    BY <1>5 DEF AddsLine, Appending
  <2>2. Line(t) \in Record /\ key[t] \in Key
    BY <2>1, AppendingFacts
  <2>3. CASE i \in 1..Len(log[f])
    <3>1. log'[f][i] = log[f][i]
      BY <1>1, <2>1, <2>2, <2>3
    <3>. QED BY <1>2, <2>3, <3>1 DEF InLog
  <2>4. CASE i \notin 1..Len(log[f])
    <3>1. log'[f][i] = Line(t)
      BY <1>1, <1>2, <2>1, <2>2, <2>4
    <3>2. ~Claiming(t) /\ key[t] = k /\ term[t] = z
      BY <1>2, <3>1 DEF Line, Claim, Finish, Claiming
    <3>. QED BY <2>1, <3>2 DEF InCall, Pending
  <2>. QED BY <2>3, <2>4
<1>. QED BY <1>3, <1>4, <1>5, FilesMove DEF FileMove, FileStep

(* A terminal in a store was there, or a call had it to record.            *)
LEMMA StoreEcho ==
  ASSUME StoresFollowFiles, Inv, [Next]_vars, NEW p \in Process, NEW k \in Key,
         NEW z \in Terminal, outcomes'[StoreOf[p]][k] = z
  PROVE  \E g \in Scope(LedgerOf[p]) : Said(g, k, z)
<1> DEFINE f == LedgerOf[p]
<1>1. f \in File /\ StoreOf[p] \in Store /\ f \in Scope(f)
  BY ConstantsAssumption, ScopeIsScope
<1>2. CASE outcomes'[StoreOf[p]][k] = outcomes[StoreOf[p]][k]
  <2>1. InStore(f, k, z)
    BY <1>2 DEF InStore
  <2>. QED BY <1>1, <2>1 DEF Said
<1>3. CASE outcomes'[StoreOf[p]][k] \in {"absent", "granted"}
  BY <1>3, NotHeld
<1>4. ASSUME NEW t \in Thread, Records(t, StoreOf[p], k)
      PROVE  \E g \in Scope(f) : Said(g, k, z)
  <2>1. FileOf(t) \in Scope(f)
    <3>1. ProcessOf[t] \in Process /\ StoreOf[ProcessOf[t]] = StoreOf[p]
      BY <1>4, ConstantsAssumption DEF Records
    <3>2. CASE HostLedger = "durable"
      BY <3>1, <3>2, FileOfType DEF Scope, FileOf
    <3>3. CASE HostLedger = "memory"
      BY <1>1, <3>1, <3>3, MemoryAssumption DEF FileOf
    <3>. QED BY <1>4, <3>2, <3>3, ConstantsAssumption DEF Records
  <2>2. InCall(FileOf(t), k, z)
    BY <1>4 DEF Records, InCall, Pending
  <2>. QED BY <2>1, <2>2 DEF Said
<1>. QED BY <1>1, <1>2, <1>3, <1>4, StoresMove DEF StoreMove

(* What is closed stays closed: no synced line and no durable outcome is   *)
(* lost.                                                                   *)
LEMMA ClosedStays ==
  ASSUME Inv, [Next]_vars
  PROVE  \A f \in File, k \in Key : Stays(f, k)
<1> SUFFICES ASSUME NEW f \in File, NEW k \in Key, Closed(f, k) PROVE Closed(f, k)'
  BY DEF Stays
<1>1. CASE HostLedger # "durable"
  BY <1>1, DurableClaimStays DEF Closed
<1>2. CASE HostLedger = "durable"
  <2> SUFFICES ASSUME NEW p \in Process, LedgerOf[p] = f
               PROVE  outcomes'[StoreOf[p]][k] # "absent"
    BY <1>2 DEF Closed
  <2>1. outcomes[StoreOf[p]][k] # "absent" /\ StoreOf[p] \in Store
    BY <1>2, ConstantsAssumption DEF Closed
  <2>2. ASSUME NEW t \in Thread, Records(t, StoreOf[p], k) PROVE term[t] \in Terminal
    BY <2>2 DEF Records, Inv, ThreadInv
  <2>. QED BY <1>2, <2>1, <2>2, StoresMove, NotHeld DEF StoreMove, Records
<1>. QED BY <1>1, <1>2

-----------------------------------------------------------------------------
(* What callers can be told                                                *)

(* Whatever callers are told was told before, or is in the file or the     *)
(* call.                                                                   *)
ToldMove ==
  \A f \in File, k \in Key, z \in Terminal :
    z \in told'[f][k] => InTold(f, k, z) \/ InCall(f, k, z) \/ InLog(f, k, z)

(* A step that tells nobody anything.                                      *)
LEMMA SameTold == UNCHANGED told => ToldMove
BY DEF ToldMove, InTold

(* A terminal line is rebuilt from its key and its terminal.               *)
LEMMA LineIsFinish ==
  ASSUME NEW r \in Record, r.kind = "terminal"
  PROVE  r.key \in Key /\ r.term \in Terminal /\ r = Finish(r.key, r.term)
<1>1. CASE \E k \in Key : r = Claim(k)
  BY <1>1 DEF Claim
<1>2. CASE \E k \in Key, z \in Terminal : r = Finish(k, z)
  BY <1>2 DEF Finish
<1>. QED BY <1>1, <1>2 DEF Record

(* A call returns what it was about to, or what it has read.               *)
LEMMA TellsOne ==
  ASSUME Inv, NEW t \in Thread, NEW k \in Key, NEW z \in Terminal,
         told' = [told EXCEPT ![FileOf(t)][k] = @ \union {z}],
         InCall(FileOf(t), k, z) \/ InLog(FileOf(t), k, z)
  PROVE  ToldMove
<1> SUFFICES ASSUME NEW g \in File, NEW j \in Key, NEW y \in Terminal, y \in told'[g][j]
             PROVE  InTold(g, j, y) \/ InCall(g, j, y) \/ InLog(g, j, y)
  BY DEF ToldMove
<1>1. CASE g = FileOf(t) /\ j = k
  <2>1. told'[g][j] = told[g][j] \union {z}
    BY <1>1 DEF Inv, TypeOK
  <2>. QED BY <1>1, <2>1 DEF InTold
<1>2. CASE g # FileOf(t) \/ j # k
  BY <1>2 DEF Inv, TypeOK, InTold
<1>. QED BY <1>1, <1>2

(* A call that returns its own terminal.                                   *)
LEMMA TellsPending ==
  ASSUME Inv, NEW t \in Thread, Pending(t),
         ReturnUnsynced(t, key[t], term[t]) \/ ReturnDurable(t)
  PROVE  ToldMove
<1>1. key[t] \in Key /\ term[t] \in Terminal
  BY DEF Pending, Inv, ThreadInv, Inside, ProgramCounter, Appending
<1>2. InCall(FileOf(t), key[t], term[t])
  BY DEF InCall
<1>. QED BY <1>1, <1>2, TellsOne DEF ReturnUnsynced, ReturnDurable

(* A failed append tells the terminal of the call, or nothing.             *)
LEMMA FailedTells ==
  ASSUME Inv, NEW t \in Thread, pc[t] \in Appending, AppendFailed(t)
  PROVE  ToldMove
<1>1. CASE UNCHANGED told
  BY <1>1, SameTold
<1>2. CASE site[t] = "retry" /\ ReturnUnsynced(t, key[t], term[t])
  <2>1. Pending(t)
    BY <1>2 DEF Pending, Claiming
  <2>. QED BY <1>2, <2>1, TellsPending
<1>. QED BY <1>1, <1>2 DEF AppendFailed, ReturnNothing, ackVars

(* No step of a call tells anything else.                                  *)
LEMMA StepTold ==
  ASSUME Inv, NEW t \in Thread, Step(t)
  PROVE  ToldMove
<1>1. CASE Acquire(t) \/ AcquireFails(t) \/ WouldBlock(t) \/ Wake(t) \/ Repair(t)
  BY <1>1, SameTold DEF Acquire, AcquireFails, WouldBlock, Wake, Repair, ReturnNothing,
     ackVars
<1>2. CASE ReadNothing(t) \/ ReadConflict(t) \/ ReadClaimOnly(t)
  BY <1>2, SameTold DEF ReadNothing, ReadConflict, ReadClaimOnly, ReturnNothing, ackVars
<1>3. CASE ReadTerminal(t)
  <2>1. PICK i \in 1..Len(log[FileOf(t)]) :
          /\ IsLast(i, Lines(FileOf(t), key[t].op, "terminal"))
          /\ \/ UNCHANGED told
             \/ ReturnUnsynced(t, log[FileOf(t)][i].key, log[FileOf(t)][i].term)
    BY <1>3 DEF ReadTerminal, ackVars
  <2>2. /\ log[FileOf(t)][i].key \in Key /\ log[FileOf(t)][i].term \in Terminal
        /\ log[FileOf(t)][i] = Finish(log[FileOf(t)][i].key, log[FileOf(t)][i].term)
    BY <2>1, LineIsFinish, FileOfType DEF Inv, TypeOK, IsLast, Lines
  <2>3. InLog(FileOf(t), log[FileOf(t)][i].key, log[FileOf(t)][i].term)
    BY <2>2 DEF InLog
  <2>. QED BY <2>1, <2>2, <2>3, SameTold, TellsOne DEF ReturnUnsynced
<1>4. CASE AppendBody(t) \/ AppendNewline(t)
  BY <1>4, SameTold DEF AppendBody, AppendNewline, ackVars
<1>5. CASE AppendBodyFails(t) \/ AppendNewlineFails(t) \/ AppendSyncFails(t)
  BY <1>5, FailedTells DEF AppendBodyFails, AppendNewlineFails, AppendSyncFails, Appending
<1>6. CASE AppendSync(t)
  <2>1. pc[t] = "sync" /\ AppendDone(t)
    BY <1>6 DEF AppendSync
  <2>2. site[t] # "claim" => Pending(t)
    BY <2>1 DEF Pending, Appending, Claiming
  <2>. QED BY <2>1, <2>2, SameTold, TellsPending DEF AppendDone, ackVars
<1>7. CASE RepairRetry(t)
  <2>1. Pending(t)
    BY <1>7 DEF RepairRetry, Pending
  <2>. QED BY <1>7, <2>1, SameTold, TellsPending DEF RepairRetry, ackVars
<1>8. CASE BeginNew(t) \/ BeginRecovered(t) \/ BeginFails(t)
  BY <1>8, SameTold DEF BeginNew, BeginRecovered, BeginFails, ReturnNothing, ackVars
<1>9. CASE BeginReconcile(t)
  <2>1. Pending(t)
    BY <1>9 DEF BeginReconcile, Pending
  <2>. QED BY <1>9, <2>1, SameTold, TellsPending DEF BeginReconcile, ackVars
<1>10. CASE Capabilities(t) \/ Observe(t) \/ Sentinel(t)
  BY <1>10, SameTold DEF Capabilities, Observe, Sentinel, Precheck, FinishEarly, Settle,
     ackVars
<1>11. CASE Dispatch(t) \/ DispatchOk(t) \/ DispatchUnknown(t) \/ DispatchRefused(t)
  BY <1>11, SameTold DEF Dispatch, DispatchOk, DispatchUnknown, DispatchRefused, Settle,
     ackVars
<1>12. CASE Verify(t) \/ RecordOutcome(t) \/ RecordFails(t)
  BY <1>12, SameTold DEF Verify, Settle, RecordOutcome, RecordFails, ReturnNothing, ackVars
<1>. QED BY <1>1, <1>2, <1>3, <1>4, <1>5, <1>6, <1>7, <1>8, <1>9, <1>10, <1>11, <1>12
     DEF Step

(* Nor does any other step.                                                *)
LEMMA AllTold ==
  ASSUME Inv, [Next]_vars
  PROVE  ToldMove
<1>1. CASE UNCHANGED vars
  BY <1>1, SameTold DEF vars, ackVars
<1>2. ASSUME NEW t \in Thread, NEW k \in Key, Execute(t, k) PROVE UNCHANGED told
  BY <1>2 DEF Execute, ackVars
<1>3. ASSUME NEW t \in Thread, NEW o \in Op, Status(t, o) PROVE UNCHANGED told
  BY <1>3 DEF Status, ackVars
<1>4. ASSUME NEW t \in Thread, Cancel(t) \/ Expire(t) PROVE UNCHANGED told
  BY <1>4 DEF Cancel, Expire, ackVars
<1>5. ASSUME NEW t \in Thread, Step(t) PROVE ToldMove
  BY <1>5, StepTold
<1>6. ASSUME NEW f \in File, NEW k \in Key, Land(f, k) PROVE UNCHANGED told
  BY <1>6 DEF Land, ackVars
<1>7. ASSUME NEW p \in Process, Kill(p) PROVE UNCHANGED told
  BY <1>7 DEF Kill, ackVars
<1>8. CASE PowerLoss
  BY <1>8, SameTold DEF PowerLoss, ackVars
<1>. QED BY <1>1, <1>2, <1>3, <1>4, <1>5, <1>6, <1>7, <1>8, SameTold DEF Next

-----------------------------------------------------------------------------
(* What a step can do to the calls                                         *)

(* If u has terminal z of k to write or return after the step, z was said  *)
(* before it.                                                              *)
EchoCall(u, f, k, z) ==
  (Pending(u)' /\ FileOf(u) = f /\ key'[u] = k /\ term'[u] = z) =>
    \E g \in Scope(f) : Said(g, k, z)

(* The step does to call u nothing that could say something new.           *)
Fine(u) ==
  \A f \in File, k \in Key :
    KeepsActive(u, f, k) /\ KeepsFresh(u, f, k) /\ \A z \in Known : EchoCall(u, f, k, z)

(* The call is at a label where it has no terminal and cannot dispatch.    *)
Resting(u) == pc'[u] \in {"idle", "lock", "wait", "repair", "read", "begin_recovered"}

(* Nothing new is said if no call has something new to say.                *)
LEMMA EchoParts ==
  ASSUME StoresFollowFiles, Inv, [Next]_vars, NEW f \in File, NEW k \in Key,
         NEW z \in Known, \A u \in Thread : EchoCall(u, f, k, z)
  PROVE  Echo(f, k, z)
<1> SUFFICES ASSUME Said(f, k, z)' PROVE \E g \in Scope(f) : Said(g, k, z)
  BY DEF Echo
<1>1. f \in Scope(f) /\ z \in Terminal
  BY ScopeIsScope DEF Known
<1>2. CASE InTold(f, k, z)'
  BY <1>1, <1>2, AllTold DEF ToldMove, InTold, Said
<1>3. CASE InLog(f, k, z)'
  BY <1>1, <1>3, LogEcho DEF Said
<1>4. CASE InCall(f, k, z)'
  BY <1>4, FileRigid DEF EchoCall, InCall
<1>5. CASE InStore(f, k, z)'
  BY <1>1, <1>5, StoreEcho DEF InStore
<1>. QED BY <1>2, <1>3, <1>4, <1>5 DEF Said

(* A step that is fine for every call.                                     *)
LEMMA CallsFrame ==
  ASSUME StoresFollowFiles, Inv, TruthInv, [Next]_vars,
         \A f \in File, k \in Key : KeepsWorld(f, k),
         \A u \in Thread : Fine(u)
  PROVE  TruthInv'
<1>1. \A f \in File, k \in Key, z \in Known : Echo(f, k, z)
  BY EchoParts DEF Fine
<1>2. \A f \in File, k \in Key : Stays(f, k)
  BY ClosedStays
<1>. QED BY <1>1, <1>2, EchoFrame DEF Fine

(* A call that stays as it is is fine, unless the desktop changes what it  *)
(* works on.                                                               *)
LEMMA UnmovedFine ==
  ASSUME StoresFollowFiles, TruthInv, NEW u \in Thread, Unmoved(u),
         \A f \in File, k \in Key : KeepsWorld(f, k) \/ ~Active(u, f, k)
  PROVE  Fine(u)
<1> SUFFICES ASSUME NEW f \in File, NEW k \in Key
             PROVE  /\ KeepsActive(u, f, k) /\ KeepsFresh(u, f, k)
                    /\ \A z \in Known : EchoCall(u, f, k, z)
  BY DEF Fine
<1>1. KeepsActive(u, f, k)
  <2>1. Active(u, f, k)' => Active(u, f, k)
    BY FileRigid DEF Active, Granted, Granting, Unmoved
  <2>2. Active(u, f, k) => (pc[u] = "verify" => world'[f][k] = "done")
    BY DEF TruthInv, ActiveInv, Alone, KeepsWorld
  <2>. QED BY <2>1, <2>2 DEF KeepsActive, Unmoved
<1>2. KeepsFresh(u, f, k)
  <2>1. Fresh(u, f, k)' => Fresh(u, f, k)
    BY FileRigid DEF Fresh, Claiming, Appending, Unmoved
  <2>. QED BY <2>1 DEF KeepsFresh, TruthInv, FreshInv
<1>3. ASSUME NEW z \in Known PROVE EchoCall(u, f, k, z)
  <2>1. Pending(u)' => Pending(u)
    BY DEF Pending, Claiming, Appending, Unmoved
  <2>2. f \in Scope(f)
    BY ScopeIsScope
  <2>. QED BY <2>1, <2>2 DEF EchoCall, Said, InCall, Unmoved
<1>. QED BY <1>1, <1>2, <1>3

(* So is a call that rests after the step.                                 *)
LEMMA RestingFine ==
  ASSUME NEW u \in Thread, Resting(u)
  PROVE  Fine(u)
<1>1. ~Pending(u)'
  BY DEF Resting, Pending, Appending
<1>2. \A f, k : ~Active(u, f, k)' /\ ~Fresh(u, f, k)'
  BY DEF Resting, Active, Fresh, Claiming, Appending, Granted, Granting
<1>. QED BY <1>1, <1>2 DEF Fine, KeepsActive, KeepsFresh, EchoCall

(* So is one that keeps its terminal, or turns a success into an unknown.  *)
LEMMA PendingFine ==
  ASSUME StoresFollowFiles, NEW u \in Thread, Pending(u), Pending(u)',
         key'[u] = key[u], term'[u] \in {term[u], PersistenceUnknown(term[u])}
  PROVE  Fine(u)
<1>1. \A f, k : ~Active(u, f, k)' /\ ~Fresh(u, f, k)'
  BY DEF Pending, Active, Fresh, Claiming, Appending, Granted, Granting
<1>2. ASSUME NEW f \in File, NEW k \in Key, NEW z \in Known PROVE EchoCall(u, f, k, z)
  <2>1. term'[u] = z => term[u] = z
    BY DEF PersistenceUnknown, Known, Unknown
  <2>2. f \in Scope(f)
    BY ScopeIsScope
  <2>. QED BY <2>1, <2>2 DEF EchoCall, Said, InCall
<1>. QED BY <1>1, <1>2 DEF Fine, KeepsActive, KeepsFresh

(* A call that comes by a terminal which was said elsewhere.               *)
LEMMA HearsFine ==
  ASSUME StoresFollowFiles, NEW u \in Thread, Pending(u)',
         NEW k \in Key, key'[u] = k,
         term'[u] \in Known => Said(FileOf(u), k, term'[u])
  PROVE  Fine(u)
<1>1. \A f, j : ~Active(u, f, j)' /\ ~Fresh(u, f, j)'
  BY DEF Pending, Active, Fresh, Claiming, Appending, Granted, Granting
<1>2. ASSUME NEW f \in File, NEW j \in Key, NEW z \in Known PROVE EchoCall(u, f, j, z)
  <2>. f \in Scope(f)
    BY ScopeIsScope
  <2>. QED BY DEF EchoCall
<1>. QED BY <1>1, <1>2 DEF Fine, KeepsActive, KeepsFresh

(* A call that goes on with its claim, and has not begun to dispatch.      *)
LEMMA FreshFine ==
  ASSUME TruthInv, NEW u \in Thread, \A f, k : Fresh(u, f, k)' => Fresh(u, f, k),
         ~Pending(u)', \A f, k : ~Active(u, f, k)'
  PROVE  Fine(u)
BY DEF Fine, KeepsActive, KeepsFresh, EchoCall, TruthInv, FreshInv

-----------------------------------------------------------------------------
(* Steps that work for no operation, and steps of the lock                 *)

(* The calls of T rest after the step and all others stay as they are.     *)
LeaveMoves(T) == \A u \in Thread : IF u \in T THEN Resting(u) ELSE Unmoved(u)

(* That is what the end of calls does.                                     *)
LEMMA LeaveSplit ==
  ASSUME NEW T, Leave(T)
  PROVE  LeaveMoves(T)
BY DEF Leave, LeaveMoves, Resting, Unmoved

(* A step after which every call rests or is as before.                    *)
LEMMA RestingTruth ==
  ASSUME StoresFollowFiles, Inv, TruthInv, [Next]_vars,
         \A f \in File, k \in Key : KeepsWorld(f, k),
         \A u \in Thread : Resting(u) \/ Unmoved(u)
  PROVE  TruthInv'
BY RestingFine, UnmovedFine, CallsFrame

(* A step that leaves the desktop alone.                                   *)
LEMMA SameWorld ==
  ASSUME UNCHANGED worldVars
  PROVE  \A f \in File, k \in Key : KeepsWorld(f, k)
BY DEF worldVars, KeepsWorld

(* A step that ends calls and leaves the desktop alone.                    *)
LEMMA ReturnTruth ==
  ASSUME StoresFollowFiles, Inv, TruthInv, [Next]_vars, UNCHANGED worldVars,
         NEW T, Leave(T)
  PROVE  TruthInv'
<1>1. \A u \in Thread : Resting(u) \/ Unmoved(u)
  BY LeaveSplit DEF LeaveMoves
<1>. QED BY <1>1, SameWorld, RestingTruth

(* A call of execute starts.                                               *)
LEMMA ExecuteTruth ==
  ASSUME StoresFollowFiles, Inv, TruthInv, [Next]_vars, NEW t \in Thread, NEW k \in Key,
         Execute(t, k)
  PROVE  TruthInv'
<1>1. \A u \in Thread : Resting(u) \/ Unmoved(u)
  BY DEF Execute, Goto, Resting, Unmoved, Inv, TypeOK
<1>. QED BY <1>1, SameWorld, RestingTruth DEF Execute

(* A call of status starts.                                                *)
LEMMA StatusTruth ==
  ASSUME StoresFollowFiles, Inv, TruthInv, [Next]_vars, NEW t \in Thread, NEW o \in Op,
         Status(t, o)
  PROVE  TruthInv'
<1>1. \A u \in Thread : Resting(u) \/ Unmoved(u)
  BY DEF Status, Goto, Resting, Unmoved, Inv, TypeOK
<1>. QED BY <1>1, SameWorld, RestingTruth DEF Status

(* A call is cancelled or its deadline passes.                             *)
LEMMA SignalTruth ==
  ASSUME StoresFollowFiles, Inv, TruthInv, [Next]_vars, NEW t \in Thread,
         Cancel(t) \/ Expire(t)
  PROVE  TruthInv'
<1>1. \A u \in Thread : Resting(u) \/ Unmoved(u)
  BY DEF Cancel, Expire, Unmoved
<1>. QED BY <1>1, SameWorld, RestingTruth DEF Cancel, Expire

(* The desktop acts.  Nobody has said how an effect in flight ends.        *)
LEMMA LandTruth ==
  ASSUME StoresFollowFiles, Inv, TruthInv, [Next]_vars, NEW f \in File, NEW k \in Key,
         Land(f, k)
  PROVE  TruthInv'
<1>1. \A u \in Thread : Resting(u) \/ Unmoved(u)
  BY DEF Land, threadVars, Unmoved
<1>2. \A g \in File, j \in Key : KeepsWorld(g, j)
  BY DEF Land, KeepsWorld, Inv, TypeOK
<1>. QED BY <1>1, <1>2, RestingTruth

(* A process dies.                                                         *)
LEMMA KillTruth ==
  ASSUME StoresFollowFiles, Inv, TruthInv, [Next]_vars, NEW p \in Process, Kill(p)
  PROVE  TruthInv'
BY ReturnTruth DEF Kill

(* The machine stops.  That what is in flight does not happen contradicts  *)
(* nothing that was said.                                                  *)
LEMMA PowerLossTruth ==
  ASSUME StoresFollowFiles, Inv, TruthInv, [Next]_vars, PowerLoss
  PROVE  TruthInv'
<1>1. \A u \in Thread : Resting(u) \/ Unmoved(u)
  BY LeaveSplit DEF PowerLoss, LeaveMoves
<1>2. \A g \in File, j \in Key : KeepsWorld(g, j)
  BY DEF PowerLoss, KeepsWorld, Inv, TypeOK
<1>. QED BY <1>1, <1>2, RestingTruth

(* Waiting for the lock and repairing the tail.                            *)
LEMMA LockTruth ==
  ASSUME StoresFollowFiles, Inv, TruthInv, [Next]_vars, NEW t \in Thread,
         Acquire(t) \/ AcquireFails(t) \/ WouldBlock(t) \/ Wake(t) \/ Repair(t)
  PROVE  TruthInv'
<1>1. UNCHANGED worldVars
  BY DEF Acquire, AcquireFails, WouldBlock, Wake, Repair
<1>2. CASE ReturnNothing(t)
  BY <1>1, <1>2, ReturnTruth DEF ReturnNothing
<1>3. ASSUME NEW label \in {"lock", "wait", "repair", "read"}, Goto(t, label),
             UNCHANGED <<key, term, site>>
      PROVE  TruthInv'
  <2>1. \A u \in Thread : Resting(u) \/ Unmoved(u)
    BY <1>3 DEF Goto, Resting, Unmoved, Inv, TypeOK
  <2>. QED BY <1>1, <2>1, SameWorld, RestingTruth
<1>. QED BY <1>2, <1>3 DEF Acquire, AcquireFails, WouldBlock, Wake, Repair

(* A step in which one call moves on.                                      *)
LEMMA OneMoves ==
  ASSUME StoresFollowFiles, Inv, TruthInv, [Next]_vars, NEW t \in Thread,
         UNCHANGED worldVars, \A u \in Thread \ {t} : Unmoved(u), Fine(t)
  PROVE  TruthInv'
<1>1. \A f \in File, k \in Key : KeepsWorld(f, k)
  BY SameWorld
<1>2. \A u \in Thread : Fine(u)
  BY <1>1, UnmovedFine
<1>. QED BY <1>1, <1>2, CallsFrame

-----------------------------------------------------------------------------
(* Reading                                                                 *)

(* Without a durable outcome ledger nothing is said of an operation that   *)
(* has no claim.                                                           *)
LEMMA NoClaimUnsaid ==
  ASSUME StoresFollowFiles, Inv, TruthInv, HostLedger # "durable",
         NEW f \in File, NEW k \in Key, Lines(f, k.op, "claim") = {}
  PROVE  Unsaid(f, k)
<1> SUFFICES ASSUME NEW g \in Scope(f), NEW z \in Known, Said(g, k, z) PROVE FALSE
  BY DEF Unsaid
<1>1. Said(f, k, z)
  BY OneFileScope
<1>2. DurableClaim(f, k)
  BY <1>1 DEF TruthInv, SaidInv, Closed
<1>3. PICK i \in 1..synced[f] : log[f][i] = Claim(k)
  BY <1>2 DEF DurableClaim
<1>4. i \in 1..Len(log[f])
  BY <1>3 DEF Inv, FileInv, TypeOK
<1>. QED BY <1>3, <1>4 DEF Lines, Claim

(* A call that finds no claim is fresh: nothing was said.                  *)
LEMMA ReadNothingTruth ==
  ASSUME StoresFollowFiles, Inv, TruthInv, [Next]_vars, NEW t \in Thread, ReadNothing(t)
  PROVE  TruthInv'
<1>1. CASE ReturnNothing(t)
  BY <1>1, ReturnTruth DEF ReadNothing, ReturnNothing
<1>2. CASE /\ call[t] = "execute" /\ StartAppend(t, "claim")
           /\ UNCHANGED <<lock, call, key, term, cancelled, expired, ackVars>>
  <2>1. \A u \in Thread \ {t} : Unmoved(u)
    BY <1>2 DEF StartAppend, Goto, Unmoved, Inv, TypeOK
  <2>2. pc'[t] = "append" /\ site'[t] = "claim" /\ key'[t] = key[t]
    BY <1>2 DEF StartAppend, Goto, Inv, TypeOK
  <2>3. ~Pending(t)' /\ \A f, k : ~Active(t, f, k)'
    BY <2>2 DEF Pending, Claiming, Active, Granted, Granting, Appending
  <2>4. ASSUME NEW f \in File, NEW k \in Key PROVE KeepsFresh(t, f, k)
    <3> SUFFICES ASSUME HostLedger # "durable", Fresh(t, f, k)' PROVE Unsaid(f, k)
      BY DEF KeepsFresh
    <3>1. FileOf(t) = f /\ key[t] = k
      BY <2>2, FileRigid DEF Fresh
    <3>. QED BY <3>1, NoClaimUnsaid DEF ReadNothing
  <2>5. Fine(t)
    BY <2>3, <2>4 DEF Fine, KeepsActive, EchoCall
  <2>. QED BY <2>1, <2>5, OneMoves DEF ReadNothing
<1>. QED BY <1>1, <1>2 DEF ReadNothing

(* A conflict ends the call.                                               *)
LEMMA ReadConflictTruth ==
  ASSUME StoresFollowFiles, Inv, TruthInv, [Next]_vars, NEW t \in Thread, ReadConflict(t)
  PROVE  TruthInv'
BY ReturnTruth DEF ReadConflict, ReturnNothing

(* A call that finds only a claim rests until it asks the outcome ledger.  *)
LEMMA ReadClaimOnlyTruth ==
  ASSUME StoresFollowFiles, Inv, TruthInv, [Next]_vars, NEW t \in Thread,
         ReadClaimOnly(t)
  PROVE  TruthInv'
<1>1. PICK i : key' = [key EXCEPT ![t] = log[FileOf(t)][i].key]
  BY DEF ReadClaimOnly
<1>2. pc'[t] = "begin_recovered" /\ \A u \in Thread \ {t} : Unmoved(u)
  BY <1>1 DEF ReadClaimOnly, Goto, Unmoved, Inv, TypeOK
<1>3. Fine(t)
  BY <1>2, RestingFine DEF Resting
<1>. QED BY <1>2, <1>3, OneMoves DEF ReadClaimOnly

(* A replayed terminal, and an interrupted one, are from the file.         *)
LEMMA ReadTerminalTruth ==
  ASSUME StoresFollowFiles, Inv, TruthInv, [Next]_vars, NEW t \in Thread,
         ReadTerminal(t)
  PROVE  TruthInv'
<1>1. PICK i \in 1..Len(log[FileOf(t)]) :
        /\ IsLast(i, Lines(FileOf(t), key[t].op, "terminal"))
        /\ \/ /\ log[FileOf(t)][i].term = "interrupted"
              /\ key' = [key EXCEPT ![t] = log[FileOf(t)][i].key]
              /\ term' = [term EXCEPT ![t] = log[FileOf(t)][i].term]
              /\ Goto(t, "begin_reconcile")
              /\ UNCHANGED <<lock, call, site, cancelled, expired, ackVars>>
           \/ ReturnUnsynced(t, log[FileOf(t)][i].key, log[FileOf(t)][i].term)
  BY DEF ReadTerminal
<1>2. log[FileOf(t)][i].key \in Key
  BY <1>1, RecordFields, FileOfType DEF Inv, TypeOK
<1>3. CASE ReturnUnsynced(t, log[FileOf(t)][i].key, log[FileOf(t)][i].term)
  BY <1>3, ReturnTruth DEF ReadTerminal, ReturnUnsynced
<1>4. CASE /\ log[FileOf(t)][i].term = "interrupted"
           /\ key' = [key EXCEPT ![t] = log[FileOf(t)][i].key]
           /\ term' = [term EXCEPT ![t] = log[FileOf(t)][i].term]
           /\ Goto(t, "begin_reconcile")
           /\ UNCHANGED <<lock, call, site, cancelled, expired, ackVars>>
  <2>1. /\ pc'[t] = "begin_reconcile" /\ key'[t] = log[FileOf(t)][i].key
        /\ term'[t] = "interrupted"
    BY <1>4 DEF Goto, Inv, TypeOK
  <2>2. \A u \in Thread \ {t} : Unmoved(u)
    BY <1>4 DEF Goto, Unmoved, Inv, TypeOK
  <2>3. Pending(t)' /\ term'[t] \notin Known
    BY <2>1 DEF Pending, Known, Unknown
  <2>4. Fine(t)
    BY <1>2, <2>1, <2>3, HearsFine
  <2>. QED BY <2>2, <2>4, OneMoves DEF ReadTerminal
<1>. QED BY <1>1, <1>3, <1>4

-----------------------------------------------------------------------------
(* Appends                                                                 *)

(* A call that goes on with its append says what it had to say.            *)
LEMMA AppendingFine ==
  ASSUME StoresFollowFiles, TruthInv, NEW t \in Thread, pc[t] \in Appending,
         pc'[t] \in Appending, key'[t] = key[t], term'[t] = term[t], site'[t] = site[t]
  PROVE  Fine(t)
<1>1. CASE site[t] = "claim"
  <2>1. ~Pending(t)' /\ \A f, k : ~Active(t, f, k)'
    BY <1>1 DEF Pending, Claiming, Active, Granted, Granting, Appending
  <2>2. \A f, k : Fresh(t, f, k)' => Fresh(t, f, k)
    BY <1>1, FileRigid DEF Fresh, Claiming
  <2>. QED BY <2>1, <2>2, FreshFine
<1>2. CASE site[t] # "claim"
  <2>1. Pending(t) /\ Pending(t)'
    BY <1>2 DEF Pending, Claiming
  <2>. QED BY <2>1, PendingFine
<1>. QED BY <1>1, <1>2

(* The JSON and the newline are written.                                   *)
LEMMA AppendTruth ==
  ASSUME StoresFollowFiles, Inv, TruthInv, [Next]_vars, NEW t \in Thread,
         AppendBody(t) \/ AppendNewline(t)
  PROVE  TruthInv'
<1>1. \A u \in Thread \ {t} : Unmoved(u)
  BY DEF AppendBody, AppendNewline, Goto, Unmoved, Inv, TypeOK
<1>2. /\ pc[t] \in Appending /\ pc'[t] \in Appending
      /\ key'[t] = key[t] /\ term'[t] = term[t] /\ site'[t] = site[t]
  BY DEF AppendBody, AppendNewline, Goto, Appending, Inv, TypeOK
<1>3. Fine(t)
  BY <1>2, AppendingFine
<1>. QED BY <1>1, <1>3, OneMoves DEF AppendBody, AppendNewline

(* The line is synced, and the terminal in it returned.                    *)
LEMMA AppendSyncTruth ==
  ASSUME StoresFollowFiles, Inv, TruthInv, [Next]_vars, NEW t \in Thread, AppendSync(t)
  PROVE  TruthInv'
<1>1. CASE ReturnDurable(t)
  BY <1>1, ReturnTruth DEF AppendSync, ReturnDurable
<1>2. CASE /\ site[t] = "claim" /\ Goto(t, "begin_new")
           /\ UNCHANGED <<lock, call, key, term, site, cancelled, expired, ackVars>>
  <2>1. \A u \in Thread \ {t} : Unmoved(u)
    BY <1>2 DEF Goto, Unmoved, Inv, TypeOK
  <2>2. pc[t] = "sync" /\ pc'[t] = "begin_new" /\ key'[t] = key[t] /\ Claiming(t)
    BY <1>2 DEF AppendSync, Goto, Claiming, Appending, Inv, TypeOK
  <2>3. ~Pending(t)' /\ \A f, k : ~Active(t, f, k)'
    BY <2>2 DEF Pending, Active, Granted, Granting, Appending
  <2>4. \A f, k : Fresh(t, f, k)' => Fresh(t, f, k)
    BY <2>2, FileRigid DEF Fresh
  <2>5. Fine(t)
    BY <2>3, <2>4, FreshFine
  <2>. QED BY <2>1, <2>5, OneMoves DEF AppendSync
<1>. QED BY <1>1, <1>2 DEF AppendSync, AppendDone

(* A write or the sync fails.                                              *)
LEMMA AppendFailsTruth ==
  ASSUME StoresFollowFiles, Inv, TruthInv, [Next]_vars, NEW t \in Thread,
         AppendBodyFails(t) \/ AppendNewlineFails(t) \/ AppendSyncFails(t)
  PROVE  TruthInv'
<1>1. pc[t] \in Appending /\ AppendFailed(t) /\ UNCHANGED worldVars
  BY DEF AppendBodyFails, AppendNewlineFails, AppendSyncFails, Appending
<1>2. CASE Leave({t})
  BY <1>1, <1>2, ReturnTruth
<1>3. CASE /\ site[t] = "effect"
           /\ term' = [term EXCEPT ![t] = PersistenceUnknown(@)]
           /\ Goto(t, "repair_retry")
           /\ UNCHANGED <<lock, call, key, site, cancelled, expired, ackVars>>
  <2>1. \A u \in Thread \ {t} : Unmoved(u)
    BY <1>3 DEF Goto, Unmoved, Inv, TypeOK
  <2>2. /\ pc'[t] = "repair_retry" /\ key'[t] = key[t]
        /\ term'[t] = PersistenceUnknown(term[t])
    BY <1>3 DEF Goto, Inv, TypeOK
  <2>3. Pending(t) /\ Pending(t)'
    BY <1>1, <1>3, <2>2 DEF Pending, Claiming
  <2>4. Fine(t)
    BY <2>2, <2>3, PendingFine
  <2>. QED BY <1>1, <2>1, <2>4, OneMoves
<1>. QED BY <1>1, <1>2, <1>3 DEF AppendFailed, ReturnNothing, ReturnUnsynced

(* The second attempt of finish_after_effect.                              *)
LEMMA RepairRetryTruth ==
  ASSUME StoresFollowFiles, Inv, TruthInv, [Next]_vars, NEW t \in Thread, RepairRetry(t)
  PROVE  TruthInv'
<1>1. CASE ReturnUnsynced(t, key[t], term[t])
  BY <1>1, ReturnTruth DEF RepairRetry, ReturnUnsynced
<1>2. CASE /\ StartAppend(t, "retry")
           /\ UNCHANGED <<lock, call, key, term, cancelled, expired, ackVars>>
  <2>1. \A u \in Thread \ {t} : Unmoved(u)
    BY <1>2 DEF StartAppend, Goto, Unmoved, Inv, TypeOK
  <2>2. /\ pc[t] = "repair_retry" /\ pc'[t] = "append" /\ site'[t] = "retry"
        /\ key'[t] = key[t] /\ term'[t] = term[t]
    BY <1>2 DEF RepairRetry, StartAppend, Goto, Inv, TypeOK
  <2>3. Pending(t) /\ Pending(t)'
    BY <2>2 DEF Pending, Claiming, Appending
  <2>4. Fine(t)
    BY <2>2, <2>3, PendingFine
  <2>. QED BY <2>1, <2>4, OneMoves DEF RepairRetry
<1>. QED BY <1>1, <1>2 DEF RepairRetry

-----------------------------------------------------------------------------
(* The outcome ledger                                                      *)

(* begin resolved the operation with what the store holds, or without.     *)
LEMMA ResolvedTruth ==
  ASSUME StoresFollowFiles, Inv, TruthInv, [Next]_vars, NEW t \in Thread,
         pc[t] \in Inside \ {"repair", "read"}, UNCHANGED worldVars,
         NEW z, z = Held(t) \/ z = "interrupted",
         term' = [term EXCEPT ![t] = z], StartAppend(t, "final"), UNCHANGED key
  PROVE  TruthInv'
<1>1. \A u \in Thread \ {t} : Unmoved(u)
  BY DEF StartAppend, Goto, Unmoved, Inv, TypeOK
<1>2. pc'[t] = "append" /\ site'[t] = "final" /\ key'[t] = key[t] /\ term'[t] = z
  BY DEF StartAppend, Goto, Inv, TypeOK
<1>3. Pending(t)'
  BY <1>2 DEF Pending, Claiming, Appending
<1>4. key[t] \in Key
  BY InsideFacts
<1>5. z \in Known => Said(FileOf(t), key[t], z)
  <2>1. "interrupted" \notin Known
    BY DEF Known, Unknown
  <2>2. z = Held(t) => InStore(FileOf(t), key[t], z)
    BY ConstantsAssumption DEF Held, InStore, FileOf
  <2>. QED BY <2>1, <2>2 DEF Said
<1>6. Fine(t)
  BY <1>2, <1>3, <1>4, <1>5, HearsFine
<1>. QED BY <1>1, <1>6, OneMoves

(* The outcome ledger is asked about an operation that was claimed before. *)
LEMMA BeginOldTruth ==
  ASSUME StoresFollowFiles, Inv, TruthInv, [Next]_vars, NEW t \in Thread,
         BeginRecovered(t) \/ BeginReconcile(t) \/ BeginFails(t)
  PROVE  TruthInv'
<1>1. pc[t] \in Inside \ {"repair", "read"} /\ UNCHANGED worldVars
  BY DEF BeginRecovered, BeginReconcile, BeginFails, Inside, ProgramCounter
<1>2. CASE Leave({t})
  BY <1>1, <1>2, ReturnTruth
<1>3. ASSUME NEW z, z = Held(t) \/ z = "interrupted",
             term' = [term EXCEPT ![t] = z], StartAppend(t, "final"), UNCHANGED key
      PROVE  TruthInv'
  BY <1>1, <1>3, ResolvedTruth
<1>. QED BY <1>2, <1>3 DEF BeginRecovered, BeginReconcile, BeginFails, ReturnNothing,
        ReturnUnsynced

(* The store that grants a key held nothing of it, nor did another that    *)
(* shares its outcomes; without a durable one the claim is fresh.          *)
LEMMA GrantedIsUnsaid ==
  ASSUME StoresFollowFiles, Inv, TruthInv, NEW t \in Thread, pc[t] = "begin_new",
         Held(t) = "absent"
  PROVE  /\ Unsaid(FileOf(t), key[t])
         /\ \A g \in Scope(FileOf(t)) : world[g][key[t]] = "none"
         /\ \A u \in Thread \ {t}, g \in Scope(FileOf(t)) : ~Active(u, g, key[t])
<1> DEFINE f == FileOf(t)  k == key[t]
<1>1. f \in File /\ k \in Key /\ lock[f] = t /\ \A g \in Scope(f) : g \in File
  BY InsideFacts, ScopeIsScope DEF Inside, ProgramCounter
<1>2. CASE HostLedger = "durable"
  <2>1. ASSUME NEW g \in Scope(f) PROVE ~Closed(g, k)
    <3>1. \E p \in Process : LedgerOf[p] = g /\ StoreOf[p] = StoreOf[ProcessOf[t]]
      BY <1>2, ConstantsAssumption DEF Scope, StoresFollowFiles, FileOf
    <3>. QED BY <1>2, <3>1 DEF Closed, Held
  <2>2. Unsaid(f, k)
    BY <1>1, <2>1 DEF Unsaid, TruthInv, SaidInv
  <2>3. \A g \in Scope(f) : world[g][k] = "none"
    BY <1>1, <2>1 DEF TruthInv, WorldInv
  <2>4. \A u \in Thread, g \in Scope(f) : ~Active(u, g, k)
    BY <1>1, <2>1 DEF TruthInv, ActiveInv, Alone
  <2>. QED BY <2>2, <2>3, <2>4
<1>3. CASE HostLedger # "durable"
  <2>1. Scope(f) = {f}
    BY <1>1, <1>3, OneFileScope
  <2>2. Unsaid(f, k)
    BY <1>1, <1>3 DEF TruthInv, FreshInv, Fresh
  <2>3. world[f][k] = "none"
    <3>1. Undispatched(f, k)
      BY DEF Inv, ThreadInv, Granting
    <3>2. dispatches[f][k] = 0
      BY <1>1, <3>1 DEF Undispatched
    <3>. QED BY <1>1, <3>2 DEF TruthInv, WorldInv
  <2>4. \A u \in Thread \ {t} : ~Active(u, f, k)
    BY <1>1 DEF Inv, ThreadInv, Active, Granted, Granting, Inside, ProgramCounter
  <2>. QED BY <2>1, <2>2, <2>3, <2>4
<1>. QED BY <1>2, <1>3

(* The outcome ledger grants a new operation, or knows it already.         *)
LEMMA BeginNewTruth ==
  ASSUME StoresFollowFiles, Inv, TruthInv, [Next]_vars, NEW t \in Thread, BeginNew(t)
  PROVE  TruthInv'
<1>1. /\ pc[t] = "begin_new" /\ pc[t] \in Inside \ {"repair", "read"}
      /\ UNCHANGED worldVars /\ UNCHANGED key
  BY DEF BeginNew, Inside, ProgramCounter
<1>2. CASE Held(t) # "absent"
  BY <1>1, <1>2, ResolvedTruth DEF BeginNew
<1>3. CASE Held(t) = "absent" /\ Goto(t, "capabilities") /\ UNCHANGED <<term, site>>
  <2>1. PICK f \in File, k \in Key : f = FileOf(t) /\ k = key[t]
    BY <1>1, InsideFacts
  <2>2. pc'[t] = "capabilities" /\ key'[t] = k
    BY <1>1, <1>3, <2>1 DEF Goto, Inv, TypeOK
  <2>3. \A u \in Thread \ {t} : Unmoved(u)
    BY <1>1, <1>3 DEF Goto, Unmoved, Inv, TypeOK
  <2>4. \A g \in File, j \in Key : Stays(g, j) /\ KeepsWorld(g, j)
    BY <1>1, ClosedStays, SameWorld
  <2>5. \A u \in Thread \ {t} : Fine(u)
    BY <2>3, <2>4, UnmovedFine
  <2>6. ~Pending(t)' /\ \A g, j : ~Fresh(t, g, j)'
    BY <2>2 DEF Pending, Fresh, Claiming, Appending
  <2>7. \A g \in File, j \in Key, y \in Known : Echo(g, j, y)
    <3> SUFFICES ASSUME NEW g \in File, NEW j \in Key, NEW y \in Known PROVE Echo(g, j, y)
      OBVIOUS
    <3>1. \A u \in Thread : EchoCall(u, g, j, y)
      BY <2>5, <2>6 DEF Fine, EchoCall
    <3>. QED BY <3>1, EchoParts
  <2>8. Closed(f, k)'
    <3>1. CASE HostLedger # "durable"
      <4>1. DurableClaim(f, k)
        BY <1>1, <2>1 DEF Inv, ThreadInv, Granting
      <4>. QED BY <2>1, <3>1, <4>1, DurableClaimStays DEF Closed
    <3>2. CASE HostLedger = "durable"
      <4>1. outcomes'[StoreOf[ProcessOf[t]]][k] = "granted"
        BY <1>1, <1>3, <2>1, <3>2, InsideFacts DEF BeginNew, Grant, Inv, TypeOK
      <4>2. \A p \in Process : LedgerOf[p] = f => StoreOf[p] = StoreOf[ProcessOf[t]]
        BY <2>1, <3>2, ConstantsAssumption DEF StoresFollowFiles, FileOf
      <4>. QED BY <3>2, <4>1, <4>2 DEF Closed
    <3>. QED BY <3>1, <3>2
  <2>9. \A u \in Thread, g \in File, j \in Key :
          (u # t => KeepsActive(u, g, j)) /\ KeepsFresh(u, g, j)
    BY <2>5, <2>6 DEF Fine, KeepsFresh
  <2>10. /\ Unsaid(f, k) /\ \A g \in Scope(f) : world[g][k] = "none"
         /\ \A u \in Thread \ {t}, g \in Scope(f) : ~Active(u, g, k)
    BY <1>1, <1>3, <2>1, GrantedIsUnsaid
  <2>. QED BY <2>1, <2>2, <2>4, <2>7, <2>8, <2>9, <2>10, BeginFrame
<1>. QED BY <1>2, <1>3 DEF BeginNew

-----------------------------------------------------------------------------
(* The effect                                                              *)

(* A call settles the outcome, which is true.                              *)
LEMMA SettleTruth ==
  ASSUME StoresFollowFiles, Inv, TruthInv, [Next]_vars, NEW t \in Thread,
         pc[t] \in Granted \union {"executing", "verify"},
         NEW z \in Terminal, NEW s \in {"final", "effect"}, Settle(t, z, s),
         \A g \in File, j \in Key : KeepsWorld(g, j),
         z \in NoEffect => world'[FileOf(t)][key[t]] = "none",
         z \in Success => world'[FileOf(t)][key[t]] = "done"
  PROVE  TruthInv'
<1>1. PICK f \in File, k \in Key : f = FileOf(t) /\ k = key[t]
  BY InsideFacts DEF Granted, Granting, Inside, ProgramCounter
<1>2. Active(t, f, k)
  BY <1>1 DEF Active
<1>3. pc'[t] = "record" /\ key'[t] = k /\ term'[t] = z
  BY <1>1 DEF Settle, Goto, Inv, TypeOK
<1>4. \A u \in Thread \ {t} : Unmoved(u)
  BY DEF Settle, Goto, Unmoved, Inv, TypeOK
<1>5. \A u \in Thread \ {t} : Fine(u)
  BY <1>4, UnmovedFine
<1>6. \A g, j : ~Active(t, g, j)' /\ ~Fresh(t, g, j)'
  BY <1>3 DEF Active, Fresh, Claiming, Appending, Granted, Granting
<1>7. \A g \in File, j \in Key, y \in Known : Echo(g, j, y) \/ (g = f /\ j = k /\ y = z)
  <2> SUFFICES ASSUME NEW g \in File, NEW j \in Key, NEW y \in Known,
                      ~(g = f /\ j = k /\ y = z)
               PROVE  Echo(g, j, y)
    OBVIOUS
  <2>1. EchoCall(t, g, j, y)
    BY <1>1, <1>3 DEF EchoCall
  <2>2. \A u \in Thread : EchoCall(u, g, j, y)
    BY <1>5, <2>1 DEF Fine
  <2>. QED BY <2>2, EchoParts
<1>8. \A g \in File, j \in Key : Stays(g, j)
  BY ClosedStays
<1>9. ASSUME NEW u \in Thread, NEW g \in File, NEW j \in Key
      PROVE  /\ Active(u, g, j)' => u # t
             /\ KeepsActive(u, g, j) /\ KeepsFresh(u, g, j)
             /\ HostLedger # "durable" /\ Fresh(u, g, j)' => g # f
  <2>1. CASE u = t
    BY <1>6, <2>1 DEF KeepsActive, KeepsFresh
  <2>2. CASE u # t
    <3>1. KeepsActive(u, g, j) /\ KeepsFresh(u, g, j)
      BY <1>5, <2>2 DEF Fine
    <3>2. Fresh(u, g, j)' => g # f
      <4> SUFFICES ASSUME Fresh(u, g, j)', g = f PROVE FALSE
        OBVIOUS
      <4>1. Unmoved(u) /\ FileOf(u) = f
        BY <1>4, <2>2, FileRigid DEF Fresh
      <4>2. pc[u] \in Inside
        BY <4>1 DEF Unmoved, Fresh, Claiming, Appending, Inside, ProgramCounter
      <4>3. pc[t] \in Inside
        BY DEF Granted, Granting, Inside, ProgramCounter
      <4>. QED BY <1>1, <2>2, <4>1, <4>2, <4>3 DEF Inv, ThreadInv
    <3>. QED BY <2>2, <3>1, <3>2
  <2>. QED BY <2>1, <2>2
<1>10. /\ z \in NoEffect => world'[f][k] = "none"
       /\ z \in Success => world'[f][k] = "done"
  BY <1>1
<1>. QED BY <1>2, <1>7, <1>8, <1>9, <1>10, SettleFrame

(* A step that changes neither the desktop nor the count of dispatches.    *)
LEMMA SameWorldKept ==
  ASSUME UNCHANGED world, UNCHANGED dispatches
  PROVE  \A f \in File, k \in Key : KeepsWorld(f, k)
BY DEF KeepsWorld

(* What the call at work knows of the desktop.                             *)
LEMMA AtWork ==
  ASSUME Inv, TruthInv, NEW t \in Thread,
         pc[t] \in Granted \union {"executing", "verify"}
  PROVE  /\ FileOf(t) \in File /\ key[t] \in Key
         /\ Active(t, FileOf(t), key[t])
         /\ pc[t] \in Granted => world[FileOf(t)][key[t]] = "none"
         /\ pc[t] = "verify" => world[FileOf(t)][key[t]] = "done"
<1>1. FileOf(t) \in File /\ key[t] \in Key
  BY InsideFacts DEF Granted, Granting, Inside, ProgramCounter
<1>2. Active(t, FileOf(t), key[t])
  BY DEF Active
<1>. QED BY <1>1, <1>2 DEF TruthInv, ActiveInv, Alone

(* Up to the dispatch nothing has happened, and a refusal says so.         *)
LEMMA PrecheckTruth ==
  ASSUME StoresFollowFiles, Inv, TruthInv, [Next]_vars, NEW t \in Thread,
         Capabilities(t) \/ Observe(t) \/ Sentinel(t)
  PROVE  TruthInv'
<1>1. PICK here \in Granted, next \in Granted, Refusals \in SUBSET NoEffect :
        Precheck(t, here, next, Refusals)
  <2>1. {"rejected", "failed"} \subseteq NoEffect /\ {"rejected"} \subseteq NoEffect
    BY DEF NoEffect
  <2>. QED BY <2>1 DEF Capabilities, Observe, Sentinel, Granted, Granting
<1>2. pc[t] \in Granted
  BY <1>1 DEF Precheck
<1>3. ASSUME NEW z \in NoEffect, FinishEarly(t, z) PROVE TruthInv'
  <2>1. z \in Terminal /\ z \notin Success
    BY DEF Terminal, NoEffect, Success
  <2>2. \A g \in File, j \in Key : KeepsWorld(g, j)
    BY <1>3, SameWorldKept DEF FinishEarly, Settle
  <2>3. world'[FileOf(t)][key[t]] = "none"
    BY <1>2, <1>3, AtWork DEF FinishEarly
  <2>. QED BY <1>2, <1>3, <2>1, <2>2, <2>3, SettleTruth DEF FinishEarly
<1>4. CASE /\ Goto(t, next)
           /\ UNCHANGED <<fileVars, lock, outcomes, call, key, term, site,
                          cancelled, expired, worldVars, ackVars>>
  <2>1. \A u \in Thread \ {t} : Unmoved(u)
    BY <1>4 DEF Goto, Unmoved, Inv, TypeOK
  <2>2. pc'[t] = next /\ key'[t] = key[t]
    BY <1>4 DEF Goto, Inv, TypeOK
  <2>3. ~Pending(t)' /\ \A f, k : ~Fresh(t, f, k)'
    BY <1>1, <2>2 DEF Pending, Fresh, Claiming, Appending, Granted, Granting
  <2>4. \A f, k : Active(t, f, k)' => Active(t, f, k)
    BY <1>2, <2>2, FileRigid DEF Active
  <2>5. pc'[t] # "verify"
    BY <1>1, <2>2 DEF Granted, Granting
  <2>6. Fine(t)
    BY <1>2, <2>3, <2>4, <2>5 DEF Fine, KeepsActive, KeepsFresh, EchoCall
  <2>. QED BY <1>4, <2>1, <2>6, OneMoves
<1>5. {"cancelled", "expired"} \subseteq NoEffect
  BY DEF NoEffect
<1>. QED BY <1>1, <1>3, <1>4, <1>5 DEF Precheck

(* Executor::dispatch is called.                                           *)
LEMMA DispatchTruth ==
  ASSUME StoresFollowFiles, Inv, TruthInv, [Next]_vars, NEW t \in Thread, Dispatch(t)
  PROVE  TruthInv'
<1>1. pc[t] = "dispatch" /\ pc[t] \in Granted
  BY DEF Dispatch, Granted, Granting
<1>2. PICK f \in File, k \in Key : f = FileOf(t) /\ k = key[t] /\ Active(t, f, k)
  BY <1>1, AtWork
<1>3. pc'[t] = "executing" /\ key'[t] = k
  BY <1>2 DEF Dispatch, Goto, Inv, TypeOK
<1>4. \A u \in Thread \ {t} : Unmoved(u)
  BY DEF Dispatch, Goto, Unmoved, Inv, TypeOK
<1>5. /\ dispatches' = [dispatches EXCEPT ![f][k] = dispatches[f][k] + 1]
      /\ \E w : world' = [world EXCEPT ![f][k] = w]
  BY <1>2 DEF Dispatch
<1>6. dispatches[f][k] \in Nat
  BY DEF Inv, TypeOK
<1>7. dispatches'[f][k] = dispatches[f][k] + 1
  BY <1>5 DEF Inv, TypeOK
<1>8. dispatches'[f][k] > 0
  BY <1>6, <1>7
<1>9. \A g \in File, j \in Key : KeepsWorld(g, j) \/ (g = f /\ j = k)
  BY <1>5 DEF KeepsWorld, Inv, TypeOK
<1>10. \A u \in Thread \ {t} : Fine(u)
  <2> SUFFICES ASSUME NEW u \in Thread \ {t} PROVE Fine(u)
    OBVIOUS
  <2>1. ~Active(u, f, k)
    BY <1>2, ScopeIsScope DEF TruthInv, ActiveInv, Alone
  <2>2. \A g \in File, j \in Key : KeepsWorld(g, j) \/ ~Active(u, g, j)
    BY <1>9, <2>1
  <2>. QED BY <1>4, <2>2, UnmovedFine
<1>11. ~Pending(t)' /\ \A g, j : ~Fresh(t, g, j)'
  BY <1>3 DEF Pending, Fresh, Claiming, Appending
<1>12. \A g \in File, j \in Key : KeepsActive(t, g, j)
  BY <1>2, <1>3, FileRigid DEF KeepsActive, Active, Granted, Granting
<1>13. \A g \in File, j \in Key, y \in Known : Echo(g, j, y)
  <2> SUFFICES ASSUME NEW g \in File, NEW j \in Key, NEW y \in Known PROVE Echo(g, j, y)
    OBVIOUS
  <2>1. \A u \in Thread : EchoCall(u, g, j, y)
    BY <1>10, <1>11 DEF Fine, EchoCall
  <2>. QED BY <2>1, EchoParts
<1>14. \A g \in File, j \in Key : Stays(g, j)
  BY ClosedStays
<1>15. \A u \in Thread, g \in File, j \in Key : KeepsActive(u, g, j) /\ KeepsFresh(u, g, j)
  BY <1>10, <1>11, <1>12 DEF Fine, KeepsFresh
<1>. QED BY <1>2, <1>3, <1>8, <1>9, <1>13, <1>14, <1>15, DispatchFrame

(* The three classes of terminals.                                         *)
LEMMA UnknownTerminals ==
  /\ Unknown \subseteq Terminal /\ Unknown \cap (NoEffect \union Success) = {}
  /\ NoEffect \subseteq Terminal /\ Success \subseteq Terminal
  /\ NoEffect \cap Success = {}
BY DEF Unknown, Terminal, NoEffect, Success

(* The executor answers, and the outcome is verified.                      *)
LEMMA EffectTruth ==
  ASSUME StoresFollowFiles, Inv, TruthInv, [Next]_vars, NEW t \in Thread,
         DispatchOk(t) \/ DispatchUnknown(t) \/ DispatchRefused(t) \/ Verify(t)
  PROVE  TruthInv'
<1>1. pc[t] \in {"executing", "verify"}
  BY DEF DispatchOk, DispatchUnknown, DispatchRefused, Verify
<1>2. FileOf(t) \in File /\ key[t] \in Key
  BY <1>1, AtWork
<1>3. CASE Settle(t, "uncertain", "effect") /\ UNCHANGED world
  <2>1. \A g \in File, j \in Key : KeepsWorld(g, j)
    BY <1>3, SameWorldKept DEF Settle
  <2>2. "uncertain" \in Unknown
    BY DEF Unknown
  <2>. QED BY <1>1, <1>3, <2>1, <2>2, UnknownTerminals, SettleTruth
<1>4. CASE /\ pc[t] = "executing" /\ world[FileOf(t)][key[t]] = "done"
           /\ UNCHANGED <<world, dispatches, key, term, site>> /\ Goto(t, "verify")
  <2>1. \A u \in Thread \ {t} : Unmoved(u)
    BY <1>4 DEF Goto, Unmoved, Inv, TypeOK
  <2>2. pc'[t] = "verify" /\ key'[t] = key[t]
    BY <1>4 DEF Goto, Inv, TypeOK
  <2>3. ~Pending(t)' /\ \A f, k : ~Fresh(t, f, k)'
    BY <2>2 DEF Pending, Fresh, Claiming, Appending
  <2>4. \A f, k : Active(t, f, k)' => Active(t, f, k) /\ f = FileOf(t) /\ k = key[t]
    BY <1>4, <2>2, FileRigid DEF Active
  <2>5. Fine(t)
    BY <1>4, <2>2, <2>3, <2>4 DEF Fine, KeepsActive, KeepsFresh, EchoCall, Granted, Granting
  <2>. QED BY <1>4, <2>1, <2>5, OneMoves DEF worldVars
<1>5. ASSUME NEW z \in NoEffect, pc[t] = "executing",
             world[FileOf(t)][key[t]] = "inflight",
             world' = [world EXCEPT ![FileOf(t)][key[t]] = "none"],
             Settle(t, z, "final")
      PROVE  TruthInv'
  <2>1. dispatches' = dispatches
    BY <1>5 DEF Settle
  <2>2. \A g \in File, j \in Key : KeepsWorld(g, j)
    BY <1>2, <1>5, <2>1 DEF KeepsWorld, Inv, TypeOK
  <2>3. world'[FileOf(t)][key[t]] = "none"
    BY <1>2, <1>5 DEF Inv, TypeOK
  <2>4. z \in Terminal /\ z \notin Success
    BY UnknownTerminals
  <2>. QED BY <1>1, <1>5, <2>2, <2>3, <2>4, SettleTruth
<1>6. ASSUME NEW z \in Success, pc[t] = "verify", UNCHANGED world,
             Settle(t, z, "effect")
      PROVE  TruthInv'
  <2>1. \A g \in File, j \in Key : KeepsWorld(g, j)
    BY <1>6, SameWorldKept DEF Settle
  <2>2. world'[FileOf(t)][key[t]] = "done"
    BY <1>1, <1>6, AtWork
  <2>3. z \in Terminal /\ z \notin NoEffect
    BY UnknownTerminals
  <2>. QED BY <1>1, <1>6, <2>1, <2>2, <2>3, SettleTruth
<1>7. /\ {"cancelled", "expired", "rejected"} \subseteq NoEffect
      /\ {"verified", "unverified"} \subseteq Success
  BY DEF NoEffect, Success
<1>8. CASE DispatchOk(t)
  BY <1>3, <1>4, <1>8 DEF DispatchOk
<1>9. CASE DispatchUnknown(t)
  BY <1>3, <1>9 DEF DispatchUnknown
<1>10. CASE DispatchRefused(t)
  BY <1>5, <1>7, <1>10 DEF DispatchRefused
<1>11. CASE Verify(t)
  BY <1>3, <1>6, <1>7, <1>11 DEF Verify
<1>. QED BY <1>8, <1>9, <1>10, <1>11

(* The outcome is recorded with the host, or that fails.                   *)
LEMMA RecordTruth ==
  ASSUME StoresFollowFiles, Inv, TruthInv, [Next]_vars, NEW t \in Thread,
         RecordOutcome(t) \/ RecordFails(t)
  PROVE  TruthInv'
<1>1. pc[t] = "record" /\ UNCHANGED worldVars /\ site[t] \in {"final", "effect"}
  BY DEF RecordOutcome, RecordFails, Inv, ThreadInv
<1>2. CASE Leave({t})
  BY <1>1, <1>2, ReturnTruth
<1>3. ASSUME NEW z \in {term[t], PersistenceUnknown(term[t])},
             term' = [term EXCEPT ![t] = z], Goto(t, "append"), UNCHANGED <<key, site>>
      PROVE  TruthInv'
  <2>1. \A u \in Thread \ {t} : Unmoved(u)
    BY <1>3 DEF Goto, Unmoved, Inv, TypeOK
  <2>2. pc'[t] = "append" /\ key'[t] = key[t] /\ term'[t] = z /\ site'[t] = site[t]
    BY <1>3 DEF Goto, Inv, TypeOK
  <2>3. Pending(t) /\ Pending(t)'
    BY <1>1, <2>2 DEF Pending, Claiming, Appending
  <2>4. Fine(t)
    BY <2>2, <2>3, PendingFine
  <2>. QED BY <1>1, <2>1, <2>4, OneMoves
<1>4. term = [term EXCEPT ![t] = term[t]]
  BY DEF Inv, TypeOK
<1>. QED BY <1>2, <1>3, <1>4 DEF RecordOutcome, RecordFails, ReturnNothing

-----------------------------------------------------------------------------
(* What is said is true                                                    *)

(* Nothing is said at first.                                               *)
LEMMA InitTruth == Init => TruthInv
<1> SUFFICES ASSUME Init PROVE TruthInv
  OBVIOUS
<1>1. \A f \in File, k \in Key, z \in Known : ~Said(f, k, z)
  <2> SUFFICES ASSUME NEW f \in File, NEW k \in Key, NEW z \in Known PROVE ~Said(f, k, z)
    OBVIOUS
  <2>1. ~InTold(f, k, z) /\ ~InLog(f, k, z) /\ ~InCall(f, k, z)
    BY DEF Init, InTold, InLog, InCall, Pending, Appending
  <2>2. ~InStore(f, k, z)
    BY ConstantsAssumption, NotHeld DEF Init, InStore, Known
  <2>. QED BY <2>1, <2>2 DEF Said
<1>2. SaidInv
  BY <1>1 DEF SaidInv
<1>3. ActiveInv /\ FreshInv
  BY DEF Init, ActiveInv, FreshInv, Active, Fresh, Claiming, Appending, Granted, Granting
<1>4. WorldInv
  BY DEF Init, WorldInv
<1>. QED BY <1>2, <1>3, <1>4 DEF TruthInv

(* Every step of a call keeps TruthInv.                                    *)
LEMMA StepTruth ==
  ASSUME StoresFollowFiles, Inv, TruthInv, [Next]_vars, NEW t \in Thread, Step(t)
  PROVE  TruthInv'
<1>1. CASE Acquire(t) \/ AcquireFails(t) \/ WouldBlock(t) \/ Wake(t) \/ Repair(t)
  BY <1>1, LockTruth
<1>2. CASE ReadNothing(t) \/ ReadConflict(t) \/ ReadClaimOnly(t) \/ ReadTerminal(t)
  BY <1>2, ReadNothingTruth, ReadConflictTruth, ReadClaimOnlyTruth, ReadTerminalTruth
<1>3. CASE AppendBody(t) \/ AppendNewline(t) \/ AppendSync(t)
  BY <1>3, AppendTruth, AppendSyncTruth
<1>4. CASE AppendBodyFails(t) \/ AppendNewlineFails(t) \/ AppendSyncFails(t)
  BY <1>4, AppendFailsTruth
<1>5. CASE RepairRetry(t)
  BY <1>5, RepairRetryTruth
<1>6. CASE BeginNew(t) \/ BeginRecovered(t) \/ BeginReconcile(t) \/ BeginFails(t)
  BY <1>6, BeginNewTruth, BeginOldTruth
<1>7. CASE Capabilities(t) \/ Observe(t) \/ Sentinel(t)
  BY <1>7, PrecheckTruth
<1>8. CASE Dispatch(t)
  BY <1>8, DispatchTruth
<1>9. CASE DispatchOk(t) \/ DispatchUnknown(t) \/ DispatchRefused(t) \/ Verify(t)
  BY <1>9, EffectTruth
<1>10. CASE RecordOutcome(t) \/ RecordFails(t)
  BY <1>10, RecordTruth
<1>. QED BY <1>1, <1>2, <1>3, <1>4, <1>5, <1>6, <1>7, <1>8, <1>9, <1>10 DEF Step

(* So does every step of the system.                                       *)
LEMMA NextTruth ==
  ASSUME StoresFollowFiles, Inv, TruthInv, [Next]_vars
  PROVE  TruthInv'
<1>1. CASE UNCHANGED vars
  <2>1. \A u \in Thread : Unmoved(u)
    BY <1>1 DEF vars, threadVars, Unmoved
  <2>. QED BY <1>1, <2>1, SameWorld, RestingTruth DEF vars
<1>2. ASSUME NEW t \in Thread, NEW k \in Key, Execute(t, k) PROVE TruthInv'
  BY <1>2, ExecuteTruth
<1>3. ASSUME NEW t \in Thread, NEW o \in Op, Status(t, o) PROVE TruthInv'
  BY <1>3, StatusTruth
<1>4. ASSUME NEW t \in Thread, Cancel(t) \/ Expire(t) PROVE TruthInv'
  BY <1>4, SignalTruth
<1>5. ASSUME NEW t \in Thread, Step(t) PROVE TruthInv'
  BY <1>5, StepTruth
<1>6. ASSUME NEW f \in File, NEW k \in Key, Land(f, k) PROVE TruthInv'
  BY <1>6, LandTruth
<1>7. ASSUME NEW p \in Process, Kill(p) PROVE TruthInv'
  BY <1>7, KillTruth
<1>8. CASE PowerLoss
  BY <1>8, PowerLossTruth
<1>. QED BY <1>1, <1>2, <1>3, <1>4, <1>5, <1>6, <1>7, <1>8 DEF Next

(* TruthInv holds in every reachable state.                                *)
LEMMA SpecTruth == StoresFollowFiles => (Spec => [](Inv /\ TruthInv))
<1> SUFFICES ASSUME StoresFollowFiles PROVE Spec => [](Inv /\ TruthInv)
  OBVIOUS
<1>1. Init => Inv /\ TruthInv
  BY InitInv, InitTruth
<1>2. (Inv /\ TruthInv) /\ [Next]_vars => (Inv /\ TruthInv)'
  BY NextInv, NextTruth
<1>. QED BY <1>1, <1>2, PTL DEF Spec

(* A caller of execute or status that is told of no effect, or of success, *)
(* is told the truth for good, through this ledger file and all that share *)
(* outcomes with it, and two callers are never told known terminals that   *)
(* differ, whatever is retried, recovered, reconciled, killed or lost.     *)
(* Where processes of one ledger file consult different durable outcome    *)
(* ledgers, which the code leaves to the host, this is not so.             *)
THEOREM TerminalsAreTruthful == StoresFollowFiles => (Spec => []TruthfulTerminals)
<1> SUFFICES ASSUME StoresFollowFiles PROVE Spec => []TruthfulTerminals
  OBVIOUS
<1>1. TruthInv => TruthfulTerminals
  <2> SUFFICES ASSUME TruthInv, NEW f \in File, NEW k \in Key
               PROVE  /\ told[f][k] \cap NoEffect # {} =>
                           \A g \in Scope(f) : world[g][k] = "none"
                      /\ told[f][k] \cap Success # {} =>
                           \E g \in Scope(f) : world[g][k] = "done"
                      /\ \A g \in Scope(f), y, z \in Terminal \ Unknown :
                           (y \in told[f][k] /\ z \in told[g][k]) => y = z
    BY DEF TruthfulTerminals
  <2>1. \A g, z : z \in told[g][k] => Said(g, k, z)
    BY DEF Said, InTold
  <2>2. NoEffect \union Success \subseteq Known
    BY UnknownTerminals DEF Known
  <2>3. \A z \in Known : z \in told[f][k] =>
          /\ \A g \in Scope(f), y \in Known : Said(g, k, y) => y = z
          /\ z \in NoEffect => \A g \in Scope(f) : world[g][k] = "none"
          /\ z \in Success => \E g \in Scope(f) : world[g][k] = "done"
    BY <2>1 DEF TruthInv, SaidInv
  <2>. QED BY <2>1, <2>2, <2>3 DEF Known
<1>. QED BY <1>1, SpecTruth, PTL

(* The outcome ledger of the host and the ledger file never hold known     *)
(* terminals of a request that differ, though finish_early and             *)
(* finish_after_effect write them one after the other and either can fail. *)
THEOREM HostAndFileAgree == StoresFollowFiles => (Spec => []HostAgrees)
<1> SUFFICES ASSUME StoresFollowFiles PROVE Spec => []HostAgrees
  OBVIOUS
<1>1. TruthInv => HostAgrees
  <2> SUFFICES ASSUME TruthInv, NEW f \in File, NEW p \in Process, NEW k \in Key,
                      NEW z \in Terminal \ Unknown, LedgerOf[p] = f,
                      outcomes[StoreOf[p]][k] \in Terminal \ Unknown,
                      \E i \in 1..Len(log[f]) : log[f][i] = Finish(k, z)
               PROVE  outcomes[StoreOf[p]][k] = z
    BY DEF HostAgrees
  <2>1. Said(f, k, z) /\ Said(f, k, outcomes[StoreOf[p]][k])
    BY DEF Said, InLog, InStore
  <2>. QED BY <2>1, ScopeIsScope DEF TruthInv, SaidInv, Known
<1>. QED BY <1>1, SpecTruth, PTL

-----------------------------------------------------------------------------
(* The engine implements AtMostOnce                                        *)

(* The call tells one terminal.                                            *)
Tells ==
  \E f \in File, k \in Key, z \in Terminal :
    told' = [told EXCEPT ![f][k] = @ \union {z}]

(* Callers are told, or the desktop changes, or neither; never both.       *)
LEMMA VisibleMove ==
  ASSUME Inv, [Next]_vars
  PROVE  \/ UNCHANGED worldVars /\ (UNCHANGED told \/ Tells)
         \/ UNCHANGED told /\ \/ \E t \in Thread : Dispatch(t) \/ DispatchRefused(t)
                              \/ \E f \in File, k \in Key : Land(f, k)
                              \/ PowerLoss
<1>1. CASE UNCHANGED vars
  BY <1>1 DEF vars, worldVars, ackVars
<1>2. ASSUME NEW t \in Thread,
             \/ \E k \in Key : Execute(t, k)
             \/ \E o \in Op : Status(t, o)
             \/ Cancel(t) \/ Expire(t)
      PROVE  UNCHANGED worldVars /\ UNCHANGED told
  BY <1>2 DEF Execute, Status, Cancel, Expire, ackVars
<1>3. ASSUME NEW t \in Thread, Step(t)
      PROVE  \/ UNCHANGED worldVars /\ (UNCHANGED told \/ Tells)
             \/ UNCHANGED told /\ (Dispatch(t) \/ DispatchRefused(t))
  <2>0. ASSUME \/ ReturnNothing(t)
               \/ \E k \in Key, z \in Terminal : ReturnUnsynced(t, k, z)
               \/ ReturnDurable(t) /\ key[t] \in Key /\ term[t] \in Terminal
        PROVE  UNCHANGED told \/ Tells
    BY <2>0, FileOfType DEF ReturnNothing, ReturnUnsynced, ReturnDurable, Tells, ackVars
  <2>1. CASE Acquire(t) \/ AcquireFails(t) \/ WouldBlock(t) \/ Wake(t) \/ Repair(t)
    BY <2>1 DEF Acquire, AcquireFails, WouldBlock, Wake, Repair, ReturnNothing, ackVars
  <2>2. CASE ReadNothing(t) \/ ReadConflict(t) \/ ReadClaimOnly(t)
    BY <2>2 DEF ReadNothing, ReadConflict, ReadClaimOnly, ReturnNothing, ackVars
  <2>3. CASE ReadTerminal(t)
    <3>1. PICK i \in 1..Len(log[FileOf(t)]) :
            /\ log[FileOf(t)][i].kind = "terminal"
            /\ \/ UNCHANGED ackVars
               \/ ReturnUnsynced(t, log[FileOf(t)][i].key, log[FileOf(t)][i].term)
      BY <2>3 DEF ReadTerminal, IsLast, Lines
    <3>2. log[FileOf(t)][i] \in Record
      BY <3>1, FileOfType DEF Inv, TypeOK
    <3>3. log[FileOf(t)][i].key \in Key /\ log[FileOf(t)][i].term \in Terminal
      BY <3>1, <3>2, LineIsFinish
    <3>. QED BY <2>0, <2>3, <3>1, <3>3 DEF ReadTerminal, ackVars
  <2>4. CASE \/ AppendBody(t) \/ AppendBodyFails(t) \/ AppendNewline(t)
             \/ AppendNewlineFails(t) \/ AppendSync(t) \/ AppendSyncFails(t)
    <3>1. UNCHANGED worldVars /\ pc[t] \in Appending
      BY <2>4 DEF AppendBody, AppendBodyFails, AppendNewline, AppendNewlineFails,
         AppendSync, AppendSyncFails, Appending
    <3>2. key[t] \in Key /\ (site[t] # "claim" => term[t] \in Terminal)
      BY <3>1, AppendingFacts DEF Inv, ThreadInv, Claiming
    <3>3. CASE AppendDone(t)
      BY <2>0, <3>1, <3>2, <3>3 DEF AppendDone, ackVars
    <3>4. CASE AppendFailed(t)
      BY <2>0, <3>1, <3>2, <3>4 DEF AppendFailed, ackVars
    <3>5. CASE UNCHANGED ackVars
      BY <3>1, <3>5 DEF ackVars
    <3>. QED BY <2>4, <3>3, <3>4, <3>5 DEF AppendBody, AppendBodyFails, AppendNewline,
         AppendNewlineFails, AppendSync, AppendSyncFails
  <2>5. CASE RepairRetry(t)
    <3>1. key[t] \in Key /\ term[t] \in Terminal
      BY <2>5 DEF RepairRetry, Inv, ThreadInv, Inside, ProgramCounter
    <3>. QED BY <2>0, <2>5, <3>1 DEF RepairRetry, ackVars
  <2>6. CASE BeginNew(t) \/ BeginRecovered(t) \/ BeginFails(t)
    BY <2>6 DEF BeginNew, BeginRecovered, BeginFails, ReturnNothing, ackVars
  <2>7. CASE BeginReconcile(t)
    <3>1. key[t] \in Key /\ term[t] \in Terminal
      BY <2>7 DEF BeginReconcile, Inv, ThreadInv, Inside, ProgramCounter
    <3>. QED BY <2>0, <2>7, <3>1 DEF BeginReconcile, ackVars
  <2>8. CASE Capabilities(t) \/ Observe(t) \/ Sentinel(t)
    BY <2>8 DEF Capabilities, Observe, Sentinel, Precheck, FinishEarly, Settle, ackVars,
       worldVars
  <2>9. CASE DispatchOk(t) \/ DispatchUnknown(t) \/ Verify(t)
    BY <2>9 DEF DispatchOk, DispatchUnknown, Verify, Settle, ackVars, worldVars
  <2>10. CASE Dispatch(t) \/ DispatchRefused(t)
    BY <2>10 DEF Dispatch, DispatchRefused, Settle, ackVars
  <2>11. CASE RecordOutcome(t) \/ RecordFails(t)
    BY <2>11 DEF RecordOutcome, RecordFails, ReturnNothing, ackVars
  <2>. QED BY <1>3, <2>1, <2>2, <2>3, <2>4, <2>5, <2>6, <2>7, <2>8, <2>9, <2>10, <2>11
       DEF Step
<1>4. ASSUME NEW f \in File, NEW k \in Key, Land(f, k) PROVE UNCHANGED told
  BY <1>4 DEF Land, ackVars
<1>5. ASSUME NEW p \in Process, Kill(p) PROVE UNCHANGED worldVars /\ UNCHANGED told
  BY <1>5 DEF Kill, ackVars
<1>6. CASE PowerLoss
  BY <1>6 DEF PowerLoss, ackVars
<1>. QED BY <1>1, <1>2, <1>3, <1>4, <1>5, <1>6 DEF Next

(* Whoever is told a terminal is told what AtMostOnce allows.              *)
LEMMA TellsAnswer ==
  ASSUME HostLedger # "durable", Inv, TruthInv', UNCHANGED worldVars, Tells
  PROVE  \E f \in File, k \in Key, z \in Terminal : Promise!Answer(f, k, z)
<1>1. PICK f \in File, k \in Key, z \in Terminal :
        told' = [told EXCEPT ![f][k] = @ \union {z}]
  BY DEF Tells
<1>2. told'[f][k] = told[f][k] \union {z} /\ told[f][k] \subseteq Terminal
  BY <1>1 DEF Inv, TypeOK
<1>3. \A y \in told'[f][k] : Said(f, k, y)'
  BY DEF Said, InTold
<1>4. Scope(f) = {f}
  BY OneFileScope
<1>5. z \in Known =>
        /\ \A y \in Known : Said(f, k, y)' => y = z
        /\ z \in NoEffect => world'[f][k] = "none"
        /\ z \in Success => world'[f][k] = "done"
  BY <1>2, <1>3, <1>4, ScopeRigid DEF TruthInv, SaidInv, Known, Terminal
<1>6. z \notin Unknown => z \in Known
  BY DEF Known
<1>7. z \in NoEffect \union Success => z \in Known
  BY UnknownTerminals DEF Known
<1>8. /\ z \in NoEffect => world[f][k] = "none"
      /\ z \in Success => world[f][k] = "done"
      /\ z \notin Unknown => told[f][k] \subseteq Unknown \union {z}
  BY <1>2, <1>3, <1>5, <1>6, <1>7 DEF Known, worldVars
<1>9. Promise!Answer(f, k, z)
  BY <1>1, <1>8 DEF Promise!Answer, worldVars
<1>. QED BY <1>9

(* Two tables of truth values that differ in one entry.                    *)
LEMMA OneEntry ==
  ASSUME NEW d \in [File -> [Key -> BOOLEAN]], NEW e \in [File -> [Key -> BOOLEAN]],
         NEW f \in File, NEW k \in Key, e[f][k],
         \A g \in File, j \in Key : g # f \/ j # k => e[g][j] = d[g][j]
  PROVE  e = [d EXCEPT ![f][k] = TRUE]
<1>1. e[f][k] = TRUE
  BY Zenon
<1>2. \A g \in File : g # f => e[g] = d[g]
  OBVIOUS
<1>3. e[f] = [d[f] EXCEPT ![k] = TRUE]
  BY <1>1
<1>. QED BY <1>2, <1>3

(* A call that dispatches finds its operation open.                        *)
LEMMA DispatchOpen ==
  ASSUME HostLedger # "durable", Inv, TruthInv, KeyInv, NEW t \in Thread, Dispatch(t)
  PROVE  Promise!Dispatch(FileOf(t), key[t])
<1> DEFINE f == FileOf(t)
           k == key[t]
<1>1. pc[t] \in Granted
  BY DEF Dispatch, Granted, Granting
<1>2. f \in File /\ k \in Key /\ Active(t, f, k) /\ world[f][k] = "none"
  BY <1>1, AtWork
<1>3. Undispatched(f, k) /\ DurableClaim(f, k)
  BY <1>1 DEF Inv, ThreadInv, Granted
<1>4. ASSUME NEW j \in Key, j.op = k.op, NEW z \in told[f][j], z \notin Unknown
      PROVE  FALSE
  <2>1. z \in Known /\ Said(f, j, z)
    BY <1>2, <1>4 DEF Said, InTold, Known, Inv, TypeOK
  <2>2. DurableClaim(f, j)
    BY <1>2, <2>1 DEF TruthInv, SaidInv, Closed
  <2>3. PICK a \in 1..synced[f] : log[f][a] = Claim(j)
    BY <2>2 DEF DurableClaim
  <2>4. PICK b \in 1..synced[f] : log[f][b] = Claim(k)
    BY <1>3 DEF DurableClaim
  <2>5. a \in 1..Len(log[f]) /\ b \in 1..Len(log[f])
    BY <1>2, <2>3, <2>4 DEF Inv, FileInv, TypeOK
  <2>6. j = k
    BY <1>2, <1>4, <2>3, <2>4, <2>5 DEF KeyInv, Claim
  <2>7. Unsaid(f, k) /\ f \in Scope(f)
    BY <1>2, OneFileScope DEF TruthInv, ActiveInv, Alone
  <2>. QED BY <2>1, <2>6, <2>7 DEF Unsaid
<1>5. Promise!Open(f, k)
  <2>1. \A j \in Key : j.op = k.op => told[f][j] \subseteq Unknown
    BY <1>4
  <2>2. \A j \in Key : j.op = k.op => ~(dispatches[f][j] > 0)
    BY <1>3 DEF Undispatched
  <2>3. \A j \in Key : [g \in File |-> [i \in Key |-> dispatches[g][i] > 0]][f][j]
                        = (dispatches[f][j] > 0)
    BY <1>2
  <2> HIDE DEF f, k
  <2>. QED BY <2>1, <2>2, <2>3 DEF Promise!Open, Promise!Key, Key
<1>6. /\ dispatches' = [dispatches EXCEPT ![f][k] = @ + 1]
      /\ world' = [world EXCEPT ![f][k] = "inflight"]
      /\ told' = told
  BY <1>2 DEF Dispatch, ackVars, Inv, TypeOK
<1>7. [g \in File |-> [j \in Key |-> dispatches'[g][j] > 0]]
        = [[g \in File |-> [j \in Key |-> dispatches[g][j] > 0]]
             EXCEPT ![f][k] = TRUE]
  <2>0. dispatches \in [File -> [Key -> Nat]]
    BY DEF Inv, TypeOK
  <2> HIDE DEF f, k
  <2>1. dispatches'[f][k] > 0
    BY <1>2, <1>6, <2>0
  <2>2. \A g \in File, j \in Key :
          g # f \/ j # k => dispatches'[g][j] = dispatches[g][j]
    BY <1>2, <1>6, <2>0
  <2> DEFINE d == [g \in File |-> [j \in Key |-> dispatches[g][j] > 0]]
             e == [g \in File |-> [j \in Key |-> dispatches'[g][j] > 0]]
  <2>3. d \in [File -> [Key -> BOOLEAN]] /\ e \in [File -> [Key -> BOOLEAN]]
    OBVIOUS
  <2>4. e[f][k]
    BY <1>2, <2>1
  <2>5. \A g \in File, j \in Key : g # f \/ j # k => e[g][j] = d[g][j]
    BY <2>2
  <2>6. f \in File /\ k \in Key
    BY <1>2
  <2> HIDE DEF d, e
  <2>7. e = [d EXCEPT ![f][k] = TRUE]
    BY <2>3, <2>4, <2>5, <2>6, OneEntry
  <2>. QED BY <2>7 DEF d, e
<1>. QED BY <1>5, <1>6, <1>7 DEF Promise!Dispatch

(* What an executor refuses, or a power loss stops, is withdrawn.          *)
LEMMA Withdraws ==
  ASSUME Inv, UNCHANGED <<dispatches, told>>, NEW K \in SUBSET (File \X Key),
         \A f \in File, k \in Key : <<f, k>> \in K => world[f][k] = "inflight",
         world' = [f \in File |-> [k \in Key |->
                     IF <<f, k>> \in K THEN "none" ELSE world[f][k]]]
  PROVE  Promise!Next
BY DEF Promise!Next, Promise!Withdraw, Promise!Key, Key

(* Every step of Engine is a step of AtMostOnce or stutters.               *)
LEMMA NextPromise ==
  ASSUME HostLedger # "durable", Inv, TruthInv, TruthInv', KeyInv, [Next]_vars
  PROVE  [Promise!Next]_(Promise!vars)
<1>1. CASE UNCHANGED worldVars /\ UNCHANGED told
  BY <1>1 DEF Promise!vars, worldVars
<1>2. CASE UNCHANGED worldVars /\ Tells
  BY <1>2, TellsAnswer DEF Promise!Next, Promise!Key, Key, Promise!Terminal, Terminal
<1>3. ASSUME NEW t \in Thread, Dispatch(t) PROVE Promise!Next
  <2>1. FileOf(t) \in File /\ key[t] \in Key
    BY <1>3, AtWork DEF Dispatch, Granted, Granting
  <2>2. Promise!Dispatch(FileOf(t), key[t])
    BY <1>3, DispatchOpen
  <2>3. key[t] \in Promise!Key
    BY <2>1 DEF Promise!Key, Key
  <2>4. \E f \in File, k \in Promise!Key : Promise!Dispatch(f, k)
    BY <2>1, <2>2, <2>3 DEF Promise!Dispatch
  <2>. QED BY <2>4 DEF Promise!Next, Promise!Dispatch
<1>4. ASSUME NEW t \in Thread, DispatchRefused(t) PROVE Promise!Next
  <2>1. FileOf(t) \in File /\ key[t] \in Key
    BY <1>4, AtWork DEF DispatchRefused
  <2>2. /\ world[FileOf(t)][key[t]] = "inflight"
        /\ world' = [world EXCEPT ![FileOf(t)][key[t]] = "none"]
        /\ UNCHANGED <<dispatches, told>>
    BY <1>4 DEF DispatchRefused, Settle, ackVars
  <2>3. world' = [f \in File |-> [k \in Key |->
                    IF <<f, k>> \in {<<FileOf(t), key[t]>>} THEN "none" ELSE world[f][k]]]
    BY <2>1, <2>2 DEF Inv, TypeOK
  <2>4. \A f \in File, k \in Key : <<f, k>> \in {<<FileOf(t), key[t]>>} =>
          world[f][k] = "inflight"
    BY <2>2
  <2>5. {<<FileOf(t), key[t]>>} \in SUBSET (File \X Key)
    BY <2>1
  <2>. QED BY <2>2, <2>3, <2>4, <2>5, Withdraws
<1>5. ASSUME NEW f \in File, NEW k \in Key, Land(f, k) PROVE Promise!Next
  BY <1>5 DEF Land, Promise!Next, Promise!Land, Promise!Key, Key, ackVars
<1>6. CASE PowerLoss
  <2> DEFINE K == {x \in File \X Key : world[x[1]][x[2]] = "inflight"}
  <2>1. /\ UNCHANGED <<dispatches, told>>
        /\ world' = [f \in File |-> [k \in Key |->
                       IF world[f][k] = "inflight" THEN "none" ELSE world[f][k]]]
    BY <1>6 DEF PowerLoss, ackVars
  <2>2. \A f \in File, k \in Key : <<f, k>> \in K <=> world[f][k] = "inflight"
    OBVIOUS
  <2>3. K \in SUBSET (File \X Key)
    OBVIOUS
  <2> HIDE DEF K
  <2>4. world' = [f \in File |-> [k \in Key |->
                    IF <<f, k>> \in K THEN "none" ELSE world[f][k]]]
    BY <2>1, <2>2
  <2>. QED BY <2>1, <2>2, <2>3, <2>4, Withdraws
<1>. QED BY <1>1, <1>2, <1>3, <1>4, <1>5, <1>6, VisibleMove

(* So are the initial states.                                              *)
LEMMA InitPromise == Init => Promise!Init
<1> SUFFICES ASSUME Init PROVE Promise!Init
  OBVIOUS
<1>1. ASSUME NEW f \in File PROVE [k \in Key |-> dispatches[f][k] > 0] = [k \in Key |-> FALSE]
  <2>1. \A k \in Key : (dispatches[f][k] > 0) = FALSE
    BY DEF Init
  <2>. QED BY <2>1
<1>. QED BY <1>1 DEF Init, Promise!Init, Promise!Key, Key

(* Where the outcome ledger is the null one or lives in the process, the   *)
(* engine implements AtMostOnce: to its callers execute is atomic, and no  *)
(* lock, ledger line, retry, kill or power loss shows.                     *)
THEOREM EngineKeepsPromise == HostLedger # "durable" => (Spec => KeepsPromise)
<1> SUFFICES ASSUME HostLedger # "durable" PROVE Spec => KeepsPromise
  OBVIOUS
<1>1. Spec => [](Inv /\ TruthInv)
  BY SpecTruth DEF StoresFollowFiles
<1>2. Inv /\ TruthInv /\ (Inv /\ TruthInv)' /\ Inv /\ KeyInv /\ [Next]_vars
        => [Promise!Next]_(Promise!vars)
  BY NextPromise
<1>3. Init => Promise!Init
  BY InitPromise
<1>. QED BY <1>1, <1>2, <1>3, SpecKey, PTL DEF Spec, KeepsPromise, Promise!Spec

=============================================================================

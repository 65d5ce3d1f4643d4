------------------------------ MODULE InputProofs ------------------------------
(***************************************************************************)
(* Proofs about NativeInput, for any set of backends and faults and any    *)
(* bound on counts, drag steps and changes of the policy.                  *)
(*                                                                         *)
(* The invariant says, for the unit under way, that whatever was pressed   *)
(* and not yet released is owed by the strokes still to be posted (Owed),  *)
(* in a stroke that no failure can keep from coming or else lost with it;  *)
(* that what was posted late belongs to one unit; and that where every     *)
(* failure ends an action nothing was lost, and the events posted are      *)
(* those before the current place (CountInv).                              *)
(***************************************************************************)
EXTENDS NativeInput, FiniteSetTheorems, SequenceTheorems, TLAPS

-----------------------------------------------------------------------------
(* The invariant                                                           *)

Kinds == {"a", "b", "v", "ctrl", "shift", "delete", "return", "left", "wheel", "opposite wheel",
          "pointer", "clipboard", "command"}

(* Units whose keys stay down by themselves: X11 does not release those of *)
(* a text, and the unit that begins a drag is followed by the one that     *)
(* ends it.                                                                *)
Open(c) == c.kind = "drag" \/ (c.backend = "x11" /\ c.kind \in {"type_text", "scroll"})

(* The release of k follows in the stroke, behind event j; or in a later   *)
(* stroke, where no failure ends the action before.                        *)
ReleasedWithin(stroke, j, k) == \E l \in 1..Len(stroke) : l > j /\ stroke[l] = Up(k)
SoftFrom(c, strokes, s) ==
  \A q \in 1..Len(strokes) : q >= s => \A l \in 1..Len(strokes[q]) : ~Strict(c, strokes[q][l])
ReleasedBehind(strokes, s, k) ==
  \E q \in 1..Len(strokes) : q > s /\ ReleasedWithin(strokes[q], 0, k)

(* Whatever is pressed is released.                                        *)
Balanced(c, strokes) ==
  \A s \in 1..Len(strokes) : \A j \in 1..Len(strokes[s]) : \A k \in Kinds :
    strokes[s][j] = Down(k) =>
      \/ ReleasedWithin(strokes[s], j, k)
      \/ ReleasedBehind(strokes, s, k) /\ SoftFrom(c, strokes, s)

(* The release of k is still to be posted, and will be or is lost.         *)
Owed(c, strokes, k) ==
  /\ strokes # <<>>
  /\ \/ ReleasedWithin(strokes[1], 0, k)
     \/ ReleasedBehind(strokes, 1, k) /\ SoftFrom(c, strokes, 1)

Strokes == {s \in Seq(Seq(Event)) : \A i \in 1..Len(s) : s[i] # <<>>}
Good(c, unit) == unit \in Strokes /\ unit # <<>> /\ (Open(c) \/ Balanced(c, unit))

RestInv ==
  /\ rest \in Strokes
  /\ stage = "events" =>
       /\ Open(call) \/ Balanced(call, rest)
       /\ call.kind \in {"drag", "command"} => rest = Units(call)[at]

NoneInv ==
  /\ stage \in {"idle", "checks"} => at = 1
  /\ (stage \in {"idle", "checks"} \/ (stage = "unit" /\ at = 1)
       \/ (stage = "events" /\ call.kind = "drag" /\ at = 1))
       => posted = 0 /\ down = {} /\ late = {} /\ lost = {}
  /\ stage = "done" /\ outcome = "none" => posted = 0

LostInv ==
  (\A e \in Event : Strict(call, e)) =>
    /\ stage # "done" /\ ~broken => lost = {}
    /\ stage = "done" /\ outcome = "ok" => lost = {}

LateInv ==
  /\ late # {} => interrupted
  /\ \A i, j \in late \ Release(call) : i = j
  /\ stage = "events" => \A i \in late \ Release(call) : i = at \/ at \in Release(call)

DownInv ==
  /\ ~Open(call) => \A k \in down : Up(k) \in lost \/ (stage = "events" /\ Owed(call, rest, k))
  /\ call.kind = "drag" =>
       /\ down \subseteq {"left"}
       /\ stage = "done" => down = {} \/ Up("left") \in lost

InputInv ==
  TypeOK /\ call \in Calls /\ RestInv /\ NoneInv /\ LostInv /\ LateInv /\ DownInv

(* The events of the action before event l of stroke s of unit i.          *)
Before(c, i, s, l) ==
  {x \in Places(c) : x[1] < i \/ (x[1] = i /\ (x[2] < s \/ (x[2] = s /\ x[3] < l)))}

(* There are n of them.                                                    *)
Upto(c, n, i, s, l) ==
  IsFiniteSet(Before(c, i, s, l)) /\ n = Cardinality(Before(c, i, s, l))

(* What is left of a unit at event l of stroke s.                          *)
Remains(r, unit, s, l) ==
  /\ Len(r) = Len(unit) - s + 1
  /\ Len(r[1]) = Len(unit[s]) - l + 1
  /\ \A q \in 2..Len(r) : r[q] = unit[s + q - 1]

CountInv ==
  (\A e \in Event : Strict(call, e)) =>
    /\ stage = "unit" /\ ~broken => Upto(call, posted, at, 1, 1)
    /\ stage = "events" /\ ~broken =>
         \E s \in 1..Len(Units(call)[at]) : \E l \in 1..Len(Units(call)[at][s]) :
           Remains(rest, Units(call)[at], s, l) /\ Upto(call, posted, at, s, l)
    /\ stage = "done" /\ outcome = "ok" => Upto(call, posted, LastUnit(call) + 1, 1, 1)

-----------------------------------------------------------------------------
(* Sequences                                                               *)

(* A sequence between two sequences of length one.                         *)
LEMMA Between ==
  ASSUME NEW S, NEW a \in Seq(S), NEW t \in Seq(S), NEW b \in Seq(S), Len(a) = 1, Len(b) = 1,
         NEW n \in Nat, Len(t) = n
  PROVE  /\ Len((a \o t) \o b) = n + 2
         /\ ((a \o t) \o b)[1] = a[1]
         /\ ((a \o t) \o b)[n + 2] = b[1]
         /\ \A i \in 2..n + 1 : ((a \o t) \o b)[i] = t[i - 1]
<1>1. PICK c : c = a \o t
  OBVIOUS
<1>2. PICK d : d = c \o b
  OBVIOUS
<1>3. /\ c \in Seq(S) /\ Len(c) = Len(a) + Len(t)
      /\ \A i \in 1..Len(a) + Len(t) : c[i] = IF i <= Len(a) THEN a[i] ELSE t[i - Len(a)]
  BY <1>1, ConcatProperties
<1>4. /\ d \in Seq(S) /\ Len(d) = Len(c) + Len(b)
      /\ \A i \in 1..Len(c) + Len(b) : d[i] = IF i <= Len(c) THEN c[i] ELSE b[i - Len(c)]
  <2>1. c \in Seq(S)
    BY <1>3
  <2> QED
    BY <1>2, <2>1, ConcatProperties
<1>5. Len(c) = n + 1 /\ c[1] = a[1] /\ \A i \in 2..n + 1 : c[i] = t[i - 1]
  BY <1>3
<1>6. /\ Len(d) = n + 2 /\ \A i \in 1..n + 1 : d[i] = c[i]
      /\ d[n + 2] = b[(n + 2) - (n + 1)]
  BY <1>4, <1>5
<1>7. (n + 2) - (n + 1) = 1
  OBVIOUS
<1> QED
  BY <1>1, <1>2, <1>5, <1>6, <1>7

(* The same unit n times.                                                  *)
LEMMA Repeated ==
  ASSUME NEW n, n \in Nat, NEW u, NEW w, w = Times(n, u)
  PROVE  Len(w) = n /\ \A i \in 1..n : w[i] = u
BY DEF Times

(* The same unit n times, with a first and a last one.                     *)
Frame(x, t, y) == <<x>> \o t \o <<y>>

LEMMA Framed ==
  ASSUME NEW n \in Nat, NEW u, NEW x, NEW y
  PROVE  Frame(x, Times(n, u), y) =
           [i \in 1..n + 2 |-> IF i = 1 THEN x ELSE IF i = n + 2 THEN y ELSE u]
<1> PICK w : w = Frame(x, Times(n, u), y)
  OBVIOUS
<1> DEFINE S == {u, x, y}
           a == <<x>>
           b == <<y>>
<1>1. a \in Seq(S) /\ b \in Seq(S) /\ Len(a) = 1 /\ Len(b) = 1 /\ a[1] = x /\ b[1] = y
  OBVIOUS
<1>2. PICK t \in Seq(S) : t = Times(n, u) /\ Len(t) = n /\ \A i \in 1..n : t[i] = u
  <2>1. /\ Times(n, u) \in Seq(S) /\ Len(Times(n, u)) = n
        /\ \A i \in 1..n : Times(n, u)[i] = u
    BY DEF Times
  <2> QED
    BY <2>1
<1>3. w = (a \o t) \o b
  BY <1>2 DEF Frame
<1> HIDE DEF S, a, b
<1>4. /\ Len(w) = n + 2 /\ w[1] = x /\ w[n + 2] = y
      /\ \A i \in 2..n + 1 : w[i] = u
  <2>1. /\ Len(w) = n + 2 /\ w[1] = a[1] /\ w[n + 2] = b[1]
        /\ \A i \in 2..n + 1 : w[i] = t[i - 1]
    BY <1>1, <1>2, <1>3, Between
  <2> QED
    BY <1>1, <1>2, <2>1
<1>5. w \in Seq(S)
  BY <1>1, <1>2, <1>3, ConcatProperties
<1>6. \A i \in 1..n + 2 : w[i] = IF i = 1 THEN x ELSE IF i = n + 2 THEN y ELSE u
  <2>1. \A i \in 1..n + 2 : i = 1 \/ i = n + 2 \/ i \in 2..n + 1
    OBVIOUS
  <2> QED
    BY <1>4, <2>1
<1> QED
  BY <1>4, <1>5, <1>6

(* The same unit n times, with nothing around it.                          *)
LEMMA Bare ==
  ASSUME NEW n, n \in Nat, NEW u, NEW w, w = <<>> \o Times(n, u) \o <<>>
  PROVE  Len(w) = n /\ \A i \in 1..n : w[i] = u
<1>1. Times(n, u) \in Seq({u})
  BY DEF Times
<1>2. PICK t \in Seq({u}) : t = Times(n, u)
  BY <1>1
<1>3. <<>> \o t = t /\ t \o <<>> = t
  BY ConcatEmptySeq
<1>4. w = t
  BY <1>2, <1>3
<1> QED
  BY <1>2, <1>4, Repeated

(* Two strokes.                                                            *)
LEMMA Pairs ==
  ASSUME NEW x, NEW y
  PROVE  <<x>> \o <<y>> = <<x, y>> /\ Append(<<x>>, y) = <<x, y>>
<1> DEFINE S == {x, y}
           s == <<x>>
           t == <<y>>
           u == <<x, y>>
<1>1. /\ s \in Seq(S) /\ t \in Seq(S) /\ u \in Seq(S) /\ Len(s) = 1 /\ Len(t) = 1
      /\ Len(u) = 2 /\ s[1] = x /\ t[1] = y /\ u[1] = x /\ u[2] = y /\ y \in S
  OBVIOUS
<1> HIDE DEF S, s, t, u
<1>2. s \o t = u
  <2>1. PICK v : v = s \o t
    OBVIOUS
  <2>2. /\ v \in Seq(S) /\ Len(v) = Len(s) + Len(t)
        /\ \A i \in 1..Len(s) + Len(t) : v[i] = IF i <= Len(s) THEN s[i] ELSE t[i - Len(s)]
    BY <1>1, <2>1, ConcatProperties
  <2>3. Len(v) = 2 /\ v[1] = x /\ v[2] = y
    BY <1>1, <2>2
  <2>4. \A i \in 1..Len(v) : v[i] = u[i]
    BY <1>1, <2>3
  <2> QED
    BY <1>1, <2>1, <2>2, <2>3, <2>4, SeqEqual
<1>3. Append(s, y) = u
  <2>1. PICK v : v = Append(s, y)
    OBVIOUS
  <2>2. /\ v \in Seq(S) /\ Len(v) = 2 /\ v[1] = x /\ v[2] = y
    <3>1. y \in S /\ s \in Seq(S)
      BY <1>1
    <3>2. /\ Append(s, y) \in Seq(S) /\ Len(Append(s, y)) = Len(s) + 1
          /\ Append(s, y)[Len(s) + 1] = y /\ \A i \in 1..Len(s) : Append(s, y)[i] = s[i]
      BY <3>1, AppendProperties
    <3> QED
      BY <1>1, <2>1, <3>2
  <2>3. \A i \in 1..Len(v) : v[i] = u[i]
    BY <1>1, <2>2
  <2> QED
    BY <1>1, <2>1, <2>2, <2>3, SeqEqual
<1> QED
  BY <1>2, <1>3 DEF s, t, u

-----------------------------------------------------------------------------
(* The units                                                               *)

(* Two keys pressed one after the other and released in opposite order.    *)
Quad(m, k) == <<Down(m), Down(k), Up(k), Up(m)>>

(* A stroke that releases what it presses.                                 *)
Whole(stroke) ==
  /\ stroke \in Seq(Event) /\ stroke # <<>>
  /\ \A j \in 1..Len(stroke) : \A k \in Kinds :
       stroke[j] = Down(k) => ReleasedWithin(stroke, j, k)

LEMMA Events == Event = {"down", "up", "tick"} \X Kinds
<1>1. \A S, T : {<<s, t>> : s \in S, t \in T} = S \X T
  OBVIOUS
<1>2. PICK T : T = {"down", "up", "tick"}
  OBVIOUS
<1>3. Event = {<<t, k>> : t \in T, k \in Kinds}
  BY <1>2 DEF Event, Kinds
<1> QED
  BY <1>1, <1>2, <1>3

LEMMA EventsAre ==
  ASSUME NEW k \in Kinds
  PROVE  Down(k) \in Event /\ Up(k) \in Event /\ Tick(k) \in Event
BY Events DEF Down, Up, Tick

(* An event is a pair, which tells presses, releases and the rest apart.   *)
LEMMA EventsDiffer ==
  ASSUME NEW k \in Kinds, NEW l \in Kinds
  PROVE  /\ Down(k) # Up(l) /\ Down(k) # Tick(l) /\ Up(k) # Tick(l)
         /\ Down(k) = Down(l) <=> k = l
         /\ Up(k) = Up(l) <=> k = l
BY DEF Down, Up, Tick

LEMMA WholeStrokes ==
  ASSUME NEW m \in Kinds, NEW k \in Kinds
  PROVE  /\ Whole(Stroke(k))
         /\ Whole(Quad(m, k))
         /\ Whole(<<Tick(k)>>)
         /\ Whole(<<Tick(m), Down(k), Up(k)>>)
<1>1. /\ \A l \in Kinds : Down(l) \in Event /\ Up(l) \in Event /\ Tick(l) \in Event
      /\ \A l, n \in Kinds : /\ Down(l) # Up(n) /\ Down(l) # Tick(n)
                             /\ Down(l) = Down(n) <=> l = n
  BY EventsAre, EventsDiffer
<1>2. Whole(Stroke(k))
  BY <1>1 DEF Whole, Stroke, ReleasedWithin
<1>3. Whole(Quad(m, k))
  <2> DEFINE q == Quad(m, k)
  <2>1. /\ q \in Seq(Event) /\ Len(q) = 4
        /\ q[1] = Down(m) /\ q[2] = Down(k) /\ q[3] = Up(k) /\ q[4] = Up(m)
    BY <1>1 DEF Quad
  <2> HIDE DEF q
  <2>2. ASSUME NEW j \in 1..Len(q), NEW l \in Kinds, q[j] = Down(l)
        PROVE  ReleasedWithin(q, j, l)
    <3>1. (j = 1 /\ l = m) \/ (j = 2 /\ l = k)
      BY <1>1, <2>1, <2>2
    <3>2. CASE j = 1 /\ l = m
      BY <2>1, <3>2 DEF ReleasedWithin
    <3>3. CASE j = 2 /\ l = k
      BY <2>1, <3>3 DEF ReleasedWithin
    <3> QED
      BY <3>1, <3>2, <3>3
  <2> QED
    BY <2>1, <2>2 DEF Whole, q
<1>4. Whole(<<Tick(k)>>)
  BY <1>1 DEF Whole
<1>5. Whole(<<Tick(m), Down(k), Up(k)>>)
  <2> DEFINE q == <<Tick(m), Down(k), Up(k)>>
  <2>1. /\ q \in Seq(Event) /\ Len(q) = 3
        /\ q[1] = Tick(m) /\ q[2] = Down(k) /\ q[3] = Up(k)
    BY <1>1
  <2> HIDE DEF q
  <2>2. ASSUME NEW j \in 1..Len(q), NEW l \in Kinds, q[j] = Down(l)
        PROVE  ReleasedWithin(q, j, l)
    <3>1. j = 2 /\ l = k
      BY <1>1, <2>1, <2>2
    <3> QED
      BY <2>1, <3>1 DEF ReleasedWithin
  <2> QED
    BY <2>1, <2>2 DEF Whole, q
<1> QED
  BY <1>2, <1>3, <1>4, <1>5

(* Units of one or two whole strokes.                                      *)
LEMMA WholeUnits ==
  ASSUME NEW c, NEW s, NEW t, Whole(s), Whole(t)
  PROVE  Good(c, <<s>>) /\ Good(c, <<s, t>>)
<1>1. s \in Seq(Event) /\ t \in Seq(Event) /\ s # <<>> /\ t # <<>>
  BY DEF Whole
<1>2. ASSUME NEW u \in Seq(Seq(Event)), u # <<>>, \A i \in 1..Len(u) : u[i] \in {s, t}
      PROVE  Good(c, u)
  <2>1. u \in Strokes
    BY <1>1, <1>2 DEF Strokes
  <2>2. \A i \in 1..Len(u) : \A j \in 1..Len(u[i]) : \A k \in Kinds :
           u[i][j] = Down(k) => ReleasedWithin(u[i], j, k)
    <3> SUFFICES ASSUME NEW i \in 1..Len(u), NEW j \in 1..Len(u[i]), NEW k \in Kinds,
                        u[i][j] = Down(k)
                 PROVE  ReleasedWithin(u[i], j, k)
      OBVIOUS
    <3>1. CASE u[i] = s
      BY <3>1 DEF Whole
    <3>2. CASE u[i] = t
      BY <3>2 DEF Whole
    <3> QED
      BY <1>2, <3>1, <3>2
  <2> QED
    BY <1>2, <2>1, <2>2 DEF Good, Balanced
<1>3. /\ <<s>> \in Seq(Seq(Event)) /\ <<s>> # <<>> /\ \A i \in 1..Len(<<s>>) : <<s>>[i] \in {s, t}
      /\ <<s, t>> \in Seq(Seq(Event)) /\ <<s, t>> # <<>>
      /\ \A i \in 1..Len(<<s, t>>) : <<s, t>>[i] \in {s, t}
  BY <1>1
<1> QED
  BY <1>2, <1>3

(* What some of the units look like.                                       *)
LEMMA ClearIs ==
  ASSUME NEW b \in {"mac", "windows", "x11", "portal"}
  PROVE  Clear(b) = CASE b = "mac" -> <<Stroke("a"), Stroke("delete")>>
                      [] b = "windows" -> <<Quad("ctrl", "a")>>
                      [] OTHER -> <<Quad("ctrl", "a"), Stroke("delete")>>
<1>1. ASSUME NEW x, NEW y, NEW s, s = <<x>> PROVE Append(s, y) = <<x, y>>
  BY <1>1, Pairs
<1>2. CASE b = "mac"
  BY <1>2 DEF Clear
<1>3. CASE b = "windows"
  BY <1>3 DEF Clear, Quad
<1>4. CASE b \in {"x11", "portal"}
  <2>1. Chord(b, "ctrl", "a") = <<Quad("ctrl", "a")>>
    BY <1>4 DEF Chord, Quad
  <2>2. Clear(b) = Append(Chord(b, "ctrl", "a"), Stroke("delete"))
    BY <1>4 DEF Clear
  <2> QED
    BY <1>1, <1>4, <2>1, <2>2
<1> QED
  BY <1>2, <1>3, <1>4

LEMMA PasteIs ==
  ASSUME NEW b \in {"mac", "windows", "x11", "portal"}
  PROVE  Paste(b) = <<<<Tick("clipboard")>>,
                      IF b = "mac" THEN Stroke("v") ELSE Quad("ctrl", "v")>>
<1>1. ASSUME NEW x, NEW y, NEW s, NEW t, s = <<x>>, t = <<y>> PROVE s \o t = <<x, y>>
  BY <1>1, Pairs
<1>2. PICK t : t = IF b = "windows" THEN <<<<Down("ctrl"), Down("v"), Up("v"), Up("ctrl")>>>>
                   ELSE Chord(b, "ctrl", "v")
  OBVIOUS
<1>3. t = <<IF b = "mac" THEN Stroke("v") ELSE Quad("ctrl", "v")>>
  BY <1>2 DEF Chord, Quad
<1>4. PICK s : s = <<<<Tick("clipboard")>>>>
  OBVIOUS
<1>5. Paste(b) = s \o t
  BY <1>2, <1>4 DEF Paste
<1> QED
  BY <1>1, <1>3, <1>4, <1>5

(* The chord of Windows goes on whatever fails, and releases the modifier. *)
LEMMA ChordIsGood ==
  ASSUME NEW c, c.backend = "windows", c.kind = "hotkey"
  PROVE  Good(c, Chord("windows", "ctrl", "a"))
<1> DEFINE p == <<Down("ctrl")>>
           q == <<Down("a"), Up("a")>>
           r == <<Up("ctrl")>>
<1>1. "ctrl" \in Kinds /\ "a" \in Kinds /\ "clipboard" \in Kinds /\ "command" \in Kinds
  BY DEF Kinds
<1>2. PICK u : u = Chord("windows", "ctrl", "a")
  OBVIOUS
<1>3. /\ u = <<p, q, r>>
      /\ p \in Seq(Event) /\ Len(p) = 1 /\ p[1] = Down("ctrl") /\ p # <<>>
      /\ q \in Seq(Event) /\ Len(q) = 2 /\ q[1] = Down("a") /\ q[2] = Up("a") /\ q # <<>>
      /\ r \in Seq(Event) /\ Len(r) = 1 /\ r[1] = Up("ctrl") /\ r # <<>>
  BY <1>1, <1>2, EventsAre DEF Chord, Stroke
<1> HIDE DEF p, q, r
<1>4. /\ u \in Seq(Seq(Event)) /\ u # <<>> /\ Len(u) = 3
      /\ u[1] = p /\ u[2] = q /\ u[3] = r
  BY <1>3
<1>5. \A e \in {Down("ctrl"), Down("a"), Up("a"), Up("ctrl")} : ~Strict(c, e)
  BY <1>1, EventsDiffer DEF Strict, Pointer
<1>6. SoftFrom(c, u, 1)
  BY <1>3, <1>5, <1>4 DEF SoftFrom
<1>7. ASSUME NEW s \in 1..3, NEW j \in 1..Len(u[s]), NEW k \in Kinds, u[s][j] = Down(k)
      PROVE  \/ ReleasedWithin(u[s], j, k)
             \/ ReleasedBehind(u, s, k) /\ SoftFrom(c, u, s)
  <2>1. (s = 1 /\ k = "ctrl") \/ (s = 2 /\ j = 1 /\ k = "a")
    BY <1>1, <1>3, <1>7, <1>4, EventsDiffer
  <2>2. CASE s = 1 /\ k = "ctrl"
    <3>1. ReleasedWithin(u[3], 0, k)
      BY <1>3, <1>4, <2>2 DEF ReleasedWithin
    <3> QED
      BY <1>6, <1>4, <2>2, <3>1 DEF ReleasedBehind
  <2>3. CASE s = 2 /\ j = 1 /\ k = "a"
    <3>1. ReleasedWithin(q, 1, "a")
      BY <1>3 DEF ReleasedWithin
    <3> QED
      BY <1>4, <2>3, <3>1
  <2> QED
    BY <2>1, <2>2, <2>3
<1>8. Balanced(c, u)
  BY <1>7, <1>4 DEF Balanced
<1>9. u \in Strokes /\ u # <<>>
  BY <1>3, <1>4 DEF Strokes
<1> QED
  BY <1>2, <1>8, <1>9 DEF Good

(* What is given to a call.                                                *)
LEMMA CallsAre ==
  ASSUME NEW c \in Calls
  PROVE  /\ c.backend \in {"mac", "windows", "x11", "portal"}
         /\ c.count \in Nat /\ 1 <= c.count /\ c.count <= MaxCount
         /\ c.kind \in {"click", "move", "drag", "press", "type_text", "hotkey", "paste",
                        "scroll", "command"}
         /\ c.more \in BOOLEAN /\ c.aimed \in BOOLEAN /\ c.verified \in BOOLEAN
         /\ c.kind = "drag" => c.backend = "mac" /\ ~c.aimed
         /\ MaxCount \in Nat /\ DragSteps \in Nat /\ 1 <= DragSteps /\ 1 <= MaxCount
<1>1. /\ c.backend \in Backends /\ c.count \in 1..MaxCount /\ c.kind \in Input \union {"command"}
      /\ c.more \in BOOLEAN /\ c.aimed \in BOOLEAN /\ c.verified \in BOOLEAN
      /\ c.kind = "drag" => c.backend = "mac"
      /\ c.aimed => c.kind \in Input \ Pointer
  BY DEF Calls
<1>2. /\ c.kind \in {"click", "move", "drag", "press", "type_text", "hotkey", "paste",
                     "scroll", "command"}
      /\ c.kind = "drag" => c.backend = "mac" /\ ~c.aimed
  BY <1>1 DEF Input, Pointer, Keyboard
<1>3. c.count \in Nat /\ 1 <= c.count /\ c.count <= MaxCount
  BY <1>1, InputAssumption
<1>4. MaxCount \in Nat /\ DragSteps \in Nat /\ 1 <= DragSteps /\ 1 <= MaxCount
  BY InputAssumption
<1>5. c.backend \in {"mac", "windows", "x11", "portal"}
  BY <1>1, InputAssumption
<1> QED
  BY <1>1, <1>2, <1>3, <1>4, <1>5

(* Every unit releases what it presses, or is one of the exceptions.       *)
LEMMA UnitsAreGood ==
  ASSUME NEW c \in Calls, NEW b, b = c.backend
  PROVE  /\ Good(c, Click(b)) /\ Good(c, Paste(b))
         /\ \A k \in Kinds : Good(c, <<<<Tick(k)>>>>) /\ Good(c, <<Stroke(k)>>)
         /\ c.kind = "scroll" => Good(c, Scroll(b))
         /\ c.kind = "hotkey" => Good(c, Chord(b, "ctrl", "a"))
         /\ c.kind = "type_text" => Good(c, Clear(b)) /\ Good(c, Chunk(b))
         /\ c.kind = "drag" => Good(c, <<<<Down("left")>>>>) /\ Good(c, <<<<Up("left")>>>>)
<1>1. {"a", "b", "v", "ctrl", "shift", "delete", "return", "left", "wheel", "opposite wheel",
       "pointer", "clipboard", "command"} \subseteq Kinds
  BY DEF Kinds
<1>2. b \in {"mac", "windows", "x11", "portal"}
  BY CallsAre
<1>3. ASSUME NEW k \in Kinds
      PROVE  /\ Whole(Stroke(k)) /\ Whole(Quad("ctrl", k)) /\ Whole(<<Tick(k)>>)
             /\ Whole(<<Tick("pointer"), Down(k), Up(k)>>)
  BY <1>1, WholeStrokes
<1>4. \A s, t : Whole(s) /\ Whole(t) => Good(c, <<s>>) /\ Good(c, <<s, t>>)
  BY WholeUnits
<1>5. \A k \in Kinds : Good(c, <<<<Tick(k)>>>>) /\ Good(c, <<Stroke(k)>>)
  BY <1>3, <1>4
<1>6. Good(c, Click(b))
  <2>1. Click(b) \in {<<Stroke("left")>>, <<<<Tick("pointer"), Down("left"), Up("left")>>>>,
                      <<<<Tick("pointer")>>, Stroke("left")>>}
    BY <1>2 DEF Click
  <2> QED
    BY <1>1, <1>3, <1>4, <2>1
<1>7. Good(c, Paste(b))
  <2>1. Paste(b) \in {<<<<Tick("clipboard")>>, Stroke("v")>>,
                      <<<<Tick("clipboard")>>, Quad("ctrl", "v")>>}
    BY <1>2, PasteIs
  <2> QED
    BY <1>1, <1>3, <1>4, <2>1
<1>8. ASSUME NEW s \in Seq(Event), s # <<>>, Open(c) PROVE Good(c, <<s>>)
  BY <1>8 DEF Good, Strokes
<1>9. ASSUME c.kind = "scroll" PROVE Good(c, Scroll(b))
  <2>1. CASE b = "x11"
    <3>1. Open(c)
      BY <1>9, <2>1 DEF Open
    <3>2. PICK s : s = <<Down("wheel"), Up("opposite wheel")>>
      OBVIOUS
    <3>3. s \in Seq(Event) /\ s # <<>>
      <4>1. Down("wheel") \in Event /\ Up("opposite wheel") \in Event
        BY <1>1, EventsAre
      <4>2. \A p, q \in Event : <<p, q>> \in Seq(Event) /\ <<p, q>> # <<>>
        OBVIOUS
      <4> QED
        BY <3>2, <4>1, <4>2
    <3>4. Scroll(b) = <<s>>
      BY <2>1, <3>2 DEF Scroll
    <3> QED
      BY <1>8, <3>1, <3>3, <3>4
  <2>2. CASE b # "x11"
    BY <1>1, <1>5, <2>2 DEF Scroll
  <2> QED
    BY <2>1, <2>2
<1>10. ASSUME c.kind = "hotkey" PROVE Good(c, Chord(b, "ctrl", "a"))
  <2>1. CASE b = "windows"
    BY <1>10, <2>1, ChordIsGood
  <2>2. CASE b # "windows"
    <3>1. Chord(b, "ctrl", "a") \in {<<Stroke("a")>>, <<Quad("ctrl", "a")>>}
      BY <1>2, <2>2 DEF Chord, Quad
    <3> QED
      BY <1>1, <1>3, <1>4, <3>1
  <2> QED
    BY <2>1, <2>2
<1>11. Good(c, Clear(b))
  <2>1. Clear(b) \in {<<Stroke("a"), Stroke("delete")>>, <<Quad("ctrl", "a")>>,
                      <<Quad("ctrl", "a"), Stroke("delete")>>}
    BY <1>2, ClearIs
  <2> QED
    BY <1>1, <1>3, <1>4, <2>1
<1>12. ASSUME c.kind = "type_text" PROVE Good(c, Chunk(b))
  <2>1. CASE b = "x11"
    <3>1. Open(c)
      BY <1>12, <2>1 DEF Open
    <3>2. PICK s : s = <<Down("a"), Down("shift"), Down("b"), Up("shift")>>
      OBVIOUS
    <3>3. s \in Seq(Event) /\ s # <<>>
      <4>1. /\ Down("a") \in Event /\ Down("shift") \in Event /\ Down("b") \in Event
            /\ Up("shift") \in Event
        BY <1>1, EventsAre
      <4>2. \A p, q, r, v \in Event : <<p, q, r, v>> \in Seq(Event) /\ <<p, q, r, v>> # <<>>
        OBVIOUS
      <4> QED
        BY <3>2, <4>1, <4>2
    <3>4. Chunk(b) = <<s>>
      BY <2>1, <3>2 DEF Chunk
    <3> QED
      BY <1>8, <3>1, <3>3, <3>4
  <2>2. CASE b # "x11"
    <3>1. Chunk(b) = <<Stroke("a"), Stroke("b")>>
      BY <2>2 DEF Chunk
    <3> QED
      BY <1>1, <1>3, <1>4, <3>1
  <2> QED
    BY <2>1, <2>2
<1>13. ASSUME c.kind = "drag"
       PROVE  Good(c, <<<<Down("left")>>>>) /\ Good(c, <<<<Up("left")>>>>)
  <2>1. \A e \in Event : <<e>> \in Seq(Event) /\ <<e>> # <<>>
    OBVIOUS
  <2>2. Down("left") \in Event /\ Up("left") \in Event
    BY <1>1, EventsAre
  <2> QED
    BY <1>8, <1>13, <2>1, <2>2 DEF Open
<1> QED
  BY <1>5, <1>6, <1>7, <1>9, <1>10, <1>11, <1>12, <1>13

(* The units of a drag.                                                    *)
DragUnits(u) ==
  /\ Len(u) = DragSteps + 2
  /\ u[1] = <<<<Down("left")>>>> /\ u[DragSteps + 2] = <<<<Up("left")>>>>
  /\ \A i \in 2..DragSteps + 1 : u[i] = <<<<Tick("pointer")>>>>

(* The units of an action: how many there are and what they press.         *)
LEMMA UnitsAre ==
  ASSUME NEW c \in Calls, NEW u, u = Units(c)
  PROVE  /\ Len(u) \in Nat /\ 1 <= Len(u) /\ Len(u) <= MaxCount + DragSteps + 2
         /\ c.kind \in {"hotkey", "paste"} => Len(u) = 1
         /\ c.kind = "command" => Len(u) = 1 /\ u[1] = <<<<Tick("command")>>>>
         /\ c.kind = "drag" => DragUnits(u)
         /\ \A i \in 1..Len(u) : Good(c, u[i])
<1> DEFINE Fine == /\ Len(u) \in Nat /\ 1 <= Len(u) /\ Len(u) <= MaxCount + DragSteps + 2
                   /\ \A i \in 1..Len(u) : Good(c, u[i])
<1>1. PICK b : b = c.backend
  OBVIOUS
<1>2. PICK n : n = c.count
  OBVIOUS
<1>3. /\ n \in Nat /\ 1 <= n /\ n <= MaxCount /\ MaxCount \in Nat /\ DragSteps \in Nat
      /\ c.more \in BOOLEAN /\ 1 <= DragSteps /\ 1 <= MaxCount
      /\ c.kind \in {"click", "move", "drag", "press", "type_text", "hotkey", "paste",
                     "scroll", "command"}
  BY <1>2, CallsAre
<1>4. "a" \in Kinds /\ "return" \in Kinds /\ "pointer" \in Kinds /\ "command" \in Kinds
  BY DEF Kinds
<1>5. ASSUME NEW x, Good(c, x), u = <<x>> PROVE Fine /\ Len(u) = 1 /\ u[1] = x
  BY <1>3, <1>5
<1>6. ASSUME NEW x, Good(c, x), u = Times(n, x) PROVE Fine
  BY <1>3, <1>6, Repeated
<1>7. ASSUME NEW m, m \in Nat, 1 <= m, m <= MaxCount + DragSteps,
             NEW x, NEW y, NEW z, Good(c, x), Good(c, y), Good(c, z),
             u = Frame(x, Times(m, y), z)
      PROVE  /\ Fine /\ Len(u) = m + 2 /\ u[1] = x /\ u[m + 2] = z
             /\ \A i \in 2..m + 1 : u[i] = y
  <2>1. /\ Len(u) = m + 2 /\ u[1] = x /\ u[m + 2] = z /\ \A i \in 2..m + 1 : u[i] = y
    <3>1. u = [i \in 1..m + 2 |-> IF i = 1 THEN x ELSE IF i = m + 2 THEN z ELSE y]
      <4>1. m \in Nat
        BY <1>7
      <4>2. Frame(x, Times(m, y), z) =
              [i \in 1..m + 2 |-> IF i = 1 THEN x ELSE IF i = m + 2 THEN z ELSE y]
        BY <4>1, Framed
      <4> QED
        BY <1>7, <4>2
    <3>2. m + 2 \in 1..m + 2 /\ m + 2 # 1
      BY <1>7
    <3> QED
      BY <1>7, <3>1, <3>2
  <2>2. \A i \in 1..m + 2 : i = 1 \/ i = m + 2 \/ i \in 2..m + 1
    BY <1>7
  <2> QED
    BY <1>3, <1>7, <2>1, <2>2
<1>8. ASSUME NEW x, Good(c, x), u = <<>> \o Times(n, x) \o <<>> PROVE Fine
  BY <1>3, <1>8, Bare
<1>9. CASE c.kind = "click"
  <2>1. Good(c, Click(b)) /\ u = Times(n, Click(b))
    BY <1>1, <1>2, <1>9, UnitsAreGood DEF Units
  <2> QED
    BY <1>6, <1>9, <2>1
<1>10. CASE c.kind = "move"
  <2>1. Good(c, <<<<Tick("pointer")>>>>) /\ u = <<<<<<Tick("pointer")>>>>>>
    BY <1>1, <1>4, <1>10, UnitsAreGood DEF Units
  <2> QED
    BY <1>5, <1>10, <2>1
<1>11. CASE c.kind = "drag"
  <2>1. PICK x, y, z : x = <<<<Down("left")>>>> /\ y = <<<<Tick("pointer")>>>>
                       /\ z = <<<<Up("left")>>>>
    OBVIOUS
  <2>2. Good(c, x) /\ Good(c, y) /\ Good(c, z)
    BY <1>1, <1>4, <1>11, <2>1, UnitsAreGood
  <2>3. u = Frame(x, Times(DragSteps, y), z)
    BY <1>11, <2>1 DEF Units, Frame
  <2>4. DragSteps \in Nat /\ 1 <= DragSteps /\ DragSteps <= MaxCount + DragSteps
    BY <1>3
  <2>5. /\ Fine /\ Len(u) = DragSteps + 2 /\ u[1] = x /\ u[DragSteps + 2] = z
        /\ \A i \in 2..DragSteps + 1 : u[i] = y
    BY <1>7, <2>2, <2>3, <2>4
  <2>6. DragUnits(u)
    BY <2>1, <2>5 DEF DragUnits
  <2> QED
    BY <1>11, <2>5, <2>6
<1>12. CASE c.kind = "scroll"
  <2>1. Good(c, Scroll(b)) /\ u = Times(n, Scroll(b))
    BY <1>1, <1>2, <1>12, UnitsAreGood DEF Units
  <2> QED
    BY <1>6, <1>12, <2>1
<1>13. CASE c.kind = "command"
  <2>1. Good(c, <<<<Tick("command")>>>>) /\ u = <<<<<<Tick("command")>>>>>>
    BY <1>1, <1>4, <1>13, UnitsAreGood DEF Units
  <2> QED
    BY <1>5, <1>13, <2>1
<1>14. CASE c.kind = "press"
  <2>1. Good(c, <<Stroke("a")>>) /\ u = Times(n, <<Stroke("a")>>)
    BY <1>1, <1>2, <1>4, <1>14, UnitsAreGood DEF Units
  <2> QED
    BY <1>6, <1>14, <2>1
<1>15. CASE c.kind = "hotkey"
  <2>1. Good(c, Chord(b, "ctrl", "a")) /\ u = <<Chord(b, "ctrl", "a")>>
    BY <1>1, <1>15, UnitsAreGood DEF Units
  <2> QED
    BY <1>5, <1>15, <2>1
<1>16. CASE c.kind = "paste"
  <2>1. Good(c, Paste(b)) /\ u = <<Paste(b)>>
    BY <1>1, <1>16, UnitsAreGood DEF Units
  <2> QED
    BY <1>5, <1>16, <2>1
<1>17. CASE c.kind = "type_text"
  <2>1. Good(c, Clear(b)) /\ Good(c, Chunk(b)) /\ Good(c, <<Stroke("return")>>)
    BY <1>1, <1>4, <1>17, UnitsAreGood
  <2>2. CASE c.more
    <3>1. u = Frame(Clear(b), Times(n, Chunk(b)), <<Stroke("return")>>)
      BY <1>1, <1>2, <1>17, <2>2 DEF Units, Frame
    <3>2. n <= MaxCount + DragSteps
      BY <1>3
    <3>3. Fine
      BY <1>3, <1>7, <2>1, <3>1, <3>2
    <3> QED
      BY <1>17, <3>3
  <2>3. CASE ~c.more
    <3>1. u = <<>> \o Times(n, Chunk(b)) \o <<>>
      BY <1>1, <1>2, <1>17, <2>3 DEF Units
    <3> QED
      BY <1>8, <1>17, <2>1, <3>1
  <2> QED
    BY <1>3, <2>2, <2>3
<1> QED
  BY <1>3, <1>9, <1>10, <1>11, <1>12, <1>13, <1>14, <1>15, <1>16, <1>17

-----------------------------------------------------------------------------
(* What is left of a unit                                                  *)

(* What is left after an event was posted.                                 *)
Shorter(r) == IF Len(Head(r)) = 1 THEN Tail(r) ELSE <<Tail(Head(r))>> \o Tail(r)

LEMMA TailIs ==
  ASSUME NEW S, NEW s \in Seq(S), s # <<>>
  PROVE  /\ Len(s) \in Nat /\ 1 <= Len(s) /\ Head(s) = s[1] /\ s[1] \in S
         /\ Tail(s) \in Seq(S) /\ Len(Tail(s)) = Len(s) - 1
         /\ \A i \in 1..Len(s) - 1 : Tail(s)[i] = s[i + 1]
<1>1. Len(s) \in Nat /\ 1 <= Len(s)
  BY EmptySeq, LenProperties
<1> QED
  BY <1>1, HeadTailProperties

(* The strokes behind the first.                                           *)
LEMMA TailOfStrokes ==
  ASSUME NEW r \in Strokes, r # <<>>, NEW s, s = Tail(r)
  PROVE  /\ s \in Strokes /\ Len(r) \in Nat /\ 1 <= Len(r) /\ Len(s) = Len(r) - 1
         /\ \A q \in 1..Len(r) - 1 : s[q] = r[q + 1]
<1>1. r \in Seq(Seq(Event)) /\ \A i \in 1..Len(r) : r[i] # <<>>
  BY DEF Strokes
<1>2. /\ Len(r) \in Nat /\ 1 <= Len(r) /\ s \in Seq(Seq(Event)) /\ Len(s) = Len(r) - 1
      /\ \A i \in 1..Len(r) - 1 : s[i] = r[i + 1]
  BY <1>1, TailIs
<1>3. \A i \in 1..Len(s) : s[i] # <<>>
  BY <1>1, <1>2
<1> QED
  BY <1>2, <1>3 DEF Strokes

(* The first stroke.                                                       *)
LEMMA FirstStroke ==
  ASSUME NEW r \in Strokes, r # <<>>
  PROVE  /\ Head(r) = r[1] /\ r[1] \in Seq(Event) /\ r[1] # <<>>
         /\ Len(r[1]) \in Nat /\ 1 <= Len(r[1])
         /\ Head(r[1]) = r[1][1] /\ r[1][1] \in Event
<1>1. r \in Seq(Seq(Event)) /\ (\A i \in 1..Len(r) : r[i] # <<>>)
  BY DEF Strokes
<1>2. Len(r) \in Nat /\ 1 <= Len(r) /\ Head(r) = r[1] /\ r[1] \in Seq(Event)
  BY <1>1, TailIs
<1>3. r[1] # <<>>
  BY <1>1, <1>2
<1>4. PICK p : p = r[1]
  OBVIOUS
<1>5. Len(p) \in Nat /\ 1 <= Len(p) /\ Head(p) = p[1] /\ p[1] \in Event
  BY <1>2, <1>3, <1>4, TailIs
<1> QED
  BY <1>2, <1>3, <1>4, <1>5

(* What is left of the first stroke and of the others.                     *)
LEMMA ShorterIs ==
  ASSUME NEW r \in Strokes, r # <<>>, NEW s, s = Shorter(r)
  PROVE  /\ s \in Strokes
         /\ Len(r[1]) = 1 => s = Tail(r)
         /\ Len(r[1]) # 1 =>
              /\ s # <<>> /\ Len(s) = Len(r) /\ Len(s[1]) = Len(r[1]) - 1
              /\ \A j \in 1..Len(r[1]) - 1 : s[1][j] = r[1][j + 1]
              /\ \A q \in 2..Len(r) : s[q] = r[q]
<1>1. /\ Head(r) = r[1] /\ r[1] \in Seq(Event) /\ r[1] # <<>>
      /\ Len(r[1]) \in Nat /\ 1 <= Len(r[1])
  BY FirstStroke
<1>2. CASE Len(r[1]) = 1
  <2>1. s = Tail(r)
    BY <1>1, <1>2 DEF Shorter
  <2> QED
    BY <1>2, <2>1, TailOfStrokes
<1>3. CASE Len(r[1]) # 1
  <2>1. PICK t : t = Tail(r)
    OBVIOUS
  <2>2. PICK p : p = r[1]
    OBVIOUS
  <2>3. PICK h : h = Tail(p)
    OBVIOUS
  <2>4. /\ t \in Strokes /\ Len(r) \in Nat /\ 1 <= Len(r) /\ Len(t) = Len(r) - 1
        /\ \A q \in 1..Len(r) - 1 : t[q] = r[q + 1]
    BY <2>1, TailOfStrokes
  <2>5. /\ h \in Seq(Event) /\ Len(h) = Len(p) - 1
        /\ \A j \in 1..Len(p) - 1 : h[j] = p[j + 1]
    BY <1>1, <2>2, <2>3, TailIs
  <2>6. h # <<>> /\ Len(p) \in Nat
    <3>1. Len(p) \in Nat /\ 1 <= Len(p) /\ Len(p) # 1
      BY <1>1, <1>3, <2>2
    <3>2. Len(h) # 0
      BY <2>5, <3>1
    <3> QED
      BY <2>5, <3>1, <3>2, EmptySeq
  <2>7. s = <<h>> \o t
    BY <1>1, <1>3, <2>1, <2>2, <2>3 DEF Shorter
  <2>8. t \in Seq(Seq(Event)) /\ \A i \in 1..Len(t) : t[i] # <<>>
    BY <2>4 DEF Strokes
  <2>9. PICK a : a = <<h>>
    OBVIOUS
  <2>10. a \in Seq(Seq(Event)) /\ Len(a) = 1 /\ a[1] = h
    BY <2>5, <2>9
  <2>11. /\ s \in Seq(Seq(Event)) /\ Len(s) = 1 + Len(t)
         /\ \A i \in 1..1 + Len(t) : s[i] = IF i <= 1 THEN a[i] ELSE t[i - 1]
    <3>1. s = a \o t
      BY <2>7, <2>9
    <3>2. /\ a \o t \in Seq(Seq(Event)) /\ Len(a \o t) = Len(a) + Len(t)
          /\ \A i \in 1..Len(a) + Len(t) :
               (a \o t)[i] = IF i <= Len(a) THEN a[i] ELSE t[i - Len(a)]
      BY <2>8, <2>10, ConcatProperties
    <3> QED
      BY <2>10, <3>1, <3>2
  <2>12. Len(s) = Len(r) /\ s[1] = h /\ \A q \in 2..Len(r) : s[q] = t[q - 1]
    BY <2>4, <2>10, <2>11
  <2>13. \A q \in 2..Len(r) : s[q] = r[q]
    BY <2>4, <2>12
  <2>14. \A i \in 1..Len(s) : s[i] # <<>>
    <3> SUFFICES ASSUME NEW i \in 1..Len(s) PROVE s[i] # <<>>
      OBVIOUS
    <3>1. CASE i = 1
      BY <2>6, <2>12, <3>1
    <3>2. CASE i # 1
      <4>1. i \in 2..Len(r) /\ i - 1 \in 1..Len(t)
        BY <2>4, <2>12, <3>2
      <4> QED
        BY <2>8, <2>12, <4>1
    <3> QED
      BY <3>1, <3>2
  <2>15. s \in Strokes /\ s # <<>>
    BY <2>4, <2>11, <2>12, <2>14 DEF Strokes
  <2>16. Len(s[1]) = Len(r[1]) - 1 /\ \A j \in 1..Len(r[1]) - 1 : s[1][j] = r[1][j + 1]
    BY <2>2, <2>5, <2>12
  <2> QED
    BY <1>3, <2>12, <2>13, <2>15, <2>16
<1> QED
  BY <1>2, <1>3

(* What is released behind the first strokes is so when one of them is     *)
(* gone.                                                                   *)
LEMMA BehindTail ==
  ASSUME NEW r \in Strokes, r # <<>>, NEW t, t = Tail(r), NEW c, NEW s \in Nat, NEW k
  PROVE  /\ ReleasedBehind(r, s + 1, k) => ReleasedBehind(t, s, k)
         /\ SoftFrom(c, r, s + 1) => SoftFrom(c, t, s)
<1>1. /\ t \in Strokes /\ Len(r) \in Nat /\ 1 <= Len(r) /\ Len(t) = Len(r) - 1
      /\ \A q \in 1..Len(r) - 1 : t[q] = r[q + 1]
  BY TailOfStrokes
<1>2. ASSUME ReleasedBehind(r, s + 1, k) PROVE ReleasedBehind(t, s, k)
  <2>1. PICK q \in 1..Len(r) : q > s + 1 /\ ReleasedWithin(r[q], 0, k)
    BY <1>2 DEF ReleasedBehind
  <2>2. PICK p \in 1..Len(t) : p = q - 1
    BY <1>1, <2>1
  <2>3. p > s /\ t[p] = r[q]
    BY <1>1, <2>1, <2>2
  <2> QED
    BY <2>1, <2>2, <2>3 DEF ReleasedBehind
<1>3. ASSUME SoftFrom(c, r, s + 1), NEW p \in 1..Len(t), p >= s, NEW l \in 1..Len(t[p])
      PROVE  ~Strict(c, t[p][l])
  <2>1. PICK q \in 1..Len(r) : q = p + 1
    BY <1>1
  <2>2. q >= s + 1 /\ t[p] = r[q]
    BY <1>1, <1>3, <2>1
  <2> QED
    BY <1>3, <2>1, <2>2 DEF SoftFrom
<1> QED
  BY <1>2, <1>3 DEF SoftFrom

(* Whatever is pressed behind the first stroke is released.                *)
LEMMA BalancedTail ==
  ASSUME NEW r \in Strokes, r # <<>>, NEW t, t = Tail(r), NEW c, Balanced(c, r)
  PROVE  Balanced(c, t)
<1>1. /\ t \in Strokes /\ Len(r) \in Nat /\ 1 <= Len(r) /\ Len(t) = Len(r) - 1
      /\ \A q \in 1..Len(r) - 1 : t[q] = r[q + 1]
  BY TailOfStrokes
<1> SUFFICES ASSUME NEW s \in 1..Len(t), NEW j \in 1..Len(t[s]), NEW k \in Kinds,
                    t[s][j] = Down(k)
             PROVE  \/ ReleasedWithin(t[s], j, k)
                    \/ ReleasedBehind(t, s, k) /\ SoftFrom(c, t, s)
  BY DEF Balanced
<1>2. s \in Nat /\ s + 1 \in 1..Len(r) /\ t[s] = r[s + 1]
  BY <1>1
<1>3. \/ ReleasedWithin(r[s + 1], j, k)
      \/ ReleasedBehind(r, s + 1, k) /\ SoftFrom(c, r, s + 1)
  BY <1>2 DEF Balanced
<1> QED
  BY <1>2, <1>3, BehindTail

(* What is owed behind the first stroke is owed when that is lost, unless  *)
(* the call ends.                                                          *)
LEMMA OwedTail ==
  ASSUME NEW r \in Strokes, r # <<>>, NEW t, t = Tail(r), NEW c, NEW k,
         ReleasedBehind(r, 1, k) /\ SoftFrom(c, r, 1)
  PROVE  Owed(c, t, k)
<1>1. /\ t \in Strokes /\ Len(r) \in Nat /\ 1 <= Len(r) /\ Len(t) = Len(r) - 1
      /\ \A q \in 1..Len(r) - 1 : t[q] = r[q + 1]
  BY TailOfStrokes
<1>2. PICK q \in 1..Len(r) : q > 1 /\ ReleasedWithin(r[q], 0, k)
  BY DEF ReleasedBehind
<1>3. PICK p \in 1..Len(t) : p = q - 1
  BY <1>1, <1>2
<1>4. t[p] = r[q] /\ t # <<>>
  BY <1>1, <1>3, EmptySeq
<1>5. SoftFrom(c, t, 1)
  <2>1. \A i \in 1..Len(t) : \A l \in 1..Len(t[i]) : ~Strict(c, t[i][l])
    <3> SUFFICES ASSUME NEW i \in 1..Len(t), NEW l \in 1..Len(t[i]) PROVE ~Strict(c, t[i][l])
      OBVIOUS
    <3>1. i + 1 \in 1..Len(r) /\ i + 1 >= 1 /\ t[i] = r[i + 1]
      BY <1>1
    <3> QED
      BY <3>1 DEF SoftFrom
  <2> QED
    BY <2>1 DEF SoftFrom
<1>6. CASE p = 1
  BY <1>2, <1>4, <1>6 DEF Owed
<1>7. CASE p # 1
  <2>1. ReleasedBehind(t, 1, k)
    <3>1. p > 1
      BY <1>1, <1>7
    <3>2. ReleasedWithin(t[p], 0, k)
      BY <1>2, <1>4
    <3> QED
      BY <3>1, <3>2 DEF ReleasedBehind
  <2> QED
    BY <1>4, <1>5, <2>1 DEF Owed
<1> QED
  BY <1>6, <1>7

(* An event that was posted was not the one that is owed.                  *)
LEMMA OwedShorter ==
  ASSUME NEW r \in Strokes, r # <<>>, NEW s, s = Shorter(r), NEW c, NEW k,
         \/ \E l \in 1..Len(r[1]) : l > 1 /\ r[1][l] = Up(k)
         \/ ReleasedBehind(r, 1, k) /\ SoftFrom(c, r, 1)
  PROVE  Owed(c, s, k)
<1>1. /\ s \in Strokes
      /\ Len(r[1]) = 1 => s = Tail(r)
      /\ Len(r[1]) # 1 =>
           /\ s # <<>> /\ Len(s) = Len(r) /\ Len(s[1]) = Len(r[1]) - 1
           /\ \A j \in 1..Len(r[1]) - 1 : s[1][j] = r[1][j + 1]
           /\ \A q \in 2..Len(r) : s[q] = r[q]
  BY ShorterIs
<1>2. Len(r[1]) \in Nat /\ 1 <= Len(r[1]) /\ r[1] \in Seq(Event)
  BY FirstStroke
<1>3. ASSUME NEW l \in 1..Len(r[1]), l > 1, r[1][l] = Up(k) PROVE Owed(c, s, k)
  <2>1. Len(r[1]) # 1
    BY <1>2, <1>3
  <2>2. PICK j \in 1..Len(r[1]) - 1 : j = l - 1
    BY <1>2, <1>3
  <2>3. j \in 1..Len(s[1]) /\ j > 0 /\ s[1][j] = Up(k)
    BY <1>1, <1>2, <1>3, <2>1, <2>2
  <2> QED
    BY <1>1, <2>1, <2>3 DEF Owed, ReleasedWithin
<1>4. CASE ReleasedBehind(r, 1, k) /\ SoftFrom(c, r, 1)
  <2>1. CASE Len(r[1]) = 1
    BY <1>1, <1>4, <2>1, OwedTail
  <2>2. CASE Len(r[1]) # 1
    <3>1. Len(r) \in Nat /\ 1 <= Len(r)
      BY TailOfStrokes
    <3>2. ReleasedBehind(s, 1, k)
      BY <1>1, <1>4, <2>2, <3>1 DEF ReleasedBehind
    <3>3. ASSUME NEW q \in 1..Len(s), NEW l \in 1..Len(s[q]) PROVE ~Strict(c, s[q][l])
      <4>1. CASE q = 1
        <5>1. l \in 1..Len(r[1]) - 1 /\ s[1][l] = r[1][l + 1] /\ l + 1 \in 1..Len(r[1])
          BY <1>1, <1>2, <2>2, <3>3, <4>1
        <5> QED
          BY <1>4, <3>1, <4>1, <5>1 DEF SoftFrom
      <4>2. CASE q # 1
        <5>1. q \in 1..Len(r) /\ q >= 1 /\ s[q] = r[q]
          BY <1>1, <2>2, <3>1, <3>3, <4>2
        <5> QED
          BY <1>4, <3>3, <5>1 DEF SoftFrom
      <4> QED
        BY <4>1, <4>2
    <3>4. SoftFrom(c, s, 1)
      BY <3>3 DEF SoftFrom
    <3> QED
      BY <1>1, <2>2, <3>2, <3>4 DEF Owed
  <2> QED
    BY <2>1, <2>2
<1> QED
  BY <1>3, <1>4

(* What is pressed is owed.                                                *)
LEMMA PressedIsOwed ==
  ASSUME NEW r \in Strokes, r # <<>>, NEW s, s = Shorter(r), NEW c, Balanced(c, r),
         NEW k \in Kinds, r[1][1] = Down(k)
  PROVE  /\ Owed(c, s, k)
         /\ Strict(c, r[1][1]) => \E l \in 1..Len(r[1]) : r[1][l] = Up(k)
<1>1. /\ Len(r) \in Nat /\ 1 <= Len(r) /\ Len(r[1]) \in Nat /\ 1 <= Len(r[1])
  BY FirstStroke, TailOfStrokes
<1>2. ReleasedWithin(r[1], 1, k) \/ (ReleasedBehind(r, 1, k) /\ SoftFrom(c, r, 1))
  BY <1>1 DEF Balanced
<1>3. ReleasedWithin(r[1], 1, k) => \E l \in 1..Len(r[1]) : l > 1 /\ r[1][l] = Up(k)
  BY DEF ReleasedWithin
<1>4. SoftFrom(c, r, 1) => ~Strict(c, r[1][1])
  BY <1>1 DEF SoftFrom
<1> QED
  BY <1>2, <1>3, <1>4, OwedShorter

(* What is owed is lost with the stroke, or owed by the next.              *)
LEMMA OwedOrLost ==
  ASSUME NEW r \in Strokes, r # <<>>, NEW c, NEW k, Owed(c, r, k)
  PROVE  \/ \E l \in 1..Len(r[1]) : r[1][l] = Up(k)
         \/ ~Strict(c, r[1][1]) /\ Owed(c, Tail(r), k)
<1>1. /\ Len(r) \in Nat /\ 1 <= Len(r) /\ Len(r[1]) \in Nat /\ 1 <= Len(r[1])
  BY FirstStroke, TailOfStrokes
<1>2. CASE ReleasedWithin(r[1], 0, k)
  BY <1>2 DEF ReleasedWithin
<1>3. CASE ReleasedBehind(r, 1, k) /\ SoftFrom(c, r, 1)
  <2>1. ~Strict(c, r[1][1])
    BY <1>1, <1>3 DEF SoftFrom
  <2> QED
    BY <1>3, <2>1, OwedTail
<1> QED
  BY <1>2, <1>3 DEF Owed

(* What is owed and not released by this event is still owed.              *)
LEMMA OwedStays ==
  ASSUME NEW r \in Strokes, r # <<>>, NEW s, s = Shorter(r), NEW c, NEW k, Owed(c, r, k),
         r[1][1] # Up(k)
  PROVE  Owed(c, s, k)
<1>1. Len(r[1]) \in Nat /\ 1 <= Len(r[1])
  BY FirstStroke
<1>2. ReleasedWithin(r[1], 0, k) => \E l \in 1..Len(r[1]) : l > 1 /\ r[1][l] = Up(k)
  <2> SUFFICES ASSUME NEW l \in 1..Len(r[1]), r[1][l] = Up(k)
               PROVE  l > 1
    BY DEF ReleasedWithin
  <2> QED
    BY <1>1
<1> QED
  BY <1>2, OwedShorter DEF Owed

(* Posting an event leaves a balanced rest.                                *)
LEMMA BalancedShorter ==
  ASSUME NEW r \in Strokes, r # <<>>, NEW s, s = Shorter(r), NEW c, Balanced(c, r)
  PROVE  Balanced(c, s)
<1>1. /\ s \in Strokes
      /\ Len(r[1]) = 1 => s = Tail(r)
      /\ Len(r[1]) # 1 =>
           /\ s # <<>> /\ Len(s) = Len(r) /\ Len(s[1]) = Len(r[1]) - 1
           /\ \A j \in 1..Len(r[1]) - 1 : s[1][j] = r[1][j + 1]
           /\ \A q \in 2..Len(r) : s[q] = r[q]
  BY ShorterIs
<1>2. /\ Len(r[1]) \in Nat /\ 1 <= Len(r[1]) /\ Len(r) \in Nat /\ 1 <= Len(r)
  BY FirstStroke, TailOfStrokes
<1>3. CASE Len(r[1]) = 1
  BY <1>1, <1>3, BalancedTail
<1>4. CASE Len(r[1]) # 1
  <2>1. \A p \in Nat : \A k : ReleasedBehind(r, p, k) /\ p >= 1 => ReleasedBehind(s, p, k)
    BY <1>1, <1>4 DEF ReleasedBehind
  <2>2. ASSUME NEW p \in Nat, SoftFrom(c, r, p), NEW q \in 1..Len(s), q >= p,
               NEW l \in 1..Len(s[q])
        PROVE  ~Strict(c, s[q][l])
    <3>1. CASE q = 1
      <4>1. l \in 1..Len(r[1]) - 1 /\ s[1][l] = r[1][l + 1] /\ l + 1 \in 1..Len(r[1])
        BY <1>1, <1>2, <1>4, <2>2, <3>1
      <4> QED
        BY <1>2, <2>2, <3>1, <4>1 DEF SoftFrom
    <3>2. CASE q # 1
      <4>1. q \in 1..Len(r) /\ s[q] = r[q]
        BY <1>1, <1>2, <1>4, <2>2, <3>2
      <4> QED
        BY <2>2, <4>1 DEF SoftFrom
    <3> QED
      BY <3>1, <3>2
  <2>3. \A p \in Nat : SoftFrom(c, r, p) => SoftFrom(c, s, p)
    BY <2>2 DEF SoftFrom
  <2> SUFFICES ASSUME NEW p \in 1..Len(s), NEW j \in 1..Len(s[p]), NEW k \in Kinds,
                      s[p][j] = Down(k)
               PROVE  \/ ReleasedWithin(s[p], j, k)
                      \/ ReleasedBehind(s, p, k) /\ SoftFrom(c, s, p)
    BY DEF Balanced
  <2>4. p \in 1..Len(r) /\ p \in Nat /\ p >= 1
    BY <1>1, <1>2, <1>4
  <2>5. CASE p = 1
    <3>1. /\ j \in 1..Len(r[1]) - 1 /\ j + 1 \in 1..Len(r[1]) /\ r[1][j + 1] = Down(k)
      BY <1>1, <1>2, <1>4, <2>5
    <3>2. ReleasedWithin(r[1], j + 1, k) \/ (ReleasedBehind(r, 1, k) /\ SoftFrom(c, r, 1))
      BY <2>4, <2>5, <3>1 DEF Balanced
    <3>3. ASSUME ReleasedWithin(r[1], j + 1, k) PROVE ReleasedWithin(s[1], j, k)
      <4>1. PICK l \in 1..Len(r[1]) : l > j + 1 /\ r[1][l] = Up(k)
        BY <3>3 DEF ReleasedWithin
      <4>2. PICK i \in 1..Len(r[1]) - 1 : i = l - 1
        BY <1>2, <3>1, <4>1
      <4>3. i \in 1..Len(s[1]) /\ i > j /\ s[1][i] = Up(k)
        BY <1>1, <1>2, <1>4, <3>1, <4>1, <4>2
      <4> QED
        BY <4>3 DEF ReleasedWithin
    <3> QED
      BY <2>1, <2>3, <2>4, <2>5, <3>2, <3>3
  <2>6. CASE p # 1
    <3>1. s[p] = r[p]
      BY <1>1, <1>4, <2>4, <2>6
    <3>2. ReleasedWithin(r[p], j, k) \/ (ReleasedBehind(r, p, k) /\ SoftFrom(c, r, p))
      BY <2>4, <3>1 DEF Balanced
    <3> QED
      BY <2>1, <2>3, <2>4, <3>1, <3>2
  <2> QED
    BY <2>5, <2>6
<1> QED
  BY <1>3, <1>4

-----------------------------------------------------------------------------
(* Steps that post nothing                                                 *)

(* What a key or button can be.                                            *)
LEMMA KindsAre == {e[2] : e \in Event} = Kinds
<1>1. \A e \in Event : e[2] \in Kinds
  BY Events
<1>2. ASSUME NEW k \in Kinds PROVE \E e \in Event : e[2] = k
  <2>1. Tick(k) \in Event /\ Tick(k)[2] = k
    BY EventsAre DEF Tick
  <2> QED
    BY <2>1
<1> QED
  BY <1>1, <1>2

(* What the invariant says of the units of the call.                       *)
LEMMA Position ==
  ASSUME InputInv, NEW u, u = Units(call)
  PROVE  /\ call \in Calls /\ LastUnit(call) = Len(u)
         /\ Len(u) \in Nat /\ 1 <= Len(u) /\ Len(u) <= MaxCount + DragSteps + 2
         /\ at \in Nat /\ 1 <= at
         /\ stage \in {"unit", "events"} => at <= Len(u)
         /\ call.kind \in {"hotkey", "paste"} => Len(u) = 1
         /\ call.kind = "command" => Len(u) = 1 /\ u[1] = <<<<Tick("command")>>>>
         /\ call.kind = "drag" => DragUnits(u)
         /\ \A i \in 1..Len(u) : Good(call, u[i])
         /\ MaxCount + DragSteps + 2 \in Nat
<1>1. call \in Calls /\ LastUnit(call) = Len(u)
  BY DEF InputInv, LastUnit
<1>2. /\ Len(u) \in Nat /\ 1 <= Len(u) /\ Len(u) <= MaxCount + DragSteps + 2
      /\ call.kind \in {"hotkey", "paste"} => Len(u) = 1
      /\ call.kind = "command" => Len(u) = 1 /\ u[1] = <<<<Tick("command")>>>>
      /\ call.kind = "drag" => DragUnits(u)
      /\ \A i \in 1..Len(u) : Good(call, u[i])
  BY <1>1, UnitsAre
<1>3. MaxCount + DragSteps + 2 \in Nat
  BY InputAssumption
<1>4. at \in 1..MaxCount + DragSteps + 2 /\ (stage \in {"unit", "events"} => at \in 1..Len(u))
  BY <1>1 DEF InputInv, TypeOK
<1> QED
  BY <1>1, <1>2, <1>3, <1>4

(* The call goes on or ends without an event.                              *)
LEMMA QuietInv ==
  ASSUME InputInv, UNCHANGED <<call, rest, environment, broken, desktop>>,
         stage \in {"idle", "checks"}, at' = at,
         \/ stage' \in {"checks", "unit"} /\ UNCHANGED outcome
         \/ End("none")
  PROVE  InputInv'
<1>1. /\ call' = call /\ rest' = rest /\ allowed' = allowed /\ flips' = flips
      /\ interrupted' = interrupted /\ broken' = broken /\ down' = down /\ posted' = posted
      /\ late' = late /\ lost' = lost /\ refused' = refused
  BY DEF environment, desktop
<1>2. /\ at = 1 /\ posted = 0 /\ down = {} /\ late = {} /\ lost = {} /\ rest = <<>>
      /\ rest \in Strokes
  BY DEF InputInv, NoneInv, RestInv, TypeOK
<1>3. /\ stage' \in {"checks", "unit", "done"}
      /\ stage' = "done" => outcome' = "none"
      /\ outcome' \in {"none", "ok", "unknown"}
  BY DEF End, InputInv, TypeOK
<1>4. at \in 1..LastUnit(call) /\ LastUnit(call)' = LastUnit(call)
  BY <1>1, <1>2, Position DEF LastUnit
<1>5. TypeOK'
  BY <1>1, <1>2, <1>3, <1>4 DEF InputInv, TypeOK
<1>6. RestInv' /\ NoneInv' /\ LostInv'
  BY <1>1, <1>2, <1>3 DEF RestInv, NoneInv, LostInv
<1>7. LateInv' /\ DownInv'
  BY <1>1, <1>2, <1>3 DEF LateInv, DownInv
<1> QED
  BY <1>1, <1>5, <1>6, <1>7 DEF InputInv

(* The environment moves.                                                  *)
LEMMA OutsideInv ==
  ASSUME InputInv, Interrupt \/ PersistNoYolo
  PROVE  InputInv'
<1>1. /\ call' = call /\ stage' = stage /\ at' = at /\ rest' = rest /\ broken' = broken
      /\ down' = down /\ posted' = posted /\ late' = late /\ lost' = lost
      /\ refused' = refused /\ outcome' = outcome
      /\ interrupted => interrupted'
  BY DEF Interrupt, PersistNoYolo, desktop
<1>2. interrupted' \in BOOLEAN /\ allowed' \in BOOLEAN /\ flips' \in 0..MaxFlips
  <2>1. /\ interrupted \in BOOLEAN /\ allowed \in BOOLEAN /\ flips \in 0..MaxFlips
        /\ MaxFlips \in Nat
    BY InputAssumption DEF InputInv, TypeOK
  <2>2. CASE Interrupt
    BY <2>1, <2>2 DEF Interrupt
  <2>3. CASE PersistNoYolo
    BY <2>1, <2>3 DEF PersistNoYolo
  <2> QED
    BY <2>2, <2>3
<1>3. TypeOK'
  BY <1>1, <1>2 DEF InputInv, TypeOK, LastUnit
<1>4. RestInv' /\ NoneInv' /\ LostInv' /\ LateInv' /\ DownInv'
  BY <1>1 DEF InputInv, RestInv, NoneInv, LostInv, LateInv, DownInv
<1> QED
  BY <1>1, <1>3, <1>4 DEF InputInv

LEMMA BeginInv ==
  ASSUME InputInv, Begin \/ BeginCommand \/ CheckPolicy
  PROVE  InputInv'
<1>1. /\ UNCHANGED <<call, rest, environment, broken, desktop>> /\ at' = at
      /\ stage \in {"idle", "checks"}
      /\ \/ stage' \in {"checks", "unit"} /\ UNCHANGED outcome
         \/ End("none")
  BY DEF Begin, BeginCommand, CheckPolicy
<1> QED
  BY <1>1, QuietInv

(* A unit begins with all of its strokes.                                  *)
LEMMA StartInv ==
  ASSUME InputInv, StartUnit
  PROVE  InputInv'
<1>1. /\ call' = call /\ at' = at /\ allowed' = allowed /\ flips' = flips
      /\ interrupted' = interrupted /\ broken' = broken /\ down' = down /\ posted' = posted
      /\ late' = late /\ lost' = lost /\ refused' = refused /\ outcome' = outcome
      /\ stage = "unit" /\ stage' = "events" /\ rest' = Units(call)[at]
      /\ Checked(call, at) => ~interrupted
  BY DEF StartUnit, environment, desktop
<1>2. PICK u : u = Units(call)
  OBVIOUS
<1>3. /\ at \in 1..Len(u) /\ LastUnit(call) = Len(u) /\ Good(call, u[at])
      /\ call.kind \in {"hotkey", "paste"} => Len(u) = 1
      /\ call.kind = "drag" => DragUnits(u)
  BY <1>1, <1>2, Position
<1>4. rest' \in Strokes /\ rest' # <<>> /\ (Open(call) \/ Balanced(call, rest'))
  BY <1>1, <1>2, <1>3 DEF Good
<1>5. TypeOK'
  BY <1>1, <1>4 DEF InputInv, TypeOK, LastUnit, Strokes
<1>6. RestInv'
  BY <1>1, <1>4 DEF RestInv
<1>7. at = 1 => posted = 0 /\ down = {} /\ late = {} /\ lost = {}
  BY <1>1 DEF InputInv, NoneInv
<1>8. NoneInv' /\ LostInv'
  BY <1>1, <1>7 DEF InputInv, NoneInv, LostInv
<1>9. LateInv'
  <2>1. at \in Release(call) \/ late = {}
    <3>1. CASE Checked(call, at)
      BY <1>1, <3>1 DEF InputInv, LateInv
    <3>2. CASE ~Checked(call, at) /\ at \notin Release(call)
      <4>1. at = 1
        BY <1>3, <3>2 DEF Checked
      <4> QED
        BY <1>7, <4>1
    <3> QED
      BY <3>1, <3>2
  <2> QED
    BY <1>1, <2>1 DEF InputInv, LateInv, Release, LastUnit
<1>10. DownInv'
  BY <1>1 DEF InputInv, DownInv
<1> QED
  BY <1>1, <1>5, <1>6, <1>8, <1>9, <1>10 DEF InputInv

(* A call stops between two units.                                         *)
LEMMA StopInv ==
  ASSUME InputInv, Stopped \/ UnitFails
  PROVE  InputInv'
<1>1. /\ call' = call /\ rest' = rest /\ allowed' = allowed /\ flips' = flips
      /\ interrupted' = interrupted /\ down' = down /\ posted' = posted
      /\ late' = late /\ lost' = lost /\ refused' = refused
      /\ stage = "unit" /\ stage' \in {"unit", "done"}
  BY DEF Stopped, UnitFails, environment, desktop, End
<1>2. \/ /\ stage' = "done" /\ outcome' \in {"none", "unknown"} /\ at' = at /\ broken' = broken
         /\ outcome' = "none" => at = 1
         /\ call.kind = "drag" => at = 1
      \/ /\ stage' = "unit" /\ outcome' = outcome /\ at' = LastUnit(call) /\ broken'
         /\ call.kind = "drag" /\ at > 1
  <2>1. CASE Stopped
    <3>1. at \in Nat /\ 1 <= at
      BY Position
    <3> QED
      BY <1>1, <2>1, <3>1 DEF Stopped, End
  <2>2. CASE UnitFails
    BY <1>1, <2>2 DEF UnitFails, End
  <2> QED
    BY <2>1, <2>2
<1>3. PICK u : u = Units(call)
  OBVIOUS
<1>4. /\ LastUnit(call) = Len(u) /\ Len(u) \in Nat /\ 1 <= Len(u)
      /\ Len(u) <= MaxCount + DragSteps + 2
      /\ MaxCount + DragSteps + 2 \in Nat /\ at \in Nat /\ 1 <= at /\ at <= Len(u)
  BY <1>1, <1>3, Position
<1>5. /\ rest = <<>> /\ rest \in Strokes
      /\ at = 1 => posted = 0 /\ down = {} /\ late = {} /\ lost = {}
  BY <1>1 DEF InputInv, TypeOK, RestInv, NoneInv
<1>6. TypeOK'
  <2>1. at' \in 1..MaxCount + DragSteps + 2 /\ at' \in 1..LastUnit(call)
    BY <1>2, <1>4
  <2>2. broken' \in BOOLEAN /\ outcome' \in {"none", "ok", "unknown"}
    BY <1>2, <1>1 DEF InputInv, TypeOK, Stopped, UnitFails, desktop
  <2>3. LastUnit(call)' = LastUnit(call)
    BY <1>1
  <2> QED
    BY <1>1, <1>5, <2>1, <2>2, <2>3 DEF InputInv, TypeOK
<1>7. RestInv' /\ LateInv'
  BY <1>1, <1>5 DEF InputInv, RestInv, LateInv
<1>8. NoneInv' /\ LostInv'
  BY <1>1, <1>2, <1>4, <1>5 DEF InputInv, NoneInv, LostInv
<1>9. DownInv'
  <2>1. call.kind = "drag" /\ stage' = "done" => down = {}
    BY <1>2, <1>5
  <2> QED
    BY <1>1, <2>1 DEF InputInv, DownInv
<1> QED
  BY <1>1, <1>6, <1>7, <1>8, <1>9 DEF InputInv

-----------------------------------------------------------------------------
(* Steps that post an event or lose some                                   *)

(* The event whose turn it is.                                             *)
LEMMA Turn ==
  ASSUME InputInv, stage = "events"
  PROVE  /\ call \in Calls /\ rest \in Strokes /\ rest # <<>>
         /\ Head(rest) = rest[1] /\ Head(Head(rest)) = rest[1][1]
         /\ rest[1][1] \in Event /\ rest[1] \in Seq(Event)
         /\ Len(rest[1]) \in Nat /\ 1 <= Len(rest[1])
         /\ Open(call) \/ Balanced(call, rest)
<1>1. /\ call \in Calls /\ rest \in Strokes /\ rest # <<>>
      /\ Open(call) \/ Balanced(call, rest)
  BY DEF InputInv, RestInv, TypeOK
<1> QED
  BY <1>1, FirstStroke

LEMMA OneStroke ==
  ASSUME NEW r \in Strokes, r # <<>>
  PROVE  Len(r) = 1 => Tail(r) = <<>>
<1>1. PICK t : t = Tail(r)
  OBVIOUS
<1>2. t \in Strokes /\ Len(t) = Len(r) - 1
  BY <1>1, TailOfStrokes
<1>3. Len(r) = 1 => Len(t) = 0
  BY <1>2
<1> QED
  BY <1>1, <1>2, <1>3, EmptySeq DEF Strokes

(* A unit of one event is over with it.                                    *)
LEMMA Single ==
  ASSUME NEW e \in Event, NEW r \in Strokes, r = <<<<e>>>>
  PROVE  /\ r # <<>> /\ r[1] = <<e>> /\ r[1][1] = e /\ Len(r[1]) = 1
         /\ Shorter(r) = <<>> /\ Tail(r) = <<>>
<1>1. PICK p : p = <<e>>
  OBVIOUS
<1>2. r = <<p>> /\ Len(p) = 1 /\ p[1] = e
  BY <1>1
<1>3. Len(r) = 1 /\ r[1] = p /\ r # <<>>
  BY <1>2
<1>4. Tail(r) = <<>>
  BY <1>3, OneStroke
<1>5. Shorter(r) = <<>>
  BY <1>2, <1>3, <1>4, ShorterIs
<1> QED
  BY <1>1, <1>2, <1>3, <1>4, <1>5

(* The events of a drag, and the one of a command.                         *)
LEMMA SingleEvents ==
  ASSUME InputInv, stage = "events", call.kind \in {"drag", "command"}
  PROVE  /\ Shorter(rest) = <<>> /\ Tail(rest) = <<>> /\ Len(rest[1]) = 1
         /\ Strict(call, rest[1][1])
         /\ call.kind = "command" => rest[1][1] = Tick("command")
         /\ call.kind = "drag" =>
              /\ call.backend = "mac" /\ LastUnit(call) > 1 /\ LastUnit(call) \in Nat
              /\ at = 1 => rest[1][1] = Down("left")
              /\ at = LastUnit(call) => rest[1][1] = Up("left")
              /\ at \notin {1, LastUnit(call)} => rest[1][1] = Tick("pointer")
<1>1. PICK u : u = Units(call)
  OBVIOUS
<1>2. /\ LastUnit(call) = Len(u) /\ Len(u) \in Nat /\ 1 <= Len(u) /\ at \in Nat
      /\ 1 <= at /\ at <= Len(u)
      /\ call.kind = "command" => Len(u) = 1 /\ u[1] = <<<<Tick("command")>>>>
      /\ call.kind = "drag" => DragUnits(u)
  BY <1>1, Position
<1>3. rest = u[at] /\ rest \in Strokes
  BY <1>1 DEF InputInv, RestInv
<1>4. PICK p, q, r, s : /\ p = Down("left") /\ q = Up("left")
                        /\ r = Tick("pointer") /\ s = Tick("command")
  OBVIOUS
<1>5. p \in Event /\ q \in Event /\ r \in Event /\ s \in Event
  <2>1. "left" \in Kinds /\ "pointer" \in Kinds /\ "command" \in Kinds
    BY DEF Kinds
  <2> QED
    BY <1>4, <2>1, EventsAre
<1>6. CASE call.kind = "command"
  <2>1. rest = <<<<s>>>>
    BY <1>2, <1>3, <1>4, <1>6
  <2>2. /\ Shorter(rest) = <<>> /\ Tail(rest) = <<>> /\ rest[1][1] = s /\ Len(rest[1]) = 1
    BY <1>3, <1>5, <2>1, Single
  <2> QED
    BY <1>4, <1>6, <2>2 DEF Strict
<1>7. CASE call.kind = "drag"
  <2>1. /\ Len(u) = DragSteps + 2 /\ DragSteps \in Nat
        /\ u[1] = <<<<p>>>> /\ u[Len(u)] = <<<<q>>>>
        /\ \A i \in 2..DragSteps + 1 : u[i] = <<<<r>>>>
    <3>1. DragSteps \in Nat
      BY InputAssumption
    <3> QED
      BY <1>2, <1>4, <1>7, <3>1 DEF DragUnits
  <2>2. PICK e \in Event : /\ rest = <<<<e>>>>
                           /\ at = 1 => e = p
                           /\ at = Len(u) => e = q
                           /\ at \notin {1, Len(u)} => e = r
    <3>1. at = 1 \/ at = Len(u) \/ at \in 2..DragSteps + 1
      BY <1>2, <2>1
    <3>2. 1 # Len(u) /\ Len(u) \notin 2..DragSteps + 1
      BY <2>1
    <3> QED
      BY <1>3, <1>5, <2>1, <3>1, <3>2
  <2>3. /\ Shorter(rest) = <<>> /\ Tail(rest) = <<>> /\ rest[1][1] = e /\ Len(rest[1]) = 1
    BY <1>3, <2>2, Single
  <2>4. call.backend = "mac"
    BY <1>7, CallsAre DEF InputInv
  <2>5. Strict(call, e)
    BY <1>7 DEF Strict, Pointer
  <2> QED
    BY <1>2, <1>4, <1>7, <2>1, <2>2, <2>3, <2>4, <2>5
<1> QED
  BY <1>6, <1>7

(* How a unit goes on, or the call with the next one, or ends.             *)
LEMMA Going ==
  ASSUME InputInv, stage = "events", NEW s, s \in Strokes, Continue(s)
  PROVE  /\ rest' = s /\ stage' \in {"unit", "events", "done"}
         /\ stage' = "events" <=> s # <<>>
         /\ stage' = "events" => at' = at
         /\ stage' = "unit" => at' = at + 1 /\ at' # 1
         /\ stage' = "done" => /\ at = LastUnit(call) /\ outcome' = Finish
                               /\ outcome' \in {"ok", "unknown"}
         /\ stage' # "done" => outcome' = outcome
         /\ at' \in 1..MaxCount + DragSteps + 2 /\ at' \in 1..LastUnit(call)
<1>1. PICK u : u = Units(call)
  OBVIOUS
<1>2. /\ LastUnit(call) = Len(u) /\ Len(u) \in Nat /\ Len(u) <= MaxCount + DragSteps + 2
      /\ MaxCount + DragSteps + 2 \in Nat /\ at \in Nat /\ 1 <= at /\ at <= Len(u)
  BY <1>1, Position
<1>3. PICK last \in Nat, bound \in Nat : /\ last = LastUnit(call) /\ at \in 1..last /\ last <= bound
                                         /\ bound = MaxCount + DragSteps + 2
  BY <1>2
<1>4. CASE s # <<>>
  <2>1. rest' = s /\ stage' = "events" /\ at' = at /\ outcome' = outcome
    BY <1>4 DEF Continue
  <2> QED
    BY <1>3, <1>4, <2>1
<1>5. CASE s = <<>> /\ at < last
  <2>1. rest' = s /\ stage' = "unit" /\ at' = at + 1 /\ outcome' = outcome
    BY <1>3, <1>5 DEF Continue
  <2> QED
    BY <1>3, <1>5, <2>1
<1>6. CASE s = <<>> /\ ~(at < last)
  <2>1. rest' = s /\ stage' = "done" /\ at' = at /\ outcome' = Finish
    BY <1>3, <1>6 DEF Continue, End
  <2>2. Finish \in {"ok", "unknown"} /\ at = last
    BY <1>3, <1>6 DEF Finish
  <2> QED
    BY <1>3, <1>6, <2>1, <2>2
<1> QED
  BY <1>4, <1>5, <1>6

(* What an event does to the desktop.                                      *)
LEMMA Happening ==
  ASSUME InputInv, stage = "events", NEW e \in Event, Happens(e)
  PROVE  /\ posted' \in Nat /\ down' \subseteq {f[2] : f \in Event}
         /\ late' = IF interrupted THEN late \union {at} ELSE late
         /\ \A k \in down' : k \in Kinds /\ (e = Down(k) \/ (k \in down /\ e # Up(k)))
<1>1. PICK t \in {"down", "up", "tick"}, l \in Kinds : e = <<t, l>>
  BY Events
<1>2. posted \in Nat /\ down \subseteq Kinds
  BY KindsAre DEF InputInv, TypeOK
<1>3. e[1] = t /\ e[2] = l
  BY <1>1
<1>4. down' = IF t = "down" THEN down \union {l} ELSE IF t = "up" THEN down \ {l} ELSE down
  BY <1>3 DEF Happens
<1>5. \A k \in down' : k \in Kinds /\ (e = Down(k) \/ (k \in down /\ e # Up(k)))
  <2> SUFFICES ASSUME NEW k \in down'
               PROVE  k \in Kinds /\ (e = Down(k) \/ (k \in down /\ e # Up(k)))
    OBVIOUS
  <2>1. CASE t = "down"
    BY <1>1, <1>2, <1>4, <2>1 DEF Down, Up
  <2>2. CASE t = "up"
    BY <1>1, <1>2, <1>4, <2>2 DEF Down, Up
  <2>3. CASE t = "tick"
    BY <1>1, <1>2, <1>4, <2>3 DEF Down, Up
  <2> QED
    BY <2>1, <2>2, <2>3
<1>6. down' \subseteq {f[2] : f \in Event}
  BY <1>5, KindsAre
<1> QED
  BY <1>2, <1>5, <1>6 DEF Happens

(* What was posted late, when the current unit goes on or is over.         *)
LEMMA LateAfter ==
  ASSUME InputInv, stage = "events", call' = call, interrupted' = interrupted,
         \/ late' = late
         \/ late' = IF interrupted THEN late \union {at} ELSE late,
         stage' = "events" => at' = at
  PROVE  LateInv'
<1>1. PICK R : R = Release(call)
  OBVIOUS
<1>2. Release(call)' = R
  BY <1>1 DEF Release, LastUnit
<1>3. /\ late # {} => interrupted
      /\ \A i, j \in late \ R : i = j
      /\ \A i \in late \ R : i = at \/ at \in R
  BY <1>1 DEF InputInv, LateInv
<1>4. late' # {} => interrupted'
  BY <1>3
<1>5. \A i \in late' \ R : i = at \/ at \in R
  BY <1>3
<1>6. \A i, j \in late' \ R : i = j
  BY <1>3
<1>7. stage' = "events" => \A i \in late' \ R : i = at' \/ at' \in R
  BY <1>5
<1> QED
  BY <1>2, <1>4, <1>6, <1>7 DEF LateInv

(* An event is posted.                                                     *)
LEMMA PostInv ==
  ASSUME InputInv, Post
  PROVE  InputInv'
<1>1. /\ call' = call /\ allowed' = allowed /\ flips' = flips /\ interrupted' = interrupted
      /\ broken' = broken /\ lost' = lost /\ refused' = refused /\ stage = "events"
  BY DEF Post, environment
<1>2. PICK r : r = rest
  OBVIOUS
<1>3. PICK e : e = r[1][1]
  OBVIOUS
<1>4. PICK s : s = Shorter(r)
  OBVIOUS
<1>5. /\ r \in Strokes /\ r # <<>> /\ e \in Event /\ Head(Head(r)) = e
      /\ Open(call) \/ Balanced(call, r)
  BY <1>1, <1>2, <1>3, Turn
<1>6. Happens(e) /\ Continue(s)
  BY <1>2, <1>4, <1>5 DEF Post, Shorter
<1>7. s \in Strokes
  BY <1>4, <1>5, ShorterIs
<1>8. /\ rest' = s /\ stage' \in {"unit", "events", "done"}
      /\ stage' = "events" <=> s # <<>>
      /\ stage' = "events" => at' = at
      /\ stage' = "unit" => at' # 1
      /\ stage' = "done" => /\ at = LastUnit(call) /\ outcome' = Finish
                            /\ outcome' \in {"ok", "unknown"}
      /\ stage' # "done" => outcome' = outcome
      /\ at' \in 1..MaxCount + DragSteps + 2 /\ at' \in 1..LastUnit(call)
  BY <1>1, <1>6, <1>7, Going
<1>9. /\ posted' \in Nat /\ down' \subseteq {f[2] : f \in Event}
      /\ late' = IF interrupted THEN late \union {at} ELSE late
      /\ \A k \in down' : k \in Kinds /\ (e = Down(k) \/ (k \in down /\ e # Up(k)))
  BY <1>1, <1>5, <1>6, Happening
<1>10. call.kind \in {"drag", "command"} => s = <<>>
  BY <1>1, <1>2, <1>4, SingleEvents
<1>11. TypeOK'
  <2>1. late' \subseteq 1..MaxCount + DragSteps + 2
    BY <1>1, <1>9 DEF InputInv, TypeOK
  <2>2. outcome' \in {"none", "ok", "unknown"}
    BY <1>8 DEF InputInv, TypeOK
  <2>3. rest' \in Seq(Seq(Event))
    BY <1>7, <1>8 DEF Strokes
  <2>4. LastUnit(call)' = LastUnit(call)
    BY <1>1 DEF LastUnit
  <2> QED
    BY <1>1, <1>8, <1>9, <2>1, <2>2, <2>3, <2>4 DEF InputInv, TypeOK
<1>12. RestInv'
  <2>1. Balanced(call, r) => Balanced(call, s)
    BY <1>4, <1>5, BalancedShorter
  <2> QED
    BY <1>1, <1>5, <1>7, <1>8, <1>10, <2>1 DEF RestInv
<1>13. NoneInv'
  BY <1>1, <1>8, <1>10 DEF NoneInv
<1>14. LostInv'
  <2>1. stage' = "done" /\ outcome' = "ok" => ~broken
    BY <1>8 DEF Finish
  <2> QED
    BY <1>1, <1>8, <2>1 DEF InputInv, LostInv
<1>15. LateInv'
  BY <1>1, <1>8, <1>9, LateAfter
<1>16. DownInv'
  <2>1. ASSUME ~Open(call), NEW k \in down', Up(k) \notin lost
        PROVE  stage' = "events" /\ Owed(call, s, k)
    <3>1. Balanced(call, r) /\ k \in Kinds
      BY <1>5, <1>9, <2>1
    <3>2. ASSUME e = Down(k) PROVE Owed(call, s, k)
      BY <1>3, <1>4, <1>5, <3>1, <3>2, PressedIsOwed
    <3>3. ASSUME k \in down, e # Up(k) PROVE Owed(call, s, k)
      <4>1. Owed(call, r, k)
        BY <1>1, <1>2, <2>1, <3>3 DEF InputInv, DownInv
      <4> QED
        BY <1>3, <1>4, <1>5, <3>3, <4>1, OwedStays
    <3>4. Owed(call, s, k)
      BY <1>9, <3>2, <3>3
    <3> QED
      BY <1>8, <3>4 DEF Owed
  <2>2. ASSUME call.kind = "drag"
        PROVE  down' \subseteq {"left"} /\ (stage' = "done" => down' = {})
    <3>1. /\ e \in {Down("left"), Up("left"), Tick("pointer")}
          /\ at = LastUnit(call) => e = Up("left")
      BY <1>1, <1>2, <1>3, <2>2, SingleEvents
    <3>2. down \subseteq {"left"}
      BY <2>2 DEF InputInv, DownInv
    <3>3. "left" \in Kinds /\ "pointer" \in Kinds
      BY DEF Kinds
    <3>4. ASSUME NEW k \in down' PROVE k = "left"
      <4>1. k \in Kinds /\ (e = Down(k) \/ k \in down)
        BY <1>9
      <4>2. e = Down(k) => k = "left"
        BY <3>1, <3>3, <4>1, EventsDiffer
      <4> QED
        BY <3>2, <4>1, <4>2
    <3>5. e = Up("left") => down' = {}
      BY <1>9, <3>3, <3>4, EventsDiffer
    <3> QED
      BY <1>8, <3>1, <3>4, <3>5
  <2>3. Open(call)' = Open(call)
    BY <1>1 DEF Open
  <2> QED
    BY <1>1, <1>8, <2>1, <2>2, <2>3 DEF DownInv
<1> QED
  BY <1>1, <1>11, <1>12, <1>13, <1>14, <1>15, <1>16 DEF InputInv

(* What is lost with an event, and how the call goes on or ends.           *)
LEMMA LosingIs ==
  ASSUME InputInv, stage = "events", NEW o \in BOOLEAN, Lose(o), NEW r, r = rest
  PROVE  /\ lost' = lost \union Range(r[1]) /\ Range(r[1]) \subseteq Event
         /\ \A l \in 1..Len(r[1]) : r[1][l] \in Range(r[1])
         /\ \/ /\ ~Strict(call, r[1][1]) /\ Continue(Tail(r)) /\ broken' = broken
            \/ /\ Strict(call, r[1][1]) /\ rest' = <<>> /\ stage' = "unit"
               /\ call.kind = "drag" /\ at' = LastUnit(call) /\ broken' /\ outcome' = outcome
            \/ /\ Strict(call, r[1][1]) /\ rest' = <<>> /\ stage' = "done"
               /\ at' = at /\ broken' = broken /\ outcome' \in {"none", "unknown"}
               /\ outcome' = "none" => call.kind = "drag" /\ at = 1
               /\ call.kind = "drag" => at = 1 \/ at = LastUnit(call)
<1>1. /\ r # <<>> /\ Head(r) = r[1] /\ Head(Head(r)) = r[1][1] /\ r[1] \in Seq(Event)
  BY Turn
<1>2. lost' = lost \union Range(r[1])
  BY <1>1 DEF Lose
<1>3. /\ Range(r[1]) \subseteq Event
      /\ \A l \in 1..Len(r[1]) : r[1][l] \in Range(r[1])
  <2>1. PICK p \in Seq(Event) : p = r[1]
    BY <1>1
  <2>2. Range(p) \subseteq Event /\ \A l \in 1..Len(p) : p[l] \in Range(p)
    BY DEF Range
  <2> QED
    BY <2>1, <2>2
<1>4. CASE ~Strict(call, r[1][1])
  BY <1>1, <1>2, <1>3, <1>4 DEF Lose
<1>5. CASE Strict(call, r[1][1]) /\ call.kind = "drag" /\ at \notin {1, LastUnit(call)}
  <2>1. /\ rest' = <<>> /\ at' = LastUnit(call) /\ stage' = "unit" /\ broken' = TRUE
        /\ outcome' = outcome
    BY <1>1, <1>5 DEF Lose
  <2> QED
    BY <1>2, <1>3, <1>5, <2>1
<1>6. CASE Strict(call, r[1][1]) /\ ~(call.kind = "drag" /\ at \notin {1, LastUnit(call)})
  <2>1. /\ rest' = <<>> /\ at' = at /\ broken' = broken /\ stage' = "done"
        /\ outcome' = IF call.kind = "drag" /\ at = 1 /\ ~o THEN "none" ELSE "unknown"
    BY <1>1, <1>6 DEF Lose, End
  <2> QED
    BY <1>2, <1>3, <1>6, <2>1
<1> QED
  BY <1>4, <1>5, <1>6

(* An event is not posted, or perhaps was.                                 *)
LEMMA LoseInv ==
  ASSUME InputInv, stage = "events", NEW o \in BOOLEAN, Lose(o), UNCHANGED <<call, environment>>,
         refused' \in BOOLEAN,
         \/ UNCHANGED <<down, posted, late>>
         \/ /\ call.backend \in {"x11", "portal"} \/ call.kind = "command"
            /\ Happens(Head(Head(rest)))
  PROVE  InputInv'
<1>1. /\ call' = call /\ allowed' = allowed /\ flips' = flips /\ interrupted' = interrupted
  BY DEF environment
<1>2. PICK r : r = rest
  OBVIOUS
<1>3. PICK e : e = r[1][1]
  OBVIOUS
<1>4. PICK s : s = Tail(r)
  OBVIOUS
<1>5. /\ r \in Strokes /\ r # <<>> /\ e \in Event /\ Head(Head(r)) = e
      /\ Len(r[1]) \in Nat /\ 1 <= Len(r[1])
      /\ Open(call) \/ Balanced(call, r)
  BY <1>2, <1>3, Turn
<1>6. s \in Strokes
  BY <1>4, <1>5, TailOfStrokes
<1>7. /\ lost' = lost \union Range(r[1]) /\ Range(r[1]) \subseteq Event
      /\ \A l \in 1..Len(r[1]) : r[1][l] \in Range(r[1])
      /\ \/ /\ ~Strict(call, e) /\ Continue(s) /\ broken' = broken
         \/ /\ Strict(call, e) /\ rest' = <<>> /\ stage' = "unit"
            /\ call.kind = "drag" /\ at' = LastUnit(call) /\ broken' /\ outcome' = outcome
         \/ /\ Strict(call, e) /\ rest' = <<>> /\ stage' = "done"
            /\ at' = at /\ broken' = broken /\ outcome' \in {"none", "unknown"}
            /\ outcome' = "none" => call.kind = "drag" /\ at = 1
            /\ call.kind = "drag" => at = 1 \/ at = LastUnit(call)
  BY <1>2, <1>3, <1>4, LosingIs
<1>8. call.kind \in {"drag", "command"} =>
        /\ Strict(call, e)
        /\ call.kind = "command" => e = Tick("command")
        /\ call.kind = "drag" =>
             /\ call.backend = "mac" /\ LastUnit(call) > 1 /\ LastUnit(call) \in Nat
             /\ at = LastUnit(call) => e = Up("left")
  BY <1>2, <1>3, SingleEvents
<1>9. \/ down' = down /\ posted' = posted /\ late' = late
      \/ /\ Strict(call, e) /\ call.kind # "drag" /\ Happens(e)
         /\ posted' \in Nat /\ down' \subseteq {f[2] : f \in Event}
         /\ late' = IF interrupted THEN late \union {at} ELSE late
         /\ \A k \in down' : k \in Kinds /\ (e = Down(k) \/ (k \in down /\ e # Up(k)))
  <2>1. CASE UNCHANGED <<down, posted, late>>
    BY <2>1
  <2>2. CASE /\ call.backend \in {"x11", "portal"} \/ call.kind = "command"
             /\ Happens(Head(Head(rest)))
    <3>1. Happens(e)
      BY <1>2, <1>5, <2>2
    <3>2. Strict(call, e)
      BY <1>8, <2>2 DEF Strict
    <3>3. call.kind # "drag"
      BY <1>8, <2>2
    <3> QED
      BY <1>5, <3>1, <3>2, <3>3, Happening
  <2> QED
    BY <2>1, <2>2
<1>10. Strict(call, e) \/
        /\ rest' = s /\ stage' \in {"unit", "events", "done"}
        /\ stage' = "events" <=> s # <<>>
        /\ stage' = "events" => at' = at
        /\ stage' = "unit" => at' # 1
        /\ stage' = "done" => outcome' = Finish /\ outcome' \in {"ok", "unknown"}
        /\ stage' # "done" => outcome' = outcome
        /\ at' \in 1..MaxCount + DragSteps + 2 /\ at' \in 1..LastUnit(call)
  BY <1>6, <1>7, Going
<1>11. /\ at \in Nat /\ at \in 1..LastUnit(call)
       /\ LastUnit(call) \in 1..MaxCount + DragSteps + 2
       /\ LastUnit(call) \in 1..LastUnit(call)
       /\ at \in 1..MaxCount + DragSteps + 2
  <2>1. PICK u : u = Units(call)
    OBVIOUS
  <2>2. /\ LastUnit(call) = Len(u) /\ Len(u) \in Nat /\ 1 <= Len(u)
        /\ Len(u) <= MaxCount + DragSteps + 2
        /\ MaxCount + DragSteps + 2 \in Nat /\ at \in Nat /\ 1 <= at /\ at <= Len(u)
    BY <2>1, Position
  <2> QED
    BY <2>2
<1>12. stage' = "events" => at' = at /\ ~Strict(call, e) /\ rest' = s /\ s # <<>>
  BY <1>7, <1>10
<1>13. rest' \in Strokes
  <2>1. <<>> \in Strokes
    BY DEF Strokes
  <2> QED
    BY <1>6, <1>7, <1>10, <2>1
<1>14. TypeOK'
  <2>1. late' \subseteq 1..MaxCount + DragSteps + 2
    BY <1>1, <1>9, <1>11 DEF InputInv, TypeOK
  <2>2. outcome' \in {"none", "ok", "unknown"}
    BY <1>7, <1>10 DEF InputInv, TypeOK
  <2>3. stage' = "events" <=> rest' # <<>>
    BY <1>7, <1>10
  <2>4. LastUnit(call)' = LastUnit(call)
    BY <1>1 DEF LastUnit
  <2>5. /\ stage' \in {"unit", "events", "done"} /\ broken' \in BOOLEAN
        /\ at' \in 1..MaxCount + DragSteps + 2 /\ at' \in 1..LastUnit(call)
    BY <1>7, <1>10, <1>11 DEF InputInv, TypeOK
  <2>6. posted' \in Nat /\ down' \subseteq {f[2] : f \in Event} /\ lost' \subseteq Event
    BY <1>7, <1>9 DEF InputInv, TypeOK
  <2> QED
    BY <1>1, <2>1, <2>2, <1>13, <2>3, <2>4, <2>5, <2>6 DEF InputInv, TypeOK, Strokes
<1>15. RestInv'
  <2>1. Balanced(call, r) => Balanced(call, s)
    BY <1>4, <1>5, BalancedTail
  <2> QED
    BY <1>1, <1>5, <1>8, <1>12, <1>13, <2>1 DEF RestInv
<1>16. NoneInv'
  <2>1. stage' = "unit" => at' # 1
    BY <1>7, <1>8, <1>10
  <2>2. ASSUME stage' = "done", outcome' = "none" PROVE posted' = 0
    <3>1. call.kind = "drag" /\ at = 1
      BY <1>7, <1>10, <2>2
    <3> QED
      BY <1>9, <3>1 DEF InputInv, NoneInv
  <2>3. stage' = "events" => call.kind # "drag"
    BY <1>8, <1>12
  <2>4. stage' \notin {"idle", "checks"}
    BY <1>7, <1>10
  <2> QED
    BY <1>1, <2>1, <2>2, <2>3, <2>4 DEF NoneInv
<1>17. LostInv'
  BY <1>1, <1>5, <1>7 DEF LostInv
<1>18. LateInv'
  BY <1>1, <1>9, <1>12, LateAfter
<1>19. DownInv'
  <2>1. ASSUME ~Open(call), NEW k \in down', Up(k) \notin lost'
        PROVE  stage' = "events" /\ Owed(call, rest', k)
    <3>1. Balanced(call, r) /\ Up(k) \notin lost /\ Up(k) \notin Range(r[1])
      BY <1>5, <1>7, <2>1
    <3>2. \A l \in 1..Len(r[1]) : r[1][l] # Up(k)
      BY <1>7, <3>1
    <3>3. k \in down
      <4>1. ASSUME Strict(call, e), k \in Kinds, e = Down(k) PROVE FALSE
        BY <1>3, <1>5, <3>1, <3>2, <4>1, PressedIsOwed
      <4> QED
        BY <1>9, <4>1
    <3>4. Owed(call, r, k)
      BY <1>2, <2>1, <3>1, <3>3 DEF InputInv, DownInv
    <3>5. ~Strict(call, e) /\ Owed(call, s, k)
      BY <1>3, <1>4, <1>5, <3>2, <3>4, OwedOrLost
    <3> QED
      BY <1>10, <3>5 DEF Owed
  <2>2. ASSUME call.kind = "drag"
        PROVE  /\ down' \subseteq {"left"}
               /\ stage' = "done" => down' = {} \/ Up("left") \in lost'
    <3>1. down' = down /\ down \subseteq {"left"} /\ (at = 1 => down = {})
      BY <1>9, <2>2 DEF InputInv, DownInv, NoneInv
    <3>2. stage' = "done" => at = 1 \/ at = LastUnit(call)
      BY <1>7, <1>8, <2>2
    <3>3. at = LastUnit(call) => Up("left") \in lost'
      <4>1. 1 \in 1..Len(r[1])
        BY <1>5
      <4> QED
        BY <1>3, <1>7, <1>8, <2>2, <4>1
    <3> QED
      BY <3>1, <3>2, <3>3
  <2>3. Open(call)' = Open(call)
    BY <1>1 DEF Open
  <2> QED
    BY <1>1, <2>1, <2>2, <2>3 DEF DownInv
<1> QED
  BY <1>1, <1>14, <1>15, <1>16, <1>17, <1>18, <1>19 DEF InputInv

(* Every step.                                                             *)
LEMMA InitInv == Init => InputInv
<1> SUFFICES ASSUME Init PROVE InputInv
  OBVIOUS
<1>1. <<>> \in Strokes
  BY DEF Strokes
<1>2. 1 \in 1..MaxCount + DragSteps + 2 /\ MaxFlips \in Nat /\ 0 \in 0..MaxFlips
  BY InputAssumption
<1>3. TypeOK
  BY <1>1, <1>2 DEF Init, TypeOK, Strokes
<1>4. RestInv /\ NoneInv /\ LostInv /\ LateInv /\ DownInv
  BY <1>1 DEF Init, RestInv, NoneInv, LostInv, LateInv, DownInv
<1> QED
  BY <1>3, <1>4 DEF Init, InputInv

LEMMA NextInv == InputInv /\ [Next]_vars => InputInv'
<1> SUFFICES ASSUME InputInv, [Next]_vars PROVE InputInv'
  OBVIOUS
<1>1. CASE Interrupt \/ PersistNoYolo
  BY <1>1, OutsideInv
<1>2. CASE Begin \/ BeginCommand \/ CheckPolicy
  BY <1>2, BeginInv
<1>3. CASE StartUnit
  BY <1>3, StartInv
<1>4. CASE Stopped \/ UnitFails
  BY <1>4, StopInv
<1>5. CASE Post
  BY <1>5, PostInv
<1>6. CASE Refuse
  <2>1. /\ stage = "events" /\ Lose(FALSE) /\ UNCHANGED <<call, environment>>
        /\ refused' \in BOOLEAN /\ UNCHANGED <<down, posted, late>>
    BY <1>6 DEF Refuse, environment
  <2> QED
    BY <2>1, LoseInv
<1>7. CASE Fail
  <2>1. /\ stage = "events" /\ Lose(TRUE) /\ UNCHANGED <<call, environment>>
        /\ refused' \in BOOLEAN
        /\ \/ UNCHANGED <<down, posted, late>>
           \/ /\ call.backend \in {"x11", "portal"} \/ call.kind = "command"
              /\ Happens(Head(Head(rest)))
    BY <1>7 DEF Fail, environment, InputInv, TypeOK
  <2> QED
    BY <2>1, LoseInv
<1>8. CASE UNCHANGED vars
  <2>1. /\ call' = call /\ stage' = stage /\ at' = at /\ rest' = rest /\ broken' = broken
        /\ down' = down /\ posted' = posted /\ late' = late /\ lost' = lost
        /\ refused' = refused /\ outcome' = outcome /\ interrupted' = interrupted
        /\ allowed' = allowed /\ flips' = flips
    BY <1>8 DEF vars, environment, desktop
  <2>2. TypeOK'
    BY <2>1 DEF InputInv, TypeOK, LastUnit
  <2>3. RestInv' /\ NoneInv' /\ LostInv' /\ LateInv' /\ DownInv'
    BY <2>1 DEF InputInv, RestInv, NoneInv, LostInv, LateInv, DownInv, Release, LastUnit
  <2> QED
    BY <2>1, <2>2, <2>3 DEF InputInv
<1> QED
  BY <1>1, <1>2, <1>3, <1>4, <1>5, <1>6, <1>7, <1>8 DEF Next

-----------------------------------------------------------------------------
(* Every event of a success was posted                                     *)

(* Where the events of an action are.                                      *)
LEMMA PlacesAre ==
  ASSUME NEW c, NEW u, u = Units(c)
  PROVE  /\ \A i \in 1..Len(u) : \A s \in 1..Len(u[i]) : \A l \in 1..Len(u[i][s]) :
              <<i, s, l>> \in Places(c)
         /\ \A x \in Places(c) : \E i \in 1..Len(u) : \E s \in 1..Len(u[i]) :
              \E l \in 1..Len(u[i][s]) : x = <<i, s, l>>
<1> DEFINE Stroked(i, s) == {<<i, s, l>> : l \in 1..Len(u[i][s])}
           United(i) == UNION {Stroked(i, s) : s \in 1..Len(u[i])}
<1>1. Places(c) = UNION {United(i) : i \in 1..Len(u)}
  BY DEF Places, LastUnit
<1>2. \A i, s, x : x \in Stroked(i, s) <=> \E l \in 1..Len(u[i][s]) : x = <<i, s, l>>
  OBVIOUS
<1> HIDE DEF Stroked
<1>3. \A i, x : x \in United(i) <=> \E s \in 1..Len(u[i]) : x \in Stroked(i, s)
  OBVIOUS
<1> HIDE DEF United
<1>4. \A x : x \in Places(c) <=> \E i \in 1..Len(u) : x \in United(i)
  BY <1>1
<1>5. ASSUME NEW i \in 1..Len(u), NEW s \in 1..Len(u[i]), NEW l \in 1..Len(u[i][s])
      PROVE  <<i, s, l>> \in Places(c)
  <2>1. PICK x : x = <<i, s, l>>
    OBVIOUS
  <2>2. x \in Stroked(i, s)
    BY <1>2, <2>1
  <2>3. x \in United(i)
    BY <1>3, <2>2
  <2> QED
    BY <1>4, <2>1, <2>3
<1>6. ASSUME NEW x \in Places(c)
      PROVE  \E i \in 1..Len(u) : \E s \in 1..Len(u[i]) : \E l \in 1..Len(u[i][s]) :
               x = <<i, s, l>>
  <2>1. PICK i \in 1..Len(u) : x \in United(i)
    BY <1>4
  <2>2. PICK s \in 1..Len(u[i]) : x \in Stroked(i, s)
    BY <1>3, <2>1
  <2>3. PICK l \in 1..Len(u[i][s]) : x = <<i, s, l>>
    BY <1>2, <2>2
  <2> QED
    BY <2>3
<1> QED
  BY <1>5, <1>6

(* A place, by its numbers.                                                *)
LEMMA PlaceIs ==
  ASSUME NEW c, NEW x \in Places(c), NEW u, u = Units(c)
  PROVE  /\ x = <<x[1], x[2], x[3]>>
         /\ x[1] \in 1..Len(u) /\ x[2] \in 1..Len(u[x[1]]) /\ x[3] \in 1..Len(u[x[1]][x[2]])
<1>1. PICK i \in 1..Len(u) : \E s \in 1..Len(u[i]) : \E l \in 1..Len(u[i][s]) : x = <<i, s, l>>
  BY PlacesAre
<1>2. PICK s \in 1..Len(u[i]) : \E l \in 1..Len(u[i][s]) : x = <<i, s, l>>
  BY <1>1
<1>3. PICK l \in 1..Len(u[i][s]) : x = <<i, s, l>>
  BY <1>2
<1>4. x[1] = i /\ x[2] = s /\ x[3] = l
  BY <1>3
<1> QED
  BY <1>3, <1>4

(* Going through the events of an action one by one.                       *)
LEMMA BeforeFirst ==
  ASSUME NEW c
  PROVE  Before(c, 1, 1, 1) = {}
<1> SUFFICES ASSUME NEW x \in Places(c) PROVE x \notin Before(c, 1, 1, 1)
  BY DEF Before
<1>1. PICK u : u = Units(c)
  OBVIOUS
<1>2. PICK a \in Nat, b \in Nat, d \in Nat :
        a = x[1] /\ b = x[2] /\ d = x[3] /\ 1 <= a /\ 1 <= b /\ 1 <= d
  <2>1. x[1] \in 1..Len(u) /\ x[2] \in 1..Len(u[x[1]]) /\ x[3] \in 1..Len(u[x[1]][x[2]])
    BY <1>1, PlaceIs
  <2> QED
    BY <2>1
<1> QED
  BY <1>2 DEF Before

LEMMA BeforeNext ==
  ASSUME NEW c, NEW i \in Nat, NEW s \in Nat, NEW l \in Nat, NEW p, p = <<i, s, l>>,
         p \in Places(c)
  PROVE  /\ p \notin Before(c, i, s, l)
         /\ Before(c, i, s, l + 1) = Before(c, i, s, l) \union {p}
<1>1. PICK u : u = Units(c)
  OBVIOUS
<1>2. p[1] = i /\ p[2] = s /\ p[3] = l
  OBVIOUS
<1>3. ASSUME NEW x \in Places(c)
      PROVE  x \in Before(c, i, s, l + 1) <=> x \in Before(c, i, s, l) \/ x = p
  <2>1. /\ x = <<x[1], x[2], x[3]>> /\ x[1] \in Nat /\ x[2] \in Nat /\ x[3] \in Nat
    BY <1>3, PlaceIs
  <2>2. PICK a \in Nat, b \in Nat, d \in Nat : a = x[1] /\ b = x[2] /\ d = x[3]
    BY <2>1
  <2>3. x = p <=> a = i /\ b = s /\ d = l
    BY <1>1, <1>2, <2>1, <2>2
  <2>4. x \in Before(c, i, s, l + 1) <=>
          a < i \/ (a = i /\ (b < s \/ (b = s /\ d < l + 1)))
    BY <2>2 DEF Before
  <2>5. x \in Before(c, i, s, l) <=> a < i \/ (a = i /\ (b < s \/ (b = s /\ d < l)))
    BY <2>2 DEF Before
  <2> QED
    BY <2>3, <2>4, <2>5
<1>4. p \notin Before(c, i, s, l)
  BY <1>2 DEF Before
<1>5. \A x : x \in Before(c, i, s, l + 1) \/ x \in Before(c, i, s, l) => x \in Places(c)
  BY DEF Before
<1> QED
  BY <1>1, <1>2, <1>3, <1>4, <1>5

LEMMA BeforeStroke ==
  ASSUME NEW c, NEW u, u = Units(c), NEW i \in 1..Len(u), NEW s \in 1..Len(u[i]),
         Len(u[i][s]) \in Nat
  PROVE  Before(c, i, s, Len(u[i][s]) + 1) = Before(c, i, s + 1, 1)
<1> SUFFICES ASSUME NEW x \in Places(c)
             PROVE  x \in Before(c, i, s, Len(u[i][s]) + 1) <=> x \in Before(c, i, s + 1, 1)
  BY DEF Before
<1>1. PICK n \in Nat : n = Len(u[i][s])
  OBVIOUS
<1>2. PICK a \in Nat, b \in Nat, d \in Nat : a = x[1] /\ b = x[2] /\ d = x[3] /\ 1 <= d
  BY PlaceIs
<1>3. a = i /\ b = s => d <= n
  <2>1. x[3] \in 1..Len(u[x[1]][x[2]])
    BY PlaceIs
  <2> QED
    BY <1>1, <1>2, <2>1
<1>4. x \in Before(c, i, s, n + 1) <=> a < i \/ (a = i /\ (b < s \/ (b = s /\ d < n + 1)))
  BY <1>2 DEF Before
<1>5. x \in Before(c, i, s + 1, 1) <=> a < i \/ (a = i /\ (b < s + 1 \/ (b = s + 1 /\ d < 1)))
  BY <1>2 DEF Before
<1> QED
  BY <1>1, <1>2, <1>3, <1>4, <1>5

LEMMA BeforeUnit ==
  ASSUME NEW c, NEW u, u = Units(c), NEW i \in 1..Len(u), Len(u[i]) \in Nat
  PROVE  Before(c, i, Len(u[i]) + 1, 1) = Before(c, i + 1, 1, 1)
<1> SUFFICES ASSUME NEW x \in Places(c)
             PROVE  x \in Before(c, i, Len(u[i]) + 1, 1) <=> x \in Before(c, i + 1, 1, 1)
  BY DEF Before
<1>1. PICK n \in Nat : n = Len(u[i])
  OBVIOUS
<1>2. PICK a \in Nat, b \in Nat, d \in Nat :
        a = x[1] /\ b = x[2] /\ d = x[3] /\ 1 <= d /\ 1 <= b
  BY PlaceIs
<1>3. a = i => b <= n
  <2>1. x[2] \in 1..Len(u[x[1]])
    BY PlaceIs
  <2> QED
    BY <1>1, <1>2, <2>1
<1>4. x \in Before(c, i, n + 1, 1) <=>
        a < i \/ (a = i /\ (b < n + 1 \/ (b = n + 1 /\ d < 1)))
  BY <1>2 DEF Before
<1>5. x \in Before(c, i + 1, 1, 1) <=>
        a < i + 1 \/ (a = i + 1 /\ (b < 1 \/ (b = 1 /\ d < 1)))
  BY <1>2 DEF Before
<1> QED
  BY <1>1, <1>2, <1>3, <1>4, <1>5

LEMMA BeforeEnd ==
  ASSUME NEW c, NEW n, n = LastUnit(c), n \in Nat
  PROVE  Before(c, n + 1, 1, 1) = Places(c)
<1>1. ASSUME NEW x \in Places(c) PROVE x[1] < n + 1
  <2>1. x[1] \in 1..n
    BY PlaceIs DEF LastUnit
  <2> QED
    BY <2>1
<1> QED
  BY <1>1 DEF Before

(* A unit begins at the first event of its first stroke.                   *)
LEMMA RemainsWhole ==
  ASSUME NEW unit \in Seq(Seq(Event)), unit # <<>>
  PROVE  Remains(unit, unit, 1, 1)
<1>1. PICK n \in Nat : n = Len(unit) /\ 1 <= n
  BY TailIs
<1>2. PICK p \in Seq(Event) : p = unit[1]
  BY TailIs
<1>3. PICK m \in Nat : m = Len(p)
  OBVIOUS
<1>4. Len(unit) = Len(unit) - 1 + 1
  BY <1>1
<1>5. Len(unit[1]) = Len(unit[1]) - 1 + 1
  BY <1>2, <1>3
<1>6. \A q \in 2..Len(unit) : unit[q] = unit[1 + q - 1]
  <2>1. \A q \in 2..Len(unit) : 1 + q - 1 = q
    OBVIOUS
  <2> QED
    BY <2>1
<1> QED
  BY <1>4, <1>5, <1>6 DEF Remains

(* What remains when the next event was posted.                            *)
LEMMA RemainsShorter ==
  ASSUME NEW unit \in Strokes, NEW r \in Strokes, r # <<>>, NEW t, t = Shorter(r),
         NEW s \in 1..Len(unit), NEW l \in 1..Len(unit[s]), Remains(r, unit, s, l)
  PROVE  /\ Len(unit) \in Nat /\ Len(unit[s]) \in Nat
         /\ \/ l < Len(unit[s]) /\ t # <<>> /\ Remains(t, unit, s, l + 1)
            \/ l = Len(unit[s]) /\ s < Len(unit) /\ t # <<>> /\ Remains(t, unit, s + 1, 1)
               /\ 1 \in 1..Len(unit[s + 1])
            \/ l = Len(unit[s]) /\ s = Len(unit) /\ t = <<>>
<1>1. /\ t \in Strokes
      /\ Len(r[1]) = 1 => t = Tail(r)
      /\ Len(r[1]) # 1 =>
           /\ t # <<>> /\ Len(t) = Len(r) /\ Len(t[1]) = Len(r[1]) - 1
           /\ \A q \in 2..Len(r) : t[q] = r[q]
  BY ShorterIs
<1>2. PICK n \in Nat : n = Len(r) /\ 1 <= n
  BY TailOfStrokes
<1>3. PICK m \in Nat : m = Len(r[1]) /\ 1 <= m
  BY FirstStroke
<1>4. unit \in Seq(Seq(Event)) /\ \A i \in 1..Len(unit) : unit[i] # <<>>
  BY DEF Strokes
<1>5. PICK z \in Nat : z = Len(unit)
  BY <1>4
<1>6. \A i \in 1..z : Len(unit[i]) \in Nat /\ 1 <= Len(unit[i])
  <2> SUFFICES ASSUME NEW i \in 1..z PROVE Len(unit[i]) \in Nat /\ 1 <= Len(unit[i])
    OBVIOUS
  <2>1. PICK p \in Seq(Event) : p = unit[i] /\ p # <<>>
    BY <1>4, <1>5
  <2>2. Len(p) \in Nat /\ 1 <= Len(p)
    BY <2>1, TailIs
  <2> QED
    BY <2>1, <2>2
<1>7. PICK y \in Nat : y = Len(unit[s])
  BY <1>5, <1>6
<1>8. n = z - s + 1 /\ m = y - l + 1 /\ \A q \in 2..n : r[q] = unit[s + q - 1]
  BY <1>2, <1>3, <1>5, <1>7 DEF Remains
<1>9. s \in Nat /\ l \in Nat /\ s <= z /\ l <= y
  BY <1>5, <1>7
<1>10. CASE m # 1
  <2>1. l < y /\ Len(t) = z - s + 1 /\ Len(t[1]) = y - (l + 1) + 1
    BY <1>1, <1>2, <1>3, <1>8, <1>9, <1>10
  <2>2. \A q \in 2..Len(t) : t[q] = unit[s + q - 1]
    BY <1>1, <1>2, <1>3, <1>8, <1>10
  <2>3. Remains(t, unit, s, l + 1)
    BY <1>5, <1>7, <2>1, <2>2 DEF Remains
  <2> QED
    BY <1>1, <1>3, <1>5, <1>7, <1>10, <2>1, <2>3
<1>11. CASE m = 1 /\ n = 1
  <2>1. t = <<>>
    BY <1>1, <1>2, <1>3, <1>11, OneStroke
  <2>2. l = y /\ s = z
    BY <1>8, <1>9, <1>11
  <2> QED
    BY <1>5, <1>7, <2>1, <2>2
<1>12. CASE m = 1 /\ n # 1
  <2>1. t = Tail(r)
    BY <1>1, <1>3, <1>12
  <2>2. Len(t) = n - 1 /\ \A q \in 1..n - 1 : t[q] = r[q + 1]
    BY <1>2, <2>1, TailOfStrokes
  <2>3. l = y /\ s < z /\ s + 1 \in 1..z
    BY <1>2, <1>8, <1>9, <1>12
  <2>4. t # <<>>
    BY <1>2, <1>12, <2>2, EmptySeq
  <2>5. \A q \in 1..n - 1 : t[q] = unit[s + q]
    <3> SUFFICES ASSUME NEW q \in 1..n - 1 PROVE t[q] = unit[s + q]
      OBVIOUS
    <3>1. q + 1 \in 2..n /\ s + (q + 1) - 1 = s + q
      BY <1>2, <1>9
    <3> QED
      BY <1>8, <2>2, <3>1
  <2>6. Len(t) = z - (s + 1) + 1
    BY <1>8, <1>9, <2>2
  <2>7. t[1] = unit[s + 1]
    BY <1>2, <1>12, <2>5
  <2>8. \A q \in 2..Len(t) : t[q] = unit[(s + 1) + q - 1]
    <3>1. \A q \in 2..n - 1 : (s + 1) + q - 1 = s + q
      BY <1>9
    <3> QED
      BY <2>2, <2>5, <3>1
  <2>9. PICK x \in Nat : x = Len(unit[s + 1]) /\ 1 <= x
    BY <1>6, <2>3
  <2>10. Len(t[1]) = x - 1 + 1
    BY <2>7, <2>9
  <2>11. Remains(t, unit, s + 1, 1)
    BY <1>5, <2>6, <2>8, <2>9, <2>10 DEF Remains
  <2> QED
    BY <1>5, <1>7, <2>3, <2>4, <2>9, <2>11
<1> QED
  BY <1>10, <1>11, <1>12

(* One event more.                                                         *)
LEMMA UptoNext ==
  ASSUME NEW c, NEW i \in Nat, NEW s \in Nat, NEW l \in Nat, NEW p, p = <<i, s, l>>,
         p \in Places(c), NEW n, Upto(c, n, i, s, l)
  PROVE  Upto(c, n + 1, i, s, l + 1)
<1>1. PICK B : B = Before(c, i, s, l)
  OBVIOUS
<1>2. PICK C : C = Before(c, i, s, l + 1)
  OBVIOUS
<1>3. p \notin B /\ C = B \union {p}
  BY <1>1, <1>2, BeforeNext
<1>4. IsFiniteSet(B) /\ n = Cardinality(B)
  BY <1>1 DEF Upto
<1>5. IsFiniteSet(C) /\ Cardinality(C) = Cardinality(B) + 1
  BY <1>3, <1>4, FS_AddElement
<1> QED
  BY <1>2, <1>4, <1>5 DEF Upto

(* Steps between events.                                                   *)
LEMMA QuietCount ==
  ASSUME InputInv, CountInv,
         \/ Interrupt \/ PersistNoYolo \/ Begin \/ BeginCommand \/ CheckPolicy \/ StartUnit
         \/ Stopped \/ UnitFails \/ UNCHANGED vars
  PROVE  CountInv'
<1>1. call' = call /\ posted' = posted
  BY DEF Interrupt, PersistNoYolo, Begin, BeginCommand, CheckPolicy, StartUnit, Stopped,
         UnitFails, desktop, vars
<1>2. CASE stage' \in {"unit", "events"} /\ stage' = stage /\ at' = at /\ rest' = rest
           /\ broken' = broken
  BY <1>1, <1>2 DEF CountInv
<1>3. CASE stage' = "done" /\ stage = "done" /\ outcome' = outcome
  BY <1>1, <1>3 DEF CountInv
<1>4. CASE stage' = "done" /\ outcome' # "ok"
  BY <1>4 DEF CountInv
<1>5. CASE stage' \notin {"unit", "events", "done"} \/ (stage' = "unit" /\ broken')
  BY <1>5 DEF CountInv
<1>6. CASE stage \in {"idle", "checks"} /\ stage' = "unit" /\ at' = at
  <2>1. at = 1 /\ posted = 0
    BY <1>6 DEF InputInv, NoneInv
  <2>2. Upto(call, 0, 1, 1, 1)
    BY BeforeFirst, FS_EmptySet DEF Upto
  <2> QED
    BY <1>1, <1>6, <2>1, <2>2 DEF CountInv
<1>7. CASE StartUnit
  <2>1. /\ stage = "unit" /\ stage' = "events" /\ rest' = Units(call)[at] /\ at' = at
        /\ broken' = broken
    BY <1>7 DEF StartUnit
  <2>2. PICK u : u = Units(call)
    OBVIOUS
  <2>3. Good(call, u[at])
    <3>1. at \in 1..Len(u)
      BY <2>1, <2>2, Position
    <3> QED
      BY <2>2, <3>1, Position
  <2>4. PICK w : w = u[at]
    OBVIOUS
  <2>5. w \in Strokes /\ w # <<>>
    BY <2>3, <2>4 DEF Good
  <2>6. Remains(w, w, 1, 1)
    BY <2>5, RemainsWhole DEF Strokes
  <2>7. 1 \in 1..Len(w) /\ 1 \in 1..Len(w[1])
    BY <2>5, FirstStroke, TailOfStrokes
  <2>8. (\A e \in Event : Strict(call, e)) /\ ~broken => Upto(call, posted, at, 1, 1)
    BY <2>1 DEF CountInv
  <2>9. ASSUME \A e \in Event : Strict(call, e), ~broken
        PROVE  \E s \in 1..Len(w) : \E l \in 1..Len(w[s]) :
                 Remains(w, w, s, l) /\ Upto(call, posted, at, s, l)
    BY <2>6, <2>7, <2>8, <2>9
  <2>10. Units(call')[at'] = w /\ rest' = w
    BY <1>1, <2>1, <2>2, <2>4
  <2>11. (\A e \in Event : Strict(call, e)) /\ ~broken =>
          \E s \in 1..Len(Units(call')[at']) : \E l \in 1..Len(Units(call')[at'][s]) :
            Remains(rest', Units(call')[at'], s, l) /\ Upto(call', posted', at', s, l)
    BY <1>1, <2>1, <2>9, <2>10
  <2> QED
    BY <1>1, <2>1, <2>11 DEF CountInv
<1>8. CASE Begin \/ BeginCommand \/ CheckPolicy
  BY <1>4, <1>5, <1>6, <1>8 DEF Begin, BeginCommand, CheckPolicy, End
<1>9. CASE Stopped \/ UnitFails
  BY <1>4, <1>5, <1>9 DEF Stopped, UnitFails, End
<1>10. CASE Interrupt \/ PersistNoYolo \/ UNCHANGED vars
  <2>1. /\ stage' = stage /\ at' = at /\ rest' = rest /\ broken' = broken /\ outcome' = outcome
    BY <1>10 DEF Interrupt, PersistNoYolo, vars
  <2> QED
    BY <1>2, <1>3, <1>5, <2>1
<1> QED
  BY <1>7, <1>8, <1>9, <1>10

(* An event is posted.                                                     *)
LEMMA PostCount ==
  ASSUME InputInv, CountInv, Post
  PROVE  CountInv'
<1>1. call' = call /\ stage = "events" /\ broken' = broken
  BY DEF Post
<1>2. PICK r : r = rest
  OBVIOUS
<1>3. PICK t : t = Shorter(r)
  OBVIOUS
<1>4. /\ r \in Strokes /\ r # <<>> /\ Head(Head(r)) \in Event
  BY <1>1, <1>2, Turn
<1>5. Continue(t) /\ posted' = posted + 1
  BY <1>2, <1>3, <1>4 DEF Post, Shorter, Happens
<1>6. t \in Strokes
  BY <1>3, <1>4, ShorterIs
<1>7. PICK u : u = Units(call)
  OBVIOUS
<1>8. at \in 1..Len(u) /\ at \in Nat /\ LastUnit(call) = Len(u) /\ Len(u) \in Nat
  BY <1>1, <1>7, Position
<1>9. PICK w : w = u[at]
  OBVIOUS
<1>10. w \in Strokes
  <2>1. Good(call, u[at])
    BY <1>7, <1>8, Position
  <2> QED
    BY <1>9, <2>1 DEF Good
<1> SUFFICES ASSUME \A e \in Event : Strict(call, e)
             PROVE  CountInv'
  BY <1>1 DEF CountInv
<1>11. CASE broken
  <2>1. stage' = "done" => outcome' # "ok"
    BY <1>1, <1>5, <1>6, <1>11, Going DEF Finish
  <2> QED
    BY <1>1, <1>11, <2>1 DEF CountInv
<1>12. CASE ~broken
  <2>1. \E s \in 1..Len(w) : \E l \in 1..Len(w[s]) :
          Remains(r, w, s, l) /\ Upto(call, posted, at, s, l)
    BY <1>1, <1>2, <1>7, <1>9, <1>12 DEF CountInv
  <2>2. PICK s \in 1..Len(w) : \E l \in 1..Len(w[s]) :
          Remains(r, w, s, l) /\ Upto(call, posted, at, s, l)
    BY <2>1
  <2>3. PICK l \in 1..Len(w[s]) : Remains(r, w, s, l) /\ Upto(call, posted, at, s, l)
    BY <2>2
  <2>4. Upto(call, posted', at, s, l + 1)
    <3>1. PICK p : p = <<at, s, l>>
      OBVIOUS
    <3>2. p \in Places(call)
      BY <1>7, <1>8, <1>9, <3>1, PlacesAre
    <3> QED
      BY <1>5, <1>8, <2>3, <3>1, <3>2, UptoNext
  <2>5. /\ Len(w) \in Nat /\ Len(w[s]) \in Nat
        /\ \/ l < Len(w[s]) /\ t # <<>> /\ Remains(t, w, s, l + 1)
           \/ l = Len(w[s]) /\ s < Len(w) /\ t # <<>> /\ Remains(t, w, s + 1, 1)
              /\ 1 \in 1..Len(w[s + 1])
           \/ l = Len(w[s]) /\ s = Len(w) /\ t = <<>>
    BY <1>3, <1>4, <1>10, <2>3, RemainsShorter
  <2>6. Before(call, at, s, Len(w[s]) + 1) = Before(call, at, s + 1, 1)
    BY <1>7, <1>8, <1>9, <2>5, BeforeStroke
  <2>7. Before(call, at, Len(w) + 1, 1) = Before(call, at + 1, 1, 1)
    BY <1>7, <1>8, <1>9, <2>5, BeforeUnit
  <2>8. ASSUME t # <<>>
        PROVE  \E i \in 1..Len(w) : \E j \in 1..Len(w[i]) :
                 Remains(t, w, i, j) /\ Upto(call, posted', at, i, j)
    <3>1. CASE l < Len(w[s]) /\ Remains(t, w, s, l + 1)
      <4>1. l + 1 \in 1..Len(w[s])
        BY <2>5, <3>1
      <4> QED
        BY <2>4, <3>1, <4>1
    <3>2. CASE l = Len(w[s]) /\ s < Len(w) /\ Remains(t, w, s + 1, 1) /\ 1 \in 1..Len(w[s + 1])
      <4>1. s + 1 \in 1..Len(w)
        BY <2>5, <3>2
      <4>2. Upto(call, posted', at, s + 1, 1)
        BY <2>4, <2>6, <3>2 DEF Upto
      <4> QED
        BY <3>2, <4>1, <4>2
    <3> QED
      BY <2>5, <2>8, <3>1, <3>2
  <2>9. t = <<>> => Upto(call, posted', at + 1, 1, 1)
    BY <2>4, <2>5, <2>6, <2>7 DEF Upto
  <2>10. /\ rest' = t
         /\ stage' = "events" => t # <<>> /\ at' = at
         /\ stage' = "unit" => t = <<>> /\ at' = at + 1
         /\ stage' = "done" => t = <<>> /\ at = LastUnit(call)
    <3>1. /\ stage' = "events" <=> t # <<>>
          /\ stage' \in {"unit", "events", "done"}
      BY <1>1, <1>5, <1>6, Going
    <3> QED
      BY <1>1, <1>5, <1>6, <3>1, Going
  <2>11. stage' = "unit" => Upto(call', posted', at', 1, 1)
    BY <1>1, <2>9, <2>10
  <2>12. stage' = "events" =>
           \E i \in 1..Len(Units(call')[at']) : \E j \in 1..Len(Units(call')[at'][i]) :
             Remains(rest', Units(call')[at'], i, j) /\ Upto(call', posted', at', i, j)
    <3>1. ASSUME stage' = "events" PROVE Units(call')[at'] = w /\ at' = at /\ t # <<>>
      BY <1>1, <1>7, <1>9, <2>10, <3>1
    <3> QED
      BY <1>1, <2>8, <2>10, <3>1
  <2>13. stage' = "done" => Upto(call', posted', LastUnit(call') + 1, 1, 1)
    BY <1>1, <2>9, <2>10
  <2> QED
    BY <2>11, <2>12, <2>13 DEF CountInv
<1> QED
  BY <1>11, <1>12

(* An event is lost.                                                       *)
LEMMA LoseCount ==
  ASSUME InputInv, CountInv, Refuse \/ Fail
  PROVE  CountInv'
<1>1. stage = "events" /\ (Lose(TRUE) \/ Lose(FALSE)) /\ call' = call
  BY DEF Refuse, Fail
<1>2. PICK r : r = rest
  OBVIOUS
<1>3. r[1][1] \in Event
  BY <1>1, <1>2, Turn
<1>4. \/ ~Strict(call, r[1][1])
      \/ stage' = "unit" /\ broken'
      \/ stage' = "done" /\ outcome' \in {"none", "unknown"}
  BY <1>1, <1>2, LosingIs
<1> QED
  BY <1>1, <1>3, <1>4 DEF CountInv

-----------------------------------------------------------------------------
(* The theorems                                                            *)

LEMMA SpecInv == Spec => [](InputInv /\ CountInv)
<1>1. Init => InputInv /\ CountInv
  <2>1. Init => CountInv
    BY DEF Init, CountInv
  <2> QED
    BY <2>1, InitInv
<1>2. InputInv /\ CountInv /\ [Next]_vars => InputInv' /\ CountInv'
  <2> SUFFICES ASSUME InputInv, CountInv, [Next]_vars PROVE CountInv'
    BY NextInv
  <2> QED
    BY QuietCount, PostCount, LoseCount DEF Next
<1> QED
  BY <1>1, <1>2, PTL DEF Spec

(* State of a call that goes on is what its actions expect of it: the      *)
(* current unit exists and strokes are left while one is under way.        *)
THEOREM NativeTypes == Spec => []TypeOK
BY SpecInv, PTL DEF InputInv

(* After cancellation or the deadline, at most one unit is finished or     *)
(* goes on, besides the release that ends a drag.                          *)
THEOREM InputStopsSoon == Spec => []StopsSoon
<1>1. InputInv => StopsSoon
  <2> SUFFICES ASSUME InputInv PROVE Cardinality(late \ Release(call)) <= 1
    BY DEF StopsSoon
  <2>1. PICK L : L = late \ Release(call)
    OBVIOUS
  <2>2. \A i, j \in L : i = j
    BY <2>1 DEF InputInv, LateInv
  <2>3. CASE L = {}
    BY <2>1, <2>3, FS_EmptySet
  <2>4. CASE L # {}
    <3>1. PICK i : L = {i}
      BY <2>2, <2>4
    <3>2. Cardinality(L) = 1
      BY <3>1, FS_Singleton
    <3> QED
      BY <2>1, <3>2
  <2> QED
    BY <2>3, <2>4
<1> QED
  BY <1>1, SpecInv, PTL

(* Outside the two cases of X11, what a call that has ended leaves down is *)
(* a key or button whose release was tried in vain.                        *)
THEOREM KeysAreReleased == Spec => []NothingStaysDown
<1>1. InputInv => NothingStaysDown
  <2> SUFFICES ASSUME InputInv, stage = "done", NEW k \in down,
                      ~(call.backend = "x11" /\ call.kind \in {"type_text", "scroll"})
               PROVE  Up(k) \in lost
    BY DEF NothingStaysDown, Done
  <2>1. CASE Open(call)
    BY <2>1 DEF InputInv, DownInv, Open
  <2>2. CASE ~Open(call)
    BY <2>2 DEF InputInv, DownInv
  <2> QED
    BY <2>1, <2>2
<1> QED
  BY <1>1, SpecInv, PTL

(* A call that reports no effect posted nothing; and one that reports      *)
(* success, where every failure ends an action, lost nothing and posted    *)
(* every event of every unit.                                              *)
THEOREM OutcomesOfInput == Spec => []TruthfulOutcomes
<1>1. InputInv /\ CountInv => TruthfulOutcomes
  <2> SUFFICES ASSUME InputInv, CountInv, stage = "done"
               PROVE  /\ outcome = "none" => posted = 0
                      /\ (outcome = "ok" /\ \A e \in Event : Strict(call, e)) =>
                           lost = {} /\ posted = Cardinality(Places(call))
    BY DEF TruthfulOutcomes, Done
  <2>1. outcome = "none" => posted = 0
    BY DEF InputInv, NoneInv
  <2>2. ASSUME outcome = "ok", \A e \in Event : Strict(call, e)
        PROVE  lost = {} /\ posted = Cardinality(Places(call))
    <3>1. lost = {}
      BY <2>2 DEF InputInv, LostInv
    <3>2. LastUnit(call) \in Nat
      BY Position
    <3>3. Upto(call, posted, LastUnit(call) + 1, 1, 1)
      BY <2>2 DEF CountInv
    <3> QED
      BY <3>1, <3>2, <3>3, BeforeEnd DEF Upto
  <2> QED
    BY <2>1, <2>2
<1> QED
  BY <1>1, SpecInv, PTL

-----------------------------------------------------------------------------
(* The contract                                                            *)

(* What the contract sees of the events posted and of the answer.          *)
HadEffect == IF posted > 0 THEN {1} ELSE {}
Trusted(o) == IF \A e \in Event : Strict(call, e) \/ o # "ok" THEN o ELSE "unknown"
Learnt == IF ~Done THEN {} ELSE {<<1, Trusted(outcome)>>}

(* An action has at least one event.                                       *)
LEMMA SomeEvent ==
  ASSUME InputInv, IsFiniteSet(Places(call)), posted = Cardinality(Places(call))
  PROVE  posted > 0
<1>1. PICK u : u = Units(call)
  OBVIOUS
<1>2. 1 \in 1..Len(u) /\ Good(call, u[1])
  BY <1>1, Position
<1>3. PICK unit : unit = u[1]
  OBVIOUS
<1>4. /\ unit \in Seq(Seq(Event)) /\ unit # <<>>
      /\ \A i \in 1..Len(unit) : unit[i] # <<>>
  BY <1>2, <1>3 DEF Good, Strokes
<1>5. Len(unit) \in Nat /\ 1 \in 1..Len(unit) /\ unit[1] \in Seq(Event)
  BY <1>4
<1>6. 1 \in 1..Len(unit[1])
  BY <1>4, <1>5
<1>7. <<1, 1, 1>> \in Places(call)
  BY <1>1, <1>2, <1>3, <1>5, <1>6, PlacesAre
<1> QED
  BY <1>7, FS_EmptySet, FS_CardinalityType DEF InputInv, TypeOK

(* What is told when the call ends is true.                                *)
TrueAnswer ==
  Done =>
    /\ Trusted(outcome) \in {"ok", "none", "unknown"}
    /\ Trusted(outcome) = "none" => posted = 0
    /\ Trusted(outcome) = "ok" => posted > 0

LEMMA EndTells == InputInv /\ CountInv => TrueAnswer
<1> SUFFICES ASSUME InputInv, CountInv, Done
             PROVE  /\ Trusted(outcome) \in {"ok", "none", "unknown"}
                    /\ Trusted(outcome) = "none" => posted = 0
                    /\ Trusted(outcome) = "ok" => posted > 0
  BY DEF TrueAnswer
<1>1. outcome \in {"none", "ok", "unknown"}
  BY DEF InputInv, TypeOK
<1>2. outcome = "none" => posted = 0
  BY DEF InputInv, NoneInv, Done
<1>3. ASSUME outcome = "ok", \A e \in Event : Strict(call, e)
      PROVE  posted > 0
  <2>1. LastUnit(call) \in Nat
    BY Position
  <2>2. Upto(call, posted, LastUnit(call) + 1, 1, 1)
    BY <1>3 DEF CountInv, Done
  <2> QED
    BY <2>1, <2>2, BeforeEnd, SomeEvent DEF Upto
<1> QED
  BY <1>1, <1>2, <1>3 DEF Trusted

(* Events are posted only while the call goes on, and an answer is final.  *)
LEMMA StepGrows ==
  ASSUME InputInv, [Next]_vars
  PROVE  /\ call' = call
         /\ posted' \in {posted, posted + 1}
         /\ Done => UNCHANGED <<stage, outcome, posted>>
<1>1. CASE UNCHANGED vars
  BY <1>1 DEF vars, desktop
<1>2. CASE Interrupt \/ PersistNoYolo
  BY <1>2 DEF Interrupt, PersistNoYolo, desktop
<1>3. CASE Begin \/ BeginCommand \/ CheckPolicy \/ StartUnit \/ Stopped \/ UnitFails
  BY <1>3 DEF Begin, BeginCommand, CheckPolicy, StartUnit, Stopped, UnitFails, desktop, Done
<1>4. CASE Post
  BY <1>4 DEF Post, Happens, Done
<1>5. CASE Refuse
  BY <1>5 DEF Refuse, Done
<1>6. CASE Fail
  BY <1>6 DEF Fail, Happens, Done
<1> QED
  BY <1>1, <1>2, <1>3, <1>4, <1>5, <1>6 DEF Next

(* Every step is one of the contract or none.                              *)
LEMMA ContractStep ==
  ASSUME InputInv, TrueAnswer', [Next]_vars
  PROVE  [Contract!Next]_(Contract!vars)
<1>1. /\ call' = call /\ posted \in Nat /\ posted' \in {posted, posted + 1}
      /\ Done => UNCHANGED <<stage, outcome, posted>>
  BY StepGrows DEF InputInv, TypeOK
<1>2. \A o : Trusted(o)' = Trusted(o)
  BY <1>1 DEF Trusted
<1>3. HadEffect' \in {HadEffect, HadEffect \union {1}}
  BY <1>1 DEF HadEffect
<1>4. Contract!vars = <<HadEffect, Learnt>> /\ Contract!vars' = <<HadEffect', Learnt'>>
  BY DEF Contract!vars, HadEffect, Learnt, Trusted
<1>5. CASE Done
  <2>1. HadEffect' = HadEffect /\ Learnt' = Learnt
    BY <1>1, <1>2, <1>5 DEF HadEffect, Learnt, Done
  <2> QED
    BY <1>4, <2>1
<1>6. CASE ~Done /\ ~Done'
  <2>1. Learnt = {} /\ Learnt' = {}
    BY <1>6 DEF Learnt
  <2>2. CASE HadEffect' = HadEffect
    BY <1>4, <2>1, <2>2
  <2>3. CASE HadEffect' = HadEffect \union {1}
    <3>1. Contract!Touch(1)
      BY <2>1, <2>3 DEF Contract!Touch, HadEffect, Learnt, Trusted
    <3> QED
      BY <3>1 DEF Contract!Next
  <2> QED
    BY <1>3, <2>2, <2>3
<1>7. CASE ~Done /\ Done'
  <2>1. PICK o \in {"ok", "none", "unknown"} : o = Trusted(outcome)'
    BY <1>7 DEF TrueAnswer
  <2>2. Learnt = {} /\ Learnt' = {<<1, o>>}
    BY <1>7, <2>1 DEF Learnt
  <2>3. (o = "none" => 1 \notin HadEffect') /\ (o = "ok" => 1 \in HadEffect')
    BY <1>7, <2>1 DEF HadEffect, TrueAnswer
  <2>4. Contract!Tell(1, o)
    BY <1>3, <2>2, <2>3 DEF Contract!Tell, HadEffect, Learnt, Trusted
  <2>5. o \in Contract!Knowledge
    BY <2>1 DEF Contract!Knowledge
  <2> QED
    BY <2>4, <2>5 DEF Contract!Next
<1> QED
  BY <1>5, <1>6, <1>7

(* NativeExecutor keeps the contract of Executor::dispatch with what it    *)
(* synthesises: no event after or before an answer of no effect, one answer*)
(* and, where every failure ends an action, success only after an event.   *)
THEOREM InputKeepsContract == Spec => KeepsContract
<1>1. Init => Contract!Init
  BY DEF Init, Contract!Init, Done
<1>2. InputInv /\ TrueAnswer' /\ [Next]_vars => [Contract!Next]_(Contract!vars)
  BY ContractStep
<1> QED
  BY <1>1, <1>2, SpecInv, EndTells, PTL DEF Spec, KeepsContract, Contract!Spec

=============================================================================

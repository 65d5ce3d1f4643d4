----------------------------- MODULE StateFiles -----------------------------
(***************************************************************************)
(* The files that Praefectus keeps besides its ledgers: in the state       *)
(* directory the file whose presence restricts global input                *)
(* (persist_no_yolo_at), and in a directory inside it the observations     *)
(* that later processes resolve targets against (persist_observation),     *)
(* both of src/src/lib.rs; and how the directories come to be, by          *)
(* ensure_directory and, on Windows, src/src/windows_acl.rs.  No lock is   *)
(* held here, except while Windows initialises.                            *)
(*                                                                         *)
(* A directory is private once its permissions or access control list were *)
(* set; the lists themselves are not modelled, and no other user acts.     *)
(***************************************************************************)
EXTENDS LedgerFiles

CONSTANTS
  Process,      \* processes that use the directories
  Observation,  \* observations, each persisted under a name of its own
  System        \* the operating systems to look at

Restriction == "no-yolo"
Directory == {"state", "observations"}

(* Under "unix_group" the umask leaves new directories writable for the    *)
(* group, under "unix" it does not.  The names are different ones:         *)
(* observations are named by hashes.                                       *)
ASSUME StateFilesAssumption ==
  /\ System \subseteq {"unix", "unix_group", "windows"}
  /\ Observation \intersect (Directory \union {Restriction, "root", "deny", "allow"}) = {}
  /\ "nobody" \notin Process

Name == Observation \union {Restriction} \union Directory

(* Where the entry of a name is kept.                                      *)
Parent(n) == CASE n \in {"root", "state"} -> "root"
               [] n \in Observation -> "observations"
               [] OTHER -> "state"

VARIABLES
  part,        \* which files this behaviour is about: "ledger" or "state"
  system,      \* the operating system
  there,       \* the names that exist
  private,     \* the directories whose permissions were set
  survives,    \* whether a name can be there, or be missing, after a power loss
  whole,       \* the observations whose content is on the disk
  at,          \* where each process is in its call
  job,         \* what it is about: an observation, or "deny" or "allow"
  missing,     \* the directories that it found missing
  initializer, \* the holder of the lock of the initialisation, or "nobody"
  contested,   \* the processes whose "deny" an "allow" overlapped
  abandoned,   \* the directories whose making was interrupted, or whose
               \* permissions a power loss took
  issued,      \* the observations that a call has returned
  denied,      \* the last call that ended said that input is restricted
  refused      \* a call was told that a directory is not private

disk == <<there, private, survives, whole>>
calls == <<at, job, missing, initializer, contested>>
told == <<abandoned, issued, denied, refused>>
stateVars == <<part, system, disk, calls, told>>

StateTypeOK ==
  /\ part \in {"ledger", "state"} /\ system \in System
  /\ there \subseteq Name /\ private \subseteq Directory \intersect there
  /\ survives \in [Name -> (SUBSET BOOLEAN) \ {{}}]
  /\ whole \subseteq Observation
  /\ at \in [Process -> {"idle", "look", "wait", "again", "make", "restrict", "enter",
                         "place", "sync", "rename", "settle", "remove"}]
  /\ job \in [Process -> Observation \union {"deny", "allow"}]
  /\ missing \in [Process -> SUBSET Directory]
  /\ initializer \in {"nobody"} \union
        {p \in Process : at[p] \in {"again", "make", "restrict", "enter"}}
  /\ contested \subseteq Process /\ abandoned \subseteq Directory
  /\ issued \subseteq Observation
  /\ denied \in BOOLEAN /\ refused \in BOOLEAN

StateInit ==
  /\ system \in System
  /\ there = {} /\ private = {} /\ whole = {}
  /\ survives = [n \in Name |-> {FALSE}]
  /\ at = [p \in Process |-> "idle"]
  /\ job = [p \in Process |-> "deny"]
  /\ missing = [p \in Process |-> {}]
  /\ initializer = "nobody"
  /\ contested = {} /\ abandoned = {} /\ issued = {}
  /\ denied = FALSE /\ refused = FALSE

-----------------------------------------------------------------------------
Move(p, from, to) == at[p] = from /\ at' = [at EXCEPT ![p] = to]

Observes(p) == job[p] \in Observation

(* The directories that the call needs, and the outer one of some.         *)
Needs(p) == IF Observes(p) THEN Directory ELSE {"state"}
Outer(ds) == IF "state" \in ds THEN "state" ELSE "observations"

(* The directories that the call has made or found made, and not finished. *)
Making(p) ==
  IF at[p] \in {"make", "restrict", "enter"} THEN missing[p] \intersect there ELSE {}

(* Mutant of Unlock: the guard of the lock lives as long as the process.   *)
KeptForLife(p) == initializer' = initializer

(* The InitializationGuard is dropped at the end of its scope.             *)
Unlock(p) == initializer' = IF initializer = p THEN "nobody" ELSE initializer

Create(n) == there' = there \union {n} /\ survives' = [survives EXCEPT ![n] = BOOLEAN]

(* A name is there, or missing, for certain.                               *)
Certain(n, names) == IF n \in names THEN {TRUE} ELSE {FALSE}

(* sync_parent: the entries of one directory are on the disk.  On Windows  *)
(* sync_directory writes and flushes a file of its own; the file system    *)
(* logs its changes in order, so everything before that is on the disk.    *)
SyncEntries(d) ==
  survives' = [n \in Name |-> IF system = "windows" \/ Parent(n) = d
                              THEN Certain(n, there) ELSE survives[n]]

(* The call is over.                                                       *)
Leave(p) ==
  /\ at' = [at EXCEPT ![p] = "idle"]
  /\ job' = [job EXCEPT ![p] = "deny"]
  /\ missing' = [missing EXCEPT ![p] = {}]
  /\ contested' = contested \ {p}
  /\ Unlock(p)

(* The call returns an error.                                              *)
CallEnds(p) ==
  /\ Leave(p)
  /\ abandoned' = abandoned \union Making(p)
  /\ UNCHANGED <<disk, issued, denied>>

StartPersist(p, o) ==
  /\ o \notin there \union issued \union {job[q] : q \in Process}
  /\ Move(p, "idle", "look")
  /\ job' = [job EXCEPT ![p] = o]
  /\ UNCHANGED <<disk, missing, initializer, contested, told>>

(* persist_no_yolo_at asks only whether the directory is there.            *)
StartDeny(p) ==
  /\ Move(p, "idle", IF "state" \in there THEN "place" ELSE "look")
  /\ job' = [job EXCEPT ![p] = "deny"]
  /\ contested' = IF \E q \in Process : at[q] # "idle" /\ job[q] = "allow"
                  THEN contested \union {p} ELSE contested \ {p}
  /\ UNCHANGED <<disk, missing, initializer, told>>

StartAllow(p) ==
  /\ Restriction \in there
  /\ Move(p, "idle", "remove")
  /\ job' = [job EXCEPT ![p] = "allow"]
  /\ contested' = contested \union {q \in Process : at[q] # "idle" /\ job[q] = "deny"}
  /\ denied' = FALSE
  /\ UNCHANGED <<disk, missing, initializer, abandoned, issued, refused>>

-----------------------------------------------------------------------------
(* ensure_directory                                                        *)

(* The walk up to the first directory that is there, which must not be     *)
(* writable for others.  One that was there is restricted for observations *)
(* only.                                                                   *)
LookUnix(p) ==
  LET gone == Needs(p) \ there
      found == IF "observations" \in Needs(p) \intersect there
               THEN {"observations"} ELSE Needs(p) \intersect there IN
  /\ at[p] = "look"
  /\ IF system = "unix_group" /\ ~(found \subseteq private)
     THEN CallEnds(p) /\ refused' = TRUE
     ELSE /\ missing' = [missing EXCEPT ![p] = gone]
          /\ Move(p, "look", IF gone # {} THEN "make"
                             ELSE IF Observes(p) THEN "restrict" ELSE "place")
          /\ UNCHANGED <<disk, job, initializer, contested, told>>

(* On Windows initialize_managed_state looks after the state directory     *)
(* first; a directory that is not private leads to the lock of the         *)
(* initialisation.                                                         *)
LookWindows(p) ==
  LET unfit == Needs(p) \ private IN
  /\ Move(p, "look", IF unfit = {} THEN "place" ELSE "wait")
  /\ missing' = [missing EXCEPT ![p] = IF unfit = {} THEN {} ELSE {Outer(unfit)}]
  /\ UNCHANGED <<disk, job, initializer, contested, told>>

Look(p) == IF system = "windows" THEN LookWindows(p) ELSE LookUnix(p)

(* Mutant of Wait: nobody waits for the initialisation.                    *)
NoWait(p) ==
  Move(p, "wait", "again") /\ UNCHANGED <<disk, job, missing, initializer, contested, told>>

(* initialization_lock                                                     *)
Wait(p) ==
  /\ initializer = "nobody"
  /\ Move(p, "wait", "again")
  /\ initializer' = p
  /\ UNCHANGED <<disk, job, missing, contested, told>>

(* The second look, under the lock: a directory that is there and not      *)
(* private is refused.                                                     *)
Again(p) ==
  /\ at[p] = "again"
  /\ CASE missing[p] \subseteq private ->
            /\ Move(p, "again", "look") /\ Unlock(p)
            /\ UNCHANGED <<disk, job, missing, contested, told>>
       [] missing[p] \intersect there = {} ->
            /\ Move(p, "again", "make")
            /\ UNCHANGED <<disk, job, missing, initializer, contested, told>>
       [] OTHER -> CallEnds(p) /\ refused' = TRUE

(* create_dir_all, which does not mind a directory that is there by now,   *)
(* and create_dir.                                                         *)
Make(p) ==
  LET gone == missing[p] \ there IN
  /\ Move(p, "make", IF gone \subseteq {Outer(gone)} THEN "restrict" ELSE "make")
  /\ IF gone = {} THEN UNCHANGED <<there, survives>> ELSE Create(Outer(gone))
  /\ UNCHANGED <<private, whole, job, missing, initializer, contested, told>>

(* restrict_directory.  Nothing syncs the state directory's own entry when *)
(* Windows initialises it.                                                 *)
Restrict(p) ==
  LET d == Outer(missing[p]) IN
  /\ private' = private \union {d}
  /\ Move(p, "restrict", CASE missing[p] = {} -> "place"
                           [] system = "windows" /\ d = "state" -> "look"
                           [] OTHER -> "enter")
  /\ IF at'[p] = "look" THEN Unlock(p) ELSE UNCHANGED initializer
  /\ UNCHANGED <<there, survives, whole, job, missing, contested, told>>

(* The call that found the directory missing syncs the one around it.      *)
Enter(p) ==
  LET d == Outer(missing[p]) IN
  /\ Move(p, "enter", IF missing[p] # {d} THEN "restrict"
                      ELSE IF system = "windows" THEN "look" ELSE "place")
  /\ SyncEntries(Parent(d))
  /\ missing' = [missing EXCEPT ![p] = @ \ {d}]
  /\ Unlock(p)
  /\ UNCHANGED <<there, private, whole, job, contested, told>>

-----------------------------------------------------------------------------
(* The files                                                               *)

(* Mutant of Found: a restriction that is there is reported at once.       *)
TrustPresent(p) ==
  /\ at[p] = "place" /\ ~Observes(p) /\ Restriction \in there
  /\ Leave(p)
  /\ denied' = (denied \/ p \notin contested)
  /\ UNCHANGED <<disk, abandoned, issued, refused>>

(* The restriction is an empty file, found or created.                     *)
Found(p) ==
  /\ ~Observes(p) /\ Restriction \in there
  /\ Move(p, "place", "settle")
  /\ UNCHANGED <<disk, job, missing, initializer, contested, told>>

Place(p) ==
  /\ ~Observes(p) /\ Restriction \notin there
  /\ Move(p, "place", "settle")
  /\ Create(Restriction)
  /\ UNCHANGED <<private, whole, job, missing, initializer, contested, told>>

(* An observation is written to a temporary file with a name that no other *)
(* call uses.                                                              *)
Fill(p) ==
  /\ Observes(p)
  /\ Move(p, "place", "sync")
  /\ whole' = whole \ {job[p]}
  /\ UNCHANGED <<there, private, survives, job, missing, initializer, contested, told>>

SyncContent(p) ==
  /\ Move(p, "sync", "rename")
  /\ whole' = whole \union {job[p]}
  /\ UNCHANGED <<there, private, survives, job, missing, initializer, contested, told>>

(* rename, or replace_file_durable.                                        *)
Rename(p) ==
  /\ Move(p, "rename", "settle")
  /\ Create(job[p])
  /\ UNCHANGED <<private, whole, job, missing, initializer, contested, told>>

(* remove_file, which fails if another call was first.                     *)
Remove(p) ==
  /\ at[p] = "remove"
  /\ IF Restriction \in there
     THEN /\ Move(p, "remove", "settle")
          /\ there' = there \ {Restriction}
          /\ survives' = [survives EXCEPT ![Restriction] = BOOLEAN]
          /\ UNCHANGED <<private, whole, job, missing, initializer, contested, told>>
     ELSE CallEnds(p) /\ UNCHANGED refused

(* sync_parent, and the answer.                                            *)
Settle(p) ==
  /\ at[p] = "settle"
  /\ Leave(p)
  /\ SyncEntries(Parent(IF Observes(p) THEN job[p] ELSE Restriction))
  /\ issued' = issued \union (Observation \intersect {job[p]})
  /\ denied' = (denied \/ (job[p] = "deny" /\ p \notin contested))
  /\ UNCHANGED <<there, private, whole, abandoned, refused>>

(* A step fails, or the process is killed: what it did stays done.         *)
Breaks(p) == at[p] # "idle" /\ CallEnds(p) /\ UNCHANGED refused

(* A name is gone with its directory, and a directory can come back        *)
(* without its permissions.  What was in a directory that is lost is no    *)
(* longer promised: ConfirmedLasts says when that can happen.              *)
PowerFails ==
  \E kept \in SUBSET Name :
    /\ \A n \in Name : Certain(n, kept) \subseteq survives[n]
    /\ there' = {n \in kept : Parent(n) \in kept \union {"root"}
                             /\ Parent(Parent(n)) \in kept \union {"root"}}
    /\ survives' = [n \in Name |-> Certain(n, there')]
    /\ private' \in SUBSET (private \intersect there')
    /\ abandoned' = abandoned \union ((private \intersect there') \ private')
                      \union UNION {Making(p) : p \in Process}
    /\ issued' = IF Directory \subseteq there' THEN issued ELSE {}
    /\ denied' = (denied /\ "state" \in there')
    /\ at' = [p \in Process |-> "idle"]
    /\ job' = [p \in Process |-> "deny"]
    /\ missing' = [p \in Process |-> {}]
    /\ initializer' = "nobody" /\ contested' = {}
    /\ UNCHANGED <<whole, refused>>

Calls(p) ==
  \/ \E o \in Observation : StartPersist(p, o)
  \/ StartDeny(p) \/ StartAllow(p)
  \/ Look(p) \/ Wait(p) \/ Again(p) \/ Make(p) \/ Restrict(p) \/ Enter(p)
  \/ Found(p) \/ Place(p) \/ Fill(p) \/ SyncContent(p) \/ Rename(p) \/ Remove(p) \/ Settle(p)
  \/ Breaks(p)

StateNext ==
  /\ \E p \in Process : Calls(p)
     \/ PowerFails
  /\ UNCHANGED <<part, system>>

(* A behaviour is about the ledgers or about the other files: they share   *)
(* no state.                                                               *)
FilesInit ==
  /\ part \in {"ledger", "state"} /\ Init /\ StateInit
  /\ part = "state" => op = CHOOSE o \in Op : TRUE
  /\ part = "state" => faults = CHOOSE f \in Scenarios : TRUE

FilesNext ==
  \/ part = "ledger" /\ Next /\ UNCHANGED stateVars
  \/ part = "state" /\ StateNext /\ UNCHANGED vars

FilesSpec == FilesInit /\ [][FilesNext]_<<vars, stateVars>>

-----------------------------------------------------------------------------
(* Properties                                                              *)

(* The types of both parts; among them that the lock of the initialisation *)
(* belongs to a call that still initialises (between its second look and   *)
(* the end of initialize_managed_state or of ensure_directory), whatever   *)
(* the call found, was refused or failed at: a call that is over, or has   *)
(* gone on to its files, shuts nobody out (windows_acl::initialization_lock).*)
FilesTypeOK == TypeOK /\ StateTypeOK

(* What a call has confirmed lasts, though later calls fail or are killed  *)
(* and the power is lost.  An observation that was returned can be loaded  *)
(* with its whole content (persist_observation); global input that was     *)
(* denied stays denied until somebody starts to allow it, whoever denies   *)
(* it again meanwhile (persist_no_yolo_at).  The directories survive as    *)
(* well, except while the call that made one is still busy with it or if   *)
(* that call was interrupted: later calls find the directory and do not    *)
(* sync (ensure_directory).                                                *)
ConfirmedLasts ==
  /\ issued \subseteq there \intersect whole
  /\ denied => Restriction \in there
  /\ \A d \in Directory :
       (issued # {} \/ (denied /\ d = "state")) =>
         survives[d] = {TRUE} \/ d \in abandoned \/ \E p \in Process : d \in Making(p)

(* Calls that start together do not take each other's half made directory  *)
(* for a foreign one: only what an interrupted call left is refused, except *)
(* where the umask lets the group write (windows_acl::initialization_lock, *)
(* validate_private_directory).                                            *)
RefusedAfterCrash == refused => abandoned # {} \/ system = "unix_group"

=============================================================================

------------------------------ MODULE MCEngine ------------------------------
(* Small instances of Engine: which threads share a process, a ledger file *)
(* and an outcome store.  A process with one thread has that thread's      *)
(* name, and a ledger file that only one process opens has that process's  *)
(* name, so that the processes are interchangeable.                        *)
EXTENDS Engine, TLC

CONSTANTS t1, t2, host, shared

(* Two processes with one thread each. *)
SingleThreaded == [t \in {t1, t2} |-> t]
(* Two threads of one process. *)
TwoThreads == [t \in {t1, t2} |-> host]

(* The ledger file and the outcome store of each process. *)
SharedFile == [q \in Process |-> shared]
OwnFile == [q \in Process |-> q]
SharedStore == [q \in Process |-> shared]

Twins == Permutations({t1, t2})

=============================================================================

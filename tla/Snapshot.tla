------------------------------ MODULE Snapshot ------------------------------
(***************************************************************************)
(* What a core dump promises: the memory of the process as it was at one   *)
(* instant between the call and its return.  The process works on.         *)
(***************************************************************************)
EXTENDS Naturals

CONSTANTS Threads, MaxWork, None

VARIABLES
  data,  \* data[t]: how far thread t has come, in its registers and memory
  busy,  \* a dump is under way
  core   \* the image taken by the last dump, or None

vars == <<data, busy, core>>

Init ==
  /\ data = [t \in Threads |-> 0]
  /\ busy = FALSE
  /\ core = None

Work(t) ==
  /\ data[t] < MaxWork
  /\ data' = [data EXCEPT ![t] = @ + 1]
  /\ UNCHANGED <<busy, core>>

\* A dump begins, or is refused at once.
Call ==
  /\ ~busy
  /\ busy' \in BOOLEAN
  /\ core' = None
  /\ UNCHANGED data

\* The one instant the core shows.
Take ==
  /\ busy /\ core = None
  /\ core' = data
  /\ UNCHANGED <<data, busy>>

\* Ok, with the image taken; or an error, with none.
Finish ==
  /\ busy
  /\ busy' = FALSE
  /\ \/ core # None /\ core' = core
     \/ core' = None
  /\ UNCHANGED data

Next == Call \/ Take \/ Finish \/ \E t \in Threads : Work(t)

Spec == Init /\ [][Next]_vars

=============================================================================

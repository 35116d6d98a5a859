-------------------------- MODULE MCLinuxThreads --------------------------
(* Inputs of LinuxThreads for TLC. *)
EXTENDS LinuxThreads

CONSTANTS t1, t2, t3

\* Two threads, of which the second calls; and one thread alone.
MCStarts == {[alive |-> {t1, t2}, caller |-> t2], [alive |-> {t1}, caller |-> t1]}
===========================================================================

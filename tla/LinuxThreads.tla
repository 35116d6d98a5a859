---------------------------- MODULE LinuxThreads ----------------------------
(***************************************************************************)
(* The thread lister of the C library (coredumper/linuxthreads.c).         *)
(*                                                                         *)
(* The Caller clones the lister, a process of its own that shares memory   *)
(* and descriptors but not signal handlers.  The lister walks              *)
(* /proc/<ppid>/task/ in passes and attaches to every entry that shows its *)
(* marker socket; with fewer than two threads found it starts again on     *)
(* /proc/, where only processes are listed.  It runs the callback with the *)
(* threads stopped, resumes them and exits; the Caller decodes the exit    *)
(* status.  The handler of a synchronous signal finds the threads to       *)
(* resume in sig_pids and sig_num_threads, globals of the whole program.   *)
(***************************************************************************)
EXTENDS Integers, Sequences, FiniteSets

CONSTANTS
  Threads,    \* threads of the process
  Kids,       \* forked children that still show the marker socket
  Leader,     \* its pid is the lister's ppid
  Starts,     \* who is alive at the start, and who calls ListAllProcessThreads
  Spawners,   \* threads that may create threads
  Exiters,    \* threads and children that may exit
  Yama,       \* attaching needs PR_SET_PTRACER
  Spare,      \* slots beyond the number of threads; 100 in the code
  Signals,    \* synchronous signals that may hit the lister
  MaxCalls,   \* bound: calls one after the other
  MaxFaults   \* bound: system calls that fail, and signals

ASSUME ListerAssumption ==
  /\ \A s \in Starts :
       /\ {Leader, s.caller} \subseteq s.alive /\ s.alive \subseteq Threads
       /\ s.caller \notin Exiters
  /\ Spare \in Nat /\ MaxCalls \in Nat /\ MaxFaults \in Nat

VARIABLES
  tstate,   \* "unborn", "running", "stopped" or "exited"
  traced,   \* whom the lister is attached to
  caller,   \* the Caller
  cpc,      \* its program counter
  call,     \* number of calls begun
  dumpable, \* the flag of the process and, second, the saved one
  blocked,  \* the Caller blocks asynchronous signals
  ptracer,  \* PR_SET_PTRACER names the lister
  args,     \* result and err of ListerParams
  lpc,      \* the lister
  path,     \* 1: /proc/<ppid>/task/, 2: /proc/
  pids,     \* pids[0 .. num_threads - 1]
  max_threads, added_entries, found_parent,
  cur,      \* the entry the walk is at
  must,     \* entries alive since the directory was rewound
  listed,   \* entries returned since then
  todo,     \* how many of pids ResumeAllProcessThreads has still to detach
  detached, \* detached_at_least_one
  after,    \* what follows ResumeAllProcessThreads
  status,   \* exit status
  open,     \* descriptors the lister has open: "marker", "proc"
  handlers, \* SignalHandler is installed
  sig_pids, \* the call whose array it points to; 0: NULL
  sig_num_threads,
  sig_proc, \* it holds a descriptor number
  refused,  \* threads that could not be attached to in this call
  skipped,  \* task/ could not be opened in this call
  how,      \* how the lister ended
  stranded, \* threads it was attached to at that time
  faults

hostVars   == <<tstate>>
callerVars == <<caller, cpc, call, dumpable, blocked, ptracer>>
scanVars   == <<pids, added_entries, found_parent, cur, must, listed>>
endVars    == <<todo, detached, after, status, how, stranded>>
sigVars    == <<handlers, sig_pids, sig_num_threads, sig_proc>>
noteVars   == <<refused, skipped>>
vars == <<tstate, traced, callerVars, args, lpc, path, max_threads, scanVars, endVars,
          open, sigVars, noteVars, faults>>

Everyone == Threads \cup Kids

Live == {t \in Everyone : tstate[t] \in {"running", "stopped"}}

Init ==
  /\ \E s \in Starts :
       /\ tstate = [t \in Everyone |-> IF t \in s.alive \cup Kids THEN "running" ELSE "unborn"]
       /\ caller = s.caller
  /\ traced = {}
  /\ cpc = "idle" /\ call = 0 /\ blocked = FALSE /\ ptracer = FALSE
  /\ dumpable = <<0, 0>>
  /\ args = <<-1, "none">>
  /\ lpc = "none" /\ path = 1 /\ max_threads = 0
  /\ pids = <<>> /\ added_entries = 0 /\ found_parent = FALSE
  /\ cur = Leader /\ must = {} /\ listed = {}
  /\ todo = 0 /\ detached = FALSE /\ after = "none" /\ status = 0 /\ how = "none"
  /\ stranded = {}
  /\ open = {}
  /\ handlers = FALSE /\ sig_pids = 0 /\ sig_num_threads = 0 /\ sig_proc = FALSE
  /\ refused = {} /\ skipped = FALSE
  /\ faults = 0

Fault == faults < MaxFaults /\ faults' = faults + 1

-----------------------------------------------------------------------------
(* The process. *)

Spawn(t, u) ==
  /\ t \in Spawners \ {caller} /\ tstate[t] = "running" /\ u \in Threads /\ tstate[u] = "unborn"
  /\ tstate' = [tstate EXCEPT ![u] = "running"]
  /\ UNCHANGED <<traced, callerVars, args, lpc, path, max_threads, scanVars, endVars,
                 open, sigVars, noteVars, faults>>

Leave(t) ==
  /\ t \in Exiters /\ tstate[t] = "running"
  /\ tstate' = [tstate EXCEPT ![t] = "exited"]
  /\ traced' = traced \ {t} /\ stranded' = stranded \ {t}
  /\ UNCHANGED <<callerVars, args, lpc, path, max_threads, scanVars, todo, detached, after,
                 status, how, open, sigVars, noteVars, faults>>

\* The SIGSTOP of PTRACE_ATTACH takes effect.
Stop(t) ==
  /\ t \in traced \cup stranded /\ tstate[t] = "running"
  /\ tstate' = [tstate EXCEPT ![t] = "stopped"]
  /\ UNCHANGED <<traced, callerVars, args, lpc, path, max_threads, scanVars, endVars,
                 open, sigVars, noteVars, faults>>

\* The kernel wakes up a thread whose tracer is gone; some forget to.
Wake(t) ==
  /\ t \in stranded
  /\ stranded' = stranded \ {t}
  /\ tstate' = IF tstate[t] = "stopped" THEN [tstate EXCEPT ![t] = "running"] ELSE tstate
  /\ UNCHANGED <<traced, callerVars, args, lpc, path, max_threads, scanVars, todo, detached,
                 after, status, how, open, sigVars, noteVars, faults>>

-----------------------------------------------------------------------------
(* ListAllProcessThreads *)

callerFrame == <<caller, tstate, traced, path, max_threads, scanVars, endVars, open, sigVars>>

Runs == tstate[caller] = "running"

\* The process is made dumpable, and the argument block filled in.
Begin ==
  /\ cpc = "idle" /\ call < MaxCalls /\ Runs
  /\ cpc' = "mask" /\ call' = call + 1
  /\ dumpable' = <<1, dumpable[1]>>
  /\ args' = <<-1, "none">>
  /\ refused' = {} /\ skipped' = FALSE
  /\ UNCHANGED <<callerFrame, blocked, ptracer, lpc, faults>>

\* Asynchronous signals are blocked.
Mask ==
  /\ cpc = "mask" /\ Runs
  /\ \/ blocked' = TRUE /\ cpc' = "clone" /\ UNCHANGED <<args, faults>>
     \/ Fault /\ args' = <<-1, "EINVAL">> /\ cpc' = "return" /\ UNCHANGED blocked
  /\ UNCHANGED <<callerFrame, call, dumpable, ptracer, lpc, noteVars>>

\* local_clone; the lister starts with the dispositions of the process.
Clone ==
  /\ cpc = "clone" /\ Runs
  /\ cpc' = "ptracer"
  /\ detached' = FALSE /\ how' = "none"
  /\ \/ lpc' = "setup" /\ UNCHANGED faults
     \/ Fault /\ lpc' = "none"
  /\ UNCHANGED <<tstate, traced, path, max_threads, scanVars, todo, after, status, stranded,
                 handlers, caller, call, dumpable, blocked, ptracer, args, open, sig_pids,
                 sig_num_threads, sig_proc, noteVars>>

\* Only now may the lister attach under Yama.
SetPtracer ==
  /\ cpc = "ptracer" /\ Runs
  /\ cpc' = "unmask" /\ ptracer' = (lpc # "none")
  /\ UNCHANGED <<callerFrame, call, dumpable, blocked, args, lpc, noteVars, faults>>

Unmask ==
  /\ cpc = "unmask" /\ Runs
  /\ cpc' = "wait" /\ blocked' = FALSE
  /\ UNCHANGED <<callerFrame, call, dumpable, ptracer, args, lpc, noteVars, faults>>

\* What the Caller makes of the exit status; -1 is a signal that was not handled.
Decoded(s) ==
  CASE s = 0  -> args
    [] s \in {2, -1} -> <<-1, "EFAULT">>
    [] s = 3  -> <<-1, "EPERM">>
    [] OTHER  -> <<-1, "ECHILD">>

\* Reap the lister, whose variables are gone, and decode its status.
Wait ==
  /\ cpc = "wait" /\ Runs /\ lpc \in {"dead", "none"}
  /\ cpc' = "return" /\ lpc' = "none" /\ ptracer' = FALSE
  /\ args' = IF lpc = "none" THEN <<-1, "EAGAIN">> ELSE Decoded(status)
  /\ path' = 1 /\ max_threads' = 0 /\ handlers' = FALSE
  /\ pids' = <<>> /\ added_entries' = 0 /\ found_parent' = FALSE
  /\ cur' = Leader /\ must' = {} /\ listed' = {}
  /\ todo' = 0 /\ after' = "none" /\ status' = 0
  /\ UNCHANGED <<tstate, traced, detached, how, stranded, open, sig_pids, sig_num_threads,
                 sig_proc, caller, call, dumpable, blocked, noteVars, faults>>

\* Restore the dumpable flag and return.
Return ==
  /\ cpc = "return" /\ Runs
  /\ cpc' = "idle"
  /\ dumpable' = <<dumpable[2], dumpable[2]>>
  /\ UNCHANGED <<callerFrame, call, blocked, ptracer, args, lpc, noteVars, faults>>

-----------------------------------------------------------------------------
(* ListerThread *)

listerFrame == <<callerVars, noteVars>>

\* The lister exits; the threads it is attached to are left to the kernel.
End(s, h) ==
  /\ lpc' = "dead" /\ status' = s /\ how' = h
  /\ traced' = {} /\ stranded' = stranded \cup traced

\* failure: the error is noted, and both descriptors are closed; nobody is resumed.
Failure ==
  /\ args' = <<-1, "ESYS">>
  /\ open' = {} /\ sig_proc' = FALSE
  /\ End(1, "failure")

\* The marker socket, its path, and the handlers of synchronous signals.
Setup ==
  /\ lpc = "setup"
  /\ \/ /\ lpc' = "install" /\ open' = {"marker"} /\ sig_proc' = FALSE
        /\ UNCHANGED <<args, traced, status, how, stranded, faults>>
     \/ Fault /\ Failure
  /\ UNCHANGED <<listerFrame, tstate, path, max_threads, scanVars, todo, detached, after,
                 handlers, sig_pids, sig_num_threads>>

Install ==
  /\ lpc = "install"
  /\ lpc' = "open" /\ handlers' = TRUE
  /\ UNCHANGED <<listerFrame, tstate, traced, args, path, max_threads, scanVars, endVars,
                 open, sig_pids, sig_num_threads, sig_proc, faults>>

\* What a directory lists: threads, or processes.
Entries == IF path = 1 THEN Live \cap Threads ELSE Live \cap ({Leader} \cup Kids)

\* Open the directory, guess the number of threads and publish the array.
OpenProc ==
  /\ lpc = "open"
  /\ \/ /\ lpc' = "publish" /\ open' = open \cup {"proc"} /\ sig_proc' = TRUE
        /\ LET guess == Cardinality(Entries) + Spare
           IN max_threads' = IF max_threads < guess THEN guess ELSE max_threads
        /\ UNCHANGED <<args, path, traced, status, how, stranded, skipped, faults>>
     \/ /\ Fault /\ path = 1
        /\ path' = 2 /\ skipped' = TRUE /\ sig_proc' = FALSE
        /\ UNCHANGED <<args, lpc, open, max_threads, traced, status, how, stranded>>
     \/ Fault /\ Failure /\ UNCHANGED <<path, max_threads, skipped>>
  /\ UNCHANGED <<callerVars, refused, tstate, scanVars, todo, detached, after, handlers,
                 sig_pids, sig_num_threads>>

ThisArray == call

Publish ==
  /\ lpc = "publish"
  /\ lpc' = "scan" /\ added_entries' = 0
  /\ sig_num_threads' = Len(pids) /\ sig_pids' = ThisArray
  /\ must' = Entries /\ listed' = {}
  /\ UNCHANGED <<listerFrame, tstate, traced, args, path, max_threads, pids, found_parent,
                 cur, endVars, open, handlers, sig_proc, faults>>

AgainNever  == FALSE               \* mutants
AgainAlways == added_entries >= 0

\* A pass that found somebody is followed by another.
Again == added_entries > 0

\* getdents: an entry, the end of a pass that must be followed by another or that
\* ends the walk, or an error.
GetDents ==
  /\ lpc = "scan"
  /\ \/ /\ \E t \in Entries \ listed : cur' = t /\ listed' = listed \cup {t}
        /\ lpc' = "examine"
        /\ UNCHANGED <<must, added_entries, args, open, traced, status, how, stranded,
                       sig_proc, faults>>
     \/ /\ must \cap Entries \subseteq listed
        /\ IF Again
           THEN added_entries' = 0 /\ must' = Entries /\ listed' = {} /\ UNCHANGED lpc
           ELSE lpc' = "found" /\ UNCHANGED <<added_entries, must, listed>>
        /\ UNCHANGED <<cur, args, open, traced, status, how, stranded, sig_proc, faults>>
     \/ Fault /\ Failure /\ UNCHANGED <<cur, listed, must, added_entries>>
  /\ UNCHANGED <<listerFrame, tstate, path, max_threads, pids, found_parent, todo, detached,
                 after, handlers, sig_pids, sig_num_threads>>

\* The entries in the list.
PidSet == {pids[k] : k \in 1 .. Len(pids)}

\* The entry does not show the marker, or is in the list.
Known == cur \notin Live \/ cur \in PidSet

\* The entry shows the marker, is no duplicate, and there is room for it: it is
\* published before it is attached to.  Without room, start again with more.
Examine ==
  /\ lpc = "examine"
  /\ IF Known
     THEN lpc' = "scan" /\ UNCHANGED <<pids, sig_num_threads, open, todo, after>>
     ELSE IF Len(pids) >= max_threads
     THEN /\ lpc' = "resume" /\ todo' = Len(pids) /\ after' = "retry"
          /\ open' = open \ {"proc"}
          /\ UNCHANGED <<pids, sig_num_threads>>
     ELSE /\ lpc' = "attach"
          /\ pids' = Append(pids, cur) /\ sig_num_threads' = Len(pids')
          /\ UNCHANGED <<open, todo, after>>
  /\ UNCHANGED <<listerFrame, tstate, traced, args, path, max_threads, added_entries,
                 found_parent, cur, must, listed, detached, status, how, stranded, handlers,
                 sig_pids, sig_proc, faults>>

\* The last entry is taken back.
Drop == pids' = SubSeq(pids, 1, Len(pids) - 1) /\ sig_num_threads' = Len(pids')

\* PTRACE_ATTACH, refused to a dead thread, under Yama, or by a debugger.
Attach ==
  /\ lpc = "attach"
  /\ \/ /\ cur \in Live /\ (Yama => ptracer)
        /\ traced' = traced \cup {cur} /\ stranded' = stranded \ {cur}
        /\ lpc' = "await"
        /\ UNCHANGED <<pids, sig_num_threads, refused, faults>>
     \/ /\ cur \notin Live \/ (Yama /\ ~ptracer)
        /\ Drop /\ lpc' = "scan" /\ refused' = refused \cup ({cur} \cap Live)
        /\ UNCHANGED <<traced, stranded, faults>>
     \/ /\ cur \in Live /\ Fault
        /\ Drop /\ lpc' = "scan" /\ refused' = refused \cup {cur}
        /\ UNCHANGED <<traced, stranded>>
  /\ UNCHANGED <<callerVars, skipped, tstate, args, path, max_threads, added_entries,
                 found_parent, cur, must, listed, todo, detached, after,
                 status, how, open, handlers, sig_pids, sig_proc>>

\* waitpid: the thread has stopped, or is gone.
Await ==
  /\ lpc = "await"
  /\ tstate[cur] # "running"
  /\ lpc' = "verify"
  /\ UNCHANGED <<listerFrame, tstate, traced, args, path, max_threads, scanVars, endVars, open,
                 sigVars, faults>>

\* sys_ptrace_detach succeeds on a stopped tracee only, and wakes it up.
Detaches(t) == t \in traced /\ tstate[t] = "stopped"
Detach(t) ==
  /\ traced' = traced \ {t}
  /\ tstate' = IF Detaches(t) THEN [tstate EXCEPT ![t] = "running"] ELSE tstate

\* The lister's stack must be visible in the memory of the thread.
Verify ==
  /\ lpc = "verify"
  /\ lpc' = "scan"
  /\ IF tstate[cur] = "stopped" /\ cur \in Threads
     THEN /\ found_parent' = (found_parent \/ cur = Leader)
          /\ added_entries' = added_entries + 1
          /\ UNCHANGED <<tstate, traced, pids, sig_num_threads>>
     ELSE Detach(cur) /\ Drop /\ UNCHANGED <<found_parent, added_entries>>
  /\ UNCHANGED <<listerFrame, args, path, max_threads, cur, must, listed, endVars, open,
                 handlers, sig_pids, sig_proc, faults>>

\* The walk is over: callback, error 3, or once more on the other path.
Found ==
  /\ lpc = "found"
  /\ sig_proc' = FALSE
  /\ IF Len(pids) > 1 \/ path = 2
     THEN /\ open' = {} /\ UNCHANGED path
          /\ IF found_parent THEN lpc' = "callback" /\ UNCHANGED <<todo, after>>
             ELSE lpc' = "resume" /\ todo' = Len(pids) /\ after' = "exit3"
     ELSE /\ path' = 2 /\ open' = open \ {"proc"}
          /\ lpc' = "resume" /\ todo' = Len(pids) /\ after' = "retry"
  /\ UNCHANGED <<listerFrame, tstate, traced, args, max_threads, scanVars, detached, status,
                 how, stranded, handlers, sig_pids, sig_num_threads, faults>>

\* The callback, which ought to resume the threads.
Callback ==
  /\ lpc = "callback"
  /\ \E r \in {0, -1} : args' = <<r, "none">>
  /\ lpc' = "resume" /\ todo' = Len(pids) /\ detached' = FALSE
  /\ after' \in {"again", "exit0"}
  /\ UNCHANGED <<listerFrame, tstate, traced, path, max_threads, scanVars, status, how,
                 stranded, open, sigVars, faults>>

\* ResumeAllProcessThreads, from the last thread to the first.
ResumeOne ==
  /\ lpc = "resume" /\ todo > 0
  /\ Detach(pids[todo])
  /\ detached' = (detached \/ Detaches(pids[todo]))
  /\ todo' = todo - 1
  /\ UNCHANGED <<listerFrame, args, lpc, path, max_threads, scanVars, after, status, how,
                 stranded, open, sigVars, faults>>

OutcomeAsIs == args   \* a mutant

\* The callback left a thread suspended: an error.
Outcome == IF detached THEN <<-1, "EINVAL">> ELSE args

\* All are resumed: after the callback, at the end, or before another attempt.
Resumed ==
  /\ lpc = "resume" /\ todo = 0
  /\ \/ /\ after = "again"
        /\ after' = "exit0" /\ todo' = Len(pids) /\ detached' = FALSE
        /\ UNCHANGED <<args, lpc, status, how, traced, stranded, pids, max_threads,
                       sig_pids, sig_num_threads>>
     \/ /\ after = "exit0"
        /\ args' = Outcome /\ End(0, "exit")
        /\ UNCHANGED <<after, todo, detached, pids, max_threads, sig_pids, sig_num_threads>>
     \/ /\ after = "exit3"
        /\ End(3, "exit")
        /\ UNCHANGED <<args, after, todo, detached, pids, max_threads, sig_pids,
                       sig_num_threads>>
     \/ /\ after = "retry"
        /\ lpc' = "open" /\ sig_pids' = 0 /\ sig_num_threads' = 0 /\ pids' = <<>>
        /\ max_threads' = max_threads + 1
        /\ UNCHANGED <<args, after, todo, detached, status, how, traced, stranded>>
  /\ UNCHANGED <<listerFrame, tstate, path, added_entries, found_parent, cur, must, listed,
                 open, handlers, sig_proc, faults>>

PublishedButLast ==   \* a mutant
  IF sig_pids = call THEN {pids[k] : k \in 1 .. sig_num_threads - 1} ELSE {}

\* The threads the handler finds; an array of an earlier call holds nobody of use.
Published ==
  IF sig_pids = call THEN {pids[k] : k \in 1 .. sig_num_threads} ELSE {}

\* SignalHandler: kill or resume the threads it finds, close the descriptors and
\* exit.  Before it is installed the signal just ends the lister.
Signal(sig) ==
  /\ lpc \notin {"none", "dead"} /\ Fault
  /\ lpc' = "dead"
  /\ IF ~handlers
     THEN /\ status' = -1 /\ how' = "killed"
          /\ stranded' = stranded \cup traced
          /\ UNCHANGED <<tstate, open, sig_pids, sig_num_threads, sig_proc>>
     ELSE /\ status' = IF sig = "SIGABRT" THEN 1 ELSE 2
          /\ LET hit == {t \in Published : Detaches(t)}
             IN /\ how' = IF sig = "SIGABRT" /\ hit # {} THEN "abort" ELSE "handler"
                /\ tstate' = [t \in Everyone |->
                      IF hit = {} THEN tstate[t]
                      ELSE IF sig = "SIGABRT"
                      THEN IF t \in Threads THEN "exited" ELSE tstate[t]
                      ELSE IF t \in hit THEN "running" ELSE tstate[t]]
                /\ stranded' = stranded \cup
                     (IF sig = "SIGABRT" /\ hit # {} THEN {} ELSE traced \ hit)
          /\ open' = (open \ {"marker"}) \ (IF sig_proc THEN {"proc"} ELSE {})
          /\ sig_pids' = 0 /\ sig_num_threads' = 0 /\ sig_proc' = FALSE
  /\ traced' = {}
  /\ UNCHANGED <<listerFrame, args, path, max_threads, scanVars, todo, detached, after,
                 handlers>>

ListAll == Begin \/ Mask \/ Clone \/ SetPtracer \/ Unmask \/ Wait \/ Return

ListerThread ==
  \/ Setup \/ Install \/ OpenProc \/ Publish \/ GetDents \/ Examine \/ Attach \/ Await
  \/ Verify \/ Found \/ Callback \/ ResumeOne \/ Resumed

Next ==
  \/ \E t, u \in Threads : Spawn(t, u)
  \/ \E t \in Everyone : Leave(t) \/ Stop(t) \/ Wake(t)
  \/ ListAll \/ ListerThread
  \/ \E sig \in Signals : Signal(sig)

\* The scheduler runs the Caller and the lister, and SIGSTOP is delivered.
Fairness ==
  /\ WF_vars(Mask \/ Clone \/ SetPtracer \/ Unmask \/ Wait \/ Return)
  /\ WF_vars(ListerThread)
  /\ \A t \in Everyone : WF_vars(Stop(t))

Spec == Init /\ [][Next]_vars /\ Fairness

-----------------------------------------------------------------------------
(* Properties *)

\* The variables are within their ranges, the list within its array, and a traced
\* thread is in the list (linuxthreads.c ListerThread).
TypeOK ==
  /\ \A t \in Everyone : tstate[t] \in {"unborn", "running", "stopped", "exited"}
  /\ traced \subseteq PidSet
  /\ Cardinality(PidSet) = Len(pids) /\ Len(pids) <= max_threads
  /\ open \subseteq {"marker", "proc"}
  /\ sig_num_threads \in 0 .. Cardinality(Everyone)

\* When the callback runs, every thread of the process is stopped and listed, none
\* twice, and no other process is, however threads came and went during the walk;
\* unless an attach was refused or task/ could not be opened
\* (linuxthreads.c:360-379, 411-465).
FrozenAtCallback ==
  lpc = "callback" /\ refused = {} /\ ~skipped =>
    /\ \A t \in Live \cap Threads : tstate[t] = "stopped" /\ t \in PidSet
    /\ PidSet \subseteq Threads

\* The lister leaves a thread attached only on its failure path, or when a signal
\* meets a thread between attach and stop (linuxthreads.c:197-226, 270-282, 429-451).
StrandsOnlyOnFailure ==
  [][\/ stranded' \subseteq stranded
     \/ how' = "failure"
     \/ how' = "handler" /\ stranded' \ stranded = {cur} /\ lpc = "await"]_vars

\* A call that succeeds ran the callback and resumed every thread it listed; EPERM
\* means that an attach was refused or the leader is gone; EINVAL that the callback
\* left a thread suspended (linuxthreads.c:485-507, 630-655).
ResultIsTruth ==
  cpc = "return" /\ lpc = "none" =>
    /\ args[1] = 0 => how = "exit" /\ ~detached
    /\ args[2] = "EPERM" => refused # {} \/ skipped \/ Leader \in Exiters

\* The call returns unless its process was aborted or a thread is stranded: the
\* passes over /proc come to an end (linuxthreads.c:360-379, 508-515).
CallReturns == (cpc = "mask") ~> (cpc = "idle" \/ stranded # {} \/ how = "abort")

=============================================================================

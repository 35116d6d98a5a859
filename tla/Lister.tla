------------------------------- MODULE Lister -------------------------------
(***************************************************************************)
(* The thread lister of corus-core (src/corus-core/src/threads.rs).        *)
(*                                                                         *)
(* One thread of the host process, the Caller, calls                       *)
(* list_all_process_threads.  It clones the lister: a process of its own   *)
(* that shares the host's memory and file table.  The lister scans         *)
(* /proc/<ppid>/task in passes, attaches to every thread with ptrace,      *)
(* runs the callback with the threads stopped, resumes them, reaps the     *)
(* snapshot child the callback may have forked, and exits.  The Caller     *)
(* reaps the lister and decodes its exit status.  A crash signal may hit   *)
(* the lister at any step; its handler resumes or kills the threads whose  *)
(* tids have been published in SIG_PIDS / SIG_NUM_THREADS.                 *)
(*                                                                         *)
(* The host's threads run, spawn threads and exit throughout.              *)
(***************************************************************************)
EXTENDS Integers, Sequences, FiniteSets

CONSTANTS
  Threads,         \* every thread id the host process may ever use
  Leader,          \* the thread-group leader: its tid is the lister's ppid
  Caller,          \* the thread that asks for the dump
  Initial,         \* the threads alive at the start
  Spawners,        \* the threads that may create threads
  Exiters,         \* the threads that may exit
  Unshared,        \* threads with a file table of their own (unshare)
  Denied,          \* threads PTRACE_ATTACH refuses (already traced, LSM)
  MAX_THREADS,     \* capacity of the lister's pid array
  Yama,            \* TRUE: attaching needs PR_SET_PTRACER first
  SigchldIgnored,  \* TRUE: the host ignores SIGCHLD, children self-reap
  CrashSignals,    \* the crash signals that may hit the lister
  CallbackResults, \* what the callback may return
  MaxCalls,        \* bound: dumps requested one after the other
  MaxFaults        \* bound: failing system calls plus crash signals

ASSUME ThreadsAssumption ==
  /\ Leader \in Initial
  /\ Caller \in Initial
  /\ Initial \subseteq Threads
  /\ Caller \notin Exiters

ASSUME BoundsAssumption ==
  /\ MAX_THREADS \in Nat
  /\ MaxCalls \in Nat
  /\ MaxFaults \in Nat

ASSUME EnvironmentAssumption ==
  /\ Yama \in BOOLEAN
  /\ SigchldIgnored \in BOOLEAN
  /\ CrashSignals \subseteq {"SIGABRT", "SIGSEGV"}
  /\ CallbackResults \subseteq Int

VARIABLES
  \* The host's threads, as the kernel sees them.
  tstate,        \* "unborn", "running", "stopped" or "exited"
  stopping,      \* threads with the attach SIGSTOP queued, not yet stopped
  traced,        \* threads the current lister is attached to
  \* The Caller, in list_all_process_threads.
  cpc,           \* its program counter
  call,          \* number of calls begun
  flag,          \* the process's dumpable flag, 0 or 1
  saved,         \* local `dumpable`: the flag when the call began
  mask,          \* the Caller's signal mask: the "old" one, or all "blocked"
  ptracer,       \* the call whose lister PR_SET_PTRACER names, 0 = none
  params,        \* the shared ListerParams: result and err
  ret,           \* what the last call returned: Ok(result) or Err(err)
  \* The lister.
  lpc,           \* its program counter; "none": no such process
  pids,          \* the suspended-thread list, pids[..num_threads]
  cur,           \* the thread attach_and_verify works on
  added,         \* number of threads this pass attached
  must,          \* threads alive since this pass rewound the directory
  listed,        \* threads getdents has returned in this pass
  batch,         \* entries of the current getdents buffer still to walk
  todo,          \* threads a resume or kill loop has still to handle
  exitTo,        \* what the lister does when its resume loop ends
  reaping,       \* the child reap_snapshot_child waits for
  status,        \* exit status of the lister
  fds,           \* descriptors the current lister has open, in shared files
  \* The process-global crash-cleanup state, and the snapshot child.
  handlers,      \* the call whose lister installed crash handlers last
  sigPids,       \* SIG_PIDS: the call whose pid array it points to, 0 = null
  sigNum,        \* SIG_NUM_THREADS
  snapshotChild, \* SNAPSHOT_CHILD: the call whose child it names, 0 = none
  child,         \* child[c]: state of the child forked during call c
  \* History and bounds.
  diedAt,        \* lpc at which a crash signal hit the lister, or "no"
  faults,        \* faults injected so far
  base           \* value of `faults` when the current call began

hostVars   == <<tstate, stopping>>
callerVars == <<cpc, call, flag, saved, mask, ptracer, ret, base>>
scanVars   == <<pids, cur, added, must, listed, batch>>
endVars    == <<todo, exitTo, reaping, status, fds>>
crashVars  == <<handlers, sigPids, sigNum, diedAt>>
childVars  == <<snapshotChild, child>>

\* What the host's threads, the Caller and the directory scan leave alone.
hostFrame   == <<callerVars, params, lpc, scanVars, endVars, crashVars,
                 faults>>
callerFrame == <<hostVars, traced, scanVars, endVars, crashVars, childVars>>
scanFrame   == <<callerVars, params, endVars, crashVars, childVars, faults>>

vars == <<tstate, stopping, traced, cpc, call, flag, saved, mask, ptracer,
          params, ret, lpc, pids, cur, added, must, listed, batch,
          todo, exitTo, reaping, status, fds, handlers, sigPids, sigNum,
          snapshotChild, child, diedAt, faults, base>>

-----------------------------------------------------------------------------

\* Wait status of a lister a signal killed; exit codes are 0 .. 3.
KILLED == 128

Errnos == {"none", "EPERM", "EFAULT", "ECHILD", "ENOMEM", "ENOENT", "ESYS"}

\* The steps at which the lister is inside the loop over the task directory.
ScanPcs == {"walk", "await", "register"}

ListerPcs == {"none", "setup", "publish", "install", "open", "rewind"}
  \cup ScanPcs
  \cup {"found", "callback", "clear", "resume", "swap", "reap",
        "cleanup", "kill", "dead"}

CallerPcs == {"idle", "mask", "clone", "ptracer", "unmask", "wait", "return"}

Elems(s) == {s[i] : i \in DOMAIN s}

Live == {t \in Threads : tstate[t] \in {"running", "stopped"}}

CallerRuns == tstate[Caller] = "running"

\* No fault was injected during the current call.
Clean == faults = base

\* A system call fails, or a signal arrives.
Fault ==
  /\ faults < MaxFaults
  /\ faults' = faults + 1

Init ==
  /\ tstate = [t \in Threads |-> IF t \in Initial THEN "running" ELSE "unborn"]
  /\ stopping = {} /\ traced = {}
  /\ cpc = "idle" /\ call = 0
  /\ flag \in {0, 1} /\ saved = flag
  /\ mask = "old" /\ ptracer = 0
  /\ params = [result |-> -1, err |-> "none"]
  /\ ret = [result |-> -1, err |-> "none"]
  /\ lpc = "none" /\ pids = <<>> /\ cur = Leader
  /\ added = 0
  /\ must = {} /\ listed = {} /\ batch = {}
  /\ todo = <<>> /\ exitTo = "reap" /\ reaping = 0 /\ status = 0
  /\ fds = 0
  /\ handlers = 0 /\ sigPids = 0 /\ sigNum = 0
  /\ snapshotChild = 0 /\ child = [c \in 1..MaxCalls |-> "none"]
  /\ diedAt = "no" /\ faults = 0 /\ base = 0

-----------------------------------------------------------------------------
(* The host's threads and the kernel.                                      *)

\* A running thread creates a thread.
Spawn(t, n) ==
  /\ t \in Spawners /\ tstate[t] = "running" /\ tstate[n] = "unborn"
  /\ tstate' = [tstate EXCEPT ![n] = "running"]
  /\ UNCHANGED <<hostFrame, stopping, traced, childVars>>

\* A running thread exits; a SIGSTOP queued for it is lost.
Exit(t) ==
  /\ t \in Exiters /\ tstate[t] = "running"
  /\ tstate' = [tstate EXCEPT ![t] = "exited"]
  /\ stopping' = stopping \ {t}
  /\ UNCHANGED <<hostFrame, traced, childVars>>

\* A thread takes the SIGSTOP that PTRACE_ATTACH queued for it.
Stop(t) ==
  /\ t \in stopping
  /\ stopping' = stopping \ {t}
  /\ tstate' = [tstate EXCEPT ![t] = "stopped"]
  /\ UNCHANGED <<hostFrame, traced, childVars>>

\* The snapshot child exits: 0 when it wrote the core.
ChildExit(c) ==
  /\ child[c] = "running"
  /\ \E s \in {"ok", "failed"} : child' = [child EXCEPT ![c] = s]
  /\ UNCHANGED <<hostFrame, hostVars, traced, snapshotChild>>

-----------------------------------------------------------------------------
(* The Caller: with_mmap_stack and list_all_process_threads.               *)

\* with_mmap_stack maps the lister's stack; then the dumpable flag is read,
\* and set when it was clear.
Begin ==
  /\ CallerRuns /\ cpc = "idle" /\ call < MaxCalls
  /\ call' = call + 1
  /\ base' = faults
  /\ \/ /\ saved' = flag
        /\ flag' = 1
        /\ params' = [result |-> -1, err |-> "none"]
        /\ cpc' = "mask"
        /\ UNCHANGED <<ret, faults>>
     \/ /\ Fault                          \* mmap fails
        /\ ret' = [result |-> -1, err |-> "ESYS"]
        /\ UNCHANGED <<saved, flag, params, cpc>>
  /\ UNCHANGED <<callerFrame, mask, ptracer, lpc>>

\* Mutant: the flag stays set.
restore_dumpable_never == UNCHANGED flag

\* Restoring the dumpable flag: only a flag that was clear is written back.
restore_dumpable == flag' = IF saved = 0 THEN 0 ELSE flag

\* Block the async signals.
BlockSignals ==
  /\ CallerRuns /\ cpc = "mask"
  /\ \/ /\ mask' = "blocked"
        /\ cpc' = "clone"
        /\ UNCHANGED <<flag, ret, faults>>
     \/ /\ Fault
        /\ restore_dumpable
        /\ ret' = [result |-> -1, err |-> "ESYS"]
        /\ cpc' = "idle"
        /\ UNCHANGED mask
  /\ UNCHANGED <<callerFrame, call, saved, ptracer, base, params, lpc>>

\* Clone the lister: its own process, with the host's signal handlers.
Clone ==
  /\ CallerRuns /\ cpc = "clone"
  /\ cpc' = "ptracer"
  /\ \/ /\ lpc' = "setup"
        /\ UNCHANGED faults
     \/ /\ Fault
        /\ UNCHANGED lpc
  /\ traced' = {} /\ pids' = <<>> /\ cur' = Leader
  /\ added' = 0
  /\ must' = {} /\ listed' = {} /\ batch' = {} /\ todo' = <<>>
  /\ fds' = 0 /\ diedAt' = "no"
  /\ UNCHANGED <<hostVars, call, flag, saved, mask, ptracer, base, params, ret,
                 exitTo, reaping, status, handlers, sigPids, sigNum, childVars>>

\* Let the lister attach under Yama: only once its pid is known.
AllowPtracer ==
  /\ CallerRuns /\ cpc = "ptracer"
  /\ ptracer' = IF lpc # "none" THEN call ELSE ptracer
  /\ cpc' = "unmask"
  /\ UNCHANGED <<callerFrame, call, flag, saved, mask, base, params, ret, lpc,
                 faults>>

\* Restore the signal mask; without a lister, report clone's error.
UnblockSignals ==
  /\ CallerRuns /\ cpc = "unmask"
  /\ mask' = "old"
  /\ \/ /\ lpc # "none"
        /\ cpc' = "wait"
        /\ UNCHANGED <<flag, ret>>
     \/ /\ lpc = "none"
        /\ restore_dumpable
        /\ ret' = [result |-> -1, err |-> "ESYS"]
        /\ cpc' = "idle"
  /\ UNCHANGED <<callerFrame, call, saved, ptracer, base, params, lpc,
                 faults>>

\* The lister's wait status folded into the shared parameter block.
decode_lister_status(s, p) ==
  CASE s = 0 -> p
    [] s = 1 -> [result |-> -1,
                 err |-> IF p.err = "none" THEN "ECHILD" ELSE p.err]
    [] s = 2 -> [result |-> -1, err |-> "EFAULT"]
    [] s = 3 -> [result |-> -1, err |-> "EPERM"]
    [] s = KILLED -> [result |-> -1, err |-> "EFAULT"]
    [] OTHER -> [result |-> -1, err |-> "ECHILD"]

\* Reap the lister.  When wait4 fails (another waiter took the status) the
\* decoded status is 0 and wait4's errno stands.
WaitLister ==
  /\ CallerRuns /\ cpc = "wait" /\ lpc = "dead"
  /\ \/ /\ params' = decode_lister_status(status, params)
        /\ UNCHANGED faults
     \/ /\ Fault
        /\ params' = decode_lister_status(0, [result |-> -1, err |-> "ECHILD"])
  /\ lpc' = "none"
  /\ cpc' = "return"
  /\ UNCHANGED <<callerFrame, call, flag, saved, mask, ptracer, base, ret>>

\* Restore the dumpable flag, unmap the stack, return.
Return ==
  /\ CallerRuns /\ cpc = "return"
  /\ restore_dumpable
  /\ ret' = IF params.result = -1 THEN params
            ELSE [result |-> params.result, err |-> "none"]
  /\ cpc' = "idle"
  /\ UNCHANGED <<callerFrame, call, saved, mask, ptracer, base, params, lpc,
                 faults>>

-----------------------------------------------------------------------------
(* The lister process: lister_thread.                                      *)

\* The lister is gone: what it still traced is let go but not woken.
ListerExit(s) ==
  /\ lpc' = "dead"
  /\ status' = s
  /\ traced' = {}

\* fail(): record the errno and exit with status 1.
Fail(e) ==
  /\ params' = [result |-> -1, err |-> e]
  /\ ListerExit(1)

\* Mutant: the loop stops one thread short.
StartResumeShort(ts, after) ==
  /\ todo' = SubSeq(ts, 1, Len(ts) - 1)
  /\ exitTo' = after
  /\ lpc' = "resume"

\* Start a loop that resumes the threads ts, then goes on as `after` says.
StartResume(ts, after) ==
  /\ todo' = ts
  /\ exitTo' = after
  /\ lpc' = "resume"

\* /proc/<tid>/fd/<marker> is our marker: t is alive and shares our files.
thread_shares_address_space(t) == t \in Live \ Unshared

\* gettid, getppid, the marker socket, its CLOEXEC flag and its inode, which
\* is looked up in the leader's file table.
Setup ==
  /\ lpc = "setup"
  /\ \/ /\ thread_shares_address_space(Leader)
        /\ fds' = 1
        /\ lpc' = "publish"
        /\ UNCHANGED <<traced, params, status, faults>>
     \/ /\ ~thread_shares_address_space(Leader)
        /\ Fail("ENOENT")
        /\ UNCHANGED <<fds, faults>>
     \/ /\ Fault
        /\ Fail("ESYS")
        /\ UNCHANGED fds
  /\ UNCHANGED <<hostVars, callerVars, scanVars, todo, exitTo, reaping,
                 crashVars, childVars>>

\* Publish the empty pid list to the crash handler.
Publish ==
  /\ lpc = "publish"
  /\ sigPids' = call
  /\ sigNum' = 0
  /\ lpc' = "install"
  /\ UNCHANGED <<hostVars, traced, callerVars, params, scanVars, endVars,
                 handlers, diedAt, childVars, faults>>

install_crash_handlers ==
  /\ lpc = "install"
  /\ handlers' = call
  /\ lpc' = "open"
  /\ UNCHANGED <<hostVars, traced, callerVars, params, scanVars, endVars,
                 sigPids, sigNum, diedAt, childVars, faults>>

\* Open /proc/<ppid>/task.  A failure leaves SIG_PIDS published.
OpenTask ==
  /\ lpc = "open"
  /\ \/ /\ fds' = fds + 1
        /\ lpc' = "rewind"
        /\ UNCHANGED <<traced, params, status, faults>>
     \/ /\ Fault
        /\ fds' = fds - 1
        /\ Fail("ESYS")
  /\ UNCHANGED <<hostVars, callerVars, scanVars, todo, exitTo, reaping,
                 crashVars, childVars>>

\* Start a pass: rewind the directory.
Rewind ==
  /\ lpc = "rewind"
  /\ added' = 0
  /\ must' = Live /\ listed' = {} /\ batch' = {}
  /\ lpc' = "walk"
  /\ UNCHANGED <<scanFrame, hostVars, traced, pids, cur>>

\* The buffer has been walked.
BufferEmpty == lpc = "walk" /\ batch = {}

\* getdents fills the buffer with entries not returned before in this pass.
ReadEntries ==
  /\ BufferEmpty
  /\ \E entries \in SUBSET (Live \ listed) :
       /\ entries # {}
       /\ batch' = entries
       /\ listed' = listed \cup entries
  /\ UNCHANGED <<scanFrame, hostVars, traced, lpc, pids, cur, added, must>>

\* Mutant: one pass only.
EndPassOnce ==
  /\ BufferEmpty
  /\ must \cap Live \subseteq listed
  /\ lpc' = "found"
  /\ UNCHANGED <<scanFrame, hostVars, traced, scanVars>>

\* getdents reports the end of the directory.  What readdir promises: every
\* thread alive through the whole pass has been returned.  A pass that
\* attached a thread is followed by another.
EndPass ==
  /\ BufferEmpty
  /\ must \cap Live \subseteq listed
  /\ lpc' = IF added = 0 THEN "found" ELSE "rewind"
  /\ UNCHANGED <<scanFrame, hostVars, traced, scanVars>>

\* Close the directory and the marker.
CloseBoth == fds' = fds - 2

\* getdents fails: resume everything and report.
GetdentsFails ==
  /\ BufferEmpty
  /\ Fault
  /\ CloseBoth
  /\ StartResume(pids, "ESYS")
  /\ UNCHANGED <<hostVars, traced, callerVars, params, scanVars, reaping,
                 status, crashVars, childVars>>

\* An entry the lister tries to attach to.
Candidate(t) == t \notin Elems(pids) /\ thread_shares_address_space(t)

\* The kernel grants PTRACE_ATTACH: the process is dumpable, Yama has been
\* told, and nothing else refuses.
CanAttach(t) == t \in Live \ Denied /\ flag = 1 /\ (Yama => ptracer = call)

\* Skip an entry: already suspended, not ours, or PTRACE_ATTACH failed.
SkipEntry(t) ==
  /\ lpc = "walk" /\ t \in batch
  /\ ~Candidate(t) \/ (Len(pids) < MAX_THREADS /\ ~CanAttach(t))
  /\ batch' = batch \ {t}
  /\ UNCHANGED <<scanFrame, hostVars, traced, lpc, pids, cur, added, must,
                 listed>>

\* The pid array is full: resume everything and report.
TooManyThreads(t) ==
  /\ lpc = "walk" /\ t \in batch
  /\ Candidate(t) /\ Len(pids) >= MAX_THREADS
  /\ CloseBoth
  /\ StartResume(pids, "ENOMEM")
  /\ UNCHANGED <<hostVars, traced, callerVars, params, scanVars, reaping,
                 status, crashVars, childVars, faults>>

\* attach_and_verify, PTRACE_ATTACH: queues a SIGSTOP.
Attach(t) ==
  /\ lpc = "walk" /\ t \in batch
  /\ Candidate(t) /\ Len(pids) < MAX_THREADS /\ CanAttach(t)
  /\ batch' = batch \ {t}
  /\ cur' = t
  /\ traced' = traced \cup {t}
  /\ stopping' = IF tstate[t] = "running" THEN stopping \cup {t} ELSE stopping
  /\ lpc' = "await"
  /\ UNCHANGED <<scanFrame, tstate, pids, added, must, listed>>

\* Mutant: the thread is woken but stays attached.
ptrace_wake_only(t) ==
  /\ UNCHANGED traced
  /\ tstate' = IF tstate[t] = "stopped" THEN [tstate EXCEPT ![t] = "running"]
               ELSE tstate

\* ptrace_detach: detach and wake the thread.
ptrace_detach(t) ==
  /\ traced' = traced \ {t}
  /\ tstate' = IF tstate[t] = "stopped" THEN [tstate EXCEPT ![t] = "running"]
               ELSE tstate

\* Mutant: the exit of the thread is not noticed.
AwaitStopOnly ==
  /\ lpc = "await" /\ tstate[cur] = "stopped"
  /\ lpc' = "register"
  /\ UNCHANGED <<scanFrame, hostVars, traced, scanVars>>

\* attach_and_verify, wait4 and PEEKDATA: the thread has stopped and its
\* memory is ours, or it has exited and cannot be read.
AwaitStop ==
  /\ lpc = "await"
  /\ \/ /\ tstate[cur] = "stopped"
        /\ lpc' = "register"
        /\ UNCHANGED <<tstate, traced>>
     \/ /\ tstate[cur] = "exited"
        /\ ptrace_detach(cur)
        /\ lpc' = "walk"
  /\ UNCHANGED <<scanFrame, stopping, scanVars>>

\* Append the tid and publish the new count to the crash handler.
Register ==
  /\ lpc = "register"
  /\ pids' = Append(pids, cur)
  /\ sigNum' = Len(pids) + 1
  /\ added' = added + 1
  /\ lpc' = "walk"
  /\ UNCHANGED <<hostVars, traced, callerVars, params, cur, must, listed,
                 batch, endVars, handlers, sigPids, diedAt, childVars,
                 faults>>

\* Mutant: only the count is reset.
clear_count_only ==
  /\ UNCHANGED sigPids
  /\ sigNum' = 0

clear_crash_state ==
  /\ sigPids' = 0
  /\ sigNum' = 0

\* found_parent: the leader is among the suspended threads.
found_parent == Leader \in Elems(pids)

\* The scan is over.  Without the leader among the suspended threads the
\* process is being debugged: disarm, resume and report.
CheckParent ==
  /\ lpc = "found"
  /\ CloseBoth
  /\ \/ /\ found_parent
        /\ lpc' = "callback"
        /\ UNCHANGED <<todo, exitTo, sigPids, sigNum>>
     \/ /\ ~found_parent
        /\ clear_crash_state
        /\ StartResume(pids, "denied")
  /\ UNCHANGED <<hostVars, traced, callerVars, params, scanVars, reaping,
                 status, handlers, diedAt, childVars, faults>>

\* The callback forks a snapshot child.
CallbackFork ==
  /\ lpc = "callback" /\ child[call] = "none"
  /\ child' = [child EXCEPT ![call] = "running"]
  /\ UNCHANGED <<hostFrame, hostVars, traced, snapshotChild>>

\* The callback publishes the pid of the child it forked.
set_snapshot_child ==
  /\ lpc = "callback" /\ child[call] # "none" /\ snapshotChild # call
  /\ snapshotChild' = call
  /\ UNCHANGED <<hostFrame, hostVars, traced, child>>

\* The callback returns rc, having published any child it forked.
CallbackReturn(rc) ==
  /\ lpc = "callback"
  /\ child[call] # "none" => snapshotChild = call
  /\ params' = [result |-> rc, err |-> "none"]
  /\ lpc' = "clear"
  /\ UNCHANGED <<hostVars, traced, callerVars, scanVars, endVars, crashVars,
                 childVars, faults>>

\* Any callback that may fork one snapshot child.
Callback ==
  \/ CallbackFork \/ set_snapshot_child
  \/ \E rc \in CallbackResults : CallbackReturn(rc)

\* Mutant: the child is waited for before the threads are resumed.
ReapThenResume ==
  /\ lpc = "clear" /\ child[call] # "running"
  /\ clear_crash_state
  /\ StartResume(pids, "reap")
  /\ UNCHANGED <<hostVars, traced, callerVars, params, scanVars, reaping,
                 status, fds, handlers, diedAt, childVars, faults>>

\* Stop the crash handler from touching the list, then resume.
ClearThenResume ==
  /\ lpc = "clear"
  /\ clear_crash_state
  /\ StartResume(pids, "reap")
  /\ UNCHANGED <<hostVars, traced, callerVars, params, scanVars, reaping,
                 status, fds, handlers, diedAt, childVars, faults>>

\* One iteration of resume_all_process_threads, in the normal path or in
\* the crash handler.
ResumeNext ==
  /\ lpc \in {"resume", "cleanup"} /\ todo # <<>>
  /\ ptrace_detach(Head(todo))
  /\ todo' = Tail(todo)
  /\ UNCHANGED <<stopping, callerVars, params, lpc, scanVars, exitTo, reaping,
                 status, fds, crashVars, childVars, faults>>

\* All resumed.  After a scan error fail() records it; without the leader the
\* exit status is 3; otherwise the snapshot child is collected.
ResumeDone ==
  /\ lpc = "resume" /\ todo = <<>>
  /\ \/ /\ exitTo \in {"ESYS", "ENOMEM"}
        /\ Fail(exitTo)
     \/ /\ exitTo = "denied"
        /\ ListerExit(3)
        /\ UNCHANGED params
     \/ /\ exitTo = "reap"
        /\ lpc' = "swap"
        /\ UNCHANGED <<traced, params, status>>
  /\ UNCHANGED <<hostVars, callerVars, scanVars, todo, exitTo, reaping, fds,
                 crashVars, childVars, faults>>

\* Take the snapshot child out of SNAPSHOT_CHILD.
SwapChild ==
  /\ lpc = "swap"
  /\ snapshotChild' = 0
  /\ reaping' = snapshotChild
  /\ \/ /\ snapshotChild > 0
        /\ lpc' = "reap"
        /\ UNCHANGED <<traced, status>>
     \/ /\ snapshotChild = 0
        /\ ListerExit(0)
  /\ UNCHANGED <<hostVars, callerVars, params, scanVars, todo, exitTo, fds,
                 crashVars, child, faults>>

\* Mutant: the child's status is dropped.
reap_ignoring_status ==
  /\ lpc = "reap"
  /\ reaping = call => child[call] # "running"
  /\ ListerExit(0)
  /\ UNCHANGED <<hostVars, callerVars, params, scanVars, todo, exitTo, reaping,
                 fds, crashVars, childVars, faults>>

\* wait4 succeeds on a child of this lister that has left a status behind;
\* it blocks while that child runs and fails with ECHILD otherwise.
reap_snapshot_child ==
  /\ lpc = "reap"
  /\ reaping = call => child[call] # "running"
  /\ params' = IF reaping # call \/ SigchldIgnored
                 THEN [result |-> -1, err |-> "ECHILD"]
               ELSE IF child[call] # "ok"
                 THEN [result |-> -1, err |-> "EFAULT"]
               ELSE params
  /\ ListerExit(0)
  /\ UNCHANGED <<hostVars, callerVars, scanVars, todo, exitTo, reaping, fds,
                 crashVars, childVars, faults>>

-----------------------------------------------------------------------------
(* Crash signals in the lister: sig_handler.                               *)

\* The handler takes the published list.  Without handlers the signal kills
\* the lister, as does a fault inside the handler, which blocks SIGABRT.
sig_handler(sig) ==
  /\ lpc \notin {"none", "dead"}
  /\ sig \in CrashSignals
  /\ Fault
  /\ diedAt' = lpc
  /\ \/ /\ handlers = call /\ lpc \notin {"cleanup", "kill"} /\ sigPids # 0
        /\ sigPids' = 0
        /\ todo' = SubSeq(pids, 1, sigNum)
        /\ lpc' = IF sig = "SIGABRT" THEN "kill" ELSE "cleanup"
        /\ UNCHANGED <<traced, status>>
     \/ /\ handlers = call /\ lpc \notin {"cleanup", "kill"} /\ sigPids = 0
        /\ ListerExit(IF sig = "SIGABRT" THEN 1 ELSE 2)
        /\ UNCHANGED <<sigPids, todo>>
     \/ /\ handlers # call \/ (lpc \in {"cleanup", "kill"} /\ sig # "SIGABRT")
        /\ ListerExit(KILLED)
        /\ UNCHANGED <<sigPids, todo>>
  /\ UNCHANGED <<hostVars, callerVars, params, scanVars, exitTo, reaping, fds,
                 handlers, sigNum, childVars>>

\* SIGABRT: PTRACE_KILL on a thread still traced kills the whole host process;
\* on the others it fails.
KillTracees ==
  /\ lpc = "kill" /\ todo # <<>>
  /\ todo' = <<>>
  /\ \/ /\ Elems(todo) \cap traced # {}
        /\ tstate' = [t \in Threads |->
                        IF t \in Live THEN "exited" ELSE tstate[t]]
        /\ stopping' = {}
        /\ traced' = {}
     \/ /\ Elems(todo) \cap traced = {}
        /\ UNCHANGED <<tstate, stopping, traced>>
  /\ UNCHANGED <<callerVars, params, lpc, scanVars, exitTo, reaping, status, fds,
                 crashVars, childVars, faults>>

\* The handler exits: 1 after SIGABRT, 2 after any other crash signal.
HandlerExit ==
  /\ lpc \in {"cleanup", "kill"} /\ todo = <<>>
  /\ ListerExit(IF lpc = "kill" THEN 1 ELSE 2)
  /\ UNCHANGED <<hostVars, callerVars, params, scanVars, todo, exitTo,
                 reaping, fds, crashVars, childVars, faults>>

-----------------------------------------------------------------------------

HostStep ==
  \/ \E t, n \in Threads : Spawn(t, n)
  \/ \E t \in Threads : Exit(t)

CallerStep ==
  \/ BlockSignals \/ Clone \/ AllowPtracer \/ UnblockSignals
  \/ WaitLister \/ Return

ScanStep ==
  \/ Rewind \/ ReadEntries \/ EndPass \/ GetdentsFails
  \/ \E t \in Threads : SkipEntry(t) \/ TooManyThreads(t) \/ Attach(t)
  \/ AwaitStop \/ Register

EndStep ==
  \/ ClearThenResume \/ ResumeNext \/ ResumeDone
  \/ SwapChild \/ reap_snapshot_child \/ KillTracees \/ HandlerExit

\* Everything the lister does outside the callback.
ListerStep ==
  Setup \/ Publish \/ install_crash_handlers \/ OpenTask \/ ScanStep
    \/ CheckParent \/ EndStep

Next ==
  \/ HostStep \/ Begin \/ CallerStep \/ ListerStep \/ Callback
  \/ \E t \in Threads : Stop(t)
  \/ \E c \in 1..MaxCalls : ChildExit(c)
  \/ \E sig \in CrashSignals : sig_handler(sig)

Spec == Init /\ [][Next]_vars

-----------------------------------------------------------------------------

TypeOK ==
  /\ tstate \in [Threads -> {"unborn", "running", "stopped", "exited"}]
  /\ stopping \subseteq Threads /\ traced \subseteq Threads
  /\ cpc \in CallerPcs /\ call \in 0..MaxCalls
  /\ flag \in {0, 1} /\ saved \in {0, 1} /\ mask \in {"old", "blocked"}
  /\ ptracer \in 0..MaxCalls
  /\ params \in [result : CallbackResults \cup {-1}, err : Errnos]
  /\ ret \in [result : CallbackResults \cup {-1}, err : Errnos]
  /\ lpc \in ListerPcs /\ pids \in Seq(Threads) /\ cur \in Threads
  /\ added \in Nat
  /\ must \subseteq Threads /\ listed \subseteq Threads
  /\ batch \subseteq Threads
  /\ todo \in Seq(Threads)
  /\ exitTo \in {"ESYS", "ENOMEM", "denied", "reap"}
  /\ reaping \in 0..MaxCalls /\ status \in {0, 1, 2, 3, KILLED}
  /\ fds \in 0..2
  /\ handlers \in 0..MaxCalls /\ sigPids \in 0..MaxCalls /\ sigNum \in Nat
  /\ snapshotChild \in 0..MaxCalls
  /\ child \in [1..MaxCalls -> {"none", "running", "ok", "failed"}]
  /\ diedAt \in ListerPcs \cup {"no"} /\ faults \in 0..MaxFaults
  /\ base \in 0..MaxFaults

-----------------------------------------------------------------------------
(* Properties.                                                             *)

\* The threads the lister is able to attach to.
Attachable == Threads \ (Unshared \cup Denied)

\* A thread that creates threads neither exits nor escapes the lister.
NoHandoff == Spawners \cap Exiters = {} /\ Spawners \subseteq Attachable

\* "Invoke the callback with all threads frozen": when lister_thread calls
\* the callback, every live thread it is able to attach to is stopped, is
\* traced by it and is in the pid list, however threads came, went and raced
\* PR_SET_PTRACER during the passes over the task directory.
FrozenAtCallback ==
  lpc = "callback" =>
    \A t \in Live \cap Attachable :
      tstate[t] = "stopped" /\ t \in traced \cap Elems(pids)

\* Whatever error path it takes, a lister that no crash signal hit exits with
\* no thread attached (resume_all_process_threads on every exit).
ExitLeavesNoTracee ==
  [][lpc # "dead" /\ lpc' = "dead" /\ diedAt' = "no" => traced = {}]_vars

\* A crash signal leaves threads behind only when it hits
\*   - between PTRACE_ATTACH of a thread and the SIG_NUM_THREADS store that
\*     publishes it: that one thread;
\*   - after clear_crash_state and before the last resume;
\*   - a second time, inside the handler.
\* Everywhere else sig_handler releases every thread.
CrashStrandsOnlyInWindows ==
  [][lpc # "dead" /\ lpc' = "dead" /\ traced # {} =>
       \/ diedAt' \in {"await", "register"} /\ traced = {cur}
       \/ diedAt' = "resume" /\ exitTo \in {"denied", "reap"}
       \/ diedAt' \in {"cleanup", "kill"}]_vars

\* The list a crash handler would act on is the current lister's own, never
\* the dead stack of an earlier call that failed without clear_crash_state.
HandlerListIsCurrent ==
  handlers = call /\ lpc \notin {"none", "dead"} /\ sigPids # 0 =>
    sigPids = call /\ sigNum = Len(pids)

\* Every return path of list_all_process_threads restores the dumpable flag
\* and the signal mask, and leaves none of the lister's descriptors in the
\* shared file table unless a crash signal cut the lister short.
CallRestoresProcess ==
  cpc = "idle" => flag = saved /\ mask = "old" /\ (diedAt = "no" => fds = 0)

\* What a call may report.  Ok: the snapshot child, when there is one, exited
\* with status 0.  An error in a call without a fault: one of the named reasons.
Truthful(r) ==
  IF r.result # -1 THEN child[call] \in {"none", "ok"}
  ELSE Clean =>
    \/ r.err = "EPERM" /\ Leader \notin Elems(pids)
    \/ r.err = "ENOENT" /\ ~thread_shares_address_space(Leader)
    \/ r.err = "ENOMEM" /\ Len(pids) = MAX_THREADS
    \/ r.err = "EFAULT" /\ child[call] = "failed"
    \/ r.err = "ECHILD" /\ (reaping # call \/ SigchldIgnored)
    \/ r.err = "none" /\ -1 \in CallbackResults

\* The result is the truth.  Ok means that the callback ran and that the
\* snapshot child, when it forked one, exited with status 0: neither exit
\* status is lost on the way to the caller.  A call in which no system call
\* failed and no signal arrived fails only for a reason it names: the leader
\* could not be attached (EPERM) or has no view of the marker (ENOENT), there
\* are too many threads (ENOMEM), the snapshot child failed (EFAULT), its
\* status is not there to be had (ECHILD: the host ignores SIGCHLD, or a lister
\* that crashed in an earlier call left its child in SNAPSHOT_CHILD, for which
\* the lister of this call waits in vain), or the callback itself returned -1.
ResultIsTruth == cpc = "idle" /\ call > 0 => Truthful(ret)

-----------------------------------------------------------------------------
(* Liveness, where no crash signal arrives.                                *)

\* The kernel schedules the Caller and the lister, delivers a queued SIGSTOP,
\* and the callback, which only makes system calls, comes to its end.
ListerFairness ==
  /\ WF_vars(CallerStep) /\ WF_vars(ListerStep) /\ WF_vars(Callback)
  /\ \A t \in Threads : WF_vars(Stop(t))

\* The snapshot child may write for ever.
SlowChildSpec == Spec /\ ListerFairness

\* A stopped thread runs again, whether or not the snapshot child ever ends:
\* the host is frozen for the callback, not for the write of the core.
StoppedThreadsResume ==
  \A t \in Threads : tstate[t] = "stopped" ~> tstate[t] = "running"

\* Every call of list_all_process_threads returns, unless the snapshot child
\* goes on writing: there is nothing else the Caller and the lister wait for
\* that does not come.
CallReturns ==
  cpc # "idle" ~>
    cpc = "idle" \/ (lpc = "reap" /\ reaping = call /\ child[call] = "running")

=============================================================================

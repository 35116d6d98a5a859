---------------------------- MODULE ListerProofs ----------------------------
(***************************************************************************)
(* What the Caller, the lister, the crash handler and the descriptor table *)
(* hold at each pair of program counters (Control), which threads the      *)
(* lister holds at each step, and what it leaves behind when it exits or a *)
(* crash signal ends it (Held).  What a pass over the task directory has   *)
(* covered, so that the callback finds every attachable thread stopped     *)
(* (Scanned), and what the exit status, the parameter block and the        *)
(* snapshot child tell the Caller (ChildKnown, Reasons, Told).             *)
(***************************************************************************)
EXTENDS Lister, TLAPS

\* Most steps are first-order reasoning over sets and functions; those with arithmetic
\* or sequences name SMT.
USE Zenon

\* The steps at which the lister holds the threads in pids.
HoldPcs == {"rewind", "found", "callback", "clear"} \cup ScanPcs

\* The resume loop runs because the scan failed: the list is still published.
ResumeAfterError == lpc = "resume" /\ exitTo \in {"ESYS", "ENOMEM"}

\* Which program counters of the Caller and of the lister go together, and the
\* dumpable flag, signal mask, published list and descriptors at each of them.
Control ==
  /\ TypeOK
  /\ cpc \in {"idle", "mask", "clone", "return"} => lpc = "none"
  /\ cpc # "idle" => flag = 1 /\ call > 0
  /\ cpc = "idle" => flag = saved
  /\ handlers <= call
  /\ cpc \in {"mask", "clone"} => handlers # call
  /\ mask = "blocked" => cpc \in {"clone", "ptracer", "unmask"}
  /\ lpc \in {"setup", "publish", "install"} => handlers # call
  /\ lpc \in {"setup", "publish", "install", "open"} => pids = <<>>
  /\ lpc = "install" => sigPids = call /\ sigNum = 0
  /\ lpc \in HoldPcs \cup {"open"} \/ ResumeAfterError =>
       handlers = call /\ sigPids = call /\ sigNum = Len(pids)
  /\ lpc \in {"swap", "reap", "cleanup", "kill"} => sigPids = 0
  /\ lpc = "resume" /\ ~ResumeAfterError => sigPids = 0
  /\ lpc \in {"cleanup", "kill"} => diedAt # "no"
  /\ lpc \notin {"none", "dead", "cleanup", "kill"} => diedAt = "no"
  /\ lpc \in {"publish", "install", "open"} => fds = 1
  /\ lpc \in {"rewind", "found"} \cup ScanPcs => fds = 2
  /\ lpc \in {"setup", "callback", "clear", "resume", "swap", "reap"} => fds = 0
  /\ lpc \in {"none", "dead"} /\ diedAt = "no" => fds = 0

-----------------------------------------------------------------------------

\* What the Caller decodes from a wait status is a result and an errno.
LEMMA DecodeType ==
  ASSUME NEW s, NEW p \in [result : CallbackResults \cup {-1}, err : Errnos]
  PROVE  decode_lister_status(s, p) \in
           [result : CallbackResults \cup {-1}, err : Errnos]
<1> QED
  BY DEF decode_lister_status, Errnos

\* Every step keeps the variables in their types.
LEMMA TypeStep == Control /\ [Next]_vars => TypeOK'
<1> SUFFICES ASSUME Control, [Next]_vars PROVE TypeOK'
  OBVIOUS
<1>a. TypeOK
  BY DEF Control
<1> USE BoundsAssumption, ThreadsAssumption, EnvironmentAssumption, <1>a
    DEF TypeOK, ScanPcs, ListerPcs, CallerPcs, Errnos, KILLED,
        hostVars, callerVars, scanVars, endVars, crashVars, childVars,
        hostFrame, callerFrame, scanFrame
<1>1. CASE \E t, n \in Threads : Spawn(t, n)
  BY <1>1, SMT DEF Spawn
<1>2. CASE \E t \in Threads : Exit(t)
  BY <1>2, SMT DEF Exit
<1>3. CASE Begin
  BY <1>3, SMT DEF Begin, Fault
<1>4. CASE BlockSignals
  BY <1>4, SMT DEF BlockSignals, Fault, restore_dumpable
<1>5. CASE Clone
  BY <1>5, SMT DEF Clone, Fault
<1>6. CASE AllowPtracer
  BY <1>6, SMT DEF AllowPtracer
<1>7. CASE UnblockSignals
  BY <1>7, SMT DEF UnblockSignals, restore_dumpable
<1>8. CASE WaitLister
  <2>1. params' \in [result : CallbackResults \cup {-1}, err : Errnos]
    <3>1. [result |-> -1, err |-> "ECHILD"] \in
            [result : CallbackResults \cup {-1}, err : Errnos]
      BY SMTT(20) DEF Errnos
    <3> QED
      BY <1>8, <3>1, DecodeType, SMT DEF WaitLister
  <2> QED
    BY <1>8, <2>1, SMT DEF WaitLister, Fault
<1>9. CASE Return
  BY <1>9, SMT DEF Return, restore_dumpable
<1>10. CASE Setup
  BY <1>10, SMT DEF Setup, Fault, Fail, ListerExit
<1>11. CASE Publish
  BY <1>11, SMT DEF Publish
<1>12. CASE install_crash_handlers
  BY <1>12, SMT DEF install_crash_handlers
<1>13. CASE OpenTask
  <2>1. fds = 1
    BY <1>13 DEF OpenTask, Control
  <2> QED
    BY <1>13, <2>1, SMT DEF OpenTask, Fault, Fail, ListerExit
<1>14. CASE Rewind
  <2>1. must' \subseteq Threads
    BY <1>14 DEF Rewind, Live
  <2> QED
    BY <1>14, <2>1, SMT DEF Rewind
<1>15. CASE ReadEntries
  BY <1>15, SMT DEF ReadEntries, BufferEmpty, Live
<1>16. CASE EndPass
  BY <1>16, SMT DEF EndPass, BufferEmpty
<1>17. CASE GetdentsFails
  <2>1. fds = 2
    BY <1>17 DEF GetdentsFails, BufferEmpty, Control
  <2> QED
    BY <1>17, <2>1, SMT DEF GetdentsFails, Fault, CloseBoth, StartResume
<1>18. CASE \E t \in Threads : SkipEntry(t)
  BY <1>18, SMT DEF SkipEntry
<1>19. CASE \E t \in Threads : TooManyThreads(t)
  <2>1. fds = 2
    BY <1>19 DEF TooManyThreads, Control
  <2> QED
    BY <1>19, <2>1, SMT DEF TooManyThreads, CloseBoth, StartResume
<1>20. CASE \E t \in Threads : Attach(t)
  BY <1>20, SMT DEF Attach
<1>21. CASE AwaitStop
  BY <1>21, SMT DEF AwaitStop, ptrace_detach
<1>22. CASE Register
  BY <1>22, SMT DEF Register
<1>23. CASE CheckParent
  <2>1. fds = 2
    BY <1>23 DEF CheckParent, Control
  <2> QED
    BY <1>23, <2>1, SMT DEF CheckParent, CloseBoth, StartResume, clear_crash_state
<1>24. CASE CallbackFork
  <2>1. call \in 1..MaxCalls
    BY <1>24, SMT DEF CallbackFork, Control
  <2> QED
    BY <1>24, <2>1, SMT DEF CallbackFork
<1>25. CASE set_snapshot_child
  BY <1>25, SMT DEF set_snapshot_child
<1>26. CASE \E rc \in CallbackResults : CallbackReturn(rc)
  BY <1>26, SMT DEF CallbackReturn
<1>27. CASE ClearThenResume
  BY <1>27, SMT DEF ClearThenResume, StartResume, clear_crash_state
<1>28. CASE ResumeNext
  BY <1>28, SMT DEF ResumeNext, ptrace_detach
<1>29. CASE ResumeDone
  BY <1>29, SMT DEF ResumeDone, Fail, ListerExit
<1>30. CASE SwapChild
  BY <1>30, SMT DEF SwapChild, ListerExit
<1>31. CASE reap_snapshot_child
  BY <1>31, SMT DEF reap_snapshot_child, ListerExit
<1>32. CASE KillTracees
  BY <1>32, SMT DEF KillTracees
<1>33. CASE HandlerExit
  BY <1>33, SMT DEF HandlerExit, ListerExit
<1>34. CASE \E t \in Threads : Stop(t)
  BY <1>34, SMT DEF Stop
<1>35. CASE \E c \in 1..MaxCalls : ChildExit(c)
  BY <1>35, SMT DEF ChildExit
<1>36. CASE \E sig \in CrashSignals : sig_handler(sig)
  <2> PICK sig \in CrashSignals : sig_handler(sig)
    BY <1>36
  <2>1. todo' \in Seq(Threads)
    BY SMT DEF sig_handler, Control, HoldPcs, ResumeAfterError, ListerExit
  <2> QED
    BY <2>1, SMT DEF sig_handler, Fault, ListerExit
<1>37. CASE UNCHANGED vars
  BY <1>37, SMT DEF vars
<1> HIDE DEF TypeOK
<1> QED
  BY <1>1, <1>2, <1>3, <1>4, <1>5, <1>6, <1>7, <1>8, <1>9, <1>10, <1>11,
     <1>12, <1>13, <1>14, <1>15, <1>16, <1>17, <1>18, <1>19, <1>20, <1>21,
     <1>22, <1>23, <1>24, <1>25, <1>26, <1>27, <1>28, <1>29, <1>30, <1>31,
     <1>32, <1>33, <1>34, <1>35, <1>36, <1>37
     DEF Next, HostStep, CallerStep, ListerStep, ScanStep, EndStep, Callback

\* Every step keeps the control invariant: in particular the list
\* sig_handler would read is the current one at every step it may run.
LEMMA ControlStep == Control /\ [Next]_vars => Control'
<1> SUFFICES ASSUME Control, [Next]_vars PROVE Control'
  OBVIOUS
<1>a. TypeOK /\ TypeOK'
  BY TypeStep DEF Control
<1>b. /\ call \in Nat /\ handlers \in Nat /\ cpc \in CallerPcs /\ lpc \in ListerPcs
      /\ mask \in {"old", "blocked"} /\ flag \in {0, 1} /\ saved \in {0, 1}
      /\ pids \in Seq(Threads)
  BY <1>a, BoundsAssumption, SMT DEF TypeOK
<1> USE <1>a, <1>b DEF Control, ResumeAfterError, HoldPcs, ScanPcs, ListerPcs,
        CallerPcs,
        hostVars, callerVars, scanVars, endVars, crashVars, childVars,
        hostFrame, callerFrame, scanFrame
<1>1. CASE \E t, n \in Threads : Spawn(t, n)
  BY <1>1, SMT DEF Spawn
<1>2. CASE \E t \in Threads : Exit(t)
  BY <1>2, SMT DEF Exit
<1>3. CASE Begin
  BY <1>3, SMT DEF Begin, Fault
<1>4. CASE BlockSignals
  BY <1>4 DEF BlockSignals, Fault, restore_dumpable
<1>5. CASE Clone
  BY <1>5 DEF Clone, Fault
<1>6. CASE AllowPtracer
  BY <1>6 DEF AllowPtracer
<1>7. CASE UnblockSignals
  BY <1>7 DEF UnblockSignals, restore_dumpable
<1>8. CASE WaitLister
  BY <1>8 DEF WaitLister, Fault, decode_lister_status
<1>9. CASE Return
  BY <1>9 DEF Return, restore_dumpable
<1>10. CASE Setup
  BY <1>10 DEF Setup, Fault, Fail, ListerExit
<1>11. CASE Publish
  BY <1>11 DEF Publish
<1>12. CASE install_crash_handlers
  BY <1>12, SMT DEF install_crash_handlers
<1>13. CASE OpenTask
  BY <1>13, SMT DEF OpenTask, Fault, Fail, ListerExit
<1>14. CASE Rewind
  BY <1>14 DEF Rewind, Live
<1>15. CASE ReadEntries
  BY <1>15 DEF ReadEntries, BufferEmpty, Live
<1>16. CASE EndPass
  BY <1>16 DEF EndPass, BufferEmpty
<1>17. CASE GetdentsFails
  BY <1>17, SMT DEF GetdentsFails, BufferEmpty, Fault, CloseBoth, StartResume
<1>18. CASE \E t \in Threads : SkipEntry(t)
  BY <1>18 DEF SkipEntry
<1>19. CASE \E t \in Threads : TooManyThreads(t)
  BY <1>19, SMT DEF TooManyThreads, CloseBoth, StartResume
<1>20. CASE \E t \in Threads : Attach(t)
  BY <1>20 DEF Attach
<1>21. CASE AwaitStop
  BY <1>21 DEF AwaitStop, ptrace_detach
<1>22. CASE Register
  BY <1>22, SMT DEF Register
<1>23. CASE CheckParent
  BY <1>23, SMT DEF CheckParent, CloseBoth, StartResume, clear_crash_state
<1>24. CASE CallbackFork
  BY <1>24 DEF CallbackFork
<1>25. CASE set_snapshot_child
  BY <1>25 DEF set_snapshot_child
<1>26. CASE \E rc \in CallbackResults : CallbackReturn(rc)
  BY <1>26 DEF CallbackReturn
<1>27. CASE ClearThenResume
  BY <1>27 DEF ClearThenResume, StartResume, clear_crash_state
<1>28. CASE ResumeNext
  BY <1>28 DEF ResumeNext, ptrace_detach
<1>29. CASE ResumeDone
  BY <1>29 DEF ResumeDone, Fail, ListerExit
<1>30. CASE SwapChild
  BY <1>30 DEF SwapChild, ListerExit
<1>31. CASE reap_snapshot_child
  BY <1>31 DEF reap_snapshot_child, ListerExit
<1>32. CASE KillTracees
  BY <1>32 DEF KillTracees
<1>33. CASE HandlerExit
  BY <1>33 DEF HandlerExit, ListerExit
<1>34. CASE \E t \in Threads : Stop(t)
  BY <1>34 DEF Stop
<1>35. CASE \E c \in 1..MaxCalls : ChildExit(c)
  BY <1>35, SMT DEF ChildExit
<1>36. CASE \E sig \in CrashSignals : sig_handler(sig)
  <2> PICK sig \in CrashSignals : sig_handler(sig)
    BY <1>36
  <2> QED
    BY DEF sig_handler, Fault, ListerExit
<1>37. CASE UNCHANGED vars
  BY <1>37, SMT DEF vars
<1> HIDE DEF Control
<1> QED
  BY <1>1, <1>2, <1>3, <1>4, <1>5, <1>6, <1>7, <1>8, <1>9, <1>10, <1>11,
     <1>12, <1>13, <1>14, <1>15, <1>16, <1>17, <1>18, <1>19, <1>20, <1>21,
     <1>22, <1>23, <1>24, <1>25, <1>26, <1>27, <1>28, <1>29, <1>30, <1>31,
     <1>32, <1>33, <1>34, <1>35, <1>36, <1>37
     DEF Next, HostStep, CallerStep, ListerStep, ScanStep, EndStep, Callback

\* The program starts outside any call, with nothing published.
LEMMA InitControl == Init => Control
<1> SUFFICES ASSUME Init PROVE Control
  OBVIOUS
<1> USE DEF Init
<1>1. TypeOK
  BY ThreadsAssumption, BoundsAssumption, SMT
     DEF TypeOK, CallerPcs, ListerPcs, ScanPcs, Errnos
<1> QED
  BY <1>1, SMT DEF Control, HoldPcs, ScanPcs, ResumeAfterError

\* The control invariant holds throughout.
LEMMA ControlInvariant == Spec => []Control
<1> QED
  BY InitControl, ControlStep, PTL DEF Spec

-----------------------------------------------------------------------------
(* The theorems.                                                           *)

\* Every variable of the lister keeps its type: the descriptors it has open
\* are never fewer than zero, and the list it resumes holds only threads.
THEOREM TypeCorrect == Spec => []TypeOK
<1>1. Control => TypeOK
  BY DEF Control
<1> QED
  BY <1>1, ControlInvariant, PTL

\* Every return path of list_all_process_threads restores the dumpable flag
\* and the signal mask and leaves no descriptor open, however its system calls
\* fail and whatever signals hit the lister.
THEOREM RestoresProcess == Spec => []CallRestoresProcess
<1>1. Control => CallRestoresProcess
  BY DEF Control, CallRestoresProcess, TypeOK
<1> QED
  BY <1>1, ControlInvariant, PTL

\* The crash handler never acts on the list of an earlier lister.
THEOREM HandlerListCurrent == Spec => []HandlerListIsCurrent
<1>1. Control => HandlerListIsCurrent
  BY DEF Control, HandlerListIsCurrent, TypeOK, ListerPcs, HoldPcs, ScanPcs,
         ResumeAfterError
<1> QED
  BY <1>1, ControlInvariant, PTL

-----------------------------------------------------------------------------
(* The threads the lister holds.                                           *)

\* A thread with a queued SIGSTOP runs; a listed thread is stopped and traced
\* until the resume loop reaches it; nothing is traced that is not listed, save
\* the thread being attached.
Held ==
  /\ \A t \in stopping : tstate[t] = "running"
  /\ lpc \in HoldPcs => \A t \in Elems(pids) : tstate[t] = "stopped" /\ t \in traced
  /\ lpc \in {"await", "register"} => cur \in traced /\ tstate[cur] # "unborn"
  /\ lpc = "register" => tstate[cur] = "stopped"
  /\ lpc \in {"setup", "publish", "install", "open", "swap", "reap"} => traced = {}
  /\ lpc \in {"rewind", "walk", "found", "callback", "clear"} =>
       traced \subseteq Elems(pids)
  /\ lpc \in {"await", "register"} => traced \subseteq Elems(pids) \cup {cur}
  /\ lpc = "resume" => traced \subseteq Elems(todo)
  /\ lpc = "resume" => Elems(todo) \subseteq Elems(pids)
  /\ lpc \in {"cleanup", "kill"} =>
       \A t \in traced : t \in Elems(todo) \/ (diedAt \in {"await", "register"} /\ t = cur)

-----------------------------------------------------------------------------
(* Lists of threads.                                                       *)

\* The empty list has no elements.
LEMMA ElemsEmpty == Elems(<<>>) = {}
  BY SMT DEF Elems

\* Register adds exactly one thread to the list.
LEMMA ElemsAppend ==
  ASSUME NEW S, NEW s \in Seq(S), NEW x \in S
  PROVE  Elems(Append(s, x)) = Elems(s) \cup {x}
<1>1. Elems(Append(s, x)) \subseteq Elems(s) \cup {x}
  BY SMT DEF Elems
<1>2. Elems(s) \subseteq Elems(Append(s, x))
  BY SMT DEF Elems
<1>3. x \in Elems(Append(s, x))
  <2>1. Append(s, x)[Len(s) + 1] = x /\ Len(s) + 1 \in DOMAIN Append(s, x)
    BY SMT
  <2> QED
    BY <2>1 DEF Elems
<1> QED
  BY <1>1, <1>2, <1>3

\* One iteration of a resume loop takes exactly the head off its list.
LEMMA ElemsTail ==
  ASSUME NEW S, NEW s \in Seq(S), s # <<>>
  PROVE  /\ Elems(Tail(s)) \subseteq Elems(s)
         /\ Elems(s) \subseteq Elems(Tail(s)) \cup {Head(s)}
<1>1. Elems(Tail(s)) \subseteq Elems(s)
  BY SMT DEF Elems
<1>2. ASSUME NEW i \in DOMAIN s, i # 1
      PROVE  i - 1 \in DOMAIN Tail(s) /\ Tail(s)[i - 1] = s[i]
  BY <1>2, SMT
<1>3. ASSUME NEW x \in Elems(s) PROVE x \in Elems(Tail(s)) \cup {Head(s)}
  <2>1. PICK i \in DOMAIN s : x = s[i]
    BY DEF Elems
  <2>2. CASE i = 1
    BY <2>1, <2>2, SMT
  <2>3. CASE i # 1
    BY <2>1, <2>3, <1>2 DEF Elems
  <2> QED
    BY <2>2, <2>3
<1> QED
  BY <1>1, <1>3

\* A handler that reads all sig_num entries reads the whole list.
LEMMA ElemsWhole ==
  ASSUME NEW S, NEW s \in Seq(S)
  PROVE  SubSeq(s, 1, Len(s)) = s
  BY SMT

-----------------------------------------------------------------------------

\* Every step keeps account of the traced and the stopped threads.
LEMMA HeldStep == Control /\ Held /\ [Next]_vars => Held'
<1> SUFFICES ASSUME Control, Held, [Next]_vars PROVE Held'
  OBVIOUS
<1>a. Control'
  BY ControlStep
<1>b. /\ tstate \in [Threads -> {"unborn", "running", "stopped", "exited"}]
      /\ lpc \in ListerPcs /\ pids \in Seq(Threads) /\ todo \in Seq(Threads)
      /\ cur \in Threads /\ stopping \subseteq Threads /\ traced \subseteq Threads
      /\ call \in Nat
  BY BoundsAssumption, SMT DEF Control, TypeOK
<1> USE <1>b, ElemsEmpty DEF Held, HoldPcs, ScanPcs, ListerPcs,
        hostVars, callerVars, scanVars, endVars, crashVars, childVars,
        hostFrame, callerFrame, scanFrame
<1>1. CASE \E t, n \in Threads : Spawn(t, n)
  BY <1>1, SMT DEF Spawn
<1>2. CASE \E t \in Threads : Exit(t)
  BY <1>2, SMT DEF Exit
<1>3. CASE Begin
  BY <1>3 DEF Begin, Fault
<1>4. CASE BlockSignals
  BY <1>4 DEF BlockSignals, Fault, restore_dumpable
<1>5. CASE Clone
  <2>1. lpc = "none"
    BY <1>5 DEF Clone, Control
  <2> QED
    BY <1>5, <2>1 DEF Clone, Fault
<1>6. CASE AllowPtracer
  BY <1>6 DEF AllowPtracer
<1>7. CASE UnblockSignals
  BY <1>7 DEF UnblockSignals, restore_dumpable
<1>8. CASE WaitLister
  BY <1>8 DEF WaitLister, Fault, decode_lister_status
<1>9. CASE Return
  BY <1>9 DEF Return, restore_dumpable
<1>10. CASE Setup
  BY <1>10 DEF Setup, Fault, Fail, ListerExit
<1>11. CASE Publish
  BY <1>11 DEF Publish
<1>12. CASE install_crash_handlers
  BY <1>12 DEF install_crash_handlers
<1>13. CASE OpenTask
  <2>1. pids = <<>>
    BY <1>13 DEF OpenTask, Control
  <2> QED
    BY <1>13, <2>1 DEF OpenTask, Fault, Fail, ListerExit
<1>14. CASE Rewind
  BY <1>14 DEF Rewind, Live
<1>15. CASE ReadEntries
  BY <1>15 DEF ReadEntries, BufferEmpty, Live
<1>16. CASE EndPass
  BY <1>16 DEF EndPass, BufferEmpty
<1>17. CASE GetdentsFails
  BY <1>17 DEF GetdentsFails, BufferEmpty, Fault, CloseBoth, StartResume
<1>18. CASE \E t \in Threads : SkipEntry(t)
  BY <1>18 DEF SkipEntry
<1>19. CASE \E t \in Threads : TooManyThreads(t)
  BY <1>19 DEF TooManyThreads, CloseBoth, StartResume
<1>20. CASE \E t \in Threads : Attach(t)
  BY <1>20 DEF Attach, CanAttach, Live
<1>21. CASE AwaitStop
  BY <1>21 DEF AwaitStop, ptrace_detach
<1>22. CASE Register
  <2>1. Elems(pids') = Elems(pids) \cup {cur}
    BY <1>22, ElemsAppend, SMT DEF Register
  <2> QED
    BY <1>22, <2>1 DEF Register
<1>23. CASE CheckParent
  BY <1>23 DEF CheckParent, CloseBoth, StartResume, clear_crash_state
<1>24. CASE CallbackFork
  BY <1>24 DEF CallbackFork
<1>25. CASE set_snapshot_child
  BY <1>25 DEF set_snapshot_child
<1>26. CASE \E rc \in CallbackResults : CallbackReturn(rc)
  BY <1>26 DEF CallbackReturn
<1>27. CASE ClearThenResume
  BY <1>27 DEF ClearThenResume, StartResume, clear_crash_state
<1>28. CASE ResumeNext
  <2>1. /\ Elems(todo') \subseteq Elems(todo)
        /\ Elems(todo) \subseteq Elems(todo') \cup {Head(todo)}
    BY <1>28, ElemsTail DEF ResumeNext
  <2>2. Head(todo) \in Threads
    BY <1>28, SMT DEF ResumeNext
  <2> QED
    BY <1>28, <2>1, <2>2 DEF ResumeNext, ptrace_detach
<1>29. CASE ResumeDone
  BY <1>29 DEF ResumeDone, Fail, ListerExit
<1>30. CASE SwapChild
  BY <1>30 DEF SwapChild, ListerExit
<1>31. CASE reap_snapshot_child
  BY <1>31 DEF reap_snapshot_child, ListerExit
<1>32. CASE KillTracees
  BY <1>32 DEF KillTracees
<1>33. CASE HandlerExit
  BY <1>33 DEF HandlerExit, ListerExit
<1>34. CASE \E t \in Threads : Stop(t)
  BY <1>34, SMT DEF Stop
<1>35. CASE \E c \in 1..MaxCalls : ChildExit(c)
  BY <1>35, SMT DEF ChildExit
<1>36. CASE \E sig \in CrashSignals : sig_handler(sig)
  <2> PICK sig \in CrashSignals : sig_handler(sig)
    BY <1>36
  <2>1. CASE lpc' = "dead"
    BY <2>1 DEF sig_handler
  <2>2. CASE lpc' # "dead"
    <3>1. /\ lpc' \in {"cleanup", "kill"} /\ diedAt' = lpc
          /\ tstate' = tstate /\ stopping' = stopping /\ traced' = traced /\ cur' = cur
          /\ lpc \notin {"none", "dead", "cleanup", "kill"} /\ handlers = call /\ sigPids # 0
      BY <2>2 DEF sig_handler, ListerExit
    <3>6. todo' = SubSeq(pids, 1, sigNum)
      BY <2>2 DEF sig_handler, ListerExit
    <3>2. sigNum = Len(pids) /\ (lpc \in HoldPcs \cup {"open"} \/ ResumeAfterError)
      BY <3>1 DEF Control, ResumeAfterError
    <3>3. todo' = pids
      BY <3>6, <3>2, ElemsWhole
    <3>4. \A t \in traced : t \in Elems(pids) \/ (lpc \in {"await", "register"} /\ t = cur)
      BY <3>2 DEF ResumeAfterError
    <3>5. \A t \in traced' : t \in Elems(todo') \/ (diedAt' \in {"await", "register"} /\ t = cur')
      BY <3>1, <3>3, <3>4
    <3> QED
      BY <3>1, <3>5
  <2> QED
    BY <2>1, <2>2
<1>37. CASE UNCHANGED vars
  BY <1>37 DEF vars
<1> HIDE DEF Held
<1> QED
  BY <1>1, <1>2, <1>3, <1>4, <1>5, <1>6, <1>7, <1>8, <1>9, <1>10, <1>11,
     <1>12, <1>13, <1>14, <1>15, <1>16, <1>17, <1>18, <1>19, <1>20, <1>21,
     <1>22, <1>23, <1>24, <1>25, <1>26, <1>27, <1>28, <1>29, <1>30, <1>31,
     <1>32, <1>33, <1>34, <1>35, <1>36, <1>37
     DEF Next, HostStep, CallerStep, ListerStep, ScanStep, EndStep, Callback

\* The control invariant and the account of the held threads hold throughout.
LEMMA HeldInvariant == Spec => [](Control /\ Held)
<1>1. Init => Control /\ Held
  BY InitControl DEF Init, Held, HoldPcs, ScanPcs
<1>2. Control /\ Held /\ [Next]_vars => (Control /\ Held)'
  BY ControlStep, HeldStep
<1> QED
  BY <1>1, <1>2, PTL DEF Spec

-----------------------------------------------------------------------------
(* The end of the lister.                                                  *)

\* The windows in which a crash signal leaves threads behind.
CrashWindow ==
  \/ diedAt' \in {"await", "register"} /\ traced = {cur}
  \/ diedAt' = "resume" /\ exitTo \in {"denied", "reap"}
  \/ diedAt' \in {"cleanup", "kill"}

\* The steps that end the lister: its exits, and the signals that kill it.
LEMMA LastSteps ==
  ASSUME Next, lpc # "dead", lpc' = "dead"
  PROVE  \/ Setup \/ OpenTask \/ ResumeDone \/ SwapChild \/ reap_snapshot_child
         \/ HandlerExit \/ \E sig \in CrashSignals : sig_handler(sig)
<1> USE DEF hostFrame
<1>1. ~HostStep /\ ~(\E t \in Threads : Stop(t)) /\ ~(\E c \in 1..MaxCalls : ChildExit(c))
  BY DEF HostStep, Spawn, Exit, Stop, ChildExit
<1>2. ~Begin /\ ~CallerStep
  BY DEF Begin, CallerStep, BlockSignals, Clone, AllowPtracer, UnblockSignals,
         WaitLister, Return
<1>3. ~ScanStep
  BY DEF ScanStep, Rewind, ReadEntries, EndPass, GetdentsFails, StartResume,
         SkipEntry, TooManyThreads, Attach, AwaitStop, Register
<1>4. ~Publish /\ ~install_crash_handlers /\ ~CheckParent /\ ~Callback
  BY DEF Publish, install_crash_handlers, CheckParent, StartResume, Callback,
         CallbackFork, set_snapshot_child, CallbackReturn
<1>5. ~ClearThenResume /\ ~ResumeNext /\ ~KillTracees
  BY DEF ClearThenResume, StartResume, ResumeNext, KillTracees
<1> QED
  BY <1>1, <1>2, <1>3, <1>4, <1>5 DEF Next, ListerStep, EndStep

\* A lister that ends while threads are attached was hit in a crash window.
LEMMA StrandedOnlyByCrash ==
  ASSUME Control, Held, Next, lpc # "dead", lpc' = "dead", traced # {}
  PROVE  CrashWindow
<1>1. lpc \in ListerPcs /\ exitTo \in {"ESYS", "ENOMEM", "denied", "reap"}
  BY DEF Control, TypeOK
<1>2. ~Setup /\ ~OpenTask /\ ~SwapChild /\ ~reap_snapshot_child
  BY DEF Held, Setup, OpenTask, SwapChild, reap_snapshot_child
<1>3. ~ResumeDone
  BY ElemsEmpty DEF Held, ResumeDone
<1>4. CASE HandlerExit
  <2>1. diedAt' = diedAt /\ lpc \in {"cleanup", "kill"} /\ Elems(todo) = {}
    BY <1>4, ElemsEmpty DEF HandlerExit, crashVars
  <2> QED
    BY <2>1 DEF Held, CrashWindow
<1>5. CASE \E sig \in CrashSignals : sig_handler(sig)
  <2> PICK sig \in CrashSignals : sig_handler(sig)
    BY <1>5
  <2>1. diedAt' = lpc /\ lpc # "none"
    BY DEF sig_handler
  <2>2. handlers # call \/ lpc \in {"cleanup", "kill"} \/ sigPids = 0
    BY <1>1 DEF sig_handler, ListerPcs, ScanPcs
  <2>3. lpc \notin {"setup", "publish", "install", "open", "swap", "reap"}
    BY DEF Held
  <2>4. lpc \notin HoldPcs /\ ~ResumeAfterError
    BY <2>2, SMT DEF Control, TypeOK, HoldPcs, ScanPcs, ResumeAfterError
  <2> QED
    BY <1>1, <2>1, <2>3, <2>4
       DEF CrashWindow, ListerPcs, ScanPcs, HoldPcs, ResumeAfterError
<1> QED
  BY <1>2, <1>3, <1>4, <1>5, LastSteps

\* A crash signal leaves threads behind only in the windows the property names.
THEOREM CrashStrands == Spec => CrashStrandsOnlyInWindows
<1>1. Control /\ Held /\ [Next]_vars =>
        [lpc # "dead" /\ lpc' = "dead" /\ traced # {} => CrashWindow]_vars
  BY StrandedOnlyByCrash
<1> QED
  BY <1>1, HeldInvariant, PTL DEF Spec, CrashStrandsOnlyInWindows, CrashWindow

\* A lister that no crash signal hit exits with no thread attached.
THEOREM NoTraceeLeft == Spec => ExitLeavesNoTracee
<1>1. Control /\ Held /\ [Next]_vars =>
        [lpc # "dead" /\ lpc' = "dead" /\ diedAt' = "no" => traced = {}]_vars
  BY StrandedOnlyByCrash DEF CrashWindow
<1> QED
  BY <1>1, HeldInvariant, PTL DEF Spec, ExitLeavesNoTracee

-----------------------------------------------------------------------------
(* The passes over the task directory.                                     *)

\* A pass that has attached nothing although attaching works.
FruitlessPass == lpc \in ScanPcs /\ added = 0 /\ pids # <<>>

\* Attaching works once one thread is listed.  In a pass that has attached
\* nothing so far, an attachable thread alive since the rewind is listed unless
\* its entry is still to come, and a thread born since the rewind was created
\* by a thread whose entry is still to come.
Scanned ==
  /\ lpc \in {"rewind"} \cup ScanPcs /\ pids # <<>> => (Yama => ptracer = call)
  /\ lpc \in {"await", "register"} => (Yama => ptracer = call)
  /\ lpc \in ScanPcs => \A t \in must : tstate[t] # "unborn"
  /\ FruitlessPass =>
       \A t \in must \cap Live \cap Attachable :
         \/ t \in Elems(pids) \cup batch
         \/ t \notin listed
         \/ lpc \in {"await", "register"} /\ t = cur
  /\ FruitlessPass =>
       \/ Live \subseteq must
       \/ \E s \in must \cap Live \cap Spawners : s \notin Elems(pids)
  /\ lpc = "callback" \/ (lpc = "found" /\ pids # <<>>) =>
       Live \cap Attachable \subseteq Elems(pids)

-----------------------------------------------------------------------------

\* A list of threads holds threads.
LEMMA ElemsType == ASSUME NEW S, NEW s \in Seq(S) PROVE Elems(s) \subseteq S
  BY SMT DEF Elems

\* Every step keeps account of what a pass over the task directory has
\* covered, provided threads are created only by threads that neither exit nor
\* escape the lister.
LEMMA ScannedStep ==
  ASSUME NoHandoff
  PROVE  Control /\ Held /\ Scanned /\ [Next]_vars => Scanned'
<1> SUFFICES ASSUME Control, Held, Scanned, [Next]_vars PROVE Scanned'
  OBVIOUS
<1>b. /\ tstate \in [Threads -> {"unborn", "running", "stopped", "exited"}]
      /\ lpc \in ListerPcs /\ pids \in Seq(Threads) /\ cpc \in CallerPcs
      /\ cur \in Threads /\ stopping \subseteq Threads /\ must \subseteq Threads
      /\ call \in Nat /\ added \in Nat
      /\ lpc # "none" => cpc \notin {"idle", "mask", "clone", "return"} /\ flag = 1
  BY BoundsAssumption, SMT DEF Control, TypeOK, CallerPcs
<1>c. /\ \A t \in stopping : tstate[t] = "running"
      /\ lpc \in HoldPcs => \A t \in Elems(pids) : tstate[t] = "stopped"
  BY DEF Held
<1>d. Elems(pids) \subseteq Threads
  BY <1>b, ElemsType
<1> USE <1>b, <1>c, <1>d, ElemsEmpty DEF Scanned, HoldPcs, ScanPcs, ListerPcs,
        CallerPcs, FruitlessPass, Live,
        hostVars, callerVars, scanVars, endVars, crashVars, childVars,
        hostFrame, callerFrame, scanFrame
<1>1. CASE \E t, n \in Threads : Spawn(t, n)
  <2> PICK t \in Threads, n \in Threads : Spawn(t, n)
    BY <1>1
  <2>1. /\ t \in Spawners /\ t \in Live /\ tstate[t] = "running" /\ tstate[n] = "unborn"
        /\ Live' = Live \cup {n} /\ n \notin Live
    BY DEF Spawn
  <2>2. UNCHANGED <<lpc, pids, must, listed, batch, cur, added, ptracer, call>>
    BY DEF Spawn
  <2>3. t \in Attachable
    BY <2>1, NoHandoff DEF NoHandoff
  <2>4. lpc \in HoldPcs => t \notin Elems(pids)
    BY <2>1
  <2>5. lpc \in ScanPcs => n \notin must
    BY <2>1
  <2>6. \A u \in Threads : tstate[u] # "unborn" => tstate'[u] # "unborn"
    BY DEF Spawn
  <2> HIDE DEF Live
  <2> QED
    BY <2>1, <2>2, <2>3, <2>4, <2>5, <2>6
<1>2. CASE \E t \in Threads : Exit(t)
  <2> PICK t \in Threads : Exit(t)
    BY <1>2
  <2>1. t \in Exiters /\ Live' = Live \ {t}
    BY DEF Exit
  <2>2. UNCHANGED <<lpc, pids, must, listed, batch, cur, added, ptracer, call>>
    BY DEF Exit
  <2>3. t \notin Spawners
    BY <2>1, NoHandoff DEF NoHandoff
  <2>4. \A u \in Threads : tstate[u] # "unborn" => tstate'[u] # "unborn"
    BY DEF Exit
  <2> HIDE DEF Live
  <2> QED
    BY <2>1, <2>2, <2>3, <2>4
<1>3. CASE Begin
  BY <1>3 DEF Begin, Fault
<1>4. CASE BlockSignals
  BY <1>4 DEF BlockSignals, Fault, restore_dumpable
<1>5. CASE Clone
  BY <1>5 DEF Clone, Fault
<1>6. CASE AllowPtracer
  BY <1>6 DEF AllowPtracer
<1>7. CASE UnblockSignals
  BY <1>7 DEF UnblockSignals, restore_dumpable
<1>8. CASE WaitLister
  BY <1>8 DEF WaitLister, Fault, decode_lister_status
<1>9. CASE Return
  BY <1>9 DEF Return, restore_dumpable
<1>10. CASE Setup
  BY <1>10 DEF Setup, Fault, Fail, ListerExit
<1>11. CASE Publish
  BY <1>11 DEF Publish
<1>12. CASE install_crash_handlers
  BY <1>12 DEF install_crash_handlers
<1>13. CASE OpenTask
  <2>1. pids = <<>>
    BY <1>13 DEF OpenTask, Control
  <2> QED
    BY <1>13, <2>1 DEF OpenTask, Fault, Fail, ListerExit
<1>14. CASE Rewind
  BY <1>14 DEF Rewind, Live
<1>15. CASE ReadEntries
  BY <1>15 DEF ReadEntries, BufferEmpty, Live
<1>16. CASE EndPass
  <2>1. CASE added = 0 /\ pids # <<>>
    <3>1. must \cap Live \cap Attachable \subseteq Elems(pids)
      BY <1>16, <2>1 DEF EndPass, BufferEmpty
    <3>2. Live \subseteq must
      BY <1>16, <2>1, <3>1, NoHandoff DEF EndPass, BufferEmpty, NoHandoff
    <3>3. Live \cap Attachable \subseteq Elems(pids)
      BY <3>1, <3>2
    <3> QED
      BY <1>16, <2>1, <3>3 DEF EndPass
  <2>2. CASE ~(added = 0 /\ pids # <<>>)
    BY <1>16, <2>2 DEF EndPass, BufferEmpty
  <2> HIDE DEF Scanned
  <2> QED
    BY <2>1, <2>2
<1>17. CASE GetdentsFails
  BY <1>17 DEF GetdentsFails, BufferEmpty, Fault, CloseBoth, StartResume
<1>18. CASE \E t \in Threads : SkipEntry(t)
  <2> PICK t \in Threads : SkipEntry(t)
    BY <1>18
  <2>1. UNCHANGED <<tstate, lpc, pids, must, listed, cur, added, ptracer, call>> /\ lpc = "walk" /\ batch' = batch \ {t}
    BY DEF SkipEntry
  <2>2. pids # <<>> /\ t \in Live \cap Attachable => t \in Elems(pids)
    BY <2>1 DEF SkipEntry, Candidate, thread_shares_address_space, CanAttach,
       Attachable
  <2>3. Live' = Live
    BY <2>1
  <2> HIDE DEF Live
  <2> QED
    BY <2>1, <2>2, <2>3
<1>19. CASE \E t \in Threads : TooManyThreads(t)
  BY <1>19 DEF TooManyThreads, CloseBoth, StartResume
<1>20. CASE \E t \in Threads : Attach(t)
  <2> PICK t \in Threads : Attach(t)
    BY <1>20
  <2>1. UNCHANGED <<tstate, pids, must, listed, added, ptracer, call>> /\ lpc = "walk" /\ batch' = batch \ {t} /\ cur' = t /\ lpc' = "await"
    BY DEF Attach
  <2>2. Yama => ptracer = call
    BY DEF Attach, CanAttach
  <2>3. Live' = Live
    BY <2>1
  <2> HIDE DEF Live
  <2> QED
    BY <2>1, <2>2, <2>3
<1>21. CASE AwaitStop
  BY <1>21 DEF AwaitStop, ptrace_detach
<1>22. CASE Register
  BY <1>22, SMT DEF Register
<1>23. CASE CheckParent
  <2>1. CASE found_parent
    <3>1. pids # <<>>
      BY <2>1 DEF found_parent
    <3> QED
      BY <1>23, <2>1, <3>1 DEF CheckParent
  <2>2. CASE ~found_parent
    BY <1>23, <2>2 DEF CheckParent, StartResume
  <2> HIDE DEF Scanned
  <2> QED
    BY <2>1, <2>2
<1>24. CASE CallbackFork
  BY <1>24 DEF CallbackFork
<1>25. CASE set_snapshot_child
  BY <1>25 DEF set_snapshot_child
<1>26. CASE \E rc \in CallbackResults : CallbackReturn(rc)
  BY <1>26 DEF CallbackReturn
<1>27. CASE ClearThenResume
  BY <1>27 DEF ClearThenResume, StartResume, clear_crash_state
<1>28. CASE ResumeNext
  BY <1>28 DEF ResumeNext, ptrace_detach
<1>29. CASE ResumeDone
  BY <1>29 DEF ResumeDone, Fail, ListerExit
<1>30. CASE SwapChild
  BY <1>30 DEF SwapChild, ListerExit
<1>31. CASE reap_snapshot_child
  BY <1>31 DEF reap_snapshot_child, ListerExit
<1>32. CASE KillTracees
  BY <1>32 DEF KillTracees
<1>33. CASE HandlerExit
  BY <1>33 DEF HandlerExit, ListerExit
<1>34. CASE \E t \in Threads : Stop(t)
  BY <1>34, SMT DEF Stop
<1>35. CASE \E c \in 1..MaxCalls : ChildExit(c)
  BY <1>35, SMT DEF ChildExit
<1>36. CASE \E sig \in CrashSignals : sig_handler(sig)
  BY <1>36 DEF sig_handler, Fault, ListerExit
<1>37. CASE UNCHANGED vars
  BY <1>37 DEF vars
<1> HIDE DEF Scanned
<1> QED
  BY <1>1, <1>2, <1>3, <1>4, <1>5, <1>6, <1>7, <1>8, <1>9, <1>10, <1>11,
     <1>12, <1>13, <1>14, <1>15, <1>16, <1>17, <1>18, <1>19, <1>20, <1>21,
     <1>22, <1>23, <1>24, <1>25, <1>26, <1>27, <1>28, <1>29, <1>30, <1>31,
     <1>32, <1>33, <1>34, <1>35, <1>36, <1>37
     DEF Next, HostStep, CallerStep, ListerStep, ScanStep, EndStep, Callback

\* With threads created only by threads that neither exit nor escape the
\* lister, the callback runs with every attachable thread stopped and listed.
THEOREM Frozen == ASSUME NoHandoff PROVE Spec => []FrozenAtCallback
<1>1. Init => Control /\ Held /\ Scanned
  BY InitControl DEF Init, Held, Scanned, HoldPcs, ScanPcs, FruitlessPass
<1>2. Control /\ Held /\ Scanned /\ [Next]_vars => (Control /\ Held /\ Scanned)'
  BY NoHandoff, ControlStep, HeldStep, ScannedStep
<1>3. Control /\ Held /\ Scanned => FrozenAtCallback
  BY DEF Held, Scanned, FrozenAtCallback, HoldPcs
<1> QED
  BY <1>1, <1>2, <1>3, PTL DEF Spec

-----------------------------------------------------------------------------
(* What the Caller is told.                                                *)

\* The callback has returned and the child it forked has not been taken out of
\* SNAPSHOT_CHILD.
Undecided ==
  lpc \in {"clear", "swap"} \/ (lpc = "resume" /\ exitTo = "reap")

\* SNAPSHOT_CHILD names the child of this call or of an earlier one, and the
\* lister reaps the child its callback forked.
ChildKnown ==
  /\ snapshotChild <= call
  /\ call > 0 /\ snapshotChild = call => child[call] # "none"
  /\ Undecided => (child[call] # "none" => snapshotChild = call)
  /\ lpc = "reap" => (child[call] # "none" <=> reaping = call)
  /\ Undecided \/ lpc = "reap" =>
       params.err = "none" /\ params.result \in CallbackResults

\* Why the lister takes an error path: a fault of this call, or a reason that
\* still holds when the call returns.
Reasons ==
  /\ base <= faults
  /\ tstate[Leader] # "unborn"
  /\ Len(pids) <= MAX_THREADS
  /\ lpc \in {"await", "register"} => Len(pids) < MAX_THREADS
  /\ lpc \in {"cleanup", "kill"} => ~Clean
  /\ lpc = "resume" /\ exitTo = "ESYS" => ~Clean
  /\ lpc = "resume" /\ exitTo = "ENOMEM" => Len(pids) = MAX_THREADS
  /\ lpc = "resume" /\ exitTo = "denied" => Leader \notin Elems(pids)
  /\ cpc \in {"ptracer", "unmask"} /\ lpc = "none" => ~Clean

\* What a dead lister's status and parameter block say is the truth, and so is
\* what the Caller makes of it.
Told ==
  /\ lpc = "dead" => Truthful(decode_lister_status(status, params))
  /\ cpc = "return" => Truthful(params)
  /\ cpc = "idle" /\ call > 0 => Truthful(ret)

-----------------------------------------------------------------------------

\* Every step keeps track of the child the callback forked.
LEMMA ChildStep == Control /\ ChildKnown /\ [Next]_vars => ChildKnown'
<1> SUFFICES ASSUME Control, ChildKnown, [Next]_vars PROVE ChildKnown'
  OBVIOUS
<1>a. /\ lpc \in ListerPcs /\ call \in 0..MaxCalls /\ snapshotChild \in Nat
      /\ child \in [1..MaxCalls -> {"none", "running", "ok", "failed"}]
      /\ lpc # "none" => call \in 1..MaxCalls
      /\ lpc # "none" => cpc \notin {"idle", "mask", "clone", "return"}
  BY BoundsAssumption, SMT DEF Control, TypeOK, CallerPcs
<1> USE <1>a, BoundsAssumption DEF ChildKnown, Undecided, ListerPcs, ScanPcs,
        hostVars, callerVars, scanVars, endVars, crashVars, childVars,
        hostFrame, callerFrame, scanFrame
<1>1. CASE \E t, n \in Threads : Spawn(t, n)
  BY <1>1, SMT DEF Spawn
<1>2. CASE \E t \in Threads : Exit(t)
  BY <1>2 DEF Exit
<1>3. CASE Begin
  BY <1>3, SMT DEF Begin, Fault
<1>4. CASE BlockSignals
  BY <1>4 DEF BlockSignals, Fault, restore_dumpable
<1>5. CASE Clone
  BY <1>5 DEF Clone, Fault
<1>6. CASE AllowPtracer
  BY <1>6 DEF AllowPtracer
<1>7. CASE UnblockSignals
  BY <1>7 DEF UnblockSignals, restore_dumpable
<1>8. CASE WaitLister
  BY <1>8 DEF WaitLister, Fault, decode_lister_status
<1>9. CASE Return
  BY <1>9 DEF Return, restore_dumpable
<1>10. CASE Setup
  BY <1>10 DEF Setup, Fault, Fail, ListerExit
<1>11. CASE Publish
  BY <1>11 DEF Publish
<1>12. CASE install_crash_handlers
  BY <1>12 DEF install_crash_handlers
<1>13. CASE OpenTask
  BY <1>13 DEF OpenTask, Fault, Fail, ListerExit
<1>14. CASE Rewind
  BY <1>14 DEF Rewind
<1>15. CASE ReadEntries
  BY <1>15 DEF ReadEntries, BufferEmpty
<1>16. CASE EndPass
  BY <1>16 DEF EndPass, BufferEmpty
<1>17. CASE GetdentsFails
  BY <1>17 DEF GetdentsFails, BufferEmpty, Fault, CloseBoth, StartResume
<1>18. CASE \E t \in Threads : SkipEntry(t)
  BY <1>18 DEF SkipEntry
<1>19. CASE \E t \in Threads : TooManyThreads(t)
  BY <1>19 DEF TooManyThreads, CloseBoth, StartResume
<1>20. CASE \E t \in Threads : Attach(t)
  BY <1>20 DEF Attach
<1>21. CASE AwaitStop
  BY <1>21 DEF AwaitStop, ptrace_detach
<1>22. CASE Register
  BY <1>22 DEF Register
<1>23. CASE CheckParent
  BY <1>23 DEF CheckParent, CloseBoth, StartResume, clear_crash_state, found_parent
<1>24. CASE CallbackFork
  BY <1>24 DEF CallbackFork
<1>25. CASE set_snapshot_child
  BY <1>25, SMT DEF set_snapshot_child
<1>26. CASE \E rc \in CallbackResults : CallbackReturn(rc)
  BY <1>26, SMT DEF CallbackReturn
<1>27. CASE ClearThenResume
  BY <1>27 DEF ClearThenResume, StartResume, clear_crash_state
<1>28. CASE ResumeNext
  BY <1>28 DEF ResumeNext, ptrace_detach
<1>29. CASE ResumeDone
  BY <1>29 DEF ResumeDone, Fail, ListerExit
<1>30. CASE SwapChild
  BY <1>30, SMT DEF SwapChild, ListerExit
<1>31. CASE reap_snapshot_child
  BY <1>31 DEF reap_snapshot_child, ListerExit
<1>32. CASE KillTracees
  BY <1>32 DEF KillTracees
<1>33. CASE HandlerExit
  BY <1>33 DEF HandlerExit, ListerExit
<1>34. CASE \E t \in Threads : Stop(t)
  BY <1>34 DEF Stop
<1>35. CASE \E c \in 1..MaxCalls : ChildExit(c)
  BY <1>35, SMT DEF ChildExit
<1>36. CASE \E sig \in CrashSignals : sig_handler(sig)
  BY <1>36 DEF sig_handler, Fault, ListerExit
<1>37. CASE UNCHANGED vars
  BY <1>37 DEF vars
<1> HIDE DEF ChildKnown
<1> QED
  BY <1>1, <1>2, <1>3, <1>4, <1>5, <1>6, <1>7, <1>8, <1>9, <1>10, <1>11,
     <1>12, <1>13, <1>14, <1>15, <1>16, <1>17, <1>18, <1>19, <1>20, <1>21,
     <1>22, <1>23, <1>24, <1>25, <1>26, <1>27, <1>28, <1>29, <1>30, <1>31,
     <1>32, <1>33, <1>34, <1>35, <1>36, <1>37
     DEF Next, HostStep, CallerStep, ListerStep, ScanStep, EndStep, Callback

\* A leader that has exited, or never shared its file table, has no view of the
\* marker ever after.
LEMMA LeaderStep ==
  ASSUME Control, Held, Reasons, [Next]_vars
  PROVE  /\ tstate'[Leader] # "unborn"
         /\ ~thread_shares_address_space(Leader) => ~thread_shares_address_space(Leader)'
<1>a. /\ tstate \in [Threads -> {"unborn", "running", "stopped", "exited"}]
      /\ tstate[Leader] # "unborn" /\ Leader \in Threads
      /\ \A t \in stopping : tstate[t] = "running"
      /\ stopping \subseteq Threads /\ todo \in Seq(Threads)
      /\ cur \in Threads
  BY ThreadsAssumption DEF Control, TypeOK, Held, Reasons
<1> SUFFICES ASSUME tstate' # tstate
             PROVE  tstate'[Leader] # "unborn" /\ (Leader \notin Live => Leader \notin Live')
  BY <1>a DEF thread_shares_address_space, Live
<1>1. CASE HostStep
  BY <1>1, <1>a DEF HostStep, Spawn, Exit, Live
<1>2. CASE \E t \in Threads : Stop(t)
  BY <1>2, <1>a DEF Stop, Live
<1>3. CASE AwaitStop
  BY <1>3, <1>a DEF AwaitStop, ptrace_detach, Live
<1>4. CASE ResumeNext
  <2>1. Head(todo) \in Threads
    BY <1>4, <1>a, SMT DEF ResumeNext
  <2> QED
    BY <1>4, <1>a, <2>1 DEF ResumeNext, ptrace_detach, Live
<1>5. CASE KillTracees
  BY <1>5, <1>a DEF KillTracees, Live
<1>6. ~Begin /\ ~CallerStep /\ ~Callback
  BY DEF Begin, CallerStep, BlockSignals, Clone, AllowPtracer, UnblockSignals,
         WaitLister, Return, Callback, CallbackFork, set_snapshot_child,
         CallbackReturn, callerFrame, hostVars
<1>7. ~Setup /\ ~Publish /\ ~install_crash_handlers /\ ~OpenTask /\ ~CheckParent
  BY DEF Setup, Publish, install_crash_handlers, OpenTask, CheckParent, hostVars
<1>8. ScanStep => AwaitStop
  BY DEF ScanStep, Rewind, ReadEntries, EndPass, GetdentsFails, SkipEntry,
         TooManyThreads, Attach, Register, hostVars
<1>9. EndStep => ResumeNext \/ KillTracees
  BY DEF EndStep, ClearThenResume, ResumeDone, SwapChild, reap_snapshot_child,
         HandlerExit, hostVars
<1>10. /\ ~(\E c \in 1..MaxCalls : ChildExit(c))
       /\ ~(\E sig \in CrashSignals : sig_handler(sig))
       /\ ~UNCHANGED vars
  BY DEF ChildExit, sig_handler, hostVars, vars
<1> QED
  BY <1>1, <1>2, <1>3, <1>4, <1>5, <1>6, <1>7, <1>8, <1>9, <1>10 DEF Next, ListerStep

\* Every step has its reason.
LEMMA ReasonsStep == Control /\ Held /\ Reasons /\ [Next]_vars => Reasons'
<1> SUFFICES ASSUME Control, Held, Reasons, [Next]_vars PROVE Reasons'
  OBVIOUS
<1>a. /\ lpc \in ListerPcs /\ pids \in Seq(Threads) /\ cur \in Threads
      /\ faults \in Nat /\ base \in Nat /\ cpc \in CallerPcs
      /\ lpc # "none" => cpc \notin {"idle", "mask", "clone", "return"}
      /\ cpc \in {"idle", "mask", "clone", "return"} => lpc = "none"
  BY BoundsAssumption, SMT DEF Control, TypeOK, CallerPcs
<1>b. tstate'[Leader] # "unborn"
  BY LeaderStep
<1> USE <1>a, <1>b, BoundsAssumption, ElemsEmpty DEF Reasons, Clean, ListerPcs, ScanPcs,
        CallerPcs,
        hostVars, callerVars, scanVars, endVars, crashVars, childVars,
        hostFrame, callerFrame, scanFrame
<1>1. CASE \E t, n \in Threads : Spawn(t, n)
  BY <1>1 DEF Spawn
<1>2. CASE \E t \in Threads : Exit(t)
  BY <1>2 DEF Exit
<1>3. CASE Begin
  BY <1>3, SMT DEF Begin, Fault
<1>4. CASE BlockSignals
  BY <1>4, SMT DEF BlockSignals, Fault, restore_dumpable
<1>5. CASE Clone
  BY <1>5, SMT DEF Clone, Fault
<1>6. CASE AllowPtracer
  BY <1>6 DEF AllowPtracer
<1>7. CASE UnblockSignals
  BY <1>7 DEF UnblockSignals, restore_dumpable
<1>8. CASE WaitLister
  BY <1>8, SMT DEF WaitLister, Fault, decode_lister_status
<1>9. CASE Return
  BY <1>9 DEF Return, restore_dumpable
<1>10. CASE Setup
  BY <1>10, SMT DEF Setup, Fault, Fail, ListerExit
<1>11. CASE Publish
  BY <1>11 DEF Publish
<1>12. CASE install_crash_handlers
  BY <1>12 DEF install_crash_handlers
<1>13. CASE OpenTask
  BY <1>13, SMT DEF OpenTask, Fault, Fail, ListerExit
<1>14. CASE Rewind
  BY <1>14 DEF Rewind
<1>15. CASE ReadEntries
  BY <1>15 DEF ReadEntries, BufferEmpty
<1>16. CASE EndPass
  BY <1>16 DEF EndPass, BufferEmpty
<1>17. CASE GetdentsFails
  BY <1>17, SMT DEF GetdentsFails, BufferEmpty, Fault, CloseBoth, StartResume
<1>18. CASE \E t \in Threads : SkipEntry(t)
  BY <1>18 DEF SkipEntry
<1>19. CASE \E t \in Threads : TooManyThreads(t)
  BY <1>19, SMT DEF TooManyThreads, CloseBoth, StartResume
<1>20. CASE \E t \in Threads : Attach(t)
  BY <1>20 DEF Attach
<1>21. CASE AwaitStop
  BY <1>21 DEF AwaitStop, ptrace_detach
<1>22. CASE Register
  BY <1>22, SMT DEF Register
<1>23. CASE CheckParent
  BY <1>23 DEF CheckParent, CloseBoth, StartResume, clear_crash_state, found_parent
<1>24. CASE CallbackFork
  BY <1>24 DEF CallbackFork
<1>25. CASE set_snapshot_child
  BY <1>25 DEF set_snapshot_child
<1>26. CASE \E rc \in CallbackResults : CallbackReturn(rc)
  BY <1>26 DEF CallbackReturn
<1>27. CASE ClearThenResume
  BY <1>27 DEF ClearThenResume, StartResume, clear_crash_state
<1>28. CASE ResumeNext
  BY <1>28 DEF ResumeNext, ptrace_detach
<1>29. CASE ResumeDone
  BY <1>29 DEF ResumeDone, Fail, ListerExit
<1>30. CASE SwapChild
  BY <1>30 DEF SwapChild, ListerExit
<1>31. CASE reap_snapshot_child
  BY <1>31 DEF reap_snapshot_child, ListerExit
<1>32. CASE KillTracees
  BY <1>32 DEF KillTracees
<1>33. CASE HandlerExit
  BY <1>33 DEF HandlerExit, ListerExit
<1>34. CASE \E t \in Threads : Stop(t)
  BY <1>34 DEF Stop
<1>35. CASE \E c \in 1..MaxCalls : ChildExit(c)
  BY <1>35 DEF ChildExit
<1>36. CASE \E sig \in CrashSignals : sig_handler(sig)
  BY <1>36, SMT DEF sig_handler, Fault, ListerExit
<1>37. CASE UNCHANGED vars
  BY <1>37 DEF vars
<1> HIDE DEF Reasons
<1> QED
  BY <1>1, <1>2, <1>3, <1>4, <1>5, <1>6, <1>7, <1>8, <1>9, <1>10, <1>11,
     <1>12, <1>13, <1>14, <1>15, <1>16, <1>17, <1>18, <1>19, <1>20, <1>21,
     <1>22, <1>23, <1>24, <1>25, <1>26, <1>27, <1>28, <1>29, <1>30, <1>31,
     <1>32, <1>33, <1>34, <1>35, <1>36, <1>37
     DEF Next, HostStep, CallerStep, ListerStep, ScanStep, EndStep, Callback

\* Every step tells the truth: the lister in its exit status and parameter
\* block, the Caller in what it returns.
LEMMA ToldStep ==
  Control /\ Held /\ ChildKnown /\ Reasons /\ Told /\ [Next]_vars => Told'
<1> SUFFICES ASSUME Control, Held, ChildKnown, Reasons, Told, [Next]_vars PROVE Told'
  OBVIOUS
<1>a. /\ lpc \in ListerPcs /\ pids \in Seq(Threads)
      /\ faults \in Nat /\ base \in Nat /\ base <= faults
      /\ cpc \in CallerPcs /\ call \in 0..MaxCalls
      /\ exitTo \in {"ESYS", "ENOMEM", "denied", "reap"}
      /\ status \in {0, 1, 2, 3, KILLED} /\ snapshotChild \in Nat
      /\ child \in [1..MaxCalls -> {"none", "running", "ok", "failed"}]
      /\ lpc # "none" => call \in 1..MaxCalls
      /\ lpc # "none" => cpc \notin {"idle", "mask", "clone", "return"}
      /\ cpc \in {"idle", "mask", "clone", "return"} => lpc = "none"
  BY BoundsAssumption, SMT DEF Control, TypeOK, CallerPcs, Reasons
<1>b. ~thread_shares_address_space(Leader) => ~thread_shares_address_space(Leader)'
  BY LeaderStep
<1> USE <1>a, <1>b, BoundsAssumption, ElemsEmpty DEF Told, Truthful, Clean, ListerPcs, ScanPcs,
        CallerPcs, decode_lister_status, KILLED,
        hostVars, callerVars, scanVars, endVars, crashVars, childVars,
        hostFrame, callerFrame, scanFrame
<1>1. CASE \E t, n \in Threads : Spawn(t, n)
  BY <1>1, SMT DEF Spawn
<1>2. CASE \E t \in Threads : Exit(t)
  BY <1>2, SMT DEF Exit
<1>3. CASE Begin
  BY <1>3, SMT DEF Begin, Fault
<1>4. CASE BlockSignals
  BY <1>4, SMT DEF BlockSignals, Fault, restore_dumpable
<1>5. CASE Clone
  BY <1>5 DEF Clone, Fault
<1>6. CASE AllowPtracer
  BY <1>6, SMT DEF AllowPtracer
<1>7. CASE UnblockSignals
  BY <1>7, SMT DEF UnblockSignals, restore_dumpable, Reasons
<1>8. CASE WaitLister
  BY <1>8, SMT DEF WaitLister, Fault, decode_lister_status
<1>9. CASE Return
  BY <1>9 DEF Return, restore_dumpable
<1>10. CASE Setup
  BY <1>10, SMT DEF Setup, Fault, Fail, ListerExit
<1>11. CASE Publish
  BY <1>11 DEF Publish
<1>12. CASE install_crash_handlers
  BY <1>12 DEF install_crash_handlers
<1>13. CASE OpenTask
  BY <1>13, SMT DEF OpenTask, Fault, Fail, ListerExit
<1>14. CASE Rewind
  BY <1>14 DEF Rewind
<1>15. CASE ReadEntries
  BY <1>15 DEF ReadEntries, BufferEmpty
<1>16. CASE EndPass
  BY <1>16 DEF EndPass, BufferEmpty
<1>17. CASE GetdentsFails
  BY <1>17 DEF GetdentsFails, BufferEmpty, Fault, CloseBoth, StartResume
<1>18. CASE \E t \in Threads : SkipEntry(t)
  BY <1>18 DEF SkipEntry
<1>19. CASE \E t \in Threads : TooManyThreads(t)
  BY <1>19 DEF TooManyThreads, CloseBoth, StartResume
<1>20. CASE \E t \in Threads : Attach(t)
  BY <1>20 DEF Attach
<1>21. CASE AwaitStop
  BY <1>21 DEF AwaitStop, ptrace_detach
<1>22. CASE Register
  BY <1>22 DEF Register
<1>23. CASE CheckParent
  BY <1>23 DEF CheckParent, CloseBoth, StartResume, clear_crash_state, found_parent
<1>24. CASE CallbackFork
  BY <1>24 DEF CallbackFork
<1>25. CASE set_snapshot_child
  BY <1>25 DEF set_snapshot_child
<1>26. CASE \E rc \in CallbackResults : CallbackReturn(rc)
  BY <1>26 DEF CallbackReturn
<1>27. CASE ClearThenResume
  BY <1>27 DEF ClearThenResume, StartResume, clear_crash_state
<1>28. CASE ResumeNext
  BY <1>28 DEF ResumeNext, ptrace_detach
<1>29. CASE ResumeDone
  BY <1>29, SMT DEF ResumeDone, Fail, ListerExit, Reasons
<1>30. CASE SwapChild
  BY <1>30, SMT DEF SwapChild, ListerExit, ChildKnown, Undecided
<1>31. CASE reap_snapshot_child
  BY <1>31, SMT DEF reap_snapshot_child, ListerExit, ChildKnown
<1>32. CASE KillTracees
  BY <1>32 DEF KillTracees
<1>33. CASE HandlerExit
  BY <1>33, SMT DEF HandlerExit, ListerExit, Reasons
<1>34. CASE \E t \in Threads : Stop(t)
  BY <1>34, SMT DEF Stop
<1>35. CASE \E c \in 1..MaxCalls : ChildExit(c)
  BY <1>35, SMT DEF ChildExit
<1>36. CASE \E sig \in CrashSignals : sig_handler(sig)
  BY <1>36, SMT DEF sig_handler, Fault, ListerExit
<1>37. CASE UNCHANGED vars
  BY <1>37, SMT DEF vars
<1> HIDE DEF Told
<1> QED
  BY <1>1, <1>2, <1>3, <1>4, <1>5, <1>6, <1>7, <1>8, <1>9, <1>10, <1>11,
     <1>12, <1>13, <1>14, <1>15, <1>16, <1>17, <1>18, <1>19, <1>20, <1>21,
     <1>22, <1>23, <1>24, <1>25, <1>26, <1>27, <1>28, <1>29, <1>30, <1>31,
     <1>32, <1>33, <1>34, <1>35, <1>36, <1>37
     DEF Next, HostStep, CallerStep, ListerStep, ScanStep, EndStep, Callback

\* What a call of list_all_process_threads returns is the truth.
THEOREM ResultsAreTrue == Spec => []ResultIsTruth
<1> DEFINE Inv == Control /\ Held /\ ChildKnown /\ Reasons /\ Told
<1>1. Init => Inv
  <2>1. Init => ChildKnown /\ Reasons /\ Told
    BY ThreadsAssumption, BoundsAssumption, ElemsEmpty, SMT
       DEF Init, ChildKnown, Undecided, Reasons, Told
  <2> QED
    BY <2>1, InitControl DEF Init, Held, HoldPcs, ScanPcs
<1>2. Inv /\ [Next]_vars => Inv'
  BY ControlStep, HeldStep, ChildStep, ReasonsStep, ToldStep
<1>3. Inv => ResultIsTruth
  BY DEF Told, ResultIsTruth
<1> QED
  BY <1>1, <1>2, <1>3, PTL DEF Spec

=============================================================================

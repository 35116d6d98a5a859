--------------------------- MODULE CoreDumpProofs ---------------------------
(***************************************************************************)
(* A dump uses the lister as the lister's model says: dump_callback is one *)
(* of the callbacks Lister allows.  So what is proved of the lister holds  *)
(* of every dump.  A core that is reported whole is consistent, and where  *)
(* every thread can be attached a dump is one atomic snapshot.             *)
(***************************************************************************)
EXTENDS CoreDump, ListerProofs

\* Most steps are first-order reasoning over sets and functions; those with arithmetic
\* or sequences name SMT.
USE Zenon

\* Each step of dump_callback is a step of the lister's callback, or leaves
\* the lister's state alone.
LEMMA CallbackStep == DumpCallback => Callback \/ UNCHANGED vars
<1> SUFFICES ASSUME DumpCallback PROVE Callback \/ UNCHANGED vars
  OBVIOUS
<1>1. CASE PreDumpCallback
  BY <1>1 DEF PreDumpCallback, vars
<1>2. CASE capture_dump
  BY <1>2 DEF capture_dump, vars
<1>3. CASE ForkSnapshot
  BY <1>3 DEF ForkSnapshot, Callback
<1>4. CASE WriteInline
  BY <1>4 DEF WriteInline, vars
<1>5. CASE InlineWrite
  BY <1>5 DEF InlineWrite, vars
<1>6. CASE InlineDone
  BY <1>6 DEF InlineDone, vars
<1>7. CASE PublishChild
  BY <1>7 DEF PublishChild, Callback
<1>8. CASE DumpReturn
  <2>1. CallbackReturn(0)
    BY <1>8 DEF DumpReturn
  <2>2. 0 \in CallbackResults
    BY DumpAssumption
  <2> QED
    BY <2>1, <2>2 DEF Callback
<1> QED
  BY <1>1, <1>2, <1>3, <1>4, <1>5, <1>6, <1>7, <1>8 DEF DumpCallback

\* Every step of a dump is a step of the lister's model or leaves it alone.
LEMMA DumpStep == [DumpNext]_<<vars, dumpVars>> => [Next]_vars
<1> SUFFICES ASSUME [DumpNext]_<<vars, dumpVars>> PROVE [Next]_vars
  OBVIOUS
<1>1. CASE ApiCall
  BY <1>1 DEF ApiCall, Next
<1>2. CASE Unrelated
  BY <1>2 DEF Unrelated, Next
<1>3. CASE DumpCallback
  BY <1>3, CallbackStep DEF Next
<1>4. CASE \E t \in Threads : Work(t)
  BY <1>4 DEF Work
<1>5. CASE \E c \in 1..MaxCalls : ChildWrite(c) \/ ChildEnds(c)
  <2> PICK c \in 1..MaxCalls : ChildWrite(c) \/ ChildEnds(c)
    BY <1>5
  <2>1. CASE ChildWrite(c)
    BY <2>1 DEF ChildWrite
  <2>2. CASE ChildEnds(c)
    BY <2>2 DEF ChildEnds, Next
  <2> QED
    BY <2>1, <2>2
<1>6. CASE UNCHANGED <<vars, dumpVars>>
  BY <1>6
<1> QED
  BY <1>1, <1>2, <1>3, <1>4, <1>5, <1>6 DEF DumpNext

\* write_core_dump_to_fd_options with dump_callback implements the lister's
\* model, for any threads, bounds and strategies.
THEOREM DumpImplementsLister == DumpSpec => ImplementsLister
<1>1. DumpInit => Init
  BY DEF DumpInit
<1> QED
  BY <1>1, DumpStep, PTL DEF DumpSpec, ImplementsLister, Spec

\* The registers of a dump are captured, and its child forked, with every live
\* attachable thread stopped, if threads are created only by threads that
\* neither exit nor escape the lister.
THEOREM DumpFrozen ==
  ASSUME NoHandoff PROVE DumpSpec => []FrozenAtCallback
<1>1. Spec => []FrozenAtCallback
  BY Frozen
<1> QED
  BY <1>1, DumpImplementsLister DEF ImplementsLister

\* Whatever becomes of the dump, the call restores the dumpable flag, the
\* signal mask and the descriptor table.
THEOREM DumpRestores == DumpSpec => []CallRestoresProcess
BY RestoresProcess, DumpImplementsLister DEF ImplementsLister

-----------------------------------------------------------------------------
(* What the core shows.                                                    *)

\* The call has begun and its callback has not been reached.
BeforeCallback ==
  \/ cpc \in {"mask", "clone"}
  \/ lpc \in {"setup", "publish", "install", "open", "rewind", "found"} \cup ScanPcs

\* dump_callback has written nothing and forked nothing.
Untouched ==
  /\ child[call] = "none" /\ file[call] = Empty
  /\ ctx.result = -1 /\ snap = NoRegs

\* How far dump_callback is.
Progress ==
  /\ cpc # "idle" => frame = data[Caller]
  /\ \A c \in 1..MaxCalls : c > call => child[c] = "none" /\ file[c] = Empty
  /\ BeforeCallback => dpc = "enter" /\ Untouched
  /\ InCallback("enter") \/ InCallback("regs") \/ InCallback("fork") => Untouched
  /\ InCallback("publish") => child[call] # "none" /\ ctx.result = -1
  /\ InCallback("inline") => child[call] = "none" /\ ctx.result = -1

\* The copy-on-write child has one view of registers and memory, and writes
\* nothing else.
ChildShows ==
  /\ \A t \in DumpedThreads : copy[call].regs[t] = copy[call].mem[t]
  /\ file[call].regs \in {NoRegs, copy[call].regs}
  /\ \A t \in Threads : file[call].mem[t, "private"] \in {None, copy[call].mem[t]}
  /\ snap = copy[call].mem

\* The captured registers agree with the memory of the stopped threads, and
\* dump_callback writes nothing else.
Captured ==
  /\ InCallback("fork") \/ InCallback("inline") =>
       \A t \in DumpedThreads : cap[t] = data[t]
  /\ InCallback("inline") =>
       /\ file[call].regs \in {NoRegs, cap}
       /\ \A t \in DumpedThreads, k \in Kinds : file[call].mem[t, k] \in {None, data[t]}

\* What the child of this call has copied and written.
Copied ==
  /\ call > 0 /\ child[call] # "none" => ChildShows
  /\ call > 0 /\ child[call] = "ok" => Complete(call)

\* What dump_callback has written itself.
Inlined ==
  call > 0 /\ child[call] = "none" /\ ctx.result = 0 =>
    /\ Complete(call)
    /\ \A t \in DumpedThreads, k \in Kinds : file[call].regs[t] = file[call].mem[t, k]

Agreed == Captured /\ Copied /\ Inlined

\* Where no thread runs during the callback, an in-line core is the memory as
\* it was when the write began.
Still ==
  /\ InCallback("inline") =>
       /\ snap = data
       /\ \A t \in Threads : file[call].mem[t, "private"] \in {None, data[t]}
  /\ call > 0 /\ child[call] = "none" /\ ctx.result = 0 =>
       \A t \in Threads : file[call].mem[t, "private"] = snap[t]

-----------------------------------------------------------------------------

\* The steps of the lister, the Caller and the host that are not the callback's
\* fork no child, and list threads only before the callback.
LEMMA UnrelatedStep ==
  ASSUME Control, Unrelated
  PROVE  /\ call' = call /\ child' = child
         /\ cpc' # "idle" => cpc # "idle"
         /\ BeforeCallback' => BeforeCallback
         /\ lpc' = "callback" => lpc = "callback" \/ BeforeCallback
         /\ pids' = pids \/ BeforeCallback
<1>a. /\ lpc \in ListerPcs /\ cpc \in CallerPcs
      /\ cpc \in {"idle", "mask", "clone", "return"} => lpc = "none"
  BY DEF Control, TypeOK
<1> USE <1>a DEF BeforeCallback, ListerPcs, CallerPcs, ScanPcs,
        hostVars, callerVars, scanVars, endVars, crashVars, childVars,
        hostFrame, callerFrame, scanFrame
<1>1. CASE HostStep
  BY <1>1, SMT DEF HostStep, Spawn, Exit
<1>2. CASE CallerStep
  BY <1>2 DEF CallerStep, BlockSignals, Clone, AllowPtracer, UnblockSignals,
              WaitLister, Return
<1>3. CASE Setup \/ Publish \/ install_crash_handlers \/ OpenTask \/ CheckParent
  BY <1>3 DEF Setup, Publish, install_crash_handlers, OpenTask, CheckParent,
              Fail, ListerExit, StartResume
<1>4. CASE ScanStep
  <2>1. CASE Rewind \/ ReadEntries \/ EndPass \/ GetdentsFails
    BY <2>1 DEF Rewind, ReadEntries, EndPass, BufferEmpty, GetdentsFails, StartResume
  <2>2. CASE \E t \in Threads : SkipEntry(t) \/ TooManyThreads(t) \/ Attach(t)
    BY <2>2 DEF SkipEntry, TooManyThreads, StartResume, Attach
  <2>3. CASE AwaitStop \/ Register
    BY <2>3 DEF AwaitStop, Register
  <2> QED
    BY <1>4, <2>1, <2>2, <2>3 DEF ScanStep
<1>5. CASE EndStep
  BY <1>5, Zenon DEF EndStep, ClearThenResume, ResumeNext, ResumeDone, SwapChild,
              reap_snapshot_child, KillTracees, HandlerExit, StartResume, Fail,
              ListerExit
<1>6. CASE \E t \in Threads : Stop(t)
  BY <1>6 DEF Stop
<1>7. CASE \E sig \in CrashSignals : sig_handler(sig)
  BY <1>7 DEF sig_handler, ListerExit
<1> QED
  BY <1>1, <1>2, <1>3, <1>4, <1>5, <1>6, <1>7 DEF Unrelated, ListerStep

\* One write of serialize_dump adds the notes or one page, and overwrites
\* nothing; a core that is complete is not written to.
LEMMA WriteStep ==
  ASSUME DumpTypeOK, NEW c \in 1..MaxCalls, NEW regs, NEW private, WriteNext(c, regs, private)
  PROVE  /\ ~Complete(c)
         /\ \A d \in 1..MaxCalls : d # c => file'[d] = file[d]
         /\ file'[c].regs = file[c].regs \/ (file[c].regs = NoRegs /\ file'[c].regs = regs)
         /\ \A p \in Threads \X Kinds :
              \/ file'[c].mem[p] = file[c].mem[p]
              \/ /\ file[c].mem[p] = None
                 /\ file'[c].mem[p] = IF p[2] = "private" THEN private[p[1]] ELSE data[p[1]]
<1>a. file \in [1..MaxCalls ->
                 [regs : [Threads -> {None} \cup 0..MaxWork],
                  mem : [Threads \X Kinds -> {None} \cup 0..MaxWork]]]
  BY Zenon DEF DumpTypeOK
<1>1. CASE file[c].regs = NoRegs /\ file' = [file EXCEPT ![c].regs = regs]
  BY <1>1, <1>a DEF Complete
<1>2. CASE file[c].regs # NoRegs
  <2>1. PICK q \in Threads \X Kinds :
          /\ file[c].mem[q] = None
          /\ file' = [file EXCEPT ![c].mem[q] =
                        IF q[2] = "private" THEN private[q[1]] ELSE data[q[1]]]
    BY <1>2 DEF WriteNext
  <2>2. ~Complete(c)
    BY <2>1 DEF Complete
  <2> QED
    BY <2>1, <2>2, <1>a
<1> QED
  BY <1>1, <1>2 DEF WriteNext

\* A write keeps the type of the files.
LEMMA WriteType ==
  ASSUME DumpTypeOK, NEW c \in 1..MaxCalls,
         NEW regs \in [Threads -> {None} \cup 0..MaxWork],
         NEW private \in [Threads -> {None} \cup 0..MaxWork],
         WriteNext(c, regs, private)
  PROVE  file' \in [1..MaxCalls ->
                     [regs : [Threads -> {None} \cup 0..MaxWork],
                      mem : [Threads \X Kinds -> {None} \cup 0..MaxWork]]]
<1>a. /\ file \in [1..MaxCalls ->
                    [regs : [Threads -> {None} \cup 0..MaxWork],
                     mem : [Threads \X Kinds -> {None} \cup 0..MaxWork]]]
      /\ data \in [Threads -> 0..MaxWork]
  BY Zenon DEF DumpTypeOK
<1>b. file[c] \in [regs : [Threads -> {None} \cup 0..MaxWork],
                   mem : [Threads \X Kinds -> {None} \cup 0..MaxWork]]
  BY <1>a, Zenon
<1>1. CASE file' = [file EXCEPT ![c].regs = regs]
  <2>1. [file[c] EXCEPT !.regs = regs] \in
          [regs : [Threads -> {None} \cup 0..MaxWork],
           mem : [Threads \X Kinds -> {None} \cup 0..MaxWork]]
    BY <1>b
  <2>2. file' = [file EXCEPT ![c] = [file[c] EXCEPT !.regs = regs]]
    BY <1>1, <1>a, Zenon
  <2> QED
    BY <2>1, <2>2, <1>a, Zenon
<1>2. CASE \E p \in Threads \X Kinds :
             file' = [file EXCEPT ![c].mem[p] =
                        IF p[2] = "private" THEN private[p[1]] ELSE data[p[1]]]
  <2> PICK p \in Threads \X Kinds :
             file' = [file EXCEPT ![c].mem[p] =
                        IF p[2] = "private" THEN private[p[1]] ELSE data[p[1]]]
    BY <1>2, Zenon
  <2>1. (IF p[2] = "private" THEN private[p[1]] ELSE data[p[1]]) \in {None} \cup 0..MaxWork
    BY <1>a
  <2> DEFINE mem == [file[c].mem EXCEPT ![p] =
                       IF p[2] = "private" THEN private[p[1]] ELSE data[p[1]]]
  <2>2. mem \in [Threads \X Kinds -> {None} \cup 0..MaxWork]
    BY <2>1, <1>a
  <2>3. file' = [file EXCEPT ![c] = [file[c] EXCEPT !.mem = mem]]
    BY <1>a, Zenon
  <2> HIDE DEF mem
  <2>4. [file[c] EXCEPT !.mem = mem] \in
          [regs : [Threads -> {None} \cup 0..MaxWork],
           mem : [Threads \X Kinds -> {None} \cup 0..MaxWork]]
    BY <2>2, <1>b
  <2> QED
    BY <2>3, <2>4, <1>a, Zenon
<1> QED
  BY <1>1, <1>2, Zenon DEF WriteNext

\* Every step of a dump keeps the variables in their types.
LEMMA DumpTypeStep ==
  Control /\ DumpTypeOK /\ [DumpNext]_<<vars, dumpVars>> => DumpTypeOK'
<1> SUFFICES ASSUME Control, DumpTypeOK, [DumpNext]_<<vars, dumpVars>> PROVE DumpTypeOK'
  OBVIOUS
<1>a. TypeOK'
  BY DumpStep, TypeStep
<1>b. /\ Caller \in Threads /\ MaxWork \in Nat /\ MaxCalls \in Nat
      /\ lpc = "callback" => call \in 1..MaxCalls
  BY ThreadsAssumption, DumpAssumption, BoundsAssumption, SMT DEF Control, TypeOK
<1>c. NoRegs \in [Threads -> {None} \cup 0..MaxWork]
  BY DEF NoRegs
<1> USE <1>a, <1>b, <1>c DEF DumpTypeOK, InCallback, SerializeErrors
<1>1. CASE ApiCall
  BY <1>1, Zenon DEF ApiCall, Begin
<1>2. CASE Unrelated /\ UNCHANGED dumpVars
  BY <1>2, Zenon DEF dumpVars
<1>3. CASE PreDumpCallback
  <2>1. UNCHANGED <<data, frame, strategy, cap, header, copy, file, snap>>
    BY <1>3 DEF PreDumpCallback
  <2>2. (dpc' = "regs" /\ ctx' = ctx) \/ (dpc' = "return" /\ ctx' = [result |-> -1, error |-> "CallbackAborted"])
    BY <1>3 DEF PreDumpCallback, CallbackFails
  <2>3. ctx' \in [result : {0, -1}, error : SerializeErrors \cup {"none", "CallbackAborted", "PtraceGetRegs"}]
    BY <2>2, SMT
  <2> QED
    BY <2>1, <2>2, <2>3, Zenon
<1>4. CASE capture_dump
  <2>1. UNCHANGED <<data, frame, strategy, copy, file, snap>>
    BY <1>4 DEF capture_dump
  <2>2. cap' = cap \/ cap' = [t \in Threads |-> IF t \in DumpedThreads THEN Registers(t) ELSE None]
    BY <1>4 DEF capture_dump
  <2>3. \A t \in Threads : Registers(t) \in 0..MaxWork
    BY DEF Registers, PtraceRegs
  <2>4. cap' \in [Threads -> {None} \cup 0..MaxWork]
    BY <2>2, <2>3, SMT
  <2>5. (dpc' = "fork" /\ ctx' = ctx) \/ (dpc' = "return" /\ ctx' = [result |-> -1, error |-> "PtraceGetRegs"])
    BY <1>4 DEF capture_dump, CallbackFails
  <2>6. ctx' \in [result : {0, -1}, error : SerializeErrors \cup {"none", "CallbackAborted", "PtraceGetRegs"}]
    BY <2>5, SMT
  <2> QED
    BY <2>1, <2>4, <2>5, <2>6, Zenon
<1>5. CASE ForkSnapshot
  BY <1>5, Zenon DEF ForkSnapshot, CallbackFork
<1>6. CASE WriteInline
  BY <1>6, Zenon DEF WriteInline
<1>7. CASE InlineWrite
  <2>1. file' \in [1..MaxCalls ->
                  [regs : [Threads -> {None} \cup 0..MaxWork],
                   mem : [Threads \X Kinds -> {None} \cup 0..MaxWork]]]
    BY <1>7, WriteType, Zenon DEF InlineWrite
  <2> QED
    BY <1>7, <2>1, Zenon DEF InlineWrite
<1>8. CASE InlineDone
  <2>1. UNCHANGED <<data, frame, strategy, cap, header, copy, file, snap>> /\ dpc' = "return"
    BY <1>8 DEF InlineDone, CallbackFails
  <2>2. \/ ctx' = [ctx EXCEPT !.result = 0]
        \/ \E e \in SerializeErrors : ctx' = [result |-> -1, error |-> e]
    BY <1>8 DEF InlineDone, CallbackFails
  <2>3. ctx' \in [result : {0, -1}, error : SerializeErrors \cup {"none", "CallbackAborted", "PtraceGetRegs"}]
    BY <2>2, SMT
  <2> QED
    BY <2>1, <2>3, Zenon
<1>9. CASE PublishChild
  BY <1>9, Zenon DEF PublishChild, set_snapshot_child
<1>10. CASE DumpReturn
  BY <1>10, Zenon DEF DumpReturn, CallbackReturn, dumpVars
<1>11. CASE \E t \in Threads : Work(t)
  <2>1. UNCHANGED <<frame, strategy, ctx, dpc, cap, header, copy, file, snap>>
    BY <1>11 DEF Work
  <2>2. data' \in [Threads -> 0..MaxWork]
    BY <1>11, SMT DEF Work
  <2> QED
    BY <2>1, <2>2, Zenon
<1>12. CASE \E c \in 1..MaxCalls : ChildWrite(c)
  <2> PICK c \in 1..MaxCalls : ChildWrite(c)
    BY <1>12
  <2>1. copy[c].regs \in [Threads -> {None} \cup 0..MaxWork] /\ copy[c].mem \in [Threads -> {None} \cup 0..MaxWork]
    OBVIOUS
  <2>2. file' \in [1..MaxCalls ->
                  [regs : [Threads -> {None} \cup 0..MaxWork],
                   mem : [Threads \X Kinds -> {None} \cup 0..MaxWork]]]
    BY <2>1, WriteType, Zenon DEF ChildWrite
  <2> QED
    BY <2>2, Zenon DEF ChildWrite
<1>13. CASE \E c \in 1..MaxCalls : ChildEnds(c)
  BY <1>13, Zenon DEF ChildEnds, ChildExit, dumpVars
<1>14. CASE UNCHANGED <<vars, dumpVars>>
  BY <1>14, Zenon DEF dumpVars
<1> HIDE DEF DumpTypeOK
<1> QED
  BY <1>1, <1>2, <1>3, <1>4, <1>5, <1>6, <1>7, <1>8, <1>9, <1>10, <1>11,
     <1>12, <1>13, <1>14 DEF DumpNext, DumpCallback

\* Every step of a dump knows how far dump_callback is.
LEMMA ProgressStep ==
  Control /\ DumpTypeOK /\ Progress /\ [DumpNext]_<<vars, dumpVars>> => Progress'
<1> SUFFICES ASSUME Control, DumpTypeOK, Progress, [DumpNext]_<<vars, dumpVars>>
             PROVE  Progress'
  OBVIOUS
<1>a. /\ lpc \in ListerPcs /\ cpc \in CallerPcs /\ call \in 0..MaxCalls
      /\ child \in [1..MaxCalls -> {"none", "running", "ok", "failed"}]
      /\ data \in [Threads -> 0..MaxWork] /\ Caller \in Threads
      /\ cpc \in {"idle", "mask", "clone", "return"} => lpc = "none"
      /\ lpc # "none" => call \in 1..MaxCalls
      /\ ctx \in [result : {0, -1}, error : SerializeErrors \cup {"none", "CallbackAborted", "PtraceGetRegs"}]
      /\ dpc \in {"enter", "regs", "fork", "publish", "inline", "return"}
      /\ MaxCalls \in Nat
  BY ThreadsAssumption, BoundsAssumption, SMT DEF Control, TypeOK, DumpTypeOK, CallerPcs
<1> USE <1>a DEF Progress, Untouched, BeforeCallback, InCallback, ListerPcs, CallerPcs, ScanPcs,
        hostVars, callerVars, scanVars, endVars, crashVars, childVars,
        hostFrame, callerFrame, scanFrame
<1>1. CASE ApiCall
  BY <1>1, SMT DEF ApiCall, Begin
<1>2. CASE Unrelated /\ UNCHANGED dumpVars
  BY <1>2, UnrelatedStep, SMT DEF dumpVars
<1>3. CASE PreDumpCallback
  BY <1>3 DEF PreDumpCallback, CallbackFails, vars
<1>4. CASE capture_dump
  BY <1>4 DEF capture_dump, CallbackFails, vars
<1>5. CASE ForkSnapshot
  BY <1>5, SMT DEF ForkSnapshot, CallbackFork
<1>6. CASE WriteInline
  BY <1>6 DEF WriteInline, vars
<1>7. CASE InlineWrite
  <2>1. \A d \in 1..MaxCalls : d # call => file'[d] = file[d]
    BY <1>7, WriteStep, Zenon DEF InlineWrite
  <2>2. UNCHANGED <<vars, data, frame, ctx, dpc, snap>> /\ lpc = "callback" /\ dpc = "inline"
    BY <1>7, Zenon DEF InlineWrite
  <2> QED
    BY <2>1, <2>2, SMT DEF vars
<1>8. CASE InlineDone
  BY <1>8 DEF InlineDone, CallbackFails, vars
<1>9. CASE PublishChild
  BY <1>9 DEF PublishChild, set_snapshot_child
<1>10. CASE DumpReturn
  BY <1>10 DEF DumpReturn, CallbackReturn, dumpVars
<1>11. CASE \E t \in Threads : Work(t)
  BY <1>11, SMT DEF Work, vars
<1>12. CASE \E c \in 1..MaxCalls : ChildWrite(c)
  <2> PICK c \in 1..MaxCalls : ChildWrite(c)
    BY <1>12
  <2>1. \A d \in 1..MaxCalls : d # c => file'[d] = file[d]
    BY WriteStep, Zenon DEF ChildWrite
  <2>2. UNCHANGED <<vars, data, frame, ctx, dpc, snap>> /\ child[c] = "running"
    BY DEF ChildWrite
  <2> QED
    BY <2>1, <2>2, SMT DEF vars
<1>13. CASE \E c \in 1..MaxCalls : ChildEnds(c)
  BY <1>13, SMT DEF ChildEnds, ChildExit, dumpVars
<1>14. CASE UNCHANGED <<vars, dumpVars>>
  BY <1>14 DEF vars, dumpVars
<1> HIDE DEF Progress
<1> QED
  BY <1>1, <1>2, <1>3, <1>4, <1>5, <1>6, <1>7, <1>8, <1>9, <1>10, <1>11,
     <1>12, <1>13, <1>14 DEF DumpNext, DumpCallback

\* The registers of at most MAX_DUMP_THREADS listed threads are captured.
LEMMA DumpedAreListed ==
  ASSUME pids \in Seq(Threads)
  PROVE  DumpedThreads \subseteq Elems(pids) /\ DumpedThreads \subseteq Threads
  BY SMT DEF DumpedThreads, Elems

\* Every step of a dump keeps registers and memory in agreement: a captured
\* thread is stopped, and the Caller waits in the call, while its memory is
\* copied or written.
LEMMA AgreedStep ==
  Control /\ Held /\ DumpTypeOK /\ Progress /\ Agreed /\ [DumpNext]_<<vars, dumpVars>>
    => Agreed'
<1> SUFFICES ASSUME Control, Held, DumpTypeOK, Progress, Agreed, [DumpNext]_<<vars, dumpVars>>
             PROVE  Agreed'
  OBVIOUS
<1>a. /\ call \in 0..MaxCalls /\ MaxCalls \in Nat /\ Caller \in Threads
      /\ child \in [1..MaxCalls -> {"none", "running", "ok", "failed"}]
      /\ data \in [Threads -> 0..MaxWork]
      /\ copy \in [1..MaxCalls -> [regs : [Threads -> {None} \cup 0..MaxWork],
                                   mem : [Threads -> {None} \cup 0..MaxWork]]]
      /\ ctx.result \in {0, -1}
      /\ "private" \in Kinds
  BY ThreadsAssumption, BoundsAssumption, DumpAssumption, Zenon DEF Control, TypeOK, DumpTypeOK
<1>b. /\ cpc = "idle" => lpc = "none"
      /\ lpc = "callback" => call \in 1..MaxCalls /\ cpc # "idle"
  BY <1>a, SMT DEF Control
<1>c. /\ DumpedThreads \subseteq Threads
      /\ lpc = "callback" => \A t \in DumpedThreads : tstate[t] = "stopped"
  BY DumpedAreListed DEF Held, HoldPcs, Control, TypeOK
<1>d. pids' = pids => DumpedThreads' = DumpedThreads
  BY DEF DumpedThreads
<1>e. -1 # 0
  BY SMT
<1> USE <1>a, <1>b DEF InCallback
<1>1. CASE ApiCall
  <2>1. call' = call + 1 /\ child' = child /\ lpc' = "none" /\ ctx'.result # 0
    BY <1>1, <1>e DEF ApiCall, Begin, callerFrame, childVars
  <2>2. child[call'] = "none"
    BY <1>1, <2>1, SMT DEF ApiCall, Begin, Progress
  <2>ca. Captured'
    BY <2>1, <2>2, Zenon DEF Captured, Agreed
  <2>co. Copied'
    BY <2>1, <2>2 DEF Copied, Agreed
  <2>in. Inlined'
    BY <2>1, <2>2, Zenon DEF Inlined, Agreed
  <2> QED
    BY <2>ca, <2>co, <2>in DEF Agreed
<1>2. CASE Unrelated /\ UNCHANGED dumpVars
  <2>1. UNCHANGED <<call, child, dumpVars>> /\ (lpc' = "callback" => lpc = "callback" \/ BeforeCallback)
    BY <1>2, UnrelatedStep
  <2>2. CASE BeforeCallback
    <3>1. child'[call'] = "none" /\ ctx'.result # 0 /\ dpc' = "enter" /\ call \in 0..MaxCalls
      BY <2>1, <2>2, <1>e DEF Progress, Untouched, dumpVars
    <3>ca. Captured'
      BY <3>1, Zenon DEF Captured, Agreed
    <3>co. Copied'
      BY <3>1 DEF Copied, Agreed
    <3>in. Inlined'
      BY <3>1, Zenon DEF Inlined, Agreed
    <3> QED
      BY <3>ca, <3>co, <3>in DEF Agreed
  <2>3. CASE ~BeforeCallback
    <3>1. DumpedThreads' = DumpedThreads
      BY <1>2, <2>3, <1>d, UnrelatedStep
    <3> QED
      BY <2>1, <2>3, <3>1, Zenon DEF dumpVars, ChildShows, Complete, Agreed, Captured, Copied, Inlined
  <2> QED
    BY <2>2, <2>3
<1>3. CASE PreDumpCallback
  <2>1. UNCHANGED <<vars, data, cap, copy, file, snap>> /\ dpc' \in {"regs", "return"}
        /\ ctx'.result \in {ctx.result, -1}
    BY <1>3, SMT DEF PreDumpCallback, CallbackFails
  <2> QED
    BY <2>1, <1>d, Zenon DEF vars, ChildShows, Complete, Agreed, Captured, Copied, Inlined
<1>4. CASE capture_dump
  <2>1. UNCHANGED <<vars, data, copy, file, snap>> /\ dpc' \in {"fork", "return"}
        /\ ctx'.result \in {ctx.result, -1} /\ lpc = "callback"
    BY <1>4, SMT DEF capture_dump, CallbackFails
  <2>2. \A t \in DumpedThreads : Registers(t) = data[t]
    BY <2>1 DEF Registers, PtraceRegs, Progress
  <2>3. dpc' = "fork" => \A t \in DumpedThreads : cap'[t] = data[t]
    BY <1>4, <2>2, <1>c DEF capture_dump, CallbackFails
  <2> QED
    BY <2>1, <2>3, <1>d, Zenon DEF vars, ChildShows, Complete, Agreed, Captured, Copied, Inlined
<1>5. CASE ForkSnapshot
  <2>1. /\ call' = call /\ pids' = pids /\ child' = [child EXCEPT ![call] = "running"]
        /\ copy' = [copy EXCEPT ![call] = [regs |-> cap, mem |-> data]]
        /\ snap' = data /\ dpc' = "publish" /\ file' = file /\ file[call] = Empty
        /\ call \in 1..MaxCalls
    BY <1>5, Zenon DEF ForkSnapshot, CallbackFork, hostFrame, callerVars, scanVars, Progress, Untouched
  <2>2. \A t \in DumpedThreads : cap[t] = data[t]
    BY <1>5, Zenon DEF ForkSnapshot, Agreed, Captured, Copied, Inlined
  <2>3. copy'[call].regs = cap /\ copy'[call].mem = data
    BY <2>1
  <2>4. Empty.regs = NoRegs /\ \A t \in Threads : Empty.mem[t, "private"] = None
    BY Zenon DEF Empty
  <2>5. ChildShows'
    BY <2>1, <2>2, <2>3, <2>4, <1>d, Zenon DEF ChildShows
  <2> QED
    BY <2>1, <2>5 DEF Agreed, Captured, Copied, Inlined
<1>6. CASE WriteInline
  <2>1. UNCHANGED <<vars, data, ctx, cap, copy, file>> /\ dpc' = "inline"
        /\ lpc = "callback" /\ Untouched
        /\ \A t \in DumpedThreads : cap[t] = data[t]
    BY <1>6, Zenon DEF WriteInline, Progress, Agreed, Captured, Copied, Inlined
  <2>2. Empty.regs = NoRegs /\ \A t \in Threads, k \in Kinds : Empty.mem[t, k] = None
    BY Zenon DEF Empty
  <2>3. /\ DumpedThreads' = DumpedThreads /\ child'[call'] = "none" /\ ctx'.result # 0
        /\ call' = call /\ file'[call] = Empty
    BY <2>1, <1>d, <1>e DEF vars, Untouched
  <2>4. /\ file'[call'].regs = NoRegs
        /\ \A t \in DumpedThreads, k \in Kinds : file'[call'].mem[t, k] = None
    BY <2>2, <2>3, <1>c, Zenon
  <2>5. \A t \in DumpedThreads : cap'[t] = data'[t]
    BY <2>1
  <2>ca. Captured'
    BY <2>3, <2>4, <2>5, Zenon DEF Captured
  <2>co. Copied'
    BY <2>1, <2>2, <2>3, <1>c, Zenon DEF Copied, Agreed
  <2>in. Inlined'
    BY <2>1, <2>2, <2>3, <1>c, Zenon DEF Inlined, Agreed
  <2> QED
    BY <2>ca, <2>co, <2>in DEF Agreed
<1>7. CASE InlineWrite
  <2>1. UNCHANGED <<vars, data, ctx, dpc, cap, copy, snap>> /\ dpc = "inline"
        /\ lpc = "callback" /\ WriteNext(call, cap, data)
        /\ child[call] = "none" /\ ctx.result = -1
    BY <1>7 DEF InlineWrite, Progress
  <2>2. /\ file'[call].regs = file[call].regs \/ file'[call].regs = cap
        /\ \A p \in Threads \X Kinds :
              file'[call].mem[p] = file[call].mem[p] \/ file'[call].mem[p] = data[p[1]]
    <3>1. call \in 1..MaxCalls /\ WriteNext(call, cap, data)
      BY <2>1, Zenon
    <3>2. /\ file'[call].regs = file[call].regs \/ (file[call].regs = NoRegs /\ file'[call].regs = cap)
          /\ \A p \in Threads \X Kinds :
               \/ file'[call].mem[p] = file[call].mem[p]
               \/ /\ file[call].mem[p] = None
                  /\ file'[call].mem[p] = IF p[2] = "private" THEN data[p[1]] ELSE data[p[1]]
      BY <3>1, WriteStep, Zenon
    <3> QED
      BY <3>2, Zenon
  <2>3. \A t \in DumpedThreads, k \in Kinds : file'[call].mem[t, k] \in {None, data[t]}
    BY <2>1, <2>2, <1>c, Zenon DEF Agreed, Captured, Copied, Inlined
  <2>4. DumpedThreads' = DumpedThreads /\ child'[call'] = "none" /\ ctx'.result # 0 /\ call' = call
    BY <2>1, <1>d, <1>e DEF vars
  <2>ca. Captured'
    BY <2>1, <2>2, <2>3, <2>4, Zenon DEF Captured, Agreed
  <2>co. Copied'
    BY <2>1, <2>2, <2>3, <2>4, Zenon DEF Copied, Agreed
  <2>in. Inlined'
    BY <2>1, <2>2, <2>3, <2>4, Zenon DEF Inlined, Agreed
  <2> QED
    BY <2>ca, <2>co, <2>in DEF Agreed
<1>8. CASE InlineDone
  <2>1. UNCHANGED <<vars, data, cap, copy, file, snap>> /\ dpc' = "return" /\ lpc = "callback"
        /\ child[call] = "none" /\ (ctx'.result = 0 => Complete(call))
    BY <1>8, SMT DEF InlineDone, CallbackFails, Progress
  <2>2. Complete(call) => \A t \in DumpedThreads, k \in Kinds : file[call].regs[t] = file[call].mem[t, k]
    BY <1>8, <1>c, Zenon DEF InlineDone, Complete, Agreed, Captured, Copied, Inlined
  <2> QED
    BY <2>1, <2>2, <1>d, Zenon DEF vars, Complete, Agreed, Captured, Copied, Inlined
<1>9. CASE PublishChild
  <2>1. UNCHANGED <<call, pids, child, copy, file, snap>> /\ dpc' = "return" /\ child[call] # "none"
    BY <1>9 DEF PublishChild, set_snapshot_child, hostFrame, callerVars, scanVars, Progress
  <2> QED
    BY <2>1, <1>d, Zenon DEF ChildShows, Complete, Agreed, Captured, Copied, Inlined
<1>10. CASE DumpReturn
  <2>1. UNCHANGED <<call, pids, child, ctx, copy, file, snap>> /\ lpc' = "clear"
    BY <1>10 DEF DumpReturn, CallbackReturn, dumpVars, callerVars, scanVars, childVars
  <2> QED
    BY <2>1, <1>d, Zenon DEF ChildShows, Complete, Agreed, Captured, Copied, Inlined
<1>11. CASE \E t \in Threads : Work(t)
  <2> PICK u \in Threads : Work(u)
    BY <1>11
  <2>1. UNCHANGED <<vars, ctx, dpc, cap, copy, file, snap>> /\ tstate[u] = "running"
        /\ data' = [data EXCEPT ![u] = @ + 1]
    BY DEF Work
  <2>2. lpc = "callback" => \A t \in DumpedThreads : data'[t] = data[t]
    BY <2>1, <1>c
  <2> QED
    BY <2>1, <2>2, <1>d, Zenon DEF vars, ChildShows, Complete, Agreed, Captured, Copied, Inlined
<1>12. CASE \E c \in 1..MaxCalls : ChildWrite(c)
  <2> PICK c \in 1..MaxCalls : ChildWrite(c)
    BY <1>12
  <2>1. UNCHANGED <<vars, data, ctx, dpc, cap, copy, snap>> /\ child[c] = "running"
        /\ WriteNext(c, copy[c].regs, copy[c].mem)
    BY DEF ChildWrite
  <2>2. CASE c = call
    <3>1. call > 0 /\ child[call] = "running" /\ ~InCallback("fork") /\ ~InCallback("inline")
      BY <2>1, <2>2, SMT DEF Progress, Untouched
    <3>2. /\ file'[call].regs = file[call].regs \/ file'[call].regs = copy[call].regs
          /\ \A p \in Threads \X Kinds :
               file'[call].mem[p] = file[call].mem[p]
                 \/ file'[call].mem[p] = IF p[2] = "private" THEN copy[call].mem[p[1]] ELSE data[p[1]]
      BY <2>1, <2>2, WriteStep, SMT
    <3>3. \A t \in Threads : file'[call].mem[t, "private"] \in {None, copy[call].mem[t]}
      BY <3>1, <3>2 DEF ChildShows, Agreed, Captured, Copied, Inlined
    <3> QED
      BY <2>1, <3>1, <3>2, <3>3, <1>d, Zenon DEF vars, ChildShows, Agreed, Captured, Copied, Inlined
  <2>3. CASE c # call
    <3>1. call > 0 => file'[call] = file[call]
      BY <2>1, <2>3, WriteStep, SMT
    <3>2. DumpedThreads' = DumpedThreads /\ child' = child /\ call' = call /\ lpc' = lpc
      BY <2>1, <1>d DEF vars
    <3>3. lpc = "callback" => file'[call'] = file[call]
      BY <3>1, <3>2, SMT
    <3>4. data' = data /\ cap' = cap /\ dpc' = dpc
      BY <2>1
    <3>ca. Captured'
      BY <3>2, <3>3, <3>4, Zenon DEF Captured, Agreed
    <3>co. Copied'
      BY <2>1, <3>1, <3>2, Zenon DEF Copied, Agreed, ChildShows, Complete
    <3>in. Inlined'
      BY <2>1, <3>1, <3>2, Zenon DEF Inlined, Agreed, Complete
    <3> QED
      BY <3>ca, <3>co, <3>in DEF Agreed
  <2> QED
    BY <2>2, <2>3
<1>13. CASE \E c \in 1..MaxCalls : ChildEnds(c)
  <2> PICK c \in 1..MaxCalls : ChildEnds(c)
    BY <1>13
  <2>1. UNCHANGED <<lpc, call, pids, dumpVars>> /\ child[c] = "running"
        /\ (child'[c] = "ok" => Complete(c))
        /\ \E e \in {"ok", "failed"} : child' = [child EXCEPT ![c] = e]
    BY Zenon DEF ChildEnds, ChildExit, hostFrame, callerVars, scanVars
  <2>2. UNCHANGED <<data, ctx, dpc, cap, copy, file, snap>> /\ DumpedThreads' = DumpedThreads
    BY <2>1, <1>d DEF dumpVars
  <2>ca. Captured'
    BY <2>1, <2>2, Zenon DEF Captured, Agreed
  <2>3. call > 0 => /\ child'[call] = "none" <=> child[call] = "none"
                    /\ child'[call] = "ok" /\ child[call] # "ok" => Complete(call)
    BY <2>1, SMT
  <2>4. UNCHANGED <<call, ChildShows, Complete(call)>>
    BY <2>1, <2>2 DEF ChildShows, Complete
  <2>co. Copied'
    BY <2>3, <2>4 DEF Copied, Agreed
  <2>in. Inlined'
    BY <2>2, <2>3, <2>4, Zenon DEF Inlined, Agreed
  <2> QED
    BY <2>ca, <2>co, <2>in DEF Agreed
<1>14. CASE UNCHANGED <<vars, dumpVars>>
  BY <1>14, <1>d, Zenon DEF vars, dumpVars, ChildShows, Complete, Agreed, Captured, Copied, Inlined
<1> QED
  BY <1>1, <1>2, <1>3, <1>4, <1>5, <1>6, <1>7, <1>8, <1>9, <1>10, <1>11,
     <1>12, <1>13, <1>14 DEF DumpNext, DumpCallback

\* What the dump relies on: the lister's invariants, the types, and the account
\* of what has been captured and written.
DumpInvariant == Control /\ Held /\ DumpTypeOK /\ Progress /\ Agreed

\* At the start nothing has been captured, forked or written.
LEMMA DumpInvInit == DumpInit => DumpInvariant /\ Still
<1> SUFFICES ASSUME DumpInit PROVE DumpInvariant /\ Still
  OBVIOUS
<1>a. Caller \in Threads /\ MaxWork \in Nat /\ MaxCalls \in Nat
  BY ThreadsAssumption, DumpAssumption, BoundsAssumption
<1>1. Control /\ Held
  BY InitControl DEF DumpInit, Init, Held, HoldPcs, ScanPcs
<1>2. call = 0 /\ lpc = "none" /\ cpc = "idle" /\ child = [c \in 1..MaxCalls |-> "none"]
  BY DEF DumpInit, Init
<1>3. DumpTypeOK
  <2>1. NoRegs \in [Threads -> {None} \cup 0..MaxWork]
    BY DEF NoRegs
  <2>2. Empty \in [regs : [Threads -> {None} \cup 0..MaxWork],
                   mem : [Threads \X Kinds -> {None} \cup 0..MaxWork]]
    BY <2>1 DEF Empty
  <2> QED
    BY <1>1, <1>a, <2>1, <2>2, SMT DEF DumpInit, DumpTypeOK, Control
<1>4. Progress
  BY <1>2 DEF DumpInit, Progress, BeforeCallback, InCallback, ScanPcs
<1>5. Agreed /\ Still
  BY <1>2, SMT DEF Agreed, Captured, Copied, Inlined, Still, InCallback
<1> QED
  BY <1>1, <1>3, <1>4, <1>5 DEF DumpInvariant

\* Every step of a dump preserves the invariant.
LEMMA DumpInvStep == DumpInvariant /\ [DumpNext]_<<vars, dumpVars>> => DumpInvariant'
BY DumpStep, ControlStep, HeldStep, DumpTypeStep, ProgressStep, AgreedStep DEF DumpInvariant

\* The variables of a dump have their types.
THEOREM DumpTypeCorrect == DumpSpec => []DumpTypeOK
<1>1. DumpInvariant => DumpTypeOK
  BY DEF DumpInvariant
<1> QED
  BY <1>1, DumpInvInit, DumpInvStep, PTL DEF DumpSpec

\* A dump that reports success has the whole core in the file, and the core
\* shows every captured thread at one instant, however the threads run, exit
\* and spawn, and whichever threads escape the lister.
THEOREM CoresAreConsistent == DumpSpec => []CoreIsConsistent
<1>1. DumpSpec => []ResultIsTruth
  BY ResultsAreTrue, DumpImplementsLister DEF ImplementsLister
<1>2. DumpInvariant /\ ResultIsTruth => CoreIsConsistent
  <2> SUFFICES ASSUME DumpInvariant, ResultIsTruth, Returned, ApiResult = "Ok"
               PROVE  /\ Complete(call)
                      /\ \A t \in DumpedThreads, k \in Kinds :
                           k = "private" \/ child[call] = "none" =>
                             file[call].regs[t] = file[call].mem[t, k]
    BY DEF CoreIsConsistent
  <2>a. ctx.error \in SerializeErrors \cup {"none", "CallbackAborted", "PtraceGetRegs"}
    BY Zenon DEF DumpInvariant, DumpTypeOK
  <2>b. call \in 0..MaxCalls /\ pids \in Seq(Threads)
    BY Zenon DEF DumpInvariant, Control, TypeOK
  <2>1. call \in 1..MaxCalls /\ pids \in Seq(Threads)
    BY <2>b, BoundsAssumption, SMT DEF Returned
  <2>2. ret.result # -1 /\ ctx.result = 0
    BY <2>a DEF ApiResult, SerializeErrors
  <2>3. child[call] \in {"none", "ok"}
    BY <2>1, <2>2 DEF ResultIsTruth, Truthful, Returned
  <2>4. CASE child[call] = "none"
    <3>1. Inlined /\ call > 0
      BY <2>1, SMT DEF DumpInvariant, Agreed
    <3> QED
      BY <2>2, <2>4, <3>1, Zenon DEF Inlined
  <2>5. CASE child[call] = "ok"
    <3>1. Complete(call) /\ ChildShows
      BY <2>1, <2>5, SMT DEF DumpInvariant, Agreed, Copied
    <3>2. \A t \in DumpedThreads : t \in Threads
      BY <2>1, DumpedAreListed
    <3>3. "private" \in Kinds
      BY DumpAssumption
    <3> QED
      BY <2>5, <3>1, <3>2, <3>3, Zenon DEF ChildShows, Complete
  <2> QED
    BY <2>3, <2>4, <2>5, Zenon
<1> QED
  BY <1>1, <1>2, DumpInvInit, DumpInvStep, PTL DEF DumpSpec

-----------------------------------------------------------------------------
(* Where every thread can be attached, a dump is one atomic snapshot of    *)
(* the process: CoreDump implements Snapshot.                              *)

\* No thread runs while dump_callback does.
AllFrozen == lpc = "callback" => \A t \in Threads : tstate[t] # "running"

\* Where no thread runs during the callback, the in-line core stays the memory
\* of one instant.
LEMMA StillStep ==
  DumpInvariant /\ AllFrozen /\ Still /\ [DumpNext]_<<vars, dumpVars>> => Still'
<1> SUFFICES ASSUME DumpInvariant, AllFrozen, Still, [DumpNext]_<<vars, dumpVars>>
             PROVE  Still'
  OBVIOUS
<1> DEFINE Writing == InCallback("inline") =>
                        /\ snap = data
                        /\ \A t \in Threads : file[call].mem[t, "private"] \in {None, data[t]}
           Written == call > 0 /\ child[call] = "none" /\ ctx.result = 0 =>
                        \A t \in Threads : file[call].mem[t, "private"] = snap[t]
<1>a. /\ call \in 0..MaxCalls /\ MaxCalls \in Nat /\ "private" \in Kinds
      /\ child \in [1..MaxCalls -> {"none", "running", "ok", "failed"}]
      /\ cpc = "idle" => lpc = "none"
      /\ lpc = "callback" => call \in 1..MaxCalls
      /\ DumpTypeOK /\ Control /\ Progress
  BY BoundsAssumption, DumpAssumption, SMT DEF DumpInvariant, Control, TypeOK
<1>b. Writing /\ Written
  BY DEF Still
<1>c. SUFFICES Writing' /\ Written'
  BY DEF Still
<1>e. -1 # 0
  BY SMT
<1> HIDE DEF Writing, Written
<1>1. CASE ApiCall
  <2>1. lpc' # "callback" /\ ctx'.result # 0
    BY <1>1, <1>a, <1>e DEF ApiCall, Begin
  <2> QED
    BY <2>1 DEF Writing, Written, InCallback
<1>2. CASE Unrelated /\ UNCHANGED dumpVars
  <2>1. UNCHANGED <<call, child>> /\ (lpc' = "callback" => lpc = "callback" \/ BeforeCallback)
        /\ UNCHANGED <<data, ctx, dpc, file, snap>>
    BY <1>2, <1>a, UnrelatedStep DEF dumpVars
  <2>2. BeforeCallback => dpc = "enter"
    BY <1>a DEF Progress
  <2>3. Writing'
    BY <2>1, <2>2, <1>b DEF Writing, InCallback
  <2>4. Written'
    BY <2>1, <1>b DEF Written
  <2> QED
    BY <2>3, <2>4
<1>3. CASE PreDumpCallback \/ capture_dump
  <2>1. UNCHANGED <<vars, data, file, snap>> /\ dpc' # "inline" /\ (ctx' = ctx \/ ctx'.result # 0)
    BY <1>3, <1>e, SMT DEF PreDumpCallback, capture_dump, CallbackFails
  <2> QED
    BY <2>1, <1>b DEF Writing, Written, InCallback, vars
<1>4. CASE ForkSnapshot \/ PublishChild
  <2>1. dpc' # "inline" /\ call' = call /\ call \in 1..MaxCalls /\ child'[call] # "none"
    BY <1>4, <1>a DEF ForkSnapshot, CallbackFork, PublishChild, set_snapshot_child,
       InCallback, Progress, hostFrame, callerVars
  <2> QED
    BY <2>1 DEF Writing, Written, InCallback
<1>5. CASE WriteInline
  <2>1. UNCHANGED <<vars, data, ctx, file>> /\ snap' = data /\ Untouched
    BY <1>5, <1>a DEF WriteInline, InCallback, Progress
  <2>2. \A t \in Threads : Empty.mem[t, "private"] = None
    BY <1>a DEF Empty
  <2>3. Writing'
    BY <2>1, <2>2 DEF Writing, Untouched, vars
  <2>4. Written'
    BY <2>1, <1>e DEF Written, Untouched
  <2> QED
    BY <2>3, <2>4
<1>6. CASE InlineWrite
  <2>1. UNCHANGED <<vars, data, ctx, dpc, snap>> /\ InCallback("inline")
        /\ WriteNext(call, cap, data) /\ ctx'.result # 0 /\ call \in 1..MaxCalls
    BY <1>6, <1>a, <1>e DEF InlineWrite, Progress, InCallback
  <2>2. \A p \in Threads \X Kinds :
          \/ file'[call].mem[p] = file[call].mem[p]
          \/ file'[call].mem[p] = IF p[2] = "private" THEN data[p[1]] ELSE data[p[1]]
    BY <2>1, <1>a, WriteStep, SMT
  <2>3. \A t \in Threads : file'[call].mem[t, "private"] \in {None, data[t]}
    BY <2>1, <2>2, <1>a, <1>b DEF Writing
  <2>4. Writing'
    BY <2>1, <2>3, <1>b DEF Writing, vars
  <2> QED
    BY <2>1, <2>4 DEF Written
<1>7. CASE InlineDone
  <2>1. UNCHANGED <<vars, data, file, snap>> /\ InCallback("inline") /\ dpc' = "return"
        /\ (ctx'.result = 0 => Complete(call))
    BY <1>7, <1>e, SMT DEF InlineDone, CallbackFails
  <2>2. Complete(call) => \A t \in Threads : file[call].mem[t, "private"] = snap[t]
    BY <2>1, <1>a, <1>b DEF Writing, Complete
  <2> QED
    BY <2>1, <2>2 DEF Writing, Written, InCallback, vars
<1>8. CASE DumpReturn
  <2>1. UNCHANGED <<call, child, ctx, file, snap>> /\ lpc' = "clear"
    BY <1>8 DEF DumpReturn, CallbackReturn, dumpVars, callerVars, childVars
  <2> QED
    BY <2>1, <1>b DEF Writing, Written, InCallback
<1>9. CASE \E t \in Threads : Work(t)
  <2>1. UNCHANGED <<vars, ctx, dpc, file, snap>> /\ lpc # "callback"
    BY <1>9 DEF Work, AllFrozen
  <2> QED
    BY <2>1, <1>b DEF Writing, Written, InCallback, vars
<1>10. CASE \E c \in 1..MaxCalls : ChildWrite(c)
  <2> PICK c \in 1..MaxCalls : ChildWrite(c)
    BY <1>10
  <2>1. UNCHANGED <<vars, data, ctx, dpc, snap>> /\ child[c] = "running"
        /\ WriteNext(c, copy[c].regs, copy[c].mem)
    BY DEF ChildWrite
  <2>2. call > 0 /\ child[call] = "none" => file'[call] = file[call]
    <3>1. \A d \in 1..MaxCalls : d # c => file'[d] = file[d]
      BY <2>1, <1>a, WriteStep
    <3> QED
      BY <2>1, <3>1, <1>a, SMT
  <2>3. InCallback("inline") => call > 0 /\ child[call] = "none"
    BY <1>a, SMT DEF Progress, InCallback
  <2>4. Writing'
    BY <2>1, <2>2, <2>3, <1>b DEF Writing, InCallback, vars
  <2>5. Written'
    BY <2>1, <2>2, <1>b DEF Written, vars
  <2> QED
    BY <2>4, <2>5
<1>11. CASE \E c \in 1..MaxCalls : ChildEnds(c)
  <2>1. UNCHANGED <<lpc, call, data, ctx, dpc, file, snap>>
        /\ (call > 0 /\ child'[call] = "none" => child[call] = "none")
    BY <1>11, <1>a, SMT DEF ChildEnds, ChildExit, hostFrame, callerVars, dumpVars
  <2> QED
    BY <2>1, <1>b DEF Writing, Written, InCallback
<1>12. CASE UNCHANGED <<vars, dumpVars>>
  BY <1>12, <1>b DEF Writing, Written, InCallback, vars, dumpVars
<1> QED
  BY <1>1, <1>2, <1>3, <1>4, <1>5, <1>6, <1>7, <1>8, <1>9, <1>10, <1>11, <1>12
     DEF DumpNext, DumpCallback

\* The core that Snapshot sees.
CoreNow ==
  IF ~Returned THEN snap
  ELSE IF ApiResult = "Ok" THEN [t \in Threads |-> file[call].mem[t, "private"]]
  ELSE NoRegs

\* The core of a successful dump is the memory at the instant the serializer
\* was started.
LEMMA OkIsSnap ==
  DumpInvariant /\ Still /\ ResultIsTruth /\ Returned /\ ApiResult = "Ok" =>
    CoreNow = snap /\ snap # NoRegs
<1> SUFFICES ASSUME DumpInvariant, Still, ResultIsTruth, Returned, ApiResult = "Ok"
             PROVE  CoreNow = snap /\ snap # NoRegs
  OBVIOUS
<1>1. /\ call \in 1..MaxCalls /\ "private" \in Kinds /\ Leader \in Threads
      /\ ctx.error \in SerializeErrors \cup {"none", "CallbackAborted", "PtraceGetRegs"}
      /\ snap \in [Threads -> {None} \cup 0..MaxWork]
      /\ copy[call].mem \in [Threads -> {None} \cup 0..MaxWork]
  BY BoundsAssumption, DumpAssumption, ThreadsAssumption, SMT
     DEF DumpInvariant, Control, TypeOK, DumpTypeOK, Returned
<1>2. ret.result # -1 /\ ctx.result = 0
  BY <1>1 DEF ApiResult, SerializeErrors
<1>3. child[call] \in {"none", "ok"}
  BY <1>1, <1>2 DEF ResultIsTruth, Truthful, Returned
<1>4. Complete(call) /\ \A t \in Threads : file[call].mem[t, "private"] = snap[t]
  <2>1. Inlined /\ Copied /\ call > 0
    BY <1>1, SMT DEF DumpInvariant, Agreed
  <2>2. CASE child[call] = "none"
    BY <1>2, <2>1, <2>2 DEF Inlined, Still
  <2>3. CASE child[call] = "ok"
    <3>1. Complete(call) /\ ChildShows
      BY <2>1, <2>3 DEF Copied
    <3> QED
      BY <1>1, <3>1 DEF ChildShows, Complete
  <2> QED
    BY <1>3, <2>2, <2>3
<1>5. snap[Leader] # None
  BY <1>1, <1>4 DEF Complete
<1> QED
  BY <1>1, <1>4, <1>5 DEF CoreNow, NoRegs

\* Between calls nothing but a new call changes what the last one returned.
LEMMA IdleStep == ASSUME Control, Unrelated, cpc = "idle" PROVE ret' = ret
<1>1. lpc = "none"
  BY DEF Control
<1> USE <1>1 DEF hostFrame, callerVars, ScanPcs
<1>2. ~CallerStep
  BY DEF CallerStep, BlockSignals, Clone, AllowPtracer, UnblockSignals, WaitLister, Return
<1>3. ~ListerStep
  BY DEF ListerStep, Setup, Publish, install_crash_handlers, OpenTask, CheckParent,
         ScanStep, Rewind, ReadEntries, EndPass, GetdentsFails, BufferEmpty, SkipEntry,
         TooManyThreads, Attach, AwaitStop, Register, EndStep, ClearThenResume,
         ResumeNext, ResumeDone, SwapChild, reap_snapshot_child, KillTracees, HandlerExit
<1>4. ~(\E sig \in CrashSignals : sig_handler(sig))
  BY DEF sig_handler
<1>5. CASE HostStep \/ \E t \in Threads : Stop(t)
  BY <1>5 DEF HostStep, Spawn, Exit, Stop
<1> QED
  BY <1>2, <1>3, <1>4, <1>5 DEF Unrelated

\* A step that leaves the memory, the result of the call and the instant of the
\* snapshot alone is a stutter of Snapshot, or the return of the call.
LEMMA QuietStep ==
  ASSUME DumpInvariant, Still, ResultIsTruth, DumpInvariant', Still', ResultIsTruth',
         data' = data, snap' = snap, call' = call, ctx' = ctx \/ cpc # "idle",
         cpc = "idle" => cpc' = "idle" /\ ret' = ret
  PROVE  Atomic!Finish \/ UNCHANGED Atomic!vars
<1>0. (DumpInvariant /\ Still /\ ResultIsTruth /\ Returned /\ ApiResult = "Ok" =>
         CoreNow = snap /\ snap # NoRegs)'
  BY OkIsSnap, PTL
<1>1. cpc # "idle" => CoreNow = snap
  BY DEF CoreNow, Returned
<1>2. cpc # "idle" => call > 0
  BY DEF DumpInvariant, Control
<1>3. CASE cpc # "idle" /\ cpc' # "idle"
  <2>1. CoreNow' = snap'
    BY <1>3 DEF CoreNow, Returned
  <2> QED
    BY <1>1, <1>3, <2>1 DEF Atomic!vars, CoreNow
<1>4. CASE cpc # "idle" /\ cpc' = "idle"
  <2>1. Returned'
    BY <1>2, <1>4 DEF Returned
  <2>2. (CoreNow' = snap /\ snap # NoRegs) \/ CoreNow' = NoRegs
    <3>1. CASE ApiResult' = "Ok"
      BY <2>1, <3>1, <1>0
    <3>2. CASE ApiResult' # "Ok"
      BY <2>1, <3>2 DEF CoreNow
    <3> QED
      BY <3>1, <3>2
  <2> QED
    BY <1>1, <1>4, <2>2 DEF Atomic!Finish, CoreNow
<1>5. CASE cpc = "idle"
  <2>1. UNCHANGED <<Returned, ApiResult>>
    BY <1>5 DEF Returned, ApiResult
  <2>2. CoreNow' = CoreNow
    <3>1. CASE Returned /\ ApiResult = "Ok"
      BY <2>1, <3>1, <1>0, OkIsSnap
    <3>2. CASE ~(Returned /\ ApiResult = "Ok")
      BY <2>1, <3>2 DEF CoreNow
    <3> QED
      BY <3>1, <3>2
  <2> QED
    BY <1>5, <2>2 DEF Atomic!vars, CoreNow
<1> QED
  BY <1>3, <1>4, <1>5

\* Every step of a dump is a step of the atomic snapshot, or a stutter.
LEMMA SnapshotStep ==
  ASSUME DumpInvariant, Still, ResultIsTruth, DumpInvariant', Still', ResultIsTruth',
         [DumpNext]_<<vars, dumpVars>>
  PROVE  [Atomic!Next]_Atomic!vars
<1>a. Control /\ Progress /\ (cpc = "idle" => lpc = "none")
  BY DEF DumpInvariant, Control
<1>1. CASE ApiCall
  <2>1. /\ cpc = "idle" /\ data' = data /\ snap' = NoRegs /\ call' = call + 1
        /\ cpc' = "mask" \/ (cpc' = cpc /\ ret'.result = -1)
    BY <1>1, SMT DEF ApiCall, Begin
  <2>2. CoreNow' = NoRegs
    <3>1. CASE cpc' = "mask"
      BY <2>1, <3>1 DEF CoreNow, Returned
    <3>2. CASE ret'.result = -1
      BY <2>1, <3>2 DEF CoreNow, ApiResult
    <3> QED
      BY <2>1, <3>1, <3>2
  <2>3. Atomic!Call
    BY <2>1, <2>2 DEF Atomic!Call, CoreNow
  <2> QED
    BY <2>3 DEF Atomic!Next
<1>2. CASE Unrelated /\ UNCHANGED dumpVars
  <2>1. /\ data' = data /\ snap' = snap /\ call' = call /\ ctx' = ctx
        /\ cpc = "idle" => cpc' = "idle" /\ ret' = ret
    BY <1>2, <1>a, UnrelatedStep, IdleStep DEF dumpVars
  <2> QED
    BY <2>1, QuietStep DEF Atomic!Next
<1>3. CASE PreDumpCallback \/ capture_dump \/ InlineWrite \/ InlineDone
  <2>1. data' = data /\ snap' = snap /\ UNCHANGED <<call, cpc, ret>> /\ cpc # "idle"
    BY <1>3, <1>a, Zenon DEF PreDumpCallback, capture_dump, InlineWrite, InlineDone, InCallback, vars
  <2> QED
    BY <2>1, QuietStep DEF Atomic!Next
<1>4. CASE PublishChild \/ DumpReturn
  <2>1. data' = data /\ snap' = snap /\ call' = call /\ cpc # "idle"
    BY <1>4, <1>a DEF PublishChild, set_snapshot_child, DumpReturn, CallbackReturn,
       dumpVars, InCallback, hostFrame, callerVars
  <2> QED
    BY <2>1, QuietStep DEF Atomic!Next
<1>5. CASE ForkSnapshot \/ WriteInline
  <2>1. /\ cpc # "idle" /\ cpc' = cpc /\ data' = data /\ snap' = data
        /\ InCallback("fork")
    BY <1>5, <1>a DEF ForkSnapshot, CallbackFork, WriteInline, InCallback, vars,
       hostFrame, callerVars
  <2>2. snap = NoRegs
    BY <2>1, <1>a DEF Progress, Untouched
  <2>3. CoreNow = NoRegs /\ CoreNow' = data
    BY <2>1, <2>2 DEF CoreNow, Returned
  <2>4. Atomic!Take
    BY <2>1, <2>3 DEF Atomic!Take, CoreNow
  <2> QED
    BY <2>4 DEF Atomic!Next
<1>6. CASE \E t \in Threads : Work(t)
  <2> PICK t \in Threads : Work(t)
    BY <1>6
  <2>1. CoreNow' = CoreNow
    BY DEF Work, CoreNow, Returned, ApiResult, vars
  <2>2. Atomic!Work(t)
    BY <2>1 DEF Work, Atomic!Work, CoreNow, vars
  <2> QED
    BY <2>2 DEF Atomic!Next
<1>7. CASE \E c \in 1..MaxCalls : ChildWrite(c) \/ ChildEnds(c)
  <2>1. UNCHANGED <<data, snap, call, ctx, cpc, ret>>
    BY <1>7 DEF ChildWrite, ChildEnds, ChildExit, dumpVars, vars, hostFrame, callerVars
  <2> QED
    BY <2>1, QuietStep DEF Atomic!Next
<1>8. CASE UNCHANGED <<vars, dumpVars>>
  <2>1. UNCHANGED <<data, snap, call, ctx, cpc, ret>>
    BY <1>8 DEF dumpVars, vars
  <2> QED
    BY <2>1, QuietStep DEF Atomic!Next
<1> QED
  BY <1>1, <1>2, <1>3, <1>4, <1>5, <1>6, <1>7, <1>8 DEF DumpNext, DumpCallback

\* A dump implements the atomic snapshot: the core it reports as Ok is the
\* memory of the process at one instant of the call.  No thread may escape the
\* lister, because the in-line write of DumpStrategy::InProcessFrozen and of a
\* failed fork reads the memory over many steps.
THEOREM DumpIsAtomic ==
  ASSUME NoHandoff, Attachable = Threads
  PROVE  DumpSpec => ImplementsSnapshot
<1>1. DumpInit => Atomic!Init
  BY SMT DEF DumpInit, Init, Atomic!Init, Returned
<1>2. FrozenAtCallback /\ DumpInvariant => AllFrozen
  BY Attachable = Threads DEF FrozenAtCallback, AllFrozen, Live
<1>3. DumpSpec => []ResultIsTruth
  BY ResultsAreTrue, DumpImplementsLister DEF ImplementsLister
<1>4. DumpSpec => []FrozenAtCallback
  BY NoHandoff, DumpFrozen
<1>5. /\ DumpInvariant /\ Still /\ ResultIsTruth
      /\ (DumpInvariant /\ Still /\ ResultIsTruth)'
      /\ [DumpNext]_<<vars, dumpVars>>
      => [Atomic!Next]_Atomic!vars
  BY SnapshotStep
<1> QED
  BY <1>1, <1>2, <1>3, <1>4, <1>5, DumpInvInit, DumpInvStep, StillStep, PTL
     DEF DumpSpec, ImplementsSnapshot, Atomic!Spec

=============================================================================

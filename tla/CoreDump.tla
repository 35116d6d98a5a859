------------------------------ MODULE CoreDump ------------------------------
(***************************************************************************)
(* A whole core dump: write_core_dump_to_fd_options (lib.rs) around the    *)
(* lister, and dump_callback (dump.rs) as the lister's callback.           *)
(*                                                                         *)
(* The callback captures the registers of the stopped threads and forks a  *)
(* copy-on-write child that writes the core after the threads have been    *)
(* resumed; without a fork it writes the core itself, the threads stopped. *)
(* A thread's work moves its registers and its memory together, so a core  *)
(* taken at one instant shows the same progress in both.  Each thread owns *)
(* a private page and a MAP_SHARED page.                                   *)
(***************************************************************************)
EXTENDS Lister

CONSTANTS
  Strategies,       \* the DumpStrategy values a caller may ask for
  Kinds,            \* the kinds of page a thread owns
  HasCallback,      \* TRUE: a pre-dump callback is set
  MAX_DUMP_THREADS, \* threads whose registers one dump captures
  MaxWork           \* bound: work steps of a thread

ASSUME DumpAssumption ==
  /\ Strategies \subseteq {"ForkSnapshot", "InProcessFrozen"}
  /\ "private" \in Kinds /\ Kinds \subseteq {"private", "shared"}
  /\ HasCallback \in BOOLEAN
  /\ MAX_DUMP_THREADS \in Nat
  /\ MaxWork \in Nat
  /\ CallbackResults = {0}

VARIABLES
  data,      \* data[t]: progress of thread t, in registers and memory alike
  frame,     \* opts.frame: the Caller's registers at the API entry
  strategy,  \* opts.strategy
  ctx,       \* the shared DumpCtx: result and error
  dpc,       \* program counter of dump_callback
  cap,       \* CapturedDump: registers by thread
  header,    \* CapturedDump: main_pid and the thread whose notes come first
  copy,      \* copy[c]: memory and registers in the child forked in call c
  file,      \* file[c]: what the out_fd of call c holds
  snap       \* history: the memory when the serializer was started

dumpVars == <<data, frame, strategy, ctx, dpc, cap, header, copy, file, snap>>

None == -1        \* nothing captured, nothing written
Machinery == -2   \* registers inside the dump code itself, parked in wait4
ListerPid == -3   \* the lister's own pid: it is no thread of the host

NoRegs == [t \in Threads |-> None]

Empty == [regs |-> NoRegs, mem |-> [p \in Threads \X Kinds |-> None]]

DumpInit ==
  /\ Init
  /\ data = [t \in Threads |-> 0]
  /\ frame = 0 /\ strategy \in Strategies
  /\ ctx = [result |-> -1, error |-> "none"]
  /\ dpc = "enter" /\ cap = NoRegs
  /\ header = [pid |-> None, first |-> None]
  /\ copy = [c \in 1..MaxCalls |-> [regs |-> NoRegs, mem |-> NoRegs]]
  /\ file = [c \in 1..MaxCalls |-> Empty]
  /\ snap = NoRegs

-----------------------------------------------------------------------------

\* A running thread works; the Caller only outside the dump.
Work(t) ==
  /\ tstate[t] = "running" /\ data[t] < MaxWork
  /\ t = Caller => cpc = "idle"
  /\ data' = [data EXCEPT ![t] = @ + 1]
  /\ UNCHANGED <<vars, frame, strategy, ctx, dpc, cap, header, copy, file,
                 snap>>

\* write_core_dump_to_fd_options: snapshot the caller's frame, set up the
\* context, start the lister.
ApiCall ==
  /\ Begin
  /\ frame' = data[Caller]
  /\ strategy' \in Strategies
  /\ ctx' = [result |-> -1, error |-> "none"]
  /\ dpc' = "enter" /\ cap' = NoRegs /\ snap' = NoRegs
  /\ header' = [pid |-> None, first |-> None]
  /\ UNCHANGED <<data, copy, file>>

\* Mutant: the context is not consulted.
ApiResultOfLister == IF ret.result = -1 THEN "ThreadList" ELSE "Ok"

\* What write_core_dump_to_fd_options returns.
ApiResult ==
  IF ret.result = -1 THEN "ThreadList"
  ELSE IF ctx.result = 0 THEN "Ok"
  ELSE IF ctx.error = "none" THEN "Unknown" ELSE ctx.error

-----------------------------------------------------------------------------
(* dump_callback, in the lister.                                           *)

InCallback(pc) == lpc = "callback" /\ dpc = pc

\* Report a failure through the context; the callback itself returns 0.
CallbackFails(e) ==
  /\ ctx' = [result |-> -1, error |-> e]
  /\ dpc' = "return"

\* capture_dump, first part: the pre-dump callback may abort the dump.
PreDumpCallback ==
  /\ InCallback("enter")
  /\ \/ dpc' = "regs" /\ UNCHANGED ctx
     \/ HasCallback /\ CallbackFails("CallbackAborted")
  /\ UNCHANGED <<vars, data, frame, strategy, cap, header, copy, file, snap>>

\* The threads whose registers are captured.
DumpedThreads ==
  {pids[i] : i \in {j \in DOMAIN pids : j <= MAX_DUMP_THREADS}}

\* PTRACE_GETREGS; the Caller is parked in wait4.
PtraceRegs(t) == IF t = Caller THEN Machinery ELSE data[t]

\* The FRAME() override for the thread that called the API.
Registers(t) == IF t = Caller THEN frame ELSE PtraceRegs(t)

\* getpid() in the lister names the lister, which is a process of its own.
main_pid == ListerPid

\* main_idx: the thread whose pid is main_pid, else the first.
main_thread == IF main_pid \in DumpedThreads THEN main_pid ELSE pids[1]

\* capture_dump, second part: registers, auxv, prpsinfo.
capture_dump ==
  /\ InCallback("regs")
  /\ \/ /\ cap' = [t \in Threads |-> IF t \in DumpedThreads THEN Registers(t)
                                     ELSE None]
        /\ header' = [pid |-> main_pid, first |-> main_thread]
        /\ dpc' = "fork"
        /\ UNCHANGED ctx
     \/ /\ CallbackFails("PtraceGetRegs")
        /\ UNCHANGED <<cap, header>>
  /\ UNCHANGED <<vars, data, frame, strategy, copy, file, snap>>

\* Fork the copy-on-write child.
ForkSnapshot ==
  /\ InCallback("fork") /\ strategy = "ForkSnapshot"
  /\ CallbackFork
  /\ copy' = [copy EXCEPT ![call] = [regs |-> cap, mem |-> data]]
  /\ snap' = data
  /\ dpc' = "publish"
  /\ UNCHANGED <<data, frame, strategy, ctx, cap, header, file>>

\* InProcessFrozen, or fork failed: write in-line.
WriteInline ==
  /\ InCallback("fork")
  /\ snap' = data
  /\ dpc' = "inline"
  /\ UNCHANGED <<vars, data, frame, strategy, ctx, cap, header, copy, file>>

\* The parent of the fork: publish the child, provisionally a success.
PublishChild ==
  /\ InCallback("publish")
  /\ set_snapshot_child
  /\ ctx' = [ctx EXCEPT !.result = 0]
  /\ dpc' = "return"
  /\ UNCHANGED <<data, frame, strategy, cap, header, copy, file, snap>>

\* Mutant: the callback returns the result of the dump.
DumpReturnResult ==
  /\ InCallback("return")
  /\ CallbackReturn(ctx.result)
  /\ UNCHANGED dumpVars

\* Success or failure, the callback returns 0.
DumpReturn ==
  /\ InCallback("return")
  /\ CallbackReturn(0)
  /\ UNCHANGED dumpVars

-----------------------------------------------------------------------------
(* serialize_dump, in the child or in-line.                                *)

\* One write to the out_fd of call c: the notes, then page after page.
\* `private` is the serializer's own view; a shared page is the host's.
WriteNext(c, regs, private) ==
  \/ /\ file[c].regs = NoRegs
     /\ file' = [file EXCEPT ![c].regs = regs]
  \/ /\ file[c].regs # NoRegs
     /\ \E p \in Threads \X Kinds :
          /\ file[c].mem[p] = None
          /\ file' = [file EXCEPT ![c].mem[p] =
                        IF p[2] = "private" THEN private[p[1]] ELSE data[p[1]]]

Complete(c) ==
  /\ file[c].regs # NoRegs
  /\ \A p \in Threads \X Kinds : file[c].mem[p] # None

\* In-line, with the threads stopped.
InlineWrite ==
  /\ InCallback("inline")
  /\ WriteNext(call, cap, data)
  /\ UNCHANGED <<vars, data, frame, strategy, ctx, dpc, cap, header, copy,
                 snap>>

\* The stages of serialize_dump that fail; only the last writes.
SerializeErrors == {"ParseMaps", "Pipe", "CreateElfCore"}

\* The in-line write ends, or fails on the way.
InlineDone ==
  /\ InCallback("inline")
  /\ \/ /\ Complete(call)
        /\ ctx' = [ctx EXCEPT !.result = 0]
        /\ dpc' = "return"
     \/ \E e \in SerializeErrors :
          /\ e # "CreateElfCore" => file[call] = Empty
          /\ CallbackFails(e)
  /\ UNCHANGED <<vars, data, frame, strategy, cap, header, copy, file, snap>>

\* Mutant: the child reads the memory of the host.
ChildReadsHost(c) ==
  /\ child[c] = "running"
  /\ WriteNext(c, copy[c].regs, data)
  /\ UNCHANGED <<vars, data, frame, strategy, ctx, dpc, cap, header, copy,
                 snap>>

\* In the child, the threads running on.
ChildWrite(c) ==
  /\ child[c] = "running"
  /\ WriteNext(c, copy[c].regs, copy[c].mem)
  /\ UNCHANGED <<vars, data, frame, strategy, ctx, dpc, cap, header, copy,
                 snap>>

\* The child exits 0 only with the core written; it may fail on the way.
ChildEnds(c) ==
  /\ ChildExit(c)
  /\ child'[c] = "ok" => Complete(c)
  /\ UNCHANGED dumpVars

-----------------------------------------------------------------------------

DumpCallback ==
  \/ PreDumpCallback \/ capture_dump \/ ForkSnapshot \/ WriteInline
  \/ InlineWrite \/ InlineDone \/ PublishChild \/ DumpReturn

\* The steps of the lister's model that the dump leaves as they are.
Unrelated ==
  \/ HostStep \/ CallerStep \/ ListerStep
  \/ \E t \in Threads : Stop(t)
  \/ \E sig \in CrashSignals : sig_handler(sig)

DumpNext ==
  \/ ApiCall
  \/ Unrelated /\ UNCHANGED dumpVars
  \/ DumpCallback
  \/ \E t \in Threads : Work(t)
  \/ \E c \in 1..MaxCalls : ChildWrite(c) \/ ChildEnds(c)

DumpSpec == DumpInit /\ [][DumpNext]_<<vars, dumpVars>>

-----------------------------------------------------------------------------
(* Properties.                                                             *)

DumpTypeOK ==
  /\ TypeOK
  /\ data \in [Threads -> 0..MaxWork]
  /\ frame \in 0..MaxWork /\ strategy \in Strategies
  /\ ctx \in [result : {0, -1},
              error : SerializeErrors
                        \cup {"none", "CallbackAborted", "PtraceGetRegs"}]
  /\ dpc \in {"enter", "regs", "fork", "publish", "inline", "return"}
  /\ cap \in [Threads -> {None} \cup 0..MaxWork]
  /\ snap \in [Threads -> {None} \cup 0..MaxWork]
  /\ copy \in [1..MaxCalls -> [regs : [Threads -> {None} \cup 0..MaxWork],
                               mem : [Threads -> {None} \cup 0..MaxWork]]]
  /\ file \in [1..MaxCalls ->
                 [regs : [Threads -> {None} \cup 0..MaxWork],
                  mem : [Threads \X Kinds -> {None} \cup 0..MaxWork]]]

Returned == cpc = "idle" /\ call > 0

\* A dump that succeeds has written all of the core, and its registers and its
\* private memory show every captured thread at the same instant, although the
\* threads ran on while the child wrote ("frozen-in-amber").  Written in-line,
\* with every thread stopped (DumpStrategy::InProcessFrozen, or a fork that
\* failed), the MAP_SHARED memory agrees with them too.
CoreIsConsistent ==
  Returned /\ ApiResult = "Ok" =>
    /\ Complete(call)
    /\ \A t \in DumpedThreads, k \in Kinds :
         k = "private" \/ child[call] = "none" =>
           file[call].regs[t] = file[call].mem[t, k]

\* The comment on CapturedDump.main_pid: "The main thread's pid (the dumping
\* process's pid), captured pre-fork."
PrpsinfoNamesTheProcess == header.pid \in {None, Leader}

\* The dump implements the atomic snapshot.
Atomic == INSTANCE Snapshot WITH
  Threads <- Threads, MaxWork <- MaxWork, None <- NoRegs,
  data <- data, busy <- (cpc # "idle"),
  core <- IF ~Returned THEN snap
          ELSE IF ApiResult = "Ok"
            THEN [t \in Threads |-> file[call].mem[t, "private"]]
          ELSE NoRegs

\* Every dump shows the process as it was at one instant of the call.
ImplementsSnapshot == Atomic!Spec

\* The lister is used as its own model says.
ImplementsLister == Spec

=============================================================================

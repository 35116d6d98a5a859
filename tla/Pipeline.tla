------------------------------ MODULE Pipeline ------------------------------
(***************************************************************************)
(* The compressor pipeline: dump_compressed (capi.rs) walks the table of   *)
(* compressors; for each, write_core_dump_compressed_to_fd_with (lib.rs)   *)
(* spawns the compressor on a pipe, dumps into the pipe and finishes       *)
(* (compress.rs).  Four kinds of process hold ends of a pipe: the host,    *)
(* the compressor, the snapshot child that writes, and whatever another    *)
(* thread of the host forks meanwhile, for the pipes are not close-on-exec.*)
(* A dump is its outcome as CoreDump shows it: the writer has ended when   *)
(* the call returns, unless a crash signal cut the lister short.           *)
(***************************************************************************)
EXTENDS Integers, Sequences, FiniteSets

CONSTANTS
  Tables,     \* tables of compressors; TRUE: the empty name
  Blocks,     \* number of blocks of a core
  Capacity,   \* blocks a pipe holds
  HostForks,  \* TRUE: another thread of the host may fork once
  MaxFaults   \* bound: failing calls, failing processes, aborts and crashes

ASSUME PipelineAssumption ==
  /\ \A t \in Tables : t \in Seq(BOOLEAN)
  /\ Blocks \in Nat /\ Capacity \in Nat \ {0} /\ MaxFaults \in Nat
  /\ HostForks \in BOOLEAN

VARIABLES
  Raw,       \* the table of compressors the caller passed
  pc,        \* program counter of dump_compressed
  entry,     \* i: the entry being tried
  selected,  \* *selected
  rc,        \* the result
  dumpRc,    \* rc of the dump into the current pipe
  readers,   \* readers[e]: who holds the read end of entry e's pipe
  writers,   \* writers[e]: who holds its write end
  pipe,      \* pipe[e]: blocks in it
  comp,      \* comp[e]: state of the compressor; "reaped" only if it ran
  child,     \* child[e]: state of the writer of the core
  sent,      \* sent[e]: blocks it has written
  out,       \* out_fd: the blocks written to it, as <<entry, block>>
  forked,    \* the other thread has forked
  crashed,   \* a crash signal cut a lister short
  faults

\* The positions a table may have.
Entries == UNION {DOMAIN t : t \in Tables}

\* The NULL entry that ends the table.
Terminal == Len(Raw) + 1

callVars == <<selected, rc, dumpRc>>
fdVars   == <<readers, writers>>
vars == <<Raw, pc, entry, selected, rc, dumpRc, readers, writers, pipe, comp,
          child, sent, out, forked, crashed, faults>>

Init ==
  /\ Raw \in Tables
  /\ pc = "next" /\ entry = 1 /\ selected = Terminal /\ rc = -1 /\ dumpRc = -1
  /\ readers = [e \in Entries |-> {}] /\ writers = [e \in Entries |-> {}]
  /\ pipe = [e \in Entries |-> <<>>]
  /\ comp = [e \in Entries |-> "none"] /\ child = [e \in Entries |-> "none"]
  /\ sent = [e \in Entries |-> 0] /\ out = <<>>
  /\ forked = FALSE /\ crashed = FALSE /\ faults = 0

Fault == faults < MaxFaults /\ faults' = faults + 1

Close(ends, e, who) == [ends EXCEPT ![e] = @ \ {who}]

-----------------------------------------------------------------------------
(* dump_compressed and write_core_dump_compressed_to_fd_with.              *)

EndOfTable ==
  /\ pc = "next" /\ entry = Terminal
  /\ pc' = "done" /\ rc' = -1
  /\ UNCHANGED <<Raw, entry, selected, dumpRc, fdVars, pipe, comp, child,
                 sent, out, forked, crashed, faults>>

\* The entry with the empty name: dump to out_fd itself.
UncompressedEntry ==
  /\ pc = "next" /\ entry < Terminal /\ Raw[entry]
  /\ pc' = "dump"
  /\ UNCHANGED <<Raw, entry, callVars, fdVars, pipe, comp, child, sent, out,
                 forked, crashed, faults>>

\* spawn: create the pipe; a failure moves on to the next entry.
CreatePipe ==
  /\ pc = "next" /\ entry < Terminal /\ ~Raw[entry]
  /\ \/ /\ readers' = [readers EXCEPT ![entry] = {"host"}]
        /\ writers' = [writers EXCEPT ![entry] = {"host"}]
        /\ pc' = "fork"
        /\ UNCHANGED <<entry, faults>>
     \/ /\ Fault
        /\ entry' = entry + 1
        /\ UNCHANGED <<pc, fdVars>>
  /\ UNCHANGED <<Raw, callVars, pipe, comp, child, sent, out, forked,
                 crashed>>

\* Mutant: a failed fork leaves the pipe open.
ForkKeepsPipe ==
  /\ pc = "fork"
  /\ \/ /\ comp' = [comp EXCEPT ![entry] = "new"]
        /\ readers' = [readers EXCEPT ![entry] = @ \cup {"comp"}]
        /\ writers' = [writers EXCEPT ![entry] = @ \cup {"comp"}]
        /\ pc' = "close"
        /\ UNCHANGED <<entry, faults>>
     \/ /\ Fault
        /\ entry' = entry + 1 /\ pc' = "next"
        /\ UNCHANGED <<fdVars, comp>>
  /\ UNCHANGED <<Raw, callVars, pipe, child, sent, out, forked, crashed>>

\* spawn: fork the compressor; a failure drops the pipe.
ForkCompressor ==
  /\ pc = "fork"
  /\ \/ /\ comp' = [comp EXCEPT ![entry] = "new"]
        /\ readers' = [readers EXCEPT ![entry] = @ \cup {"comp"}]
        /\ writers' = [writers EXCEPT ![entry] = @ \cup {"comp"}]
        /\ pc' = "close"
        /\ UNCHANGED <<entry, faults>>
     \/ /\ Fault
        /\ readers' = Close(readers, entry, "host")
        /\ writers' = Close(writers, entry, "host")
        /\ entry' = entry + 1 /\ pc' = "next"
        /\ UNCHANGED comp
  /\ UNCHANGED <<Raw, callVars, pipe, child, sent, out, forked, crashed>>

\* spawn, in the parent: close the read end.
CloseReadEnd ==
  /\ pc = "close"
  /\ readers' = Close(readers, entry, "host")
  /\ pc' = "dump"
  /\ UNCHANGED <<Raw, entry, callVars, writers, pipe, comp, child, sent, out,
                 forked, crashed, faults>>

\* Where a dump returns to.
AfterDump == IF Raw[entry] THEN "raw" ELSE "finish"

\* write_core_dump_to_fd_options: a writer starts, with a write end of its own
\* where there is a pipe; or the dump fails or is aborted before.
StartDump ==
  /\ pc = "dump"
  /\ \/ /\ child' = [child EXCEPT ![entry] = "running"]
        /\ writers' = IF Raw[entry] THEN writers
                      ELSE [writers EXCEPT ![entry] = @ \cup {"child"}]
        /\ pc' = "dumping"
        /\ UNCHANGED <<dumpRc, faults>>
     \/ /\ Fault
        /\ dumpRc' = -1
        /\ pc' = AfterDump
        /\ UNCHANGED <<child, writers>>
  /\ UNCHANGED <<Raw, entry, selected, rc, readers, pipe, comp, sent, out,
                 forked, crashed>>

\* It returns when the writer has ended, or at once after a crash signal.
DumpReturns ==
  /\ pc = "dumping"
  /\ \/ /\ child[entry] # "running"
        /\ dumpRc' = IF child[entry] = "ok" THEN 0 ELSE -1
        /\ UNCHANGED <<crashed, faults>>
     \/ /\ Fault
        /\ dumpRc' = -1
        /\ crashed' = TRUE
  /\ pc' = AfterDump
  /\ UNCHANGED <<Raw, entry, selected, rc, fdVars, pipe, comp, child, sent,
                 out, forked>>

\* The uncompressed dump ends the walk, whatever its result.
UncompressedResult ==
  /\ pc = "raw"
  /\ rc' = dumpRc
  /\ selected' = IF dumpRc = 0 THEN entry ELSE selected
  /\ pc' = "done"
  /\ UNCHANGED <<Raw, entry, dumpRc, fdVars, pipe, comp, child, sent, out,
                 forked, crashed, faults>>

\* Mutant: the compressor is waited for with the write end open.
FinishWithoutClose ==
  /\ pc = "finish"
  /\ pc' = "wait"
  /\ UNCHANGED <<Raw, entry, callVars, fdVars, pipe, comp, child, sent, out,
                 forked, crashed, faults>>

\* finish: close the write end.
FinishClose ==
  /\ pc = "finish"
  /\ writers' = Close(writers, entry, "host")
  /\ pc' = "wait"
  /\ UNCHANGED <<Raw, entry, callVars, readers, pipe, comp, child, sent, out,
                 forked, crashed, faults>>

\* Mutant: the compressor's status alone decides.
ResultOfCompressor(status) == IF status = "ok" THEN 0 ELSE -1

\* Both the dump and the compressor must succeed.
PipelineResult(status) ==
  IF dumpRc = 0 /\ status = "ok" THEN 0 ELSE -1

\* finish: reap the compressor.  Success ends the walk; any failure, of the
\* compressor, of the dump or of wait4, moves on to the next entry.
FinishWait ==
  /\ pc = "wait" /\ comp[entry] \in {"ok", "failed", "noexec"}
  /\ comp' = [comp EXCEPT ![entry] =
                IF @ = "noexec" THEN "none" ELSE "reaped"]
  /\ \/ /\ PipelineResult(comp[entry]) = 0
        /\ rc' = 0 /\ selected' = entry /\ pc' = "done"
        /\ UNCHANGED <<entry, faults>>
     \/ /\ PipelineResult(comp[entry]) # 0
        /\ entry' = entry + 1 /\ pc' = "next"
        /\ UNCHANGED <<rc, selected, faults>>
     \/ /\ Fault                          \* the status is lost
        /\ entry' = entry + 1 /\ pc' = "next"
        /\ UNCHANGED <<rc, selected>>
  /\ UNCHANGED <<Raw, dumpRc, fdVars, pipe, child, sent, out, forked,
                 crashed>>

-----------------------------------------------------------------------------
(* The other processes.                                                    *)

\* The child of spawn: close the write end, wire up stdin and stdout, execve;
\* exit 127 when that fails.
CompExec(e) ==
  /\ comp[e] = "new"
  /\ writers' = Close(writers, e, "comp")
  /\ \/ /\ comp' = [comp EXCEPT ![e] = "running"]
        /\ UNCHANGED <<readers, faults>>
     \/ /\ Fault
        /\ comp' = [comp EXCEPT ![e] = "noexec"]
        /\ readers' = Close(readers, e, "comp")
  /\ UNCHANGED <<Raw, pc, entry, callVars, pipe, child, sent, out, forked,
                 crashed>>

\* The compressor turns a block of its input into a block of output.
CompRead(e) ==
  /\ comp[e] = "running" /\ pipe[e] # <<>>
  /\ out' = Append(out, <<e, Head(pipe[e])>>)
  /\ pipe' = [pipe EXCEPT ![e] = Tail(@)]
  /\ UNCHANGED <<Raw, pc, entry, callVars, fdVars, comp, child, sent, forked,
                 crashed, faults>>

\* At the end of its input it exits; it may fail before.
CompExit(e) ==
  /\ comp[e] = "running"
  /\ \/ /\ pipe[e] = <<>> /\ writers[e] = {}
        /\ comp' = [comp EXCEPT ![e] = "ok"]
        /\ UNCHANGED faults
     \/ /\ Fault
        /\ comp' = [comp EXCEPT ![e] = "failed"]
  /\ readers' = Close(readers, e, "comp")
  /\ UNCHANGED <<Raw, pc, entry, callVars, writers, pipe, child, sent, out,
                 forked, crashed>>

\* The writer has blocks left to write.
MoreToWrite(e) == sent[e] < Blocks

\* The writer writes a block: to out_fd, or to the pipe when it has room.
ChildWrite(e) ==
  /\ child[e] = "running" /\ MoreToWrite(e)
  /\ sent' = [sent EXCEPT ![e] = @ + 1]
  /\ \/ /\ Raw[e]
        /\ out' = Append(out, <<e, sent[e] + 1>>)
        /\ UNCHANGED pipe
     \/ /\ ~Raw[e] /\ readers[e] # {} /\ Len(pipe[e]) < Capacity
        /\ pipe' = [pipe EXCEPT ![e] = Append(@, sent[e] + 1)]
        /\ UNCHANGED out
  /\ UNCHANGED <<Raw, pc, entry, callVars, fdVars, comp, child, forked,
                 crashed, faults>>

\* The writer ends: with everything written, or on EPIPE (SIGPIPE is blocked
\* in it), or on another failure.
ChildExit(e) ==
  /\ child[e] = "running"
  /\ \/ /\ sent[e] = Blocks
        /\ child' = [child EXCEPT ![e] = "ok"]
        /\ UNCHANGED faults
     \/ /\ MoreToWrite(e) /\ ~Raw[e] /\ readers[e] = {}
        /\ child' = [child EXCEPT ![e] = "failed"]
        /\ UNCHANGED faults
     \/ /\ Fault
        /\ child' = [child EXCEPT ![e] = "failed"]
  /\ writers' = Close(writers, e, "child")
  /\ UNCHANGED <<Raw, pc, entry, callVars, readers, pipe, comp, sent, out,
                 forked, crashed>>

\* Another thread of the host forks: the new process holds what the host holds.
HostFork ==
  /\ HostForks /\ ~forked /\ pc # "done"
  /\ forked' = TRUE
  /\ readers' = [e \in Entries |-> IF "host" \in readers[e]
                   THEN readers[e] \cup {"other"} ELSE readers[e]]
  /\ writers' = [e \in Entries |-> IF "host" \in writers[e]
                   THEN writers[e] \cup {"other"} ELSE writers[e]]
  /\ UNCHANGED <<Raw, pc, entry, callVars, pipe, comp, child, sent, out,
                 crashed, faults>>

\* That process exits, or executes a program that closes its descriptors.
OtherExit ==
  /\ \E e \in Entries : "other" \in readers[e] \cup writers[e]
  /\ readers' = [e \in Entries |-> readers[e] \ {"other"}]
  /\ writers' = [e \in Entries |-> writers[e] \ {"other"}]
  /\ UNCHANGED <<Raw, pc, entry, callVars, pipe, comp, child, sent, out,
                 forked, crashed, faults>>

-----------------------------------------------------------------------------

CallStep ==
  \/ EndOfTable \/ UncompressedEntry \/ CreatePipe \/ ForkCompressor
  \/ CloseReadEnd \/ StartDump \/ DumpReturns \/ UncompressedResult
  \/ FinishClose \/ FinishWait

CompStep(e) == CompExec(e) \/ CompRead(e) \/ CompExit(e)

ChildStep(e) == ChildWrite(e) \/ ChildExit(e)

Next ==
  \/ CallStep \/ HostFork \/ OtherExit
  \/ \E e \in Entries : CompStep(e) \/ ChildStep(e)

\* Every process is scheduled; a compressor reads its input to the end; a
\* process forked elsewhere in the host does not keep the pipe for ever.
Spec ==
  /\ Init /\ [][Next]_vars
  /\ WF_vars(CallStep) /\ WF_vars(OtherExit)
  /\ \A e \in Entries : WF_vars(CompStep(e)) /\ WF_vars(ChildStep(e))

-----------------------------------------------------------------------------
(* Properties.                                                             *)

States == {"none", "new", "running", "ok", "failed", "noexec", "reaped"}

TypeOK ==
  /\ Raw \in Tables
  /\ pc \in {"next", "fork", "close", "dump", "dumping", "raw", "finish",
             "wait", "done"}
  /\ entry \in 1..Terminal /\ selected \in 1..Terminal
  /\ rc \in {0, -1} /\ dumpRc \in {0, -1}
  /\ readers \in [Entries -> SUBSET {"host", "comp", "other"}]
  /\ writers \in [Entries -> SUBSET {"host", "comp", "child", "other"}]
  /\ pipe \in [Entries -> Seq(1..Blocks)]
  /\ \A e \in Entries : Len(pipe[e]) <= Capacity
  /\ comp \in [Entries -> States] /\ child \in [Entries -> States]
  /\ sent \in [Entries -> 0..Blocks]
  /\ out \in Seq(Entries \X (1..Blocks))
  /\ forked \in BOOLEAN /\ crashed \in BOOLEAN /\ faults \in 0..MaxFaults

\* The core as entry e writes it.
Stream(e) == [n \in 1..Blocks |-> <<e, n>>]

\* When dump_compressed reports success, the file ends with the whole core as
\* the selected entry wrote it; when it fails, *selected is the NULL entry.
SelectedStreamIsWhole ==
  pc = "done" =>
    IF rc = 0
      THEN /\ selected \in Entries /\ Len(out) >= Blocks
           /\ SubSeq(out, Len(out) - Blocks + 1, Len(out)) = Stream(selected)
      ELSE selected = Terminal

\* On return, whichever steps failed, the host holds no pipe end and has no
\* compressor left to reap.
NothingLeft ==
  pc = "done" =>
    \A e \in Entries :
      /\ "host" \notin readers[e] \cup writers[e]
      /\ comp[e] \in {"none", "reaped"}

\* The call returns: the host, the writer and the compressor never all wait
\* for one another, neither on a full pipe nor for an end of input.
CallReturns == <>(pc = "done")

=============================================================================

# Corus in TLA+

Corus writes a core file of the process it runs in while that process keeps
running. The repository holds two implementations: the Rust one
(`corus-syscall/`, `corus-core/`, `corus/`) and the C library it replaces
(`coredumper/`). This directory holds TLA+ models of both, the TLC configurations
that check them, and TLAPS proofs. Paths below are relative to the sources.

## The system

Both implementations dump in the same five stages.

1. An entry point takes options and the registers of the calling thread, the
   *Caller*, and starts a *lister*.
2. The lister is a process of its own that shares the host's memory. It scans
   `/proc` in passes, stops every thread with ptrace, and runs a callback.
3. The callback reads the registers of the threads. In Rust it then forks a
   copy-on-write *snapshot child*, which writes the core while the lister resumes
   the threads; if the fork fails, or the caller asked for `InProcessFrozen`, the
   lister writes the core with the threads stopped. In C `InternalGetCoreDump`
   writes with the threads stopped, or forks a writer that feeds a pipe.
4. The writer parses `/proc/self/maps` and `smaps`, chooses what to save, shrinks
   it to a limit, and writes headers, notes and memory. It reads memory through a
   pipe, so that a page that cannot be read gives an error and not a signal.
5. A core can go through a compressor, found in a table, on a pair of pipes.

| part | source | modules | state |
|---|---|---|---|
| Rust: thread lister, crash cleanup | `corus-core/src/threads.rs` | `Lister`, `ListerProofs` | modelled, proved |
| Rust: dump orchestration, snapshot | `corus-core/src/dump.rs`, `lib.rs` | `CoreDump`, `Snapshot`, `CoreDumpProofs` | partly, proved |
| Rust: parsing, limiter, memory probe, writers, ELF | `corus-core/src/proc_parse.rs`, `dump.rs`, `io.rs`, `elfcore.rs`, `notes.rs` | `Serialize`, `MCSerialize`, `SerializeProofs` | control and sizes modelled, three results proved |
| Rust: compressor pipeline | `corus-core/src/compress.rs`, `corus/src/capi.rs` | `Pipeline`, `MCPipeline`, `PipelineProofs` | modelled, safety proved |
| C: ELF core writer | `coredumper/elfcore.c` | `ElfLayout`, `Smaps`, `ElfCore`, `MCElfCore` | modelled |
| C: compressors and delivery | `coredumper/elfcore.c` | `CreatePipeline`, `DumpPaths`, `MCDumpPaths`, `DumpPathsProofs` | modelled, safety proved |
| C: thread lister | `coredumper/linuxthreads.c` | `LinuxThreads`, `MCLinuxThreads`, `LinuxThreadsProofs` | partly, proved |
| C: interface, frame, register capture | `coredumper/coredumper.c`, `elfcore.h`, `elfcore.c` | `Frame`, `Coredumper`, `MCCoredumper`, `CoredumperProofs` | partly, proved |
| C: system call wrappers | `coredumper/linux_syscall_support.h` | `SyscallSupport`, `MCSyscallSupport`, `SyscallSupportProofs` | those with a logic of their own, proved |

`PROJECT.json` gives the lines behind each definition, the components with what is
left out of each, and the hazards.

## The models

A step between two points at which another actor can act is one action. A failing
system call is an alternative of the action that makes the call and is counted in
`faults`, up to `MaxFaults`. The main module of
each component has a type invariant. Those of `Lister`, `CoreDump` and
`Pipeline` are proved; the others hold under the configurations below (add `INVARIANT TypeOK`, for `CoreDump` `DumpTypeOK`), and
are not listed among the properties of the runs.

### Lister

Actors: the host's threads, the Caller, the lister, the snapshot child, and the
kernel, which delivers a queued SIGSTOP.

* `tstate`, `stopping`, `traced` are the kernel's view of the threads.
* `cpc` and its neighbours are `list_all_process_threads`: dumpable flag, signal
  mask, `PR_SET_PTRACER`, the shared parameter block, the returned value.
* `lpc` and its neighbours are `lister_thread`: the pid array, the directory
  scan, the resume loop, the exit status, and the descriptors it opened.
* `sigPids`, `sigNum`, `handlers` and `snapshotChild` are the process-wide
  atomics and the signal handlers. `sig_handler` may interrupt any step.

The lister uses the callback through `Callback`: fork at most one child, publish
it, return. What the model takes from the kernel:

* A thread alive from the rewind to the end of the directory is returned by
  getdents in that pass. Other threads may or may not be.
* When the lister dies, threads still attached are let go but stay stopped.
  `threads.rs:37-39` says the same ("left frozen forever").
* `PTRACE_KILL` of a tracee ends the host process.
* The group effects of SIGSTOP and SIGCONT are left out.
* A dumpable value of 2 counts as a refused attach (`Denied`).
* Inside the crash handler SIGABRT is blocked and a second fault kills the lister.
* A handler the host installed itself, before the lister's own, counts as the
  default action.

### CoreDump and Snapshot

`CoreDump` extends `Lister` and replaces the general callback by `dump_callback`.
`data[t]` is the progress of thread `t`, in its registers and its memory alike, so
a core taken at one instant shows the same value in both. Each thread has a
private page and, in the run, a `MAP_SHARED` page. The child writes private
pages from `copy[c]`, its memory at the fork, and shared pages from the live
`data`. ptrace sees the Caller parked in `wait4`; the `FRAME()` override puts the
registers of the API entry in their place. Aborts, failing captures, failing
forks and failing writers are free choices.

`Snapshot` is what a dump promises: the memory at one instant between the call and
its return, or an error. `CoreDump` refines it. `snap` is a history variable, the
memory when the serializer started. When the call returns, the mapping switches
from `snap` to what the file holds, so the refinement also says that they agree,
and that nobody writes to the file after the call.

### Serialize

`Serialize` is what `serialize_dump` does, in the child or in the lister, from
`/proc/self/maps` to the last byte. An address is a cell; a page is `page` cells,
which may be larger than the `MinPage` the code assumes. `in` is the address space:
mappings, contents, unreadable cells (`bad`), the sections `smaps` may show, and
the extra notes. `out` is the file, cell by cell, so that what the headers announce
can be compared with what was written. `slots` counts the pages a probe left in
the loopback pipe, and `touched` the cells that were read directly.

`ParseMaps`, `Enrich` and the scan choose the segments; `estimate_header_size` and
each turn of `apply_priority_limit` shrink them; the remaining actions write. The
writers are `SimpleWriter` and `LimitWriter`, with errors after any part of a
write. A read error of `maps` looks like its end: the mappings after it are left
out, and a line cut in its name loses the name (`Cut`).

### Pipeline

`readers[e]` and `writers[e]` are the holders of the pipe made for entry `e` of the
table: the host, the compressor, the writer of the core, and a process that
another host thread forks meanwhile, since the pipes are not close-on-exec. A
pipe has a capacity; a full one blocks the writer and one without readers fails
it. The dump is its outcome as `CoreDump` shows it: the writer has ended when it
returns, except after a crash signal. The compressor program is external: it
copies blocks, exits at the end of its input, and may fail at any time.

### ElfCore, Smaps and ElfLayout

`CreateElfCore` of the C library. `ElfLayout` computes the sizes of the structures
it writes on five architectures, by the C rules of layout. `Smaps` is its first
half: count the lines of `maps`, read `auxv`, parse `smaps` as a sequence of lines,
drop what is not dumped, skip leading zeros, and decide about the vdso. `ElfCore` is
its second half: `chunks` is the list of calls of the writer that follow, each with
its size and what its header says, and the writing is one step per call. `sane` is a
history variable: no direct read of memory met a page that cannot be read.

### CreatePipeline and DumpPaths

How a core leaves the C library. `CreatePipeline` clones a child that has a *copy* of
the descriptor table but shares memory, and with it the variables that hold the
numbers of the pipes. `tab[p]` maps the descriptors of process `p` to ends of
pipes, so a number closed in one process and moved in the other is visible. A table has
`openmax` numbers; a call that needs a free one (`Room`, `Room2`) and finds none can only
fail.
`DumpPaths` adds the two ways of `InternalGetCoreDump`: into a file through
`PipeWriter`, which feeds the compressor and drains it by poll; or into a pipe, by a
forked writer, whose read end goes to the client over a socket. The client,
`MyWriteCoreDumpWith` of the unit test, is external.

### LinuxThreads

The C library's lister over two calls. It differs from the Rust one in its statics
(`sig_pids`, `sig_num_threads`, `sig_proc`), in starting again on `/proc` with fewer
than two threads, in growing its array by starting again with all threads resumed,
and in a failure path that resumes nobody. `stranded` collects the threads that are
left stopped.

### Coredumper and Frame

The setters and the entry points of `coredumper.c`, on structures of three versions
of the header; then `InternalGetCoreDump` up to the delivery: the callback, the
registers of every thread, `/proc/self/exe`, `/proc/self/stat`. `Frame` says for each
architecture which registers `FRAME` saves and `SET_FRAME` merges into those that
ptrace reads; a register is where it comes from.

### SyscallSupport

The wrappers that do more than pass arguments: signal sets, `sigaction`,
`sigprocmask`, `sigpending`, `sigsuspend`, and the 32 bit identifiers over 16 bit calls.
`old` is a kernel that lacks the newer calls. Words have `W` bits, so that a set
spans several of them.

## Runs

Ten runs pass.

| run | distinct states | time | properties |
|---|---|---|---|
| `lister_scan` | 370 000 | 2 min | `FrozenAtCallback`; live: `CallReturns`, `StoppedThreadsResume` |
| `lister_faults` | 3 205 000 | 1 min | `ResultIsTruth`, `CallRestoresProcess`, `HandlerListIsCurrent`, `CrashStrandsOnlyInWindows`, `ExitLeavesNoTracee` |
| `coredump` | 178 000 | 15 s | `CoreIsConsistent`, and the refinements `ImplementsSnapshot`, `ImplementsLister` |
| `serialize` | 185 000 | 40 s | `HeadersDescribeFile`, `ResultIsTruth`, `PrioritizedEndsAtLimit`, `DumpsWhatItShould`, `ProbesFindRoom`, `ReadsAreSafe`; live: `Returns` |
| `pipeline` | 79 000 | 11 s | `SelectedStreamIsWhole`, `NothingLeft`; live: `CallReturns` |
| `elfcore` | 241 000 | 2 min | `HeadersDescribeFile`, `CoreKeepsData`, `ResultIsTruth`, `ReadsAreSafe` |
| `dumppaths` | 187 000 | 1 min | `CompressorHoldsOnlyItsPipes`, `DescriptorsAreRestored`, `ResultIsTruth`; live: `CallReturns`, `ReaderGetsTheCore` |
| `linuxthreads` | 428 000 | 1 min | `FrozenAtCallback`, `ResultIsTruth`, `StrandsOnlyOnFailure`; live: `CallReturns` |
| `coredumper` | 814 000 | 20 s | `PriorityExcludesCompression`, `DescriptorIsUnlimited`, `ThreadsAreWhereTheyWere` |
| `syscalls` | 972 000 | 80 s | `SetsMatchKernel`, `RestoreIsExact`, `FallbackIsTransparent` |

Deadlock is checked in `serialize` and `coredumper`. The other models stop after a
bounded number of calls, so it is not; their liveness properties cover waits
without end.

Two runs show the code doing other than a comment says:

| run | what happens |
|---|---|
| `lister_handoff` | a thread spawns another and exits before it is attached; the pass adds nothing, the scan ends, and the new thread runs through the callback that "all threads frozen" announces |
| `coredump_pid` | `getpid()` in the lister is the lister's own pid, so the core names the wrong process and the first listed thread comes first |

### What the passing runs except

A property that names an exception records a way in which the code does not do what
one would wish. In the Rust code:

* After a crash `SNAPSHOT_CHILD` names the old child, and the next call waits for it
  in vain (ECHILD): `ResultIsTruth`, `threads.rs:458`.
* A crash signal strands threads in the windows that `CrashStrandsOnlyInWindows` names.
* With SIGCHLD ignored a core written in full is reported as ECHILD. The runs have
  the default disposition.
* A refused attach to a thread other than the leader is skipped: `FrozenAtCallback`
  speaks of attachable threads.
* The next compressor is tried on the same descriptor after one that ran, and what
  that one wrote stays: `SelectedStreamIsWhole` speaks of the end of the file.
* A read error of `maps` or `smaps` leaves mappings out of a core reported as good:
  `DumpsWhatItShould` asks for a run without failed calls.

In the C code:

* A mapped device fails the dump (`elfcore.c:928-931`), as does a hole in a mapping
  (1465) and an i386 without SSE that has several threads (1356, 1365):
  `ElfCore!ResultIsTruth`.
* Segments after the one a prioritized limit cut are not aligned (1257).
* With two of the descriptors 0 to 2 closed, `CreatePipeline` waits for itself or
  leaks (1552, 1703-1706): `DescriptorsAreRestored`, `CallReturns`.
* `PipeWriter` spins on a compressor that died with its input full (454-505), and takes
  an earlier death for a limit that was reached (485-488): `CallReturns`, `ResultIsTruth`.
* With SIGCHLD ignored a search that ends at the empty entry fails (1744-1747).
* A failure after the first attach strands the threads (`linuxthreads.c:365-366`, with
  308-313): `StrandsOnlyOnFailure`.
* On x86-64 the saved stack pointer loses its upper half (`elfcore.h:226` adds to
  `ebx`): the value "cut" of `ThreadsAreWhereTheyWere`.
* The descriptor of `auxv` stays open on success (1317-1347); the model has it, no
  property speaks of it.
* The times of a program whose name has spaces are those of other fields
  (2036-2062), and `pr_sighold` is never filled (2069-2073); the model has both, no
  property speaks of them.

### Bounds

* `lister_scan`: a pass that misses a thread needs a spawner, a spawned thread and
  the leader; there is one more, so that two races overlap. One call, one fault,
  under Yama.
* `lister_faults`: two calls, since state left by one call can only matter to the
  next; two faults, so that an error path meets a fault or a signal; three threads
  and a pid array of two, so that it overflows.
* `coredump`: one call, one step of work per thread, which tells before from after.
  With two calls and without the pre-dump callback `CoreIsConsistent` was also checked
  to the end, on 29.6 million states; that takes ten minutes and is not a run.
* `serialize`: six address spaces (a heap with an unreadable page and a file; a file
  mapping past the end of its file, a device and a page not to be dumped, with an `smaps` that
  differs; pages larger than `MinPage`; three heaps for the limiter; a guard page;
  nothing), every limit from none and 0 to past the end of the largest file, one
  fault. The buffer holds three pages and the pipe two, so chunks and probes wrap.
* `pipeline`: a pipe of one block and two blocks to write, so the writer blocks;
  three faults, enough for both compressors and the fallback to fail.
* `elfcore`: six address spaces, four `auxv`, one or two threads, four limits, one
  fault, all five architectures, at the real page size.
* `dumppaths`: ten tables of compressors, four sets of open standard descriptors,
  four blocks through pipes of two, lengths below, within and above the core, two
  faults.
* `linuxthreads`: three threads and a forked child, two calls, one fault, both kinds of
  signals. The array grows by 1 where the code adds 100, so that it must grow.
* `coredumper`: three versions, three calls of setters before a dump, one fault.
* `syscalls`: words of two bits, identifiers on both sides of `Id16`, four calls: set,
  read, change and put back.

### Fairness

Weak fairness says that the kernel schedules a process that can run.

* `lister_scan`: of the Caller, the lister, the callback and the delivery of SIGSTOP.
  Nothing of the snapshot child, which may write for ever; `CallReturns` names that as
  the one thing a call can wait for without end. No crash signal arrives.
* `serialize`: of the next step; the code is sequential.
* `pipeline`: of the call, the writer, the compressor, and that the foreign process
  exits. If it lives on, `finish` waits as long: the comment at `compress.rs:29-33`
  counts two copies of the write end, and this would be a third.
* `dumppaths`: of the dumper, the child, the lister, the writer, the compressor and the
  client.
* `linuxthreads`: of the Caller, the lister and the delivery of the stop.

## Proofs

All hold for any value of the constants, from the named assumptions
(`ThreadsAssumption`, `BoundsAssumption`, `EnvironmentAssumption`, `DumpAssumption`,
`SerializeAssumption`, `MappingsAssumption`, `PipelineAssumption`, `InterfaceAssumption`,
`CallsAssumption`, `ListerAssumption`, `PathsAssumption`).

| theorem | says |
|---|---|
| `ListerProofs!TypeCorrect` | `TypeOK` |
| `ListerProofs!RestoresProcess` | `CallRestoresProcess` |
| `ListerProofs!HandlerListCurrent` | `HandlerListIsCurrent` |
| `ListerProofs!CrashStrands` | `CrashStrandsOnlyInWindows` |
| `ListerProofs!NoTraceeLeft` | `ExitLeavesNoTracee` |
| `ListerProofs!Frozen` | `FrozenAtCallback`, given `NoHandoff` |
| `ListerProofs!ResultsAreTrue` | `ResultIsTruth` |
| `CoreDumpProofs!DumpImplementsLister` | `DumpSpec => Spec` |
| `CoreDumpProofs!DumpFrozen`, `DumpRestores` | the lister's results, for every dump |
| `CoreDumpProofs!DumpTypeCorrect` | `DumpTypeOK` |
| `CoreDumpProofs!CoresAreConsistent` | `CoreIsConsistent` |
| `CoreDumpProofs!DumpIsAtomic` | `ImplementsSnapshot`, given `NoHandoff` and `Attachable = Threads` |
| `SerializeProofs!RoomForProbes` | `ProbesFindRoom` |
| `SerializeProofs!DirectReadsAreSafe` | `ReadsAreSafe` |
| `SerializeProofs!DumpsRight` | `DumpsWhatItShould` |
| `PipelineProofs!TypeCorrect` | `TypeOK` |
| `PipelineProofs!HostIsLeftClean` | `NothingLeft` |
| `PipelineProofs!SelectedIsWhole` | `SelectedStreamIsWhole` |
| `CoredumperProofs!PriorityIsExclusive` | `PriorityExcludesCompression` |
| `CoredumperProofs!DescriptorsAreUnlimited` | `DescriptorIsUnlimited` |
| `CoredumperProofs!ThreadsAreShownWhereTheyWere` | `ThreadsAreWhereTheyWere` |
| `SyscallSupportProofs!SetsAreTheKernels` | `SetsMatchKernel` |
| `SyscallSupportProofs!RestoringIsExact` | `RestoreIsExact` |
| `SyscallSupportProofs!FallbacksAreTransparent` | `FallbackIsTransparent` |
| `LinuxThreadsProofs!FrozenUnderWalk` | `FrozenAtCallback`, given `Tame` |
| `LinuxThreadsProofs!ResultsTrue` | `ResultIsTruth` |
| `LinuxThreadsProofs!StrandsSeldom` | `StrandsOnlyOnFailure` |
| `DumpPathsProofs!CompressorHoldsOnly` | `CompressorHoldsOnlyItsPipes` |
| `DumpPathsProofs!DescriptorsRestored` | `DescriptorsAreRestored` |
| `DumpPathsProofs!ResultTrue` | `ResultIsTruth` |

### The lister

The inductive invariant has layers, each resting on those before.

* `Control`: which program counters of the Caller and the lister go together, and
  what the flag, mask, published list and descriptors are there. Without it,
  nothing excludes a stale list under a live handler.
* `Held`: a listed thread is stopped and traced until the resume loop reaches it,
  and nothing is traced that is not listed except the thread being attached. The
  two action properties follow from it.
* `Scanned`: what a pass that has attached nothing has covered. An attachable
  thread alive since the rewind is listed, or its entry is still to come; a thread
  born since then has a live creator that is not listed. At the end of such a pass
  no such creator is left, so every attachable thread is listed.
* `ChildKnown`, `Reasons`, `Told`: `SNAPSHOT_CHILD` names the child of this call, or
  one that an earlier, crashed lister left; each error path was entered for a fault of
  this call or for a reason that still holds when the call returns (the list is not
  changed any more, a leader that lost its memory does not get it back); so the exit status and the
  parameter block are the truth from the lister's death to the Caller's return.

`NoHandoff` (threads are created only by threads that neither exit nor escape the
lister) is needed: `lister_handoff` is the counterexample without it. `ResultIsTruth`
allows for what the constants allow: a host that ignores SIGCHLD, and a callback that
returns -1 itself.

### The dump

`DumpImplementsLister` carries over what is proved of the lister. `DumpInvariant` adds

* `Progress`: before `dump_callback` forks or writes there is no child, the file is
  empty and the context holds a failure, and the Caller's frame is as it was taken;
* `Captured`, `Copied`, `Inlined`: the captured registers agree with the memory of
  the stopped threads until the copy is made; the child has one view of both and
  writes nothing else; a core written in-line is complete when the context says so.

A thread that escaped the lister is not among the captured ones, so
`CoresAreConsistent` needs no hypothesis. `DumpIsAtomic` does: a thread that runs on
during an in-line write is in the core at no single instant, so all threads must be
attachable and stopped (`Still`). The mapping takes the abstract snapshot at the fork,
or at the start of the in-line write, and a result to `Returned`; every other step is a
stutter or the work of a thread.

### The C lister

`LinuxThreadsProofs!Inv`, preserved by one lemma per action.

* `Control`: which program counters of the caller and the lister go together, and who
  can be gone at each.
* `Held`: a traced thread is on the list, stopped unless it is the one being tried;
  the handler's copy of the list is the list while the lister may be signalled; during
  the resume loop what is traced is what the loop has yet to reach. `Kept`, the
  accepted part of the list, leaves out the entry on trial, which is taken back when
  the attach or the test of its memory fails.
* `Walked`, `Covered`: what a pass that has accepted nobody (`Fruitless`) has seen. A
  thread that was there at the rewind is accepted, on trial or still to come; either
  every live thread was there, or a creator that was is alive and not yet accepted. At
  the end of such a pass there is no such creator, so every live thread is accepted.
* `Reported`: the exit status and the parameter block from the lister's end to the
  caller's return; `Excused` is what an EPERM stands for.

`FrozenUnderWalk` has a hypothesis, `Tame`: a thread that may create threads does not
exit, and the leader does not. A creator that starts a thread and is gone before the walk
reaches it hands the process on behind the walk, as in the Rust lister; TLC refutes
`FrozenAtCallback` on an instance in which one thread may do both. The other two
theorems need no hypothesis.

### The compressor pipeline

`WalkInvariant`. `Ownership`: the host holds ends of the current entry's pipe only,
until `finish` closes them. `Writers`: who else holds a write end. `Piped`: a pipe holds
in order the blocks after those delivered. `Written`: the file ends with the delivered
blocks of the current entry. `Reported`: a compressor succeeds only at the end of its
input, a dump only with its writer, the call only with both. That the compressor saw
the end of its input, and not of a part, needs `Writers`: a writer that still runs
keeps its end open.

### Delivery in the C library

`DumpPathsProofs!Inv`, preserved by one lemma per action; each of the three theorems
needs nearly all of it.

* `Control`: which program counters of the caller, the forked process, `CreatePipeline`
  and the child go together.
* `Ends`, `Child`: which number is which end, in the dumper and in the child. Pipes take
  numbers from below, so the later of two has the higher ones: the write end of the
  output pipe is above 2, and only the two ends that the child moves may be in the way of
  stdio.
* `Search`: no entry before the one being tried is empty or can be executed, and the last
  report, in the status pipe or read, is that entry. The end of the file on the status
  pipe then tells the dumper the entry that runs.
* `SocketKept`, `Result`: no step of `CreatePipeline` closes the forked process's end of
  the socket, so a parent that meets the end of the file there has a reason to fail.
* `FileTable`, `CallerTable`: outside a set of numbers that were free at the call
  (`Owns`), the table is that of the call; the set is what the failure path at hand
  closes. The first has the hypothesis `~Moves`: a child that moves the write end of the
  status pipe changes the number its parent closes.
* `FlowEnds`, `Flow`: while the compressor is fed the dumper holds both its ends, so it
  ends only if it is killed; the blocks left, in the pipes, in the compressor and in the
  file add up to the core until a failure is reported. When the output then ends, nothing
  is on its way any more and the file is whole.

### Serialize, Coredumper, SyscallSupport

`SerializeProofs`: a probe either clears what it left or a call has failed, so the
slots never exceed the faults. `Safe` adds to `ReadsAreSafe` the types the steps need.
The step that reads directly is the one whose probe has just copied a page whole, and
`WholePageIsReadable` says that the cell it reads is then readable.

`Dumps` is the invariant of what is dumped, for as long as no call fails. While the
mappings are scanned, every segment lies in a mapping that is to be dumped (`Segments`),
what only the process has of a mapping already scanned is in a segment (`Saved`), and
`leading_zeros` has passed over zeros only, a page at a time (`Leading`). From then on the
same holds of the sizes before the limiter (`Selected`), and the headers have the
addresses of the segments (`Headed`). `MappingsAssumption` is what the kernel keeps to:
mappings are whole pages and do not overlap, and a page can be read as a whole or not at
all. Without the last a page that the probe copies in part would lose the cells before
the hole; without the second a segment could hold a mapping that is not to be dumped.

`CoredumperProofs`: `Sane` says of a parameter block that the priority flag and a
table of compressors exclude each other, and that a length is set only together with
the flag that tells, unless the setter aborted the program; there is one lemma per
setter. `ParamsInv` adds that the request for a descriptor was made with no flag. The
version of the structure matters: a field the client's header lacks reads as zero, and
setting it aborts. `RegsInv` says that the registers read so far are those of the
first threads of the list, and that none are kept from one dump to the next.

`SyscallSupportProofs`: `SetInv` relates the client's words to the set it wanted,
`ActInv` the kernel's action and the one the client kept: the words of a mask that the
older call did not return are words it does not read back. `IdInv`: a kernel with
16-bit identifiers holds no others. The two action properties follow from them by one
lemma per call.

### Only model-checked

Liveness under fairness is out of the prover's reach. So are the sums over segments
and notes (folds, which need induction): the headers against the file, the limiter,
results and sizes in `Serialize` and `ElfCore`. In `ElfCore` the lines of `smaps` and the
calls of the writer are sequences flattened from sequences, by a fold as well: to which
area a line belongs, and so `ReadsAreSafe` and `CoreKeepsData`, stays with TLC.

## Not modelled

* Rust: `list_self_only`, which nothing calls; the text scanner of `proc_parse.rs`
  (fields of a line are given, errors of reads are modelled); the contents of note
  descriptors, of `auxv` and of `prpsinfo`; the setters and the file handling of
  `capi.rs`, which repeat those of `coredumper.c`; the builder of the Rust API; the
  system call layer and the ELF structures, which have no state of their own.
* C: `thread_lister.c`, compiled only where `THREADS` is not defined, with
  `GetParentRegs` (`elfcore.c:1765-1809`) and the empty `FRAME`; the restoring of errno
  by `SET_FRAME`; the system call wrappers and macros that only pass arguments on;
  what `readelf` and `gdb` make of a core in the unit test.
* Both: the values of header fields that are constants, and the text of messages.

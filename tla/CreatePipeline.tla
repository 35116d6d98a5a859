--------------------------- MODULE CreatePipeline ---------------------------
(***************************************************************************)
(* CreatePipeline and CreatePipelineChild (coredumper/elfcore.c): the      *)
(* dumper makes three pipes and clones a child that becomes the first      *)
(* compressor of a table that can be executed.  The child has a copy of    *)
(* the descriptor table but shares the memory of the dumper, and with it   *)
(* the variables that hold the descriptor numbers.  It reports every       *)
(* attempt through the first pipe, whose write end closes when exec        *)
(* succeeds.                                                               *)
(*                                                                         *)
(* A descriptor table maps numbers to ends: "s" the status pipe, "i" and   *)
(* "o" the input and output pipe of the compressor, each with its read and *)
(* write end; "old" was open before, "null" is /dev/null, "free" is not    *)
(* open.                                                                   *)
(***************************************************************************)
EXTENDS Integers, Sequences, FiniteSets, FiniteSetsExt

CONSTANTS
  Tables,     \* tables of compressors, without the terminating NULL
  OpenSets,   \* sets of descriptors open before the call
  openmax,    \* number of descriptors a process may have
  PathLen,    \* number of entries of PATH; -1: not set
  MaxFaults   \* bound: system calls that fail, compressors that die

\* An entry: "" (uncompressed cores are welcome), a path, or a name to be looked
\* up; `in' is the set of places where the executable is (0: as a path).
Entry == [empty : BOOLEAN, slash : BOOLEAN, in : SUBSET (0 .. openmax)]

ASSUME PipelineAssumption ==
  /\ \A t \in Tables : t \in Seq(Entry)
  /\ openmax \in Nat /\ PathLen \in Int /\ MaxFaults \in Nat
  /\ \A s \in OpenSets : s \subseteq 0 .. openmax - 1

\* The entries for one program: as a path in /bin, in /usr/bin, and by name.
Program(in_bin, in_usr_bin, dirs) ==
  LET Path(there) == [empty |-> FALSE, slash |-> TRUE, in |-> IF there THEN {0} ELSE {}]
  IN <<Path(in_bin), Path(in_usr_bin), [empty |-> FALSE, slash |-> FALSE, in |-> dirs]>>

\* The tables of the library, given the entries of the three programs.
COREDUMPER_UNCOMPRESSED == <<[empty |-> TRUE, slash |-> FALSE, in |-> {}]>>
COREDUMPER_COMPRESSED(bzip2, gzip, compress) ==
  bzip2 \o gzip \o compress \o COREDUMPER_UNCOMPRESSED
COREDUMPER_BZIP2_COMPRESSED(bzip2)           == bzip2
COREDUMPER_GZIP_COMPRESSED(gzip)             == gzip
COREDUMPER_COMPRESS_COMPRESSED(compress)     == compress
COREDUMPER_TRY_BZIP2_COMPRESSED(bzip2)       == bzip2 \o COREDUMPER_UNCOMPRESSED
COREDUMPER_TRY_GZIP_COMPRESSED(gzip)         == gzip \o COREDUMPER_UNCOMPRESSED
COREDUMPER_TRY_COMPRESS_COMPRESSED(compress) == compress \o COREDUMPER_UNCOMPRESSED

VARIABLES
  table,      \* compressors
  tab,        \* tab[p]: the descriptor table of process p
  first,      \* the descriptor table of the application at the call
  fds, zip_in, zip_out,  \* the descriptor numbers, in shared memory
  trying,     \* args->compressors: index into the table
  status,     \* what is in the status pipe
  found,      \* *compressors: an index; 0: NULL
  ppc, cpc,   \* program counters of CreatePipeline and of the child
  ignored,    \* SIGCHLD is ignored
  faults

Fd == 0 .. openmax - 1

\* The application, the process that writes the core, and its child.
Procs == {"app", "dumper", "child"}

\* Somebody holds an end of a pipe.
Held(e) == \E p \in Procs, f \in Fd : tab[p][f] = e

\* close: nothing happens if the number is not open.
Close(t, nums) == [f \in Fd |-> IF f \in nums THEN "free" ELSE t[f]]

\* The free numbers; a call that needs more of them than there are fails.
Free(t)  == {f \in Fd : t[f] = "free"}
Room(t)  == Free(t) # {}
Room2(t) == \E f \in Free(t) : Free(t) \ {f} # {}

Lowest(t) == Min(Free(t))

\* dup: the lowest free number; dup2: that very number.
Dup(t, f)     == [t EXCEPT ![Lowest(t)] = t[f]]
Dup2(t, f, g) == [t EXCEPT ![g] = t[f]]

\* pipe: the two lowest free numbers.
Second(t)      == Min(Free(t) \ {Lowest(t)})
Pipe(t, r, w)  == [t EXCEPT ![Lowest(t)] = r, ![Second(t)] = w]
PipeFds(t)     == <<Lowest(t), Second(t)>>

\* The entry can be executed: as a path, or along PATH, where an empty entry is
\* the current directory.
CanExec(e) ==
  IF e.slash THEN 0 \in e.in ELSE \E d \in 1 .. PathLen : d \in e.in

Last(t) == Len(t) + 1

IsNull(k) == k = 0 \/ k = Last(table)
IsEmpty(k) == ~IsNull(k) /\ table[k].empty

pipeVars  == <<fds, zip_in, zip_out>>
childVars == <<trying, cpc>>

Nothing == [f \in Fd |-> "free"]

\* The process p is about to call, with the descriptors that are open.
PipelineInit(p) ==
  /\ table \in Tables
  /\ \E s \in OpenSets : first = [f \in Fd |-> IF f \in s THEN "old" ELSE "free"]
  /\ tab = [q \in Procs |-> IF q = p THEN first ELSE Nothing]
  /\ fds = <<-1, -1>> /\ zip_in = <<-1, -1>> /\ zip_out = <<-1, -1>>
  /\ trying = 1 /\ status = <<>> /\ found = 1
  /\ ppc = "idle" /\ cpc = "none"
  /\ ignored \in BOOLEAN
  /\ faults = 0

Fault == faults < MaxFaults /\ faults' = faults + 1

Return(r) == ppc' = r

\* The pipe that tells which compressor runs.
StatusPipe ==
  /\ ppc = "pipe"
  /\ \/ /\ Room2(tab["dumper"])
        /\ tab' = [tab EXCEPT !["dumper"] = Pipe(@, "sr", "sw")]
        /\ fds' = PipeFds(tab["dumper"])
        /\ ppc' = IF table # <<>> THEN "zip_in" ELSE "ok"
        /\ UNCHANGED faults
     \/ Fault /\ Return("failed") /\ UNCHANGED <<tab, fds>>
  /\ UNCHANGED <<table, first, zip_in, zip_out, childVars, status, found, ignored>>

\* The input of the compressor; fail0 closes the status pipe.
ZipIn ==
  /\ ppc = "zip_in"
  /\ \/ /\ Room2(tab["dumper"])
        /\ tab' = [tab EXCEPT !["dumper"] = Pipe(@, "ir", "iw")]
        /\ zip_in' = PipeFds(tab["dumper"])
        /\ ppc' = "zip_out" /\ UNCHANGED faults
     \/ /\ Fault /\ Return("failed")
        /\ tab' = [tab EXCEPT !["dumper"] = Close(@, {fds[1], fds[2]})]
        /\ UNCHANGED zip_in
  /\ UNCHANGED <<table, first, fds, zip_out, childVars, status, found, ignored>>

Fail1KeepsInput == {fds[1], fds[2]}   \* a mutant

\* fail1 closes the input as well.
Fail1 == {fds[1], fds[2], zip_in[1], zip_in[2]}

\* The output of the compressor.
ZipOut ==
  /\ ppc = "zip_out"
  /\ \/ /\ Room2(tab["dumper"])
        /\ tab' = [tab EXCEPT !["dumper"] = Pipe(@, "or", "ow")]
        /\ zip_out' = PipeFds(tab["dumper"])
        /\ ppc' = "clone" /\ UNCHANGED faults
     \/ /\ Fault /\ Return("failed")
        /\ tab' = [tab EXCEPT !["dumper"] = Close(@, Fail1)]
        /\ UNCHANGED zip_out
  /\ UNCHANGED <<table, first, fds, zip_in, childVars, status, found, ignored>>

\* The child shares the memory but not the descriptors.
Clone ==
  /\ ppc = "clone"
  /\ \/ /\ tab' = [tab EXCEPT !["child"] = tab["dumper"]]
        /\ cpc' = "start" /\ ppc' = "close" /\ UNCHANGED faults
     \/ /\ Fault /\ Return("failed")
        /\ tab' = [tab EXCEPT !["dumper"] =
                     Close(@, Fail1 \cup {zip_out[1], zip_out[2]})]
        /\ UNCHANGED cpc
  /\ UNCHANGED <<table, first, pipeVars, trying, status, found, ignored>>

\* The dumper closes the number that fds[1] holds by now.
CloseWriteEnd ==
  /\ ppc = "close"
  /\ ppc' = "read" /\ found' = 0
  /\ tab' = [tab EXCEPT !["dumper"] = Close(@, {fds[2]})]
  /\ UNCHANGED <<table, first, pipeVars, childVars, status, ignored, faults>>

Latest == Head(status)

\* Read until the end of file; the last entry reported counts.  A descriptor that
\* cannot be read is read forever.
ReadStatus ==
  /\ ppc = "read" /\ tab["dumper"][fds[1]] = "sr"
  /\ \/ /\ status # <<>>
        /\ found' = Latest /\ status' = Tail(status)
        /\ UNCHANGED <<ppc, tab>>
     \/ /\ status = <<>> /\ ~Held("sw")
        /\ ppc' = "decide"
        /\ tab' = [tab EXCEPT !["dumper"] = Close(@, {fds[1]})]
        /\ UNCHANGED <<found, status>>
  /\ UNCHANGED <<table, first, pipeVars, childVars, ignored, faults>>

Zip == {zip_in[1], zip_in[2], zip_out[1], zip_out[2]}

\* A compressor runs, none may run, or none was found although one must.
Decide ==
  /\ ppc = "decide"
  /\ \/ /\ IsNull(found) /\ Return("failed")
        /\ tab' = [tab EXCEPT !["dumper"] = Close(@, Zip)]
        /\ UNCHANGED fds
     \/ /\ ~IsNull(found) /\ ~IsEmpty(found) /\ Return("ok")
        /\ fds' = <<zip_out[1], zip_in[2]>>
        /\ tab' = [tab EXCEPT !["dumper"] = Close(@, {zip_in[1], zip_out[2]})]
     \/ /\ IsEmpty(found) /\ ppc' = "reap"
        /\ fds' = <<-1, -1>>
        /\ tab' = [tab EXCEPT !["dumper"] = Close(@, Zip)]
  /\ UNCHANGED <<table, first, zip_in, zip_out, childVars, status, found, ignored, faults>>

\* The child that found nothing is reaped; if SIGCHLD is ignored there is no
\* child to wait for, and fail2 closes zip_in once more.
Reap ==
  /\ ppc = "reap" /\ cpc = "exited"
  /\ Return(IF ignored THEN "failed" ELSE "ok")
  /\ UNCHANGED <<table, tab, first, pipeVars, childVars, status, found, ignored, faults>>

-----------------------------------------------------------------------------
(* The child. *)

\* Close the read end of the status pipe.
ChildStart ==
  /\ cpc = "start"
  /\ cpc' = "move"
  /\ tab' = [tab EXCEPT !["child"] = Close(@, {fds[1]})]
  /\ UNCHANGED <<table, first, pipeVars, trying, status, found, ppc, ignored, faults>>

\* Move the write end above 2, one dup at a time; without room it tries forever.
ChildMoveStatus ==
  /\ cpc = "move" /\ fds[2] <= 2 /\ Room(tab["child"])
  /\ fds' = <<fds[1], Lowest(tab["child"])>>
  /\ tab' = [tab EXCEPT !["child"] = Dup(@, fds[2])]
  /\ UNCHANGED <<table, first, zip_in, zip_out, childVars, status, found, ppc, ignored, faults>>

\* The same for the ends that become stdin and stdout.
ChildMoveZip ==
  /\ cpc = "move" /\ fds[2] > 2
  /\ \/ /\ zip_in[1] <= 2 /\ Room(tab["child"])
        /\ zip_in' = <<Lowest(tab["child"]), zip_in[2]>>
        /\ tab' = [tab EXCEPT !["child"] = Dup(@, zip_in[1])]
        /\ UNCHANGED cpc
     \/ zip_in[1] > 2 /\ cpc' = "stdio" /\ UNCHANGED <<zip_in, tab>>
  /\ UNCHANGED <<table, first, fds, zip_out, trying, status, found, ppc, ignored, faults>>

\* One descriptor too few closed: a mutant.
ConnectedKeepsThree(t) ==
  [Close(Dup2(Dup2(t, zip_in[1], 0), zip_out[2], 1), Fd \ {0, 1, 3, fds[2]})
     EXCEPT ![2] = "null"]

\* stdin, stdout and stderr are set up, everything else but the status pipe is
\* closed.
Connected(t) ==
  [Close(Dup2(Dup2(t, zip_in[1], 0), zip_out[2], 1), Fd \ {0, 1, fds[2]})
     EXCEPT ![2] = "null"]

\* zip_out[1], one of the last numbers made, is never below 3.
ChildStdio ==
  /\ cpc = "stdio"
  /\ cpc' = "report"
  /\ tab' = [tab EXCEPT !["child"] = Connected(@)]
  /\ UNCHANGED <<table, first, pipeVars, trying, status, found, ppc, ignored, faults>>

\* Report the entry about to be tried, or the one that ends the search.
ChildReport ==
  /\ cpc = "report"
  /\ status' = Append(status, trying)
  /\ cpc' = IF IsNull(trying) \/ IsEmpty(trying) THEN "exit" ELSE "exec"
  /\ UNCHANGED <<table, tab, first, pipeVars, trying, found, ppc, ignored, faults>>

\* exec closes the status pipe; if it fails, the next entry is tried.
ChildExec ==
  /\ cpc = "exec"
  /\ IF CanExec(table[trying])
     THEN /\ cpc' = "running"
          /\ tab' = [tab EXCEPT !["child"] = Close(@, {fds[2]})]
          /\ UNCHANGED trying
     ELSE trying' = trying + 1 /\ cpc' = "report" /\ UNCHANGED tab
  /\ UNCHANGED <<table, first, pipeVars, status, found, ppc, ignored, faults>>

\* Nothing was found: the status pipe is closed first, the exit follows.
ChildClose ==
  /\ cpc = "exit"
  /\ cpc' = "closed"
  /\ tab' = [tab EXCEPT !["child"] = Close(@, {fds[2]})]
  /\ UNCHANGED <<table, first, pipeVars, trying, status, found, ppc, ignored, faults>>

ChildExit ==
  /\ cpc = "closed"
  /\ cpc' = "exited"
  /\ tab' = [tab EXCEPT !["child"] = Nothing]
  /\ UNCHANGED <<table, first, pipeVars, trying, status, found, ppc, ignored, faults>>

DumperPipeline ==
  \/ StatusPipe \/ ZipIn \/ ZipOut \/ Clone \/ CloseWriteEnd \/ ReadStatus
  \/ Decide \/ Reap

ChildPipeline ==
  \/ ChildStart \/ ChildMoveStatus \/ ChildMoveZip \/ ChildStdio
  \/ ChildReport \/ ChildExec \/ ChildClose \/ ChildExit
=============================================================================

----------------------------- MODULE DumpPaths -----------------------------
(***************************************************************************)
(* The two ways InternalGetCoreDump (coredumper/elfcore.c) delivers a      *)
(* core, while all other threads are suspended.  With a file name, the     *)
(* lister thread itself writes the file, through a compressor if there is  *)
(* one: PipeWriter feeds the compressor and copies what comes out of it.   *)
(* Without, a forked process writes the core into a pipe, and the read end *)
(* is handed back over a socket; the client, MyWriteCoreDumpWith of        *)
(* coredumper_unittest.c, copies it into a file of its own.                *)
(*                                                                         *)
(* A core is Blocks blocks, and a compressor turns one block into one.     *)
(***************************************************************************)
EXTENDS CreatePipeline

CONSTANTS
  Blocks,    \* size of the core
  Cap,       \* capacity of a pipe
  Lengths    \* values of max_length

ASSUME PathsAssumption ==
  Blocks \in Nat /\ Cap \in Nat \ {0} /\ Lengths \subseteq Nat

VARIABLES
  file,        \* file_name # NULL
  pc,          \* the lister thread
  dpc,         \* the forked process
  max_length,  \* writer_fds.max_length; without a file name, that of the client
  left,        \* blocks CreateElfCore has not handed over
  q,           \* q[p]: blocks in pipe p
  held,        \* blocks inside the compressor
  out,         \* blocks in the file, or read by the caller
  pin, pout,   \* POLLIN and POLLOUT as poll reported them
  rc,          \* result: a descriptor, 0 or -1
  selected,    \* *selected_compressor
  mail,        \* the message in the socket
  died         \* the compressor was killed

pipeline == <<table, tab, first, fds, zip_in, zip_out, trying, status, found,
              ppc, cpc, ignored, faults>>
data     == <<left, q, held, out, max_length, died>>
polled   == <<pin, pout>>
vars     == <<pipeline, file, pc, dpc, data, polled, rc, selected, mail>>

\* pipeline without tab, and without tab and faults
calls == <<table, first, fds, zip_in, zip_out, trying, status, found, ppc, cpc, ignored>>

\* The ends of the pipes.
ReadEnd  == [s |-> "sr", i |-> "ir", o |-> "or", n |-> "nr"]
WriteEnd == [s |-> "sw", i |-> "iw", o |-> "ow", n |-> "nw"]

Pipes == DOMAIN ReadEnd

Dumper == IF file THEN "dumper" ELSE "app"

Init ==
  /\ file \in BOOLEAN
  /\ PipelineInit(Dumper)
  /\ pc = "begin" /\ dpc = "none"
  /\ max_length \in Lengths
  /\ left = Blocks /\ out = 0 /\ held = 0
  /\ q = [p \in Pipes |-> 0]
  /\ pin = FALSE /\ pout = FALSE
  /\ rc = -1
  /\ selected = Last(table)
  /\ mail = <<>>
  /\ died = FALSE

\* A descriptor in a message keeps its end open.
Readers(p) == Held(ReadEnd[p]) \/ (mail # <<>> /\ mail[1] = ReadEnd[p])
Writers(p) == Held(WriteEnd[p])

-----------------------------------------------------------------------------
(* With a file name. *)

\* A pipeline is made if the table has an entry.
Begin ==
  /\ file /\ pc = "begin"
  /\ IF table = <<>> THEN pc' = "open" /\ UNCHANGED ppc
     ELSE pc' = "create" /\ ppc' = "pipe"
  /\ selected' = IF table = <<>> THEN found ELSE selected
  /\ UNCHANGED <<table, tab, first, fds, zip_in, zip_out, trying, status, found, cpc,
                 ignored, faults, file, dpc, data, polled, rc, mail>>

Created ==
  /\ file /\ pc = "create" /\ ppc \in {"ok", "failed"}
  /\ IF ppc = "ok" THEN pc' = "open" /\ selected' = found
     ELSE pc' = "end" /\ UNCHANGED selected
  /\ UNCHANGED <<pipeline, file, dpc, data, polled, rc, mail>>

\* No file is made for a length of 0; if it cannot be opened the pipeline is
\* closed.
OpenFile ==
  /\ pc = "open"
  /\ \/ /\ max_length = 0
        /\ pc' = "close" /\ rc' = 0 /\ UNCHANGED <<tab, faults>>
     \/ /\ max_length > 0 /\ Room(tab["dumper"])
        /\ tab' = [tab EXCEPT !["dumper"][Lowest(tab["dumper"])] = "file"]
        /\ pc' = IF fds[1] >= 0 THEN "poll" ELSE "direct"
        /\ UNCHANGED <<rc, faults>>
     \/ /\ max_length > 0 /\ Fault
        /\ tab' = [tab EXCEPT !["dumper"] = Close(@, {fds[1], fds[2]})]
        /\ pc' = "end" /\ UNCHANGED rc
  /\ UNCHANGED <<calls, file, dpc, data, polled, selected, mail>>

\* The result of CreateElfCore dropped: a mutant.
CoreDoneAnyway(l, m) ==
  rc' = 0 /\ pc' = IF fds[1] >= 0 THEN "endpipe" ELSE "close"

\* CreateElfCore ends: well if everything was handed over or PipeDone holds.
CoreDone(l, m) ==
  /\ rc' = IF l = 0 \/ m = 0 THEN 0 ELSE -1
  /\ pc' = IF fds[1] >= 0 THEN "endpipe" ELSE "close"

\* LimitWriter: the file takes a block; or the core cannot be read or written.
WriteDirect ==
  /\ pc = "direct"
  /\ \/ /\ left > 0 /\ max_length > 0
        /\ left' = left - 1 /\ max_length' = max_length - 1 /\ out' = out + 1
        /\ UNCHANGED <<pc, rc, faults>>
     \/ /\ left = 0 \/ max_length = 0
        /\ CoreDone(left, max_length)
        /\ UNCHANGED <<left, max_length, out, faults>>
     \/ /\ left > 0 /\ max_length > 0 /\ Fault
        /\ CoreDone(left, max_length)
        /\ UNCHANGED <<left, max_length, out>>
  /\ UNCHANGED <<tab, calls, file, dpc, q, held, died, polled, selected, mail>>

\* The ends of the loop of PipeWriter.
Loops == left > 0 /\ max_length > 0

\* poll blocks until one of the two descriptors has something to report: data, a
\* hang-up, room, or an error.  Hang-up and error are reported but not looked at.
Poll ==
  /\ pc = "poll"
  /\ \/ /\ Loops
        /\ q["o"] > 0 \/ ~Writers("o") \/ q["i"] < Cap \/ ~Readers("i")
        /\ pin' = (q["o"] > 0) /\ pout' = (q["i"] < Cap)
        /\ pc' = IF pin' THEN "drain" ELSE IF pout' THEN "push" ELSE "poll"
        /\ UNCHANGED <<rc, faults>>
     \/ /\ ~Loops
        /\ CoreDone(left, max_length) /\ UNCHANGED <<polled, faults>>
     \/ /\ Loops /\ Fault
        /\ CoreDone(left, max_length) /\ UNCHANGED polled
  /\ UNCHANGED <<tab, calls, file, dpc, data, selected, mail>>

AfterDrain == IF pout THEN "push" ELSE "poll"

\* Copy what the compressor wrote until there is nothing more; the end of file,
\* and a read of no bytes at the limit, set max_length to 0.
Drain ==
  /\ pc = "drain"
  /\ \/ /\ q["o"] > 0 /\ max_length > 0
        /\ q' = [q EXCEPT !["o"] = @ - 1]
        /\ \/ /\ out' = out + 1 /\ max_length' = max_length - 1
              /\ UNCHANGED <<pc, rc, faults>>
           \/ /\ Fault /\ CoreDone(left, max_length)
              /\ UNCHANGED <<out, max_length>>
     \/ /\ max_length = 0 \/ (q["o"] = 0 /\ ~Writers("o"))
        /\ max_length' = 0 /\ pc' = AfterDrain
        /\ UNCHANGED <<q, out, rc, faults>>
     \/ /\ max_length > 0 /\ q["o"] = 0 /\ Writers("o")
        /\ pc' = AfterDrain
        /\ UNCHANGED <<q, out, max_length, rc, faults>>
  /\ UNCHANGED <<tab, calls, file, dpc, left, held, died, polled, selected, mail>>

Fits(n) == q["i"] + n <= Cap

\* Feed the compressor as much as fits.
Push ==
  /\ pc = "push"
  /\ \/ /\ Readers("i")
        /\ \E n \in 1 .. left :
             /\ Fits(n)
             /\ q' = [q EXCEPT !["i"] = @ + n] /\ left' = left - n
        /\ pc' = "poll" /\ UNCHANGED rc
     \/ /\ ~Readers("i")
        /\ CoreDone(left, max_length) /\ UNCHANGED <<q, left>>
  /\ UNCHANGED <<pipeline, file, dpc, held, out, max_length, died, polled, selected, mail>>

InputKept == {}   \* a mutant

Input == {fds[2]}

\* Close the input of the compressor.
ClosePipe ==
  /\ pc = "endpipe"
  /\ tab' = [tab EXCEPT !["dumper"] = Close(@, Input)]
  /\ pc' = "flush"
  /\ UNCHANGED <<calls, faults, file, dpc, data, polled, rc, selected, mail>>

\* FlushPipe, reading with blocking.
Flush ==
  /\ pc = "flush"
  /\ \/ /\ q["o"] > 0 /\ max_length > 0
        /\ q' = [q EXCEPT !["o"] = @ - 1]
        /\ \/ /\ out' = out + 1 /\ max_length' = max_length - 1
              /\ UNCHANGED <<pc, rc, faults>>
           \/ /\ Fault /\ rc' = -1 /\ pc' = "close"
              /\ UNCHANGED <<out, max_length>>
     \/ /\ max_length = 0 \/ (q["o"] = 0 /\ ~Writers("o"))
        /\ pc' = "close"
        /\ UNCHANGED <<q, out, max_length, rc, faults>>
  /\ UNCHANGED <<tab, calls, file, dpc, left, held, died, polled, selected, mail>>

\* Close all remaining descriptors, resume the threads and return.
CloseAll ==
  /\ pc = "close"
  /\ tab' = [tab EXCEPT !["dumper"] =
               [f \in Fd |-> IF @[f] = "file" \/ f \in {fds[1], fds[2]} THEN "free" ELSE @[f]]]
  /\ pc' = "end"
  /\ UNCHANGED <<calls, faults, file, dpc, data, polled, rc, selected, mail>>

-----------------------------------------------------------------------------
(* Without a file name. *)

\* The socket pair; without one the call fails.
SocketPair ==
  /\ ~file /\ pc = "begin" /\ max_length > 0
  /\ \/ /\ Room2(tab["app"])
        /\ tab' = [tab EXCEPT !["app"] = Pipe(@, "a", "b")]
        /\ pc' = "fork" /\ UNCHANGED faults
     \/ Fault /\ pc' = "end" /\ UNCHANGED tab
  /\ UNCHANGED <<calls, file, dpc, data, polled, rc, selected, mail>>

\* Fork, and close the end of the child; a failed fork is met by recvmsg.
Fork ==
  /\ pc = "fork"
  /\ pc' = "recv"
  /\ LET keep == [f \in Fd |-> IF tab["app"][f] = "b" THEN "free" ELSE tab["app"][f]]
     IN \/ /\ tab' = [tab EXCEPT !["dumper"] = tab["app"], !["app"] = keep]
           /\ dpc' = "create" /\ ppc' = "pipe" /\ UNCHANGED faults
        \/ /\ Fault /\ tab' = [tab EXCEPT !["app"] = keep] /\ UNCHANGED <<dpc, ppc>>
  /\ UNCHANGED <<table, first, fds, zip_in, zip_out, trying, status, found, cpc,
                 ignored, file, data, polled, rc, selected, mail>>

\* The descriptor arrives with the compressor; or the child is gone.
Receive ==
  /\ pc = "recv"
  /\ \/ mail # <<>> \/ ~Held("b")
  /\ LET t == [f \in Fd |-> IF tab["app"][f] = "a" THEN "free" ELSE tab["app"][f]]
     IN IF mail # <<>>
        THEN /\ rc' = Lowest(tab["app"])
             /\ tab' = [tab EXCEPT !["app"] = [t EXCEPT ![Lowest(tab["app"])] = mail[1]]]
             /\ selected' = mail[2]
        ELSE tab' = [tab EXCEPT !["app"] = t] /\ UNCHANGED <<rc, selected>>
  /\ mail' = <<>> /\ pc' = "end"
  /\ UNCHANGED <<calls, faults, file, dpc, data, polled>>

\* An exit of the forked process closes its descriptors.
Exit ==
  /\ dpc' = "gone"
  /\ tab' = [tab EXCEPT !["dumper"] = Nothing]

\* CreatePipeline in the child; an uncompressed core needs a pipe of its own.
ChildCreated ==
  /\ dpc = "create"
  /\ \/ ppc = "failed" /\ Exit /\ UNCHANGED <<fds, faults>>
     \/ ppc = "ok" /\ fds[1] >= 0 /\ dpc' = "send" /\ UNCHANGED <<tab, fds, faults>>
     \/ /\ ppc = "ok" /\ fds[1] < 0
        /\ \/ /\ Room2(tab["dumper"])
              /\ tab' = [tab EXCEPT !["dumper"] = Pipe(@, "nr", "nw")]
              /\ fds' = PipeFds(tab["dumper"])
              /\ dpc' = "send" /\ UNCHANGED faults
           \/ Fault /\ Exit /\ UNCHANGED fds
  /\ UNCHANGED <<table, first, zip_in, zip_out, trying, status, found, ppc, cpc,
                 ignored, file, pc, data, polled, rc, selected, mail>>

SurplusWrongEnd == Fd \ {fds[1]}   \* a mutant

Surplus == Fd \ {fds[2]}

\* Pass the read end to the parent and close everything but the write end.
Send ==
  /\ dpc = "send"
  /\ \/ /\ mail' = <<tab["dumper"][fds[1]], found>>
        /\ tab' = [tab EXCEPT !["dumper"] = Close(@, Surplus)]
        /\ dpc' = "write" /\ UNCHANGED faults
     \/ Fault /\ Exit /\ UNCHANGED mail
  /\ UNCHANGED <<calls, file, pc, data, polled, rc, selected>>

\* SimpleWriter blocks while the pipe is full.  Whatever CreateElfCore returns,
\* the process closes the pipe and exits.
SimpleWrite ==
  /\ dpc = "write"
  /\ \E p \in Pipes :
     /\ WriteEnd[p] = tab["dumper"][fds[2]]
     /\ \/ /\ left > 0 /\ q[p] < Cap /\ Readers(p)
           /\ q' = [q EXCEPT ![p] = @ + 1] /\ left' = left - 1
           /\ UNCHANGED <<tab, dpc, faults>>
        \/ (left = 0 \/ ~Readers(p)) /\ Exit /\ UNCHANGED <<q, left, faults>>
        \/ left > 0 /\ Fault /\ Exit /\ UNCHANGED <<q, left>>
  /\ UNCHANGED <<calls, file, pc, held, out, max_length, died, polled, rc, selected, mail>>

-----------------------------------------------------------------------------
(* The compressor, as the code uses it, and the client. *)

compressorKeeps == <<table, first, fds, zip_in, zip_out, trying, status, found, ppc,
                     ignored, file, pc, dpc, left, out, max_length, polled, rc,
                     selected, mail>>

\* The compressor reads a block, writes one, ends when its input ends or its
\* output is gone, or is killed.
Compress ==
  /\ cpc = "running"
  /\ \/ /\ q["i"] > 0
        /\ q' = [q EXCEPT !["i"] = @ - 1] /\ held' = held + 1
        /\ UNCHANGED <<tab, cpc>>
     \/ /\ held > 0 /\ q["o"] < Cap /\ Readers("o")
        /\ q' = [q EXCEPT !["o"] = @ + 1] /\ held' = held - 1
        /\ UNCHANGED <<tab, cpc>>
     \/ /\ \/ held = 0 /\ q["i"] = 0 /\ ~Writers("i")
           \/ held > 0 /\ ~Readers("o")
        /\ cpc' = "exited" /\ tab' = [tab EXCEPT !["child"] = Nothing]
        /\ UNCHANGED <<q, held>>
  /\ UNCHANGED <<compressorKeeps, died, faults>>

CompressorDies ==
  /\ cpc = "running" /\ Fault
  /\ cpc' = "exited" /\ died' = TRUE
  /\ tab' = [tab EXCEPT !["child"] = Nothing]
  /\ UNCHANGED <<compressorKeeps, q, held>>

clientKeeps == <<calls, file, dpc, left, held, died, polled, rc, selected, mail>>

\* For a length of 0 the client does not ask for a core.
ClientSkips ==
  /\ ~file /\ pc = "begin" /\ max_length = 0
  /\ pc' = "skipped"
  /\ UNCHANGED <<clientKeeps, tab, q, out, max_length, faults>>

\* With a descriptor the client opens its file, or gives up.
ClientOpens ==
  /\ ~file /\ pc = "end" /\ rc >= 0
  /\ \/ /\ Room(tab["app"])
        /\ tab' = [tab EXCEPT !["app"][Lowest(tab["app"])] = "file"]
        /\ pc' = "copy" /\ UNCHANGED faults
     \/ Fault /\ tab' = [tab EXCEPT !["app"] = Close(@, {rc})] /\ pc' = "closed"
  /\ UNCHANGED <<clientKeeps, q, out, max_length>>

\* It reads up to the limit or the end of the core.  A block it cannot write is lost,
\* and it goes on.  At the end it closes both descriptors.
ClientCopies ==
  /\ pc = "copy"
  /\ LET p == CHOOSE n \in Pipes : ReadEnd[n] = tab["app"][rc]
         Stop(e) == /\ tab' = [tab EXCEPT !["app"] =
                                 [f \in Fd |-> IF f = rc \/ @[f] = "file" THEN "free" ELSE @[f]]]
                    /\ pc' = e /\ UNCHANGED <<q, out, max_length, faults>>
     IN \/ /\ max_length > 0 /\ q[p] > 0
           /\ q' = [q EXCEPT ![p] = @ - 1] /\ UNCHANGED <<tab, pc>>
           /\ \/ out' = out + 1 /\ max_length' = max_length - 1 /\ UNCHANGED faults
              \/ Fault /\ UNCHANGED <<out, max_length>>
        \/ max_length > 0 /\ q[p] = 0 /\ ~Writers(p) /\ Stop("eof")
        \/ max_length = 0 /\ Stop("closed")
  /\ UNCHANGED clientKeeps

Client == ClientSkips \/ ClientOpens \/ ClientCopies

pathVars == <<file, pc, dpc, data, polled, rc, selected, mail>>

Lister ==
  \/ Begin \/ Created \/ OpenFile \/ WriteDirect \/ Poll \/ Drain \/ Push \/ ClosePipe
  \/ Flush \/ CloseAll \/ SocketPair \/ Fork \/ Receive

Writer == ChildCreated \/ Send \/ SimpleWrite

Next ==
  \/ DumperPipeline /\ UNCHANGED pathVars
  \/ ChildPipeline /\ UNCHANGED pathVars
  \/ Lister \/ Writer \/ Compress \/ CompressorDies \/ Client

\* Every process that can run is scheduled; a compressor reads its input and
\* writes its output.
Fairness ==
  /\ WF_vars(DumperPipeline /\ UNCHANGED pathVars)
  /\ WF_vars(ChildPipeline /\ UNCHANGED pathVars)
  /\ WF_vars(Lister) /\ WF_vars(Writer) /\ WF_vars(Compress) /\ WF_vars(Client)

Spec == Init /\ [][Next]_vars /\ Fairness

-----------------------------------------------------------------------------
(* Properties *)

\* What a descriptor number can stand for.
EndNames == {"free", "old", "null", "file", "a", "b", "sr", "sw", "ir", "iw", "or", "ow",
             "nr", "nw"}

\* Every variable is within its range, the queues within the capacity of a pipe,
\* and a block is in one place only (elfcore.c CreatePipeline, PipeWriter).
TypeOK ==
  /\ tab \in [Procs -> [Fd -> EndNames]]
  /\ \A p \in Pipes : q[p] \in 0 .. Cap
  /\ left + held + out + q["s"] + q["i"] + q["o"] + q["n"] <= Blocks
  /\ found \in 0 .. Last(table) /\ trying \in 1 .. Last(table)
  /\ rc \in {-1} \cup Fd

Returned == pc \in {"end", "copy", "eof", "closed"}

\* The entry of the table that is executed, if any: the first that can be, before
\* any empty one.
Chosen ==
  LET stop == {k \in 1 .. Len(table) : table[k].empty \/ CanExec(table[k])}
  IN IF stop = {} THEN 0 ELSE Min(stop)

\* A running compressor has its input at 0, its output at 1, /dev/null at 2 and
\* nothing else; an end it inherited would keep a pipe from ever ending, however
\* the descriptors 0 to 2 were used before (elfcore.c:1544-1575).
CompressorHoldsOnlyItsPipes ==
  cpc = "running" =>
    tab["child"] = [f \in Fd |-> CASE f = 0 -> "ir" [] f = 1 -> "ow" [] f = 2 -> "null"
                                   [] OTHER -> "free"]

\* The child moves a descriptor when two of 0 to 2 were closed at the call.
Moves == Cardinality({f \in 0 .. 2 : first[f] = "free"}) >= 2

\* When the call returns the process has the descriptors it had before, and the
\* one it is given until the client is done with it, unless the child moved
\* descriptors whose numbers it shares with its parent (elfcore.c:1660-1750,
\* 2236-2240, 2312-2316, 2367-2372).
DescriptorsAreRestored ==
  pc \in {"end", "eof", "closed"} /\ ~Moves =>
    tab[Dumper] = IF ~file /\ rc >= 0 /\ pc = "end"
                  THEN [first EXCEPT ![rc] = tab["app"][rc]] ELSE first

\* The result is the truth.  On success the selected compressor is the one that runs:
\* the first of the table that can be executed, or the empty entry before which none
\* can, or the end of an empty table (elfcore.c:1567-1633, 1700-1706, 2204-2233,
\* 2289-2291); and a file that is reported good is whole or as long as allowed, unless
\* the compressor was killed (elfcore.c:449-540, 2326-2365).  A call fails only if a
\* system call did, no compressor runs and none may be missing, or the search for one
\* cannot be reaped (elfcore.c:1713-1748).
ResultIsTruth ==
  /\ Returned =>
       IF rc >= 0 THEN selected = IF table = <<>> THEN 1 ELSE Chosen
       ELSE \/ faults > 0
            \/ table # <<>> /\ (Chosen = 0 \/ (ignored /\ table[Chosen].empty))
  /\ file /\ pc = "end" /\ rc = 0 => out = Blocks \/ max_length = 0 \/ died

\* A compressor died with its input full: poll reports the error at once, again
\* and again, and nothing looks at it (elfcore.c:454-505).
Spinning ==
  pc = "poll" /\ died /\ q["i"] = Cap /\ q["o"] = 0

\* The dumper closed the wrong number, because the child had moved the write end
\* of the status pipe: it now waits for an end of file it holds up itself, or
\* reads a closed descriptor (elfcore.c:1548-1551, 1703-1706).
WaitsForItself ==
  ppc = "read" /\ Moves /\ \E f \in Fd : tab["dumper"][f] = "sw"

\* The call returns, so the suspended threads are resumed, unless PipeWriter spins
\* on a dead compressor or CreatePipeline waits for itself (elfcore.c:449-510,
\* 1700-1706, 2216-2240).
CallReturns == <>(Returned \/ pc = "skipped" \/ Spinning \/ WaitsForItself)

\* The client of GetCoreDump gets to the end of the file or to its limit: no process
\* keeps the write end of the pipe open (elfcore.c:1570-1575, 2182-2187, 2206-2207).
\* Without a failure it then has the core, or as much of it as it wanted
\* (elfcore.c:2112-2214).
ReaderGetsTheCore ==
  (pc = "end" /\ ~file /\ rc >= 0) ~>
    (pc \in {"eof", "closed"} /\ (faults = 0 => out = Blocks \/ max_length = 0))
=============================================================================

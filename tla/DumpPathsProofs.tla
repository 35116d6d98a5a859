-------------------------- MODULE DumpPathsProofs --------------------------
(***************************************************************************)
(* Proofs about DumpPaths, for every table of compressors, every set of    *)
(* descriptors open at the call, every size of the core and of the pipes.  *)
(***************************************************************************)
EXTENDS DumpPaths, FiniteSetTheorems, WellFoundedInduction, TLAPS

\* Most steps are first-order reasoning over sets and functions; those with
\* arithmetic or sequences name SMT.
USE Zenon

-----------------------------------------------------------------------------
(* The inductive invariant. *)

\* A descriptor number, or none.
Num == Fd \cup {-1}

\* The types the steps rely on.
Types ==
  /\ tab \in [Procs -> [Fd -> EndNames]] /\ first \in [Fd -> {"free", "old"}]
  /\ fds \in Num \X Num /\ zip_in \in Num \X Num /\ zip_out \in Num \X Num
  /\ table \in Seq(Entry) /\ trying \in Nat /\ found \in Nat /\ status \in Seq(Nat)
  /\ faults \in Nat /\ rc \in Int /\ file \in BOOLEAN /\ ignored \in BOOLEAN
  /\ mail # <<>> => mail[1] \in EndNames

\* CreatePipeline before the clone, and up to its return.
Opening == {"pipe", "zip_in", "zip_out", "clone"}
Making  == Opening \cup {"close", "read", "decide", "reap"}

\* The writer of a file after CreatePipeline.
Writing == {"direct", "poll", "drain", "push", "endpipe", "flush", "close"}

\* Which of the program counters can be where at the same time.
Control ==
  /\ pc \in IF file THEN {"begin", "create", "open", "end"} \cup Writing
            ELSE {"begin", "skipped", "fork", "recv", "end", "copy", "eof", "closed"}
  /\ dpc \in IF file THEN {"none"} ELSE {"none", "create", "send", "write", "gone"}
  /\ ppc \in Making \cup {"idle", "ok", "failed"}
  /\ cpc \in {"none", "start", "move", "stdio", "report", "exec", "exit", "running",
              "closed", "exited"}
  /\ ppc \in Making => IF file THEN pc = "create" ELSE dpc = "create"
  /\ ppc = "idle" <=> IF file THEN pc = "begin" \/ (pc # "create" /\ table = <<>>)
                      ELSE dpc = "none"
  /\ pc \in {"begin", "fork", "skipped"} => dpc = "none"
  /\ dpc \in {"send", "write"} => ppc = "ok"
  /\ file /\ pc \in {"open"} \cup Writing => ppc \in {"ok", "idle"}
  /\ file /\ pc = "create" => table # <<>>
  /\ ppc \in {"idle"} \cup Opening => cpc = "none"
  /\ ppc \in (Making \ {"pipe"}) => table # <<>>
  /\ cpc # "none" => table # <<>>
  /\ ppc \in {"close", "read"} => cpc # "none"
  /\ table # <<>> /\ ppc \in {"decide", "reap", "ok"} => cpc \in {"running", "closed", "exited"}
  /\ cpc # "none" /\ ppc = "failed" => cpc \in {"running", "closed", "exited"}

\* Number n of process p is the end e.
At(p, n, e) == n \in Fd /\ tab[p][n] = e

\* The descriptors of the pipes in the process that makes them.  Numbers are taken
\* from below, so the later pipes have the higher ones.
Ends ==
  /\ ppc \in {"idle", "reap"} => fds = <<-1, -1>>
  /\ ppc = "idle" => zip_in = <<-1, -1>> /\ zip_out = <<-1, -1>>
  /\ ppc \in {"zip_in", "zip_out", "clone"} =>
       /\ At("dumper", fds[1], "sr") /\ At("dumper", fds[2], "sw")
       /\ fds[1] < fds[2]
  /\ ppc \in {"zip_out", "clone"} =>
       /\ At("dumper", zip_in[1], "ir") /\ At("dumper", zip_in[2], "iw")
       /\ fds[2] < zip_in[1] /\ zip_in[1] < zip_in[2]
  /\ ppc = "clone" =>
       /\ At("dumper", zip_out[1], "or") /\ At("dumper", zip_out[2], "ow")
       /\ zip_in[2] < zip_out[1] /\ zip_out[1] < zip_out[2]
  /\ ppc = "zip_in"  => \A f \in Fd : f <= fds[2] => tab["dumper"][f] # "free"
  /\ ppc = "zip_out" => \A f \in Fd : f <= zip_in[2] => tab["dumper"][f] # "free"
  /\ ppc \in {"close", "read", "decide"} =>
       /\ At("dumper", zip_in[2], "iw") /\ At("dumper", zip_out[1], "or")
       /\ {fds[2], zip_in[1], zip_out[2]} \cap {zip_in[2], zip_out[1]} = {}

\* The descriptors of the child; the numbers it moves to are new in its table.
Child ==
  /\ cpc = "start" => At("child", fds[1], "sr")
  /\ cpc \in {"start", "move"} =>
       At("child", zip_in[2], "iw") /\ At("child", zip_out[1], "or")
  /\ cpc \in {"start", "move", "stdio"} =>
       /\ At("child", fds[2], "sw") /\ At("child", zip_in[1], "ir")
       /\ At("child", zip_out[2], "ow") /\ zip_out[2] > 2
  /\ cpc = "stdio" => fds[2] > 2
  /\ cpc \in {"report", "exec", "exit"} =>
       /\ fds[2] \in Fd /\ fds[2] > 2
       /\ tab["child"] = [f \in Fd |-> IF f = 0 THEN "ir" ELSE IF f = 1 THEN "ow"
                                       ELSE IF f = 2 THEN "null"
                                       ELSE IF f = fds[2] THEN "sw" ELSE "free"]
  /\ cpc = "running" =>
       /\ 2 \in Fd
       /\ tab["child"] = [f \in Fd |-> IF f = 0 THEN "ir" ELSE IF f = 1 THEN "ow"
                                       ELSE IF f = 2 THEN "null" ELSE "free"]

\* The search ends at this entry without a compressor.
Ended(k) == IsNull(k) \/ IsEmpty(k)

\* The last entry the child reported, in the pipe or read.
Reported(k) ==
  IF status = <<>> THEN ppc # "close" /\ found = k ELSE status[Len(status)] = k

\* What a successful call selects, and the reasons to fail.
Right  == IF table = <<>> THEN 1 ELSE Chosen
Excuse == \/ faults > 0
          \/ table # <<>> /\ (Chosen = 0 \/ (ignored /\ table[Chosen].empty))

\* The search for a compressor, and what the dumper knows of it.
Search ==
  /\ trying \in 1 .. Len(table) + 1
  /\ \A k \in 1 .. trying - 1 : ~table[k].empty /\ ~CanExec(table[k])
  /\ cpc \in {"exec", "running"} => ~Ended(trying)
  /\ cpc = "running" => CanExec(table[trying])
  /\ cpc \in {"exit", "closed"} => Ended(trying)
  /\ cpc = "exited" => Ended(trying) \/ CanExec(table[trying])
  /\ cpc \in {"exec", "running", "exit", "closed", "exited"} => Reported(trying)
  /\ cpc \in {"none", "start", "move", "stdio"} => status = <<>>
  /\ ppc \in {"decide", "reap"} => status = <<>>
  /\ ppc = "reap" => IsEmpty(found)
  /\ ppc \in {"idle"} \cup Opening => found = 1
  /\ ppc = "ok" => found = Right
  /\ ppc = "failed" => Excuse
  /\ ppc \in {"reap", "failed"} /\ cpc # "none" => Ended(trying)

\* The socket of the forked process: no step of CreatePipeline closes it.
Socket ==
  \E b \in Fd :
    /\ tab["dumper"][b] = "b"
    /\ b \notin {fds[1], fds[2], zip_in[1], zip_in[2], zip_out[1], zip_out[2]}
    /\ cpc \in {"start", "move"} => tab["child"][b] = "b"

\* The result, on its way to the caller.
Result ==
  /\ mail # <<>> => mail[2] = Right
  /\ file /\ pc \in {"open"} \cup Writing => selected = Right
  /\ Returned => IF rc >= 0 THEN selected = Right ELSE Excuse
  /\ pc \in {"begin", "fork", "recv"} => rc = -1
  /\ pc = "recv" /\ mail = <<>> => dpc \in {"create", "send"} \/ Excuse

\* The forked process can still tell its parent.
SocketKept ==
  /\ dpc \in {"create", "send"} => Socket
  /\ dpc = "send" => fds[1] \in Fd

\* The table of p is that of the call, except for numbers X that were free then.
Owns(p, X) == \A f \in Fd : IF f \in X THEN first[f] = "free" ELSE tab[p][f] = first[f]

\* The numbers of process p that are one of the ends E.
Numbers(p, E) == {f \in Fd : tab[p][f] \in E}

\* A file is written: what the dumper has to close, unless the child moved it.
FileTable ==
  file /\ ~Moves =>
    /\ pc = "begin" \/ ppc \in {"pipe", "reap", "failed"} => Owns("dumper", {})
    /\ ppc = "zip_in" => Owns("dumper", {fds[1], fds[2]})
    /\ ppc = "zip_out" => Owns("dumper", Fail1)
    /\ ppc \in {"clone", "close"} => Owns("dumper", Fail1 \cup Zip)
    /\ ppc = "read" => Owns("dumper", {fds[1]} \cup Zip)
    /\ ppc = "decide" => Owns("dumper", Zip)
    /\ ppc \in {"zip_in", "zip_out", "clone", "close", "read"} => fds[2] > 2
    /\ ppc \in {"zip_out", "clone", "close", "read"} => zip_in[1] > 2
    /\ pc \in {"create", "open"} /\ ppc \in {"ok", "idle"} => Owns("dumper", {fds[1], fds[2]})
    /\ pc \in Writing =>
         Owns("dumper", {fds[1], fds[2]} \cup Numbers("dumper", {"file"}))
    /\ pc = "end" => Owns("dumper", {})

\* No file name: what the caller has besides its own descriptors.
CallerTable ==
  ~file =>
    /\ pc = "begin" => Owns("app", {})
    /\ pc = "fork" => Owns("app", Numbers("app", {"a", "b"})) /\ Numbers("app", {"b"}) # {}
    /\ pc = "recv" => Owns("app", Numbers("app", {"a"})) /\ Room(tab["app"])
    /\ pc = "end" => IF rc >= 0 THEN rc \in Fd /\ Owns("app", {rc}) ELSE Owns("app", {})
    /\ pc = "copy" => rc \in Fd /\ Owns("app", {rc} \cup Numbers("app", {"file"}))
    /\ pc \in {"eof", "closed"} => Owns("app", {})

\* With a file name: the ends the dumper uses are those of a compressor that was
\* executed.
FlowEnds ==
  file =>
    /\ pc = "direct" => fds[1] < 0
    /\ pc \in {"poll", "drain", "push", "endpipe", "flush"} => table # <<>> /\ fds[1] >= 0
    /\ ppc = "ok" => IF fds[1] >= 0 THEN ~Ended(trying) ELSE Ended(trying)
    /\ ppc = "ok" /\ fds[1] >= 0 /\ pc \in {"create", "open", "poll", "drain", "push", "endpipe"} =>
         At("dumper", fds[1], "or") /\ At("dumper", fds[2], "iw") /\ fds[1] # fds[2]
    /\ pc = "flush" => At("dumper", fds[1], "or")

\* The blocks of a core on their way through the compressor to the file.
InTransit == left + q["i"] + held + q["o"] + out

\* With a file name: while the compressor is fed it only ends by being killed, and
\* no block is lost as long as the result is good.
Flow ==
  file =>
    /\ left \in Nat /\ held \in Nat /\ out \in Nat /\ max_length \in Nat
    /\ q \in [Pipes -> Nat] /\ died \in BOOLEAN
    /\ rc \in {-1, 0} /\ (died => faults > 0)
    /\ pc \in {"create", "open", "direct", "poll", "drain", "push"} => rc = -1
    /\ pc \in {"begin", "create", "open"} =>
         left = Blocks /\ out = 0 /\ held = 0 /\ q["i"] = 0 /\ q["o"] = 0
    /\ pc = "direct" => left + out = Blocks
    /\ pc \in {"drain", "push"} => left > 0
    /\ pc \in {"create", "open", "poll", "drain", "push", "endpipe"} /\ cpc = "exited" =>
         died \/ Ended(trying)
    /\ pc = "flush" /\ cpc = "exited" => died \/ Ended(trying) \/ (held = 0 /\ q["i"] = 0)
    /\ pc \in {"poll", "drain", "push"} \/ (pc \in {"endpipe", "flush"} /\ rc = 0) =>
         InTransit = Blocks
    /\ pc \in {"endpipe", "flush"} /\ rc = 0 => left = 0 \/ max_length = 0
    /\ pc \in {"endpipe", "flush", "close"} /\ rc = -1 => faults > 0
    /\ pc \in {"close", "end"} /\ rc = 0 => out = Blocks \/ max_length = 0 \/ died

Inv ==
  /\ Types /\ Control /\ Ends /\ Child /\ Search /\ Result /\ SocketKept
  /\ FileTable /\ CallerTable /\ FlowEnds /\ Flow

-----------------------------------------------------------------------------
(* Facts about descriptor tables and the table of compressors. *)

\* The ends have names.
LEMMA EndsAreNames ==
  /\ "free" \in EndNames /\ "old" \in EndNames /\ "null" \in EndNames
  /\ "file" \in EndNames /\ "a" \in EndNames /\ "b" \in EndNames
  /\ "sr" \in EndNames /\ "sw" \in EndNames /\ "ir" \in EndNames
  /\ "iw" \in EndNames /\ "or" \in EndNames /\ "ow" \in EndNames
  /\ "nr" \in EndNames /\ "nw" \in EndNames
BY SMT DEF EndNames

\* Min of a set of naturals is its smallest element.
LEMMA MinIsElement ==
  ASSUME NEW S \in SUBSET Nat, S # {}
  PROVE  Min(S) \in S /\ \A y \in S : Min(S) <= y
<1> DEFINE Less == {ss \in Nat \X Nat : ss[1] < ss[2]}
<1>1. IsWellFoundedOn(Less, Nat)
  BY NatLessThanWellFounded, SMT DEF OpToRel
<1>2. PICK x \in S : \A y \in S : ~(<<y, x>> \in Less)
  <2> HIDE DEF Less
  <2> QED BY <1>1, WFMin
<1>3. ASSUME NEW y \in S PROVE x <= y
  <2>1. <<y, x>> \in Nat \X Nat /\ <<y, x>>[1] = y /\ <<y, x>>[2] = x
    BY SMT
  <2>2. ~(y < x)
    BY <1>2, <2>1
  <2> QED
    BY <2>2, SMT
<1> QED
  BY <1>3 DEF Min

\* The lowest free number is free, if any is (dup, open).
LEMMA LowestIsFree ==
  ASSUME NEW t, Room(t)
  PROVE  Lowest(t) \in Fd /\ t[Lowest(t)] = "free" /\ \A f \in Fd : f < Lowest(t) => t[f] # "free"
<1>1. Free(t) \in SUBSET Nat /\ Free(t) # {}
  BY PipelineAssumption, SMT DEF Room, Free, Fd
<1>2. Min(Free(t)) \in Free(t) /\ \A y \in Free(t) : Min(Free(t)) <= y
  BY <1>1, MinIsElement
<1>3. Lowest(t) \in Free(t)
  BY <1>2 DEF Lowest
<1>4. ASSUME NEW f \in Fd, f < Lowest(t), t[f] = "free" PROVE FALSE
  <2>1. f \in Free(t)
    BY <1>4 DEF Free
  <2> QED
    BY <1>1, <1>2, <1>4, <2>1, SMT DEF Lowest
<1> QED
  BY <1>3, <1>4 DEF Free

\* pipe, socketpair: two numbers that were free get the ends, and none below the
\* second is free any more.
LEMMA PipeMakes ==
  ASSUME NEW t \in [Fd -> EndNames], Room2(t), NEW r \in EndNames, NEW w \in EndNames
  PROVE  /\ Lowest(t) \in Fd /\ Second(t) \in Fd /\ Lowest(t) < Second(t)
         /\ t[Lowest(t)] = "free" /\ t[Second(t)] = "free"
         /\ \A f \in Fd : f < Second(t) /\ f # Lowest(t) => t[f] # "free"
         /\ Pipe(t, r, w) \in [Fd -> EndNames]
         /\ \A f \in Fd : Pipe(t, r, w)[f] = IF f = Lowest(t) THEN r
                                             ELSE IF f = Second(t) THEN w ELSE t[f]
<1> DEFINE l == Lowest(t)
           s == Second(t)
           rest == Free(t) \ {l}
<1>1. Room(t)
  BY SMT DEF Room, Room2
<1>2. l \in Fd /\ t[l] = "free" /\ \A f \in Fd : f < l => t[f] # "free"
  BY <1>1, LowestIsFree
<1>3. rest \in SUBSET Nat
  BY PipelineAssumption, SMT DEF Free, Fd
<1>4. rest # {}
  BY DEF Room2
<1>5. s \in rest /\ \A y \in rest : s <= y
  BY <1>3, <1>4, MinIsElement DEF Second
<1>6. s \in Fd /\ t[s] = "free" /\ s # l
  BY <1>5 DEF Free
<1>7. l < s
  BY <1>2, <1>6, PipelineAssumption, SMT DEF Fd
<1>8. ASSUME NEW f \in Fd, f < s, f # l PROVE t[f] # "free"
  <2>1. t[f] = "free" => f \in rest
    BY <1>8 DEF Free
  <2> QED
    BY <1>3, <1>5, <1>8, <2>1, SMT
<1>9. /\ Pipe(t, r, w) \in [Fd -> EndNames]
      /\ \A f \in Fd : Pipe(t, r, w)[f] = IF f = l THEN r ELSE IF f = s THEN w ELSE t[f]
  <2> HIDE DEF l, s
  <2>1. Pipe(t, r, w) = [t EXCEPT ![l] = r, ![s] = w]
    BY DEF Pipe, l, s
  <2> QED
    BY <1>2, <1>6, <2>1, SMT
<1> QED
  BY <1>2, <1>6, <1>7, <1>8, <1>9

\* close frees the numbers and leaves the others.
LEMMA CloseFrees ==
  ASSUME NEW t \in [Fd -> EndNames], NEW X
  PROVE  /\ Close(t, X) \in [Fd -> EndNames]
         /\ \A f \in Fd : Close(t, X)[f] = IF f \in X THEN "free" ELSE t[f]
<1>1. "free" \in EndNames
  BY EndsAreNames
<1> QED
  BY <1>1 DEF Close

\* One table is written, the others stay.
LEMMA TabStep ==
  ASSUME Types, NEW p \in Procs, NEW t \in [Fd -> EndNames], tab' = [tab EXCEPT ![p] = t]
  PROVE  /\ tab' \in [Procs -> [Fd -> EndNames]] /\ tab'[p] = t
         /\ \A r \in Procs : r # p => tab'[r] = tab[r]
BY DEF Types

\* The processes.
LEMMA ProcNames ==
  /\ "app" \in Procs /\ "dumper" \in Procs /\ "child" \in Procs
  /\ "app" # "dumper" /\ "app" # "child" /\ "dumper" # "child"
BY DEF Procs

\* The entry at which the search ends is the one chosen.
LEMMA ChosenIs ==
  ASSUME Types, Search, cpc \in {"running", "closed", "exited"}
  PROVE  Chosen = IF trying = Last(table) THEN 0 ELSE trying
<1> DEFINE stop == {k \in 1 .. Len(table) : table[k].empty \/ CanExec(table[k])}
<1>1. Len(table) \in Nat /\ trying \in 1 .. Len(table) + 1
  BY SMT DEF Types, Search
<1>2. ASSUME NEW k \in stop PROVE k >= trying
  <2>1. \A i \in 1 .. trying - 1 : ~table[i].empty /\ ~CanExec(table[i])
    BY DEF Search
  <2>2. k \notin 1 .. trying - 1
    BY <2>1
  <2> QED
    BY <1>1, <2>2, SMT
<1>3. CASE trying = Last(table)
  <2>1. stop = {}
    BY <1>1, <1>2, <1>3, SMT DEF Last
  <2> QED
    BY <1>3, <2>1 DEF Chosen
<1>4. CASE trying # Last(table)
  <2>1. trying \in 1 .. Len(table)
    BY <1>1, <1>4, SMT DEF Last
  <2>2. Ended(trying) \/ CanExec(table[trying])
    BY DEF Search
  <2>3. ~IsNull(trying)
    BY <1>4, <2>1, SMT DEF IsNull
  <2>4. trying \in stop
    BY <2>1, <2>2, <2>3 DEF Ended, IsEmpty
  <2>5. stop \in SUBSET Nat
    BY SMT
  <2>6. Min(stop) \in stop /\ Min(stop) <= trying
    BY <2>4, <2>5, MinIsElement
  <2>7. Min(stop) >= trying
    BY <1>2, <2>6
  <2>8. Min(stop) = trying
    <3>1. Min(stop) \in Nat /\ trying \in Nat
      BY <1>1, <2>5, <2>6, SMT
    <3> QED
      BY <2>6, <2>7, <3>1, SMT
  <2> QED
    BY <1>4, <2>4, <2>8 DEF Chosen
<1> QED
  BY <1>3, <1>4


\* The reasons to fail do not go away, and the right answer stays.
LEMMA ExcuseFrame ==
  ASSUME UNCHANGED <<table, ignored>>, faults > 0 => faults' > 0
  PROVE  Right' = Right /\ (Excuse => Excuse')
<1>1. Chosen' = Chosen
  BY DEF Chosen, CanExec
<1> QED
  BY <1>1 DEF Right, Excuse

\* What a step that concerns neither the caller nor its result leaves as it is.
LEMMA CallerFrame ==
  ASSUME Inv, UNCHANGED <<file, pc, dpc, rc, selected, mail, table, first, ignored>>,
         tab'["app"] = tab["app"], faults > 0 => faults' > 0
  PROVE  Result' /\ CallerTable'
<1>1. Right' = Right /\ (Excuse => Excuse')
  BY ExcuseFrame
<1>2. Result'
  BY <1>1 DEF Inv, Result, Returned
<1>3. CallerTable'
  BY DEF Inv, CallerTable, Owns, Numbers, Room, Free
<1> QED
  BY <1>2, <1>3

\* What a step of CreatePipeline or of its child leaves as it is.
LEMMA PipelineFrame ==
  ASSUME Inv, UNCHANGED pathVars, UNCHANGED <<table, first, ignored>>,
         tab'["app"] = tab["app"], faults > 0 => faults' > 0,
         cpc' = "exited" => (cpc = "exited" /\ trying' = trying) \/ Ended(trying)'
  PROVE  Result' /\ CallerTable' /\ Flow'
<1>1. UNCHANGED <<file, pc, dpc, left, q, held, out, max_length, died, rc, selected, mail>>
  BY DEF pathVars, data
<1>2. Result' /\ CallerTable'
  BY <1>1, CallerFrame
<1>3. InTransit' = InTransit
  BY <1>1 DEF InTransit
<1>4. cpc' = "exited" => (cpc = "exited" /\ (Ended(trying) => Ended(trying)')) \/ Ended(trying)'
  BY DEF Ended, IsNull, IsEmpty
<1>5. Flow'
  BY <1>1, <1>3, <1>4 DEF Inv, Flow
<1> QED
  BY <1>2, <1>5

\* What a step that does not concern the dumper leaves as it is.
LEMMA DumperFrame ==
  ASSUME Inv, UNCHANGED <<file, pc, table, first, ppc, fds, zip_in, zip_out>>,
         tab'["dumper"] = tab["dumper"], trying' = trying \/ ppc \in {"close", "read"}
  PROVE  Ends' /\ FileTable' /\ FlowEnds'
<1>1. Ends'
  BY DEF Inv, Ends, At
<1>2. FileTable'
  <2>1. /\ Owns("dumper", {})' = Owns("dumper", {})
        /\ Owns("dumper", {fds[1], fds[2]})' = Owns("dumper", {fds[1], fds[2]})
        /\ Owns("dumper", {fds[1]} \cup Zip)' = Owns("dumper", {fds[1]} \cup Zip)
    BY DEF Owns, Zip
  <2>2. /\ Owns("dumper", Fail1)' = Owns("dumper", Fail1)
        /\ Owns("dumper", Zip)' = Owns("dumper", Zip)
        /\ Owns("dumper", Fail1 \cup Zip)' = Owns("dumper", Fail1 \cup Zip)
    BY DEF Owns, Zip, Fail1
  <2>3. Owns("dumper", {fds[1], fds[2]} \cup Numbers("dumper", {"file"}))'
          = Owns("dumper", {fds[1], fds[2]} \cup Numbers("dumper", {"file"}))
    BY DEF Owns, Numbers
  <2> QED
    BY <2>1, <2>2, <2>3 DEF Inv, FileTable, Moves
<1>3. FlowEnds'
  <2>1. trying' = trying => Ended(trying)' = Ended(trying)
    BY DEF Ended, IsNull, IsEmpty
  <2> QED
    BY <2>1 DEF Inv, FlowEnds, At
<1> QED
  BY <1>1, <1>2, <1>3

\* A step that makes a pipe in the table of p.
LEMMA TabPipe ==
  ASSUME Types, NEW p \in Procs, Room2(tab[p]), NEW r \in EndNames, NEW w \in EndNames,
         tab' = [tab EXCEPT ![p] = Pipe(@, r, w)]
  PROVE  /\ tab' \in [Procs -> [Fd -> EndNames]]
         /\ \A o \in Procs : o # p => tab'[o] = tab[o]
         /\ Lowest(tab[p]) \in Fd /\ Second(tab[p]) \in Fd /\ Lowest(tab[p]) < Second(tab[p])
         /\ tab[p][Lowest(tab[p])] = "free" /\ tab[p][Second(tab[p])] = "free"
         /\ \A f \in Fd : f < Second(tab[p]) /\ f # Lowest(tab[p]) => tab[p][f] # "free"
         /\ \A f \in Fd : tab'[p][f] = IF f = Lowest(tab[p]) THEN r
                                       ELSE IF f = Second(tab[p]) THEN w ELSE tab[p][f]
<1> DEFINE t == Pipe(tab[p], r, w)
<1>1. tab[p] \in [Fd -> EndNames]
  BY DEF Types
<1>2. /\ Lowest(tab[p]) \in Fd /\ Second(tab[p]) \in Fd /\ Lowest(tab[p]) < Second(tab[p])
      /\ tab[p][Lowest(tab[p])] = "free" /\ tab[p][Second(tab[p])] = "free"
      /\ \A f \in Fd : f < Second(tab[p]) /\ f # Lowest(tab[p]) => tab[p][f] # "free"
  BY <1>1, PipeMakes
<1>3. t \in [Fd -> EndNames]
  BY <1>1, PipeMakes
<1>4. \A f \in Fd : t[f] = IF f = Lowest(tab[p]) THEN r
                           ELSE IF f = Second(tab[p]) THEN w ELSE tab[p][f]
  <2> DEFINE l == Lowest(tab[p])
             s == Second(tab[p])
             u == tab[p]
  <2>1. t = [u EXCEPT ![l] = r, ![s] = w]
    BY DEF Pipe
  <2>2. l \in Fd /\ s \in Fd /\ u \in [Fd -> EndNames]
    BY <1>1, <1>2
  <2> HIDE DEF l, s, u, t
  <2>3. \A f \in Fd : t[f] = IF f = l THEN r ELSE IF f = s THEN w ELSE u[f]
    BY <2>1, <2>2, SMT
  <2> QED
    BY <2>3 DEF l, s, u
<1> HIDE DEF t
<1>5. tab' = [tab EXCEPT ![p] = t]
  BY DEF t
<1>6. /\ tab' \in [Procs -> [Fd -> EndNames]] /\ tab'[p] = t
      /\ \A o \in Procs : o # p => tab'[o] = tab[o]
  BY <1>3, <1>5, TabStep
<1> QED
  BY <1>2, <1>4, <1>6

\* A step that closes numbers in the table of p.
LEMMA TabClose ==
  ASSUME Types, NEW p \in Procs, NEW X, tab' = [tab EXCEPT ![p] = Close(@, X)]
  PROVE  /\ tab' \in [Procs -> [Fd -> EndNames]]
         /\ \A o \in Procs : o # p => tab'[o] = tab[o]
         /\ \A f \in Fd : tab'[p][f] = IF f \in X THEN "free" ELSE tab[p][f]
<1> DEFINE t == Close(tab[p], X)
<1>1. tab[p] \in [Fd -> EndNames]
  BY DEF Types
<1>2. t \in [Fd -> EndNames] /\ \A f \in Fd : t[f] = IF f \in X THEN "free" ELSE tab[p][f]
  BY <1>1, CloseFrees, SMT
<1> HIDE DEF t
<1>3. tab' = [tab EXCEPT ![p] = t]
  BY DEF t
<1> QED
  BY <1>2, <1>3, TabStep

\* A step that takes the lowest free number of the table of p for e.
LEMMA TabOpen ==
  ASSUME Types, NEW p \in Procs, Room(tab[p]), NEW e \in EndNames,
         tab' = [tab EXCEPT ![p] = [@ EXCEPT ![Lowest(@)] = e]]
  PROVE  /\ tab' \in [Procs -> [Fd -> EndNames]]
         /\ \A o \in Procs : o # p => tab'[o] = tab[o]
         /\ Lowest(tab[p]) \in Fd /\ tab[p][Lowest(tab[p])] = "free"
         /\ \A f \in Fd : tab'[p][f] = IF f = Lowest(tab[p]) THEN e ELSE tab[p][f]
<1> DEFINE t == [tab[p] EXCEPT ![Lowest(tab[p])] = e]
<1>1. tab[p] \in [Fd -> EndNames]
  BY DEF Types
<1>2. Lowest(tab[p]) \in Fd /\ tab[p][Lowest(tab[p])] = "free"
  BY LowestIsFree
<1>3. t \in [Fd -> EndNames] /\ \A f \in Fd : t[f] = IF f = Lowest(tab[p]) THEN e ELSE tab[p][f]
  BY <1>1, <1>2, SMT
<1> HIDE DEF t
<1>4. tab' = [tab EXCEPT ![p] = t]
  BY DEF t
<1> QED
  BY <1>2, <1>3, <1>4, TabStep

\* Of two numbers free at the call the second is above 2, unless the child moves one.
LEMMA SecondIsHigh ==
  ASSUME ~Moves, NEW l \in Fd, NEW s \in Fd, l < s, first[l] = "free", first[s] = "free"
  PROVE  s > 2
<1> DEFINE low == {f \in 0 .. 2 : first[f] = "free"}
<1>1. SUFFICES ASSUME ~(s > 2) PROVE FALSE
  OBVIOUS
<1>2. l \in 0 .. 2 /\ s \in 0 .. 2 /\ l # s
  BY <1>1, SMT DEF Fd
<1>3. IsFiniteSet(0 .. 2)
  <2>1. 0 \in Int /\ 2 \in Int
    BY SMT
  <2> QED
    BY <2>1, FS_Interval
<1>4. IsFiniteSet(low)
  BY <1>3, FS_Subset
<1>5. {l, s} \subseteq low
  BY <1>2
<1>6. IsFiniteSet({l, s}) /\ Cardinality({l, s}) <= Cardinality(low)
  BY <1>4, <1>5, FS_Subset
<1>7. Cardinality({l, s}) = 2
  <2>1. IsFiniteSet({l}) /\ Cardinality({l}) = 1
    BY FS_Singleton
  <2>2. {l} \cup {s} = {l, s} /\ s \notin {l}
    BY <1>2
  <2> QED
    BY <2>1, <2>2, FS_AddElement, SMT
<1>8. Cardinality(low) \in Nat
  BY <1>4, FS_CardinalityType
<1> QED
  BY <1>6, <1>7, <1>8, SMT DEF Moves

-----------------------------------------------------------------------------
(* CreatePipeline keeps the invariant. *)

\* The status pipe (elfcore.c:1643-1660).
LEMMA StatusPipeKeeps ==
  ASSUME Inv, StatusPipe, UNCHANGED pathVars
  PROVE  Inv'
<1>a. /\ ppc = "pipe" /\ cpc = "none" /\ cpc' = cpc /\ file \in BOOLEAN
      /\ UNCHANGED <<table, first, zip_in, zip_out, trying, status, found, ignored>>
      /\ UNCHANGED <<file, pc, dpc, mail, rc>>
      /\ IF file THEN pc = "create" /\ table # <<>> ELSE dpc = "create"
  BY DEF Inv, Types, Control, Opening, Making, StatusPipe, pathVars, childVars
<1>1. CASE /\ Room2(tab["dumper"])
           /\ tab' = [tab EXCEPT !["dumper"] = Pipe(@, "sr", "sw")]
           /\ fds' = PipeFds(tab["dumper"])
           /\ ppc' = IF table # <<>> THEN "zip_in" ELSE "ok"
           /\ UNCHANGED faults
  <2>1. /\ tab' \in [Procs -> [Fd -> EndNames]]
        /\ tab'["child"] = tab["child"] /\ tab'["app"] = tab["app"]
    BY <1>1, TabPipe, ProcNames, EndsAreNames DEF Inv
  <2> DEFINE l == Lowest(tab["dumper"])
             s == Second(tab["dumper"])
  <2>2. /\ l \in Fd /\ s \in Fd /\ l < s
        /\ tab["dumper"][l] = "free" /\ tab["dumper"][s] = "free"
        /\ \A f \in Fd : f < s /\ f # l => tab["dumper"][f] # "free"
        /\ \A f \in Fd : tab'["dumper"][f] = IF f = l THEN "sr" ELSE IF f = s THEN "sw"
                                             ELSE tab["dumper"][f]
    BY <1>1, TabPipe, ProcNames, EndsAreNames DEF Inv
  <2>3. fds' = <<l, s>> /\ fds'[1] = l /\ fds'[2] = s
    BY <1>1, SMT DEF PipeFds
  <2> HIDE DEF l, s
  <2>4. Types'
    BY <1>a, <1>1, <2>1, <2>2, <2>3, SMT DEF Inv, Types, Num
  <2>5. Control'
    BY <1>a, <1>1 DEF Inv, Control, Making, Opening
  <2>6. Ends'
    BY <1>a, <1>1, <2>2, <2>3, SMT DEF Ends, At, Fd
  <2>7. Child'
    BY <1>a DEF Child
  <2>8. Search'
    BY <1>a, <1>1, ExcuseFrame DEF Inv, Search, Right, Opening, Reported
  <2>9. SocketKept'
    BY <1>a, <2>2, <2>3 DEF Inv, SocketKept, Socket
  <2>10. FileTable'
    <3> SUFFICES ASSUME file, ~Moves PROVE FileTable'
      BY <1>a DEF FileTable, Moves
    <3>1. Owns("dumper", {})
      BY <1>a DEF Inv, FileTable
    <3>2. first[l] = "free" /\ first[s] = "free"
      BY <2>2, <3>1 DEF Owns
    <3>3. Owns("dumper", {fds[1], fds[2]})'
      BY <1>a, <2>2, <2>3, <3>1, <3>2 DEF Owns
    <3>4. fds'[2] > 2
      BY <2>2, <2>3, <3>2, SecondIsHigh
    <3> QED
      BY <1>a, <1>1, <3>3, <3>4 DEF FileTable, Writing
  <2>11. FlowEnds'
    BY <1>a, <1>1 DEF FlowEnds
  <2>12. Result' /\ CallerTable' /\ Flow'
    BY <1>a, <1>1, <2>1, PipelineFrame
  <2> QED
    BY <2>4, <2>5, <2>6, <2>7, <2>8, <2>9, <2>10, <2>11, <2>12 DEF Inv
<1>2. CASE Fault /\ Return("failed") /\ UNCHANGED <<tab, fds>>
  <2>1. Types' /\ faults' > 0
    BY <1>a, <1>2, SMT DEF Inv, Types, Fault
  <2>2. Control'
    BY <1>a, <1>2 DEF Inv, Control, Return, Opening, Making
  <2>3. Ends'
    BY <1>a, <1>2 DEF Ends, Return
  <2>4. Child'
    BY <1>a DEF Child
  <2>5. Search'
    BY <1>a, <1>2, <2>1 DEF Inv, Search, Return, Excuse, Opening, Making
  <2>6. SocketKept'
    BY <1>a, <1>2 DEF Inv, SocketKept, Socket
  <2>7. FileTable'
    BY <1>a, <1>2 DEF Inv, FileTable, Return, Owns, Moves, Writing
  <2>8. FlowEnds'
    BY <1>a, <1>2 DEF FlowEnds, Return
  <2>9. Result' /\ CallerTable' /\ Flow'
    BY <1>a, <1>2, <2>1, PipelineFrame
  <2> QED
    BY <2>1, <2>2, <2>3, <2>4, <2>5, <2>6, <2>7, <2>8, <2>9 DEF Inv
<1> QED
  BY <1>1, <1>2 DEF StatusPipe

\* A failure before the clone closes the pipes made so far (elfcore.c:1662-1698, fail0,
\* fail1).
LEMMA GivesUp ==
  ASSUME Inv, UNCHANGED pathVars, ppc \in {"zip_in", "zip_out", "clone"},
         UNCHANGED <<table, first, pipeVars, childVars, status, found, ignored>>,
         Fault, Return("failed"), NEW X,
         tab' = [tab EXCEPT !["dumper"] = Close(@, X)],
         X \subseteq {fds[1], fds[2], zip_in[1], zip_in[2], zip_out[1], zip_out[2]},
         file /\ ~Moves => Owns("dumper", X)
  PROVE  Inv'
<1>a. /\ cpc = "none" /\ cpc' = cpc /\ file \in BOOLEAN /\ ppc' = "failed"
      /\ UNCHANGED <<fds, zip_in, zip_out, trying>>
      /\ UNCHANGED <<file, pc, dpc, mail, rc>>
      /\ IF file THEN pc = "create" /\ table # <<>> ELSE dpc = "create"
  BY DEF Inv, Types, Control, Opening, Making, Return, pathVars, childVars, pipeVars
<1>1. /\ tab' \in [Procs -> [Fd -> EndNames]]
      /\ tab'["child"] = tab["child"] /\ tab'["app"] = tab["app"]
      /\ \A f \in Fd : tab'["dumper"][f] = IF f \in X THEN "free" ELSE tab["dumper"][f]
  BY TabClose, ProcNames DEF Inv
<1>2. Types' /\ faults' > 0
  BY <1>a, <1>1, SMT DEF Inv, Types, Fault
<1>3. Control'
  BY <1>a DEF Inv, Control, Opening, Making
<1>4. Ends'
  BY <1>a DEF Ends
<1>5. Child'
  BY <1>a DEF Child
<1>6. Search'
  BY <1>a, <1>2 DEF Inv, Search, Excuse, Opening, Making
<1>7. SocketKept'
  BY <1>a, <1>1 DEF Inv, SocketKept, Socket
<1>8. FileTable'
  <2>1. file /\ ~Moves => Owns("dumper", {})'
    BY <1>1 DEF Owns
  <2> QED
    BY <1>a, <2>1 DEF FileTable, Moves, Writing
<1>9. FlowEnds'
  BY <1>a DEF FlowEnds
<1>10. Result' /\ CallerTable' /\ Flow'
  BY <1>a, <1>1, <1>2, PipelineFrame
<1> QED
  BY <1>2, <1>3, <1>4, <1>5, <1>6, <1>7, <1>8, <1>9, <1>10 DEF Inv

\* The input of the compressor (elfcore.c:1662-1669).
LEMMA ZipInKeeps ==
  ASSUME Inv, ZipIn, UNCHANGED pathVars
  PROVE  Inv'
<1>a. /\ ppc = "zip_in" /\ cpc = "none" /\ cpc' = cpc /\ file \in BOOLEAN /\ table # <<>>
      /\ UNCHANGED <<table, first, fds, zip_out, trying, status, found, ignored>>
      /\ UNCHANGED <<file, pc, dpc, mail, rc>>
      /\ IF file THEN pc = "create" ELSE dpc = "create"
  BY DEF Inv, Types, Control, Opening, Making, ZipIn, pathVars, childVars
<1>1. CASE /\ Room2(tab["dumper"])
           /\ tab' = [tab EXCEPT !["dumper"] = Pipe(@, "ir", "iw")]
           /\ zip_in' = PipeFds(tab["dumper"])
           /\ ppc' = "zip_out" /\ UNCHANGED faults
  <2>1. /\ tab' \in [Procs -> [Fd -> EndNames]]
        /\ tab'["child"] = tab["child"] /\ tab'["app"] = tab["app"]
    BY <1>1, TabPipe, ProcNames, EndsAreNames DEF Inv
  <2> DEFINE l == Lowest(tab["dumper"])
             s == Second(tab["dumper"])
  <2>2. /\ l \in Fd /\ s \in Fd /\ l < s
        /\ tab["dumper"][l] = "free" /\ tab["dumper"][s] = "free"
        /\ \A f \in Fd : f < s /\ f # l => tab["dumper"][f] # "free"
        /\ \A f \in Fd : tab'["dumper"][f] = IF f = l THEN "ir" ELSE IF f = s THEN "iw"
                                             ELSE tab["dumper"][f]
    BY <1>1, TabPipe, ProcNames, EndsAreNames DEF Inv
  <2>3. zip_in' = <<l, s>> /\ zip_in'[1] = l /\ zip_in'[2] = s
    BY <1>1, SMT DEF PipeFds
  <2> HIDE DEF l, s
  <2>b. /\ At("dumper", fds[1], "sr") /\ At("dumper", fds[2], "sw") /\ fds[1] < fds[2]
        /\ \A f \in Fd : f <= fds[2] => tab["dumper"][f] # "free"
    BY <1>a DEF Inv, Ends
  <2>4. Types'
    BY <1>a, <1>1, <2>1, <2>2, <2>3, SMT DEF Inv, Types, Num
  <2>5. Control'
    BY <1>a, <1>1 DEF Inv, Control, Making, Opening
  <2>6. Ends'
    <3>1. At("dumper", fds[1], "sr")' /\ At("dumper", fds[2], "sw")'
      BY <1>a, <2>2, <2>b DEF At
    <3>2. At("dumper", zip_in[1], "ir")' /\ At("dumper", zip_in[2], "iw")'
      BY <2>2, <2>3, SMT DEF At, Fd
    <3>3. fds[2] < l
      BY <2>2, <2>b, SMT DEF At, Fd
    <3>4. ASSUME NEW f \in Fd, f <= s PROVE tab'["dumper"][f] # "free"
      BY <2>2, <3>4, SMT DEF Fd
    <3> QED
      BY <1>a, <1>1, <2>2, <2>3, <2>b, <3>1, <3>2, <3>3, <3>4 DEF Ends
  <2>7. Child'
    BY <1>a DEF Child
  <2>8. Search'
    BY <1>a, <1>1 DEF Inv, Search, Opening, Reported
  <2>9. SocketKept'
    BY <1>a, <2>2, <2>3 DEF Inv, SocketKept, Socket
  <2>10. FileTable'
    <3> SUFFICES ASSUME file, ~Moves PROVE FileTable'
      BY <1>a DEF FileTable, Moves
    <3>1. Owns("dumper", {fds[1], fds[2]}) /\ fds[2] > 2
      BY <1>a DEF Inv, FileTable
    <3>2. first[l] = "free" /\ first[s] = "free"
      BY <2>2, <3>1 DEF Owns
    <3>3. Owns("dumper", Fail1)'
      BY <1>a, <2>2, <2>3, <3>1, <3>2 DEF Owns, Fail1
    <3>4. zip_in'[1] > 2
      BY <2>2, <2>3, <2>b, <3>1, SMT DEF At, Fd
    <3> QED
      BY <1>a, <1>1, <3>1, <3>3, <3>4 DEF FileTable, Writing
  <2>11. FlowEnds'
    BY <1>a, <1>1 DEF FlowEnds
  <2>12. Result' /\ CallerTable' /\ Flow'
    BY <1>a, <1>1, <2>1, PipelineFrame
  <2> QED
    BY <2>4, <2>5, <2>6, <2>7, <2>8, <2>9, <2>10, <2>11, <2>12 DEF Inv
<1>2. CASE /\ Fault /\ Return("failed")
           /\ tab' = [tab EXCEPT !["dumper"] = Close(@, {fds[1], fds[2]})]
           /\ UNCHANGED zip_in
  <2>1. file /\ ~Moves => Owns("dumper", {fds[1], fds[2]})
    BY <1>a DEF Inv, FileTable
  <2>2. UNCHANGED <<table, first, pipeVars, childVars, status, found, ignored>>
    BY <1>a, <1>2 DEF pipeVars, childVars
  <2> QED
    BY <1>a, <1>2, <2>1, <2>2, GivesUp
<1> QED
  BY <1>1, <1>2 DEF ZipIn

\* The output of the compressor (elfcore.c:1670-1678).
LEMMA ZipOutKeeps ==
  ASSUME Inv, ZipOut, UNCHANGED pathVars
  PROVE  Inv'
<1>a. /\ ppc = "zip_out" /\ cpc = "none" /\ cpc' = cpc /\ file \in BOOLEAN /\ table # <<>>
      /\ UNCHANGED <<table, first, fds, zip_in, trying, status, found, ignored>>
      /\ UNCHANGED <<file, pc, dpc, mail, rc>>
      /\ IF file THEN pc = "create" ELSE dpc = "create"
  BY DEF Inv, Types, Control, Opening, Making, ZipOut, pathVars, childVars
<1>1. CASE /\ Room2(tab["dumper"])
           /\ tab' = [tab EXCEPT !["dumper"] = Pipe(@, "or", "ow")]
           /\ zip_out' = PipeFds(tab["dumper"])
           /\ ppc' = "clone" /\ UNCHANGED faults
  <2>1. /\ tab' \in [Procs -> [Fd -> EndNames]]
        /\ tab'["child"] = tab["child"] /\ tab'["app"] = tab["app"]
    BY <1>1, TabPipe, ProcNames, EndsAreNames DEF Inv
  <2> DEFINE l == Lowest(tab["dumper"])
             s == Second(tab["dumper"])
  <2>2. /\ l \in Fd /\ s \in Fd /\ l < s
        /\ tab["dumper"][l] = "free" /\ tab["dumper"][s] = "free"
        /\ \A f \in Fd : tab'["dumper"][f] = IF f = l THEN "or" ELSE IF f = s THEN "ow"
                                             ELSE tab["dumper"][f]
    BY <1>1, TabPipe, ProcNames, EndsAreNames DEF Inv
  <2>3. zip_out' = <<l, s>> /\ zip_out'[1] = l /\ zip_out'[2] = s
    BY <1>1, SMT DEF PipeFds
  <2> HIDE DEF l, s
  <2>b. /\ At("dumper", fds[1], "sr") /\ At("dumper", fds[2], "sw") /\ fds[1] < fds[2]
        /\ At("dumper", zip_in[1], "ir") /\ At("dumper", zip_in[2], "iw")
        /\ fds[2] < zip_in[1] /\ zip_in[1] < zip_in[2]
        /\ \A f \in Fd : f <= zip_in[2] => tab["dumper"][f] # "free"
    BY <1>a DEF Inv, Ends
  <2>4. Types'
    BY <1>a, <1>1, <2>1, <2>2, <2>3, SMT DEF Inv, Types, Num
  <2>5. Control'
    BY <1>a, <1>1 DEF Inv, Control, Making, Opening
  <2>6. Ends'
    <3>1. At("dumper", fds[1], "sr")' /\ At("dumper", fds[2], "sw")'
      BY <1>a, <2>2, <2>b DEF At
    <3>2. At("dumper", zip_in[1], "ir")' /\ At("dumper", zip_in[2], "iw")'
      BY <1>a, <2>2, <2>b DEF At
    <3>3. At("dumper", zip_out[1], "or")' /\ At("dumper", zip_out[2], "ow")'
      BY <2>2, <2>3, SMT DEF At, Fd
    <3>4. zip_in[2] < l
      BY <2>2, <2>b, SMT DEF At, Fd
    <3> QED
      BY <1>a, <1>1, <2>2, <2>3, <2>b, <3>1, <3>2, <3>3, <3>4 DEF Ends
  <2>7. Child'
    BY <1>a DEF Child
  <2>8. Search'
    BY <1>a, <1>1 DEF Inv, Search, Opening, Reported
  <2>9. SocketKept'
    BY <1>a, <2>2, <2>3 DEF Inv, SocketKept, Socket
  <2>10. FileTable'
    <3> SUFFICES ASSUME file, ~Moves PROVE FileTable'
      BY <1>a DEF FileTable, Moves
    <3>1. Owns("dumper", Fail1) /\ fds[2] > 2 /\ zip_in[1] > 2
      BY <1>a DEF Inv, FileTable
    <3>2. first[l] = "free" /\ first[s] = "free"
      BY <2>2, <3>1 DEF Owns
    <3>3. Owns("dumper", Fail1 \cup Zip)'
      BY <1>a, <2>2, <2>3, <3>1, <3>2 DEF Owns, Fail1, Zip
    <3> QED
      BY <1>a, <1>1, <3>1, <3>3 DEF FileTable, Writing
  <2>11. FlowEnds'
    BY <1>a, <1>1 DEF FlowEnds
  <2>12. Result' /\ CallerTable' /\ Flow'
    BY <1>a, <1>1, <2>1, PipelineFrame
  <2> QED
    BY <2>4, <2>5, <2>6, <2>7, <2>8, <2>9, <2>10, <2>11, <2>12 DEF Inv
<1>2. CASE /\ Fault /\ Return("failed")
           /\ tab' = [tab EXCEPT !["dumper"] = Close(@, Fail1)]
           /\ UNCHANGED zip_out
  <2>1. file /\ ~Moves => Owns("dumper", Fail1)
    BY <1>a DEF Inv, FileTable
  <2>2. UNCHANGED <<table, first, pipeVars, childVars, status, found, ignored>>
    BY <1>a, <1>2 DEF pipeVars, childVars
  <2>3. Fail1 \subseteq {fds[1], fds[2], zip_in[1], zip_in[2], zip_out[1], zip_out[2]}
    BY DEF Fail1
  <2> QED
    BY <1>a, <1>2, <2>1, <2>2, <2>3, GivesUp
<1> QED
  BY <1>1, <1>2 DEF ZipOut

\* The child has a copy of the table, with all six numbers (elfcore.c:1680-1698).
LEMMA CloneKeeps ==
  ASSUME Inv, Clone, UNCHANGED pathVars
  PROVE  Inv'
<1>a. /\ ppc = "clone" /\ cpc = "none" /\ file \in BOOLEAN /\ table # <<>>
      /\ UNCHANGED <<table, first, fds, zip_in, zip_out, trying, status, found, ignored>>
      /\ UNCHANGED <<file, pc, dpc, mail, rc>>
      /\ IF file THEN pc = "create" ELSE dpc = "create"
  BY DEF Inv, Types, Control, Opening, Making, Clone, pathVars, pipeVars
<1>b. /\ At("dumper", fds[1], "sr") /\ At("dumper", fds[2], "sw")
      /\ At("dumper", zip_in[1], "ir") /\ At("dumper", zip_in[2], "iw")
      /\ At("dumper", zip_out[1], "or") /\ At("dumper", zip_out[2], "ow")
      /\ fds[1] < fds[2] /\ fds[2] < zip_in[1] /\ zip_in[1] < zip_in[2]
      /\ zip_in[2] < zip_out[1] /\ zip_out[1] < zip_out[2]
  BY <1>a DEF Inv, Ends
<1>1. CASE /\ tab' = [tab EXCEPT !["child"] = tab["dumper"]]
           /\ cpc' = "start" /\ ppc' = "close" /\ UNCHANGED faults
  <2>0. tab["dumper"] \in [Fd -> EndNames]
    BY ProcNames DEF Inv, Types
  <2>1. /\ tab' \in [Procs -> [Fd -> EndNames]] /\ tab'["child"] = tab["dumper"]
        /\ tab'["dumper"] = tab["dumper"] /\ tab'["app"] = tab["app"]
    BY <1>1, <2>0, TabStep, ProcNames DEF Inv
  <2>2. Types'
    BY <1>a, <1>1, <2>1 DEF Inv, Types
  <2>3. Control'
    BY <1>a, <1>1 DEF Inv, Control, Making, Opening
  <2>4. Ends'
    BY <1>a, <1>b, <1>1, <2>1 DEF Ends, At
  <2>5. Child'
    <3>1. zip_out[2] > 2
      BY <1>b, SMT DEF At, Fd
    <3> QED
      BY <1>a, <1>b, <1>1, <2>1, <3>1 DEF Child, At
  <2>6. Search'
    BY <1>a, <1>1 DEF Inv, Search, Opening, Making
  <2>7. SocketKept'
    BY <1>a, <2>1 DEF Inv, SocketKept, Socket
  <2>8. FileTable'
    BY <1>a, <1>1, <2>1 DEF Inv, FileTable, Owns, Moves, Fail1, Zip, Writing
  <2>9. FlowEnds'
    BY <1>a, <1>1 DEF FlowEnds
  <2>10. Result' /\ CallerTable' /\ Flow'
    BY <1>a, <1>1, <2>1, PipelineFrame
  <2> QED
    BY <2>2, <2>3, <2>4, <2>5, <2>6, <2>7, <2>8, <2>9, <2>10 DEF Inv
<1>2. CASE /\ Fault /\ Return("failed")
           /\ tab' = [tab EXCEPT !["dumper"] =
                        Close(@, Fail1 \cup {zip_out[1], zip_out[2]})]
           /\ UNCHANGED cpc
  <2> DEFINE X == Fail1 \cup {zip_out[1], zip_out[2]}
  <2>1. X = Fail1 \cup Zip
    BY DEF Fail1, Zip
  <2>2. file /\ ~Moves => Owns("dumper", X)
    BY <1>a, <2>1 DEF Inv, FileTable
  <2>3. UNCHANGED <<table, first, pipeVars, childVars, status, found, ignored>>
    BY <1>a, <1>2 DEF pipeVars, childVars
  <2>4. X \subseteq {fds[1], fds[2], zip_in[1], zip_in[2], zip_out[1], zip_out[2]}
    BY DEF Fail1
  <2> QED
    BY <1>a, <1>2, <2>2, <2>3, <2>4, GivesUp
<1> QED
  BY <1>1, <1>2 DEF Clone

\* The dumper closes its write end of the status pipe (elfcore.c:1700-1704).
LEMMA CloseWriteEndKeeps ==
  ASSUME Inv, CloseWriteEnd, UNCHANGED pathVars
  PROVE  Inv'
<1>a. /\ ppc = "close" /\ ppc' = "read" /\ found' = 0 /\ file \in BOOLEAN /\ table # <<>>
      /\ UNCHANGED <<table, first, fds, zip_in, zip_out, trying, cpc, status, ignored, faults>>
      /\ UNCHANGED <<file, pc, dpc, mail, rc>>
      /\ IF file THEN pc = "create" ELSE dpc = "create"
  BY DEF Inv, Types, Control, Opening, Making, CloseWriteEnd, pathVars, pipeVars, childVars
<1>1. /\ tab' \in [Procs -> [Fd -> EndNames]]
      /\ tab'["child"] = tab["child"] /\ tab'["app"] = tab["app"]
      /\ \A f \in Fd : tab'["dumper"][f] = IF f \in {fds[2]} THEN "free" ELSE tab["dumper"][f]
  BY TabClose, ProcNames DEF Inv, CloseWriteEnd
<1>2. Types'
  BY <1>a, <1>1, SMT DEF Inv, Types
<1>3. Control'
  BY <1>a DEF Inv, Control, Opening, Making
<1>4. Ends'
  BY <1>a, <1>1 DEF Inv, Ends, At
<1>5. Child'
  BY <1>a, <1>1 DEF Inv, Child, At
<1>6. Search'
  BY <1>a DEF Inv, Search, Reported, Opening, Making, Ended, IsNull, IsEmpty, CanExec
<1>7. SocketKept'
  BY <1>a, <1>1 DEF Inv, SocketKept, Socket
<1>8. FileTable'
  <2> SUFFICES ASSUME file, ~Moves PROVE FileTable'
    BY <1>a DEF FileTable, Moves
  <2>1. Owns("dumper", Fail1 \cup Zip) /\ fds[2] > 2 /\ zip_in[1] > 2
    BY <1>a DEF Inv, FileTable
  <2>2. Owns("dumper", {fds[1]} \cup Zip)'
    BY <1>a, <1>1, <2>1 DEF Owns, Fail1, Zip
  <2> QED
    BY <1>a, <2>1, <2>2 DEF FileTable, Writing
<1>9. FlowEnds'
  BY <1>a DEF FlowEnds
<1>10. Result' /\ CallerTable' /\ Flow'
  BY <1>a, <1>1, PipelineFrame
<1> QED
  BY <1>2, <1>3, <1>4, <1>5, <1>6, <1>7, <1>8, <1>9, <1>10 DEF Inv

\* While the child searches it holds the write end of the status pipe.
LEMMA SearcherHolds ==
  ASSUME Inv, cpc \in {"start", "move", "stdio", "report", "exec", "exit"}
  PROVE  Held("sw")
<1>1. fds[2] \in Fd /\ tab["child"][fds[2]] = "sw"
  <2>1. CASE cpc \in {"start", "move", "stdio"}
    BY <2>1 DEF Inv, Child, At
  <2>2. CASE cpc \in {"report", "exec", "exit"}
    <3>1. /\ fds[2] \in Fd /\ fds[2] > 2
          /\ tab["child"] = [f \in Fd |-> IF f = 0 THEN "ir" ELSE IF f = 1 THEN "ow"
                                          ELSE IF f = 2 THEN "null"
                                          ELSE IF f = fds[2] THEN "sw" ELSE "free"]
      BY <2>2 DEF Inv, Child
    <3>2. fds[2] # 0 /\ fds[2] # 1 /\ fds[2] # 2
      BY <3>1, SMT DEF Fd
    <3> QED
      BY <3>1, <3>2
  <2> QED
    BY <2>1, <2>2
<1> QED
  BY <1>1, ProcNames DEF Held

\* Once the search is over, the last report is its end.
LEMMA FoundIsTrying ==
  ASSUME Inv, status = <<>>, cpc \in {"running", "closed", "exited"}
  PROVE  found = trying
BY DEF Inv, Search, Reported

\* A report is read, or the end of the file (elfcore.c:1705-1706).
LEMMA ReadStatusKeeps ==
  ASSUME Inv, ReadStatus, UNCHANGED pathVars
  PROVE  Inv'
<1>a. /\ ppc = "read" /\ tab["dumper"][fds[1]] = "sr" /\ file \in BOOLEAN /\ table # <<>>
      /\ UNCHANGED <<table, first, fds, zip_in, zip_out, trying, cpc, ignored, faults>>
      /\ UNCHANGED <<file, pc, dpc, mail, rc>>
      /\ IF file THEN pc = "create" ELSE dpc = "create"
  BY DEF Inv, Types, Control, Opening, Making, ReadStatus, pathVars, pipeVars, childVars
<1>1. CASE /\ status # <<>>
           /\ found' = Latest /\ status' = Tail(status)
           /\ UNCHANGED <<ppc, tab>>
  <2>1. Types'
    BY <1>a, <1>1, SMT DEF Inv, Types, Latest
  <2>2. Control'
    BY <1>a, <1>1 DEF Inv, Control, Opening, Making
  <2>3. Ends' /\ Child'
    BY <1>a, <1>1 DEF Inv, Ends, Child, At
  <2>4. Search'
    <3>1. status \in Seq(Nat) /\ Len(status) \in Nat /\ Len(status) # 0
      BY <1>1, SMT DEF Inv, Types
    <3>2. ASSUME Reported(trying) PROVE Reported(trying)'
      <4>1. status[Len(status)] = trying
        BY <1>1, <3>2 DEF Reported
      <4>2. CASE Len(status) = 1
        <5>1. status' = <<>> /\ found' = trying
          BY <1>1, <3>1, <4>1, <4>2, SMT DEF Latest
        <5> QED
          BY <1>a, <1>1, <5>1 DEF Reported
      <4>3. CASE Len(status) # 1
        <5>1. status' # <<>> /\ status'[Len(status')] = trying
          <6>a. \A n \in Nat : n # 0 /\ n # 1 => n > 1
            BY SMT
          <6>0. Len(status) > 1
            BY <3>1, <4>3, <6>a
          <6>1. Len(status') = Len(status) - 1 /\ Len(status) - 1 > 0
            BY <1>1, <3>1, <6>0, SMT
          <6>2. status'[Len(status) - 1] = status[Len(status)]
            BY <1>1, <3>1, <6>1, SMT
          <6>3. Len(<<>>) = 0
            BY SMT
          <6> QED
            BY <4>1, <6>1, <6>2, <6>3, SMT
        <5> QED
          BY <1>a, <5>1 DEF Reported
      <4> QED
        BY <4>2, <4>3
    <3> QED
      BY <1>a, <1>1, <3>2 DEF Inv, Search, Opening, Making, Ended, IsNull, IsEmpty
  <2>5. SocketKept'
    BY <1>a, <1>1 DEF Inv, SocketKept, Socket
  <2>6. FileTable'
    BY <1>a, <1>1 DEF Inv, FileTable, Moves, Owns, Writing, Zip
  <2>7. FlowEnds'
    BY <1>a, <1>1 DEF FlowEnds
  <2>8. Result' /\ CallerTable' /\ Flow'
    BY <1>a, <1>1, PipelineFrame
  <2> QED
    BY <2>1, <2>2, <2>3, <2>4, <2>5, <2>6, <2>7, <2>8 DEF Inv
<1>2. CASE /\ status = <<>> /\ ~Held("sw")
           /\ ppc' = "decide"
           /\ tab' = [tab EXCEPT !["dumper"] = Close(@, {fds[1]})]
           /\ UNCHANGED <<found, status>>
  <2>1. /\ tab' \in [Procs -> [Fd -> EndNames]]
        /\ tab'["child"] = tab["child"] /\ tab'["app"] = tab["app"]
        /\ \A f \in Fd : tab'["dumper"][f] = IF f \in {fds[1]} THEN "free" ELSE tab["dumper"][f]
    BY <1>2, TabClose, ProcNames DEF Inv
  <2>2. cpc \in {"running", "closed", "exited"}
    <3>1. cpc # "none"
      BY <1>a DEF Inv, Control
    <3> QED
      BY <1>2, <3>1, SearcherHolds DEF Inv, Control
  <2>3. Types'
    BY <1>a, <1>2, <2>1 DEF Inv, Types
  <2>4. Control'
    BY <1>a, <1>2, <2>2 DEF Inv, Control, Opening, Making
  <2>5. Ends'
    BY <1>a, <1>2, <2>1 DEF Inv, Ends, At
  <2>6. Child'
    BY <1>a, <2>1, <2>2 DEF Inv, Child, At
  <2>7. Search'
    BY <1>a, <1>2 DEF Inv, Search, Opening, Making, Ended, IsNull, IsEmpty, Reported
  <2>8. SocketKept'
    BY <1>a, <2>1 DEF Inv, SocketKept, Socket
  <2>9. FileTable'
    <3> SUFFICES ASSUME file, ~Moves PROVE FileTable'
      BY <1>a DEF FileTable, Moves
    <3>1. Owns("dumper", {fds[1]} \cup Zip)
      BY <1>a DEF Inv, FileTable
    <3>2. Owns("dumper", Zip)'
      BY <1>a, <2>1, <3>1 DEF Owns, Zip
    <3> QED
      BY <1>a, <1>2, <3>2 DEF FileTable, Writing
  <2>10. FlowEnds'
    BY <1>a, <1>2 DEF FlowEnds
  <2>11. Result' /\ CallerTable' /\ Flow'
    BY <1>a, <2>1, PipelineFrame
  <2> QED
    BY <2>3, <2>4, <2>5, <2>6, <2>7, <2>8, <2>9, <2>10, <2>11 DEF Inv
<1> QED
  BY <1>1, <1>2 DEF ReadStatus

\* The outcome: the compressor that was found runs, or none is needed, or the call
\* fails (elfcore.c:1712-1743).
LEMMA DecideKeeps ==
  ASSUME Inv, Decide, UNCHANGED pathVars
  PROVE  Inv'
<1>a. /\ ppc = "decide" /\ dpc # "send" /\ file \in BOOLEAN /\ table # <<>>
      /\ ppc' \in {"failed", "ok", "reap"}
      /\ UNCHANGED <<table, first, zip_in, zip_out, trying, cpc, status, found, ignored, faults>>
      /\ UNCHANGED <<file, pc, dpc, mail, rc>>
      /\ IF file THEN pc = "create" ELSE dpc = "create"
  BY DEF Inv, Types, Control, Opening, Making, Decide, Return, pathVars, pipeVars, childVars
<1>b. /\ cpc \in {"running", "closed", "exited"} /\ status = <<>> /\ found = trying
  BY <1>a, FoundIsTrying DEF Inv, Control, Search
<1>c. Chosen = IF found = Last(table) THEN 0 ELSE found
  BY <1>b, ChosenIs DEF Inv
<1>d. Right' = Right /\ (Excuse => Excuse')
  BY <1>a, ExcuseFrame
<1>e. Control'
  BY <1>a, <1>b DEF Inv, Control, Opening, Making
<1>f. Child'
  <2>1. tab'["child"] = tab["child"]
    BY DEF Inv, Types, Decide, Procs
  <2> QED
    BY <1>a, <1>b, <2>1 DEF Inv, Child
<1>g. /\ At("dumper", zip_in[2], "iw") /\ At("dumper", zip_out[1], "or")
      /\ {fds[2], zip_in[1], zip_out[2]} \cap {zip_in[2], zip_out[1]} = {}
      /\ file /\ ~Moves => Owns("dumper", Zip)
  BY <1>a DEF Inv, Ends, FileTable
<1>h. Ended(trying)' = Ended(trying)
  BY <1>a DEF Ended, IsNull, IsEmpty
<1>1. CASE /\ ~IsNull(found) /\ ~IsEmpty(found) /\ Return("ok")
           /\ fds' = <<zip_out[1], zip_in[2]>>
           /\ tab' = [tab EXCEPT !["dumper"] = Close(@, {zip_in[1], zip_out[2]})]
  <2> DEFINE X == {zip_in[1], zip_out[2]}
  <2>1. /\ tab' \in [Procs -> [Fd -> EndNames]]
        /\ tab'["child"] = tab["child"] /\ tab'["app"] = tab["app"]
        /\ \A f \in Fd : tab'["dumper"][f] = IF f \in X THEN "free" ELSE tab["dumper"][f]
    <3>1. tab' = [tab EXCEPT !["dumper"] = Close(@, X)]
      BY <1>1
    <3> HIDE DEF X
    <3> QED
      BY <3>1, TabClose, ProcNames DEF Inv
  <2>2. fds'[1] = zip_out[1] /\ fds'[2] = zip_in[2]
    BY <1>1, SMT
  <2>3. Types'
    <3>1. fds' \in Num \X Num
      BY <1>1, SMT DEF Inv, Types
    <3> QED
      BY <1>a, <2>1, <3>1 DEF Inv, Types
  <2>4. Ends'
    BY <1>1 DEF Ends, Return
  <2>5. Search'
    <3>1. found = Right
      BY <1>a, <1>c, <1>1 DEF Right, IsNull
    <3> QED
      BY <1>a, <1>b, <1>d, <1>h, <1>1, <3>1 DEF Inv, Search, Return, Opening, Reported
  <2>6. SocketKept'
    <3>1. Socket => Socket'
      BY <1>a, <1>b, <2>1, <2>2 DEF Socket
    <3> QED
      BY <1>a, <3>1 DEF Inv, SocketKept
  <2>7. FileTable'
    <3> SUFFICES ASSUME file, ~Moves PROVE FileTable'
      BY <1>a DEF FileTable, Moves
    <3>1. Owns("dumper", {fds[1], fds[2]})'
      BY <1>a, <1>g, <2>1, <2>2 DEF Owns, Zip
    <3> QED
      BY <1>a, <1>1, <3>1 DEF FileTable, Writing, Return
  <2>8. FlowEnds'
    <3>1. At("dumper", fds[1], "or")' /\ At("dumper", fds[2], "iw")' /\ fds'[1] # fds'[2]
      BY <1>g, <2>1, <2>2 DEF At
    <3>2. ~Ended(trying)
      BY <1>b, <1>1 DEF Ended
    <3>3. fds'[1] >= 0
      BY <1>g, <2>2, SMT DEF At, Fd
    <3> QED
      BY <1>a, <1>h, <3>1, <3>2, <3>3 DEF FlowEnds
  <2>9. Result' /\ CallerTable' /\ Flow'
    BY <1>a, <2>1, PipelineFrame
  <2> QED
    BY <1>e, <1>f, <2>3, <2>4, <2>5, <2>6, <2>7, <2>8, <2>9 DEF Inv
<1>2. CASE /\ \/ IsNull(found) /\ Return("failed") /\ UNCHANGED fds
              \/ IsEmpty(found) /\ ppc' = "reap" /\ fds' = <<-1, -1>>
           /\ tab' = [tab EXCEPT !["dumper"] = Close(@, Zip)]
  <2>1. /\ tab' \in [Procs -> [Fd -> EndNames]]
        /\ tab'["child"] = tab["child"] /\ tab'["app"] = tab["app"]
        /\ \A f \in Fd : tab'["dumper"][f] = IF f \in Zip THEN "free" ELSE tab["dumper"][f]
    BY <1>2, TabClose, ProcNames DEF Inv
  <2>2. \/ UNCHANGED fds
        \/ fds'[1] = -1 /\ fds'[2] = -1 /\ fds' \in Num \X Num
    BY <1>2, SMT DEF Num
  <2>3. Types'
    BY <1>a, <2>1, <2>2 DEF Inv, Types
  <2>4. Ends'
    BY <1>2 DEF Ends, Return
  <2>5. Search'
    <3>1. IsNull(found) => Excuse
      <4>1. trying # 0
        BY SMT DEF Inv, Search, Types
      <4> QED
        BY <1>a, <1>b, <1>c, <4>1 DEF Excuse, IsNull
    <3>2. IsEmpty(found)' = IsEmpty(found)
      BY <1>a DEF IsEmpty, IsNull
    <3>3. Ended(trying)
      BY <1>b, <1>2 DEF Ended
    <3> QED
      BY <1>a, <1>b, <1>d, <1>h, <1>2, <3>1, <3>2, <3>3
         DEF Inv, Search, Return, Opening, Reported
  <2>6. SocketKept'
    <3>1. -1 \notin Fd
      BY SMT DEF Fd
    <3>2. Socket => Socket'
      BY <1>a, <1>b, <2>1, <2>2, <3>1 DEF Socket, Zip
    <3> QED
      BY <1>a, <3>2 DEF Inv, SocketKept
  <2>7. FileTable'
    <3> SUFFICES ASSUME file, ~Moves PROVE FileTable'
      BY <1>a DEF FileTable, Moves
    <3>1. Owns("dumper", {})'
      BY <1>a, <1>g, <2>1 DEF Owns
    <3> QED
      BY <1>a, <1>2, <3>1 DEF FileTable, Writing, Return
  <2>8. FlowEnds'
    BY <1>a, <1>2 DEF FlowEnds, Return
  <2>9. Result' /\ CallerTable' /\ Flow'
    BY <1>a, <2>1, PipelineFrame
  <2> QED
    BY <1>e, <1>f, <2>3, <2>4, <2>5, <2>6, <2>7, <2>8, <2>9 DEF Inv
<1> QED
  BY <1>1, <1>2 DEF Decide

\* The child that found nothing is reaped (elfcore.c:1744-1752).
LEMMA ReapKeeps ==
  ASSUME Inv, Reap, UNCHANGED pathVars
  PROVE  Inv'
<1>a. /\ ppc = "reap" /\ cpc = "exited" /\ file \in BOOLEAN /\ table # <<>>
      /\ ppc' = IF ignored THEN "failed" ELSE "ok"
      /\ UNCHANGED <<table, tab, first, fds, zip_in, zip_out, trying, cpc, status, found,
                     ignored, faults>>
      /\ UNCHANGED <<file, pc, dpc, mail, rc>>
      /\ IF file THEN pc = "create" ELSE dpc = "create"
  BY DEF Inv, Types, Control, Opening, Making, Reap, Return, pathVars, pipeVars, childVars
<1>1. Types'
  BY <1>a DEF Inv, Types
<1>2. Control'
  BY <1>a DEF Inv, Control, Opening, Making
<1>3. Ends'
  BY <1>a DEF Ends
<1>4. Child'
  BY <1>a DEF Child
<1>5. Search'
  <2>1. status = <<>> /\ IsEmpty(found) /\ found = trying
    BY <1>a, FoundIsTrying DEF Inv, Search
  <2>2. Chosen = found /\ table[found].empty
    BY <1>a, <2>1, ChosenIs DEF Inv, IsEmpty, IsNull
  <2>3. found = Right /\ (ignored => Excuse)
    BY <1>a, <2>2 DEF Right, Excuse
  <2>4. Right' = Right /\ (Excuse => Excuse')
    BY <1>a, ExcuseFrame
  <2> QED
    BY <1>a, <2>1, <2>3, <2>4 DEF Inv, Search, Opening, Reported, Ended, IsNull, IsEmpty
<1>6. SocketKept'
  BY <1>a DEF Inv, SocketKept, Socket
<1>b. fds[1] = -1 /\ fds[2] = -1 /\ -1 \notin Fd /\ ~(fds[1] >= 0)
  BY <1>a, SMT DEF Inv, Ends, Fd
<1>7. FileTable'
  <2> SUFFICES ASSUME file, ~Moves PROVE FileTable'
    BY <1>a DEF FileTable, Moves
  <2>1. Owns("dumper", {})'
    BY <1>a DEF Inv, FileTable, Owns
  <2>2. Owns("dumper", {fds[1], fds[2]})'
    BY <1>a, <1>b, <2>1 DEF Owns
  <2> QED
    BY <1>a, <2>1, <2>2 DEF FileTable, Writing
<1>8. FlowEnds'
  <2>1. Ended(trying)'
    BY <1>a DEF Inv, Search, Ended, IsNull, IsEmpty
  <2> QED
    BY <1>a, <1>b, <2>1 DEF FlowEnds
<1>9. Result' /\ CallerTable' /\ Flow'
  BY <1>a, PipelineFrame
<1> QED
  BY <1>1, <1>2, <1>3, <1>4, <1>5, <1>6, <1>7, <1>8, <1>9 DEF Inv

-----------------------------------------------------------------------------
(* The child keeps the invariant. *)

\* While the child searches the dumper waits for it.
LEMMA DumperWaits ==
  ASSUME Inv, cpc \in {"start", "move", "stdio", "report", "exec", "exit"}
  PROVE  /\ ppc \in {"close", "read"} /\ table # <<>> /\ dpc # "send" /\ file \in BOOLEAN
         /\ IF file THEN pc = "create" ELSE dpc = "create"
BY DEF Inv, Types, Control, Opening, Making

\* What a step of the child that moves no descriptor leaves as it is.
LEMMA ChildFrame ==
  ASSUME Inv, UNCHANGED pathVars,
         UNCHANGED <<table, first, ignored, ppc, fds, zip_in, zip_out, faults>>,
         tab'["dumper"] = tab["dumper"], tab'["app"] = tab["app"],
         trying' = trying \/ ppc \in {"close", "read"},
         cpc' = "exited" => (cpc = "exited" /\ trying' = trying) \/ Ended(trying)'
  PROVE  Ends' /\ FileTable' /\ FlowEnds' /\ Result' /\ CallerTable' /\ Flow'
<1>1. UNCHANGED <<file, pc>>
  BY DEF pathVars
<1>2. Ends' /\ FileTable' /\ FlowEnds'
  BY <1>1, DumperFrame
<1>3. Result' /\ CallerTable' /\ Flow'
  BY PipelineFrame
<1> QED
  BY <1>2, <1>3

\* The child closes its read end of the status pipe (elfcore.c:1544-1551).
LEMMA ChildStartKeeps ==
  ASSUME Inv, ChildStart, UNCHANGED pathVars
  PROVE  Inv'
<1>a. /\ cpc = "start" /\ cpc' = "move"
      /\ UNCHANGED <<table, first, fds, zip_in, zip_out, trying, status, found, ppc, ignored,
                     faults>>
      /\ UNCHANGED <<file, pc, dpc, mail, rc>>
  BY DEF ChildStart, pathVars, pipeVars
<1>b. ppc \in {"close", "read"} /\ table # <<>>
  BY <1>a, DumperWaits
<1>1. /\ tab' \in [Procs -> [Fd -> EndNames]]
      /\ tab'["dumper"] = tab["dumper"] /\ tab'["app"] = tab["app"]
      /\ \A f \in Fd : tab'["child"][f] = IF f \in {fds[1]} THEN "free" ELSE tab["child"][f]
  BY TabClose, ProcNames DEF Inv, ChildStart
<1>2. Types'
  BY <1>a, <1>1 DEF Inv, Types
<1>3. Control'
  BY <1>a, <1>b DEF Inv, Control, Opening, Making
<1>4. Child'
  BY <1>a, <1>1 DEF Inv, Child, At
<1>5. Search'
  BY <1>a DEF Inv, Search, Reported, Right, Excuse, Chosen, Ended, IsNull, IsEmpty
<1>6. SocketKept'
  BY <1>a, <1>1 DEF Inv, SocketKept, Socket
<1>7. Ends' /\ FileTable' /\ FlowEnds' /\ Result' /\ CallerTable' /\ Flow'
  BY <1>a, <1>1, ChildFrame
<1> QED
  BY <1>2, <1>3, <1>4, <1>5, <1>6, <1>7 DEF Inv

\* A descriptor the child moves goes to a number that is free in its table; neither
\* the ends the dumper still uses nor the socket have it (elfcore.c:1552-1555).
LEMMA ChildMoveStatusKeeps ==
  ASSUME Inv, ChildMoveStatus, UNCHANGED pathVars
  PROVE  Inv'
<1>a. /\ cpc = "move" /\ cpc' = cpc /\ fds[2] <= 2 /\ Room(tab["child"])
      /\ UNCHANGED <<table, first, zip_in, zip_out, trying, status, found, ppc, ignored, faults>>
      /\ UNCHANGED <<file, pc, dpc, mail, rc>>
  BY DEF ChildMoveStatus, pathVars, childVars
<1>b. /\ ppc \in {"close", "read"} /\ table # <<>> /\ dpc # "send" /\ file \in BOOLEAN
      /\ IF file THEN pc = "create" ELSE dpc = "create"
  BY <1>a, DumperWaits
<1>c. /\ At("child", zip_in[2], "iw") /\ At("child", zip_out[1], "or")
      /\ At("child", fds[2], "sw") /\ At("child", zip_in[1], "ir")
      /\ At("child", zip_out[2], "ow") /\ zip_out[2] > 2
  BY <1>a DEF Inv, Child
<1> DEFINE n == Lowest(tab["child"])
           e == tab["child"][fds[2]]
<1>d. e = "sw" /\ e \in EndNames
  BY <1>c, EndsAreNames DEF At
<1>1. /\ tab' \in [Procs -> [Fd -> EndNames]]
      /\ tab'["dumper"] = tab["dumper"] /\ tab'["app"] = tab["app"]
      /\ n \in Fd /\ tab["child"][n] = "free"
      /\ \A f \in Fd : tab'["child"][f] = IF f = n THEN "sw" ELSE tab["child"][f]
  <2>1. tab' = [tab EXCEPT !["child"] = [@ EXCEPT ![Lowest(@)] = e]]
    BY DEF ChildMoveStatus, Dup
  <2> HIDE DEF e
  <2> QED
    BY <1>a, <1>d, <2>1, TabOpen, ProcNames DEF Inv
<1>2. fds' = <<fds[1], n>> /\ fds'[1] = fds[1] /\ fds'[2] = n
  BY SMT DEF ChildMoveStatus
<1> HIDE DEF n, e
<1>3. Types'
  <2>1. fds' \in Num \X Num
    BY <1>1, <1>2, SMT DEF Inv, Types, Num
  <2> QED
    BY <1>a, <1>1, <2>1 DEF Inv, Types
<1>4. Control'
  BY <1>a, <1>b DEF Inv, Control, Opening, Making
<1>5. Ends'
  BY <1>a, <1>b, <1>c, <1>1, <1>2 DEF Inv, Ends, At
<1>6. Child'
  BY <1>a, <1>c, <1>1, <1>2 DEF Inv, Child, At
<1>7. Search'
  BY <1>a DEF Inv, Search, Reported, Right, Excuse, Chosen, Ended, IsNull, IsEmpty
<1>8. SocketKept'
  <2>1. Socket => Socket'
    BY <1>a, <1>1, <1>2 DEF Socket
  <2> QED
    BY <1>a, <1>b, <2>1 DEF Inv, SocketKept
<1>9. FileTable'
  <2>1. file /\ ~Moves => fds[2] > 2
    BY <1>b DEF Inv, FileTable
  <2>2. fds[2] > 2 => FALSE
    BY <1>a, <1>c, SMT DEF At, Fd
  <2> QED
    BY <1>a, <2>1, <2>2 DEF FileTable, Moves
<1>10. FlowEnds'
  BY <1>a, <1>b DEF FlowEnds
<1>11. Result' /\ CallerTable' /\ Flow'
  BY <1>a, <1>1, PipelineFrame
<1> QED
  BY <1>3, <1>4, <1>5, <1>6, <1>7, <1>8, <1>9, <1>10, <1>11 DEF Inv

\* The same for the end that becomes stdin (elfcore.c:1557-1566).
LEMMA ChildMoveZipKeeps ==
  ASSUME Inv, ChildMoveZip, UNCHANGED pathVars
  PROVE  Inv'
<1>a. /\ cpc = "move" /\ fds[2] > 2
      /\ UNCHANGED <<table, first, fds, zip_out, trying, status, found, ppc, ignored, faults>>
      /\ UNCHANGED <<file, pc, dpc, mail, rc>>
  BY DEF ChildMoveZip, pathVars
<1>b. /\ ppc \in {"close", "read"} /\ table # <<>> /\ dpc # "send" /\ file \in BOOLEAN
      /\ IF file THEN pc = "create" ELSE dpc = "create"
  BY <1>a, DumperWaits
<1>c. /\ At("child", zip_in[2], "iw") /\ At("child", zip_out[1], "or")
      /\ At("child", fds[2], "sw") /\ At("child", zip_in[1], "ir")
      /\ At("child", zip_out[2], "ow") /\ zip_out[2] > 2
  BY <1>a DEF Inv, Child
<1>d. Search' \/ cpc' \notin {"move", "stdio"}
  BY <1>a DEF Inv, Search, Reported, Right, Excuse, Chosen, Ended, IsNull, IsEmpty
<1>1. CASE /\ zip_in[1] <= 2 /\ Room(tab["child"])
           /\ zip_in' = <<Lowest(tab["child"]), zip_in[2]>>
           /\ tab' = [tab EXCEPT !["child"] = Dup(@, zip_in[1])]
           /\ UNCHANGED cpc
  <2> DEFINE n == Lowest(tab["child"])
             e == tab["child"][zip_in[1]]
  <2>0. e = "ir" /\ e \in EndNames
    BY <1>c, EndsAreNames DEF At
  <2>1. /\ tab' \in [Procs -> [Fd -> EndNames]]
        /\ tab'["dumper"] = tab["dumper"] /\ tab'["app"] = tab["app"]
        /\ n \in Fd /\ tab["child"][n] = "free"
        /\ \A f \in Fd : tab'["child"][f] = IF f = n THEN "ir" ELSE tab["child"][f]
    <3>1. tab' = [tab EXCEPT !["child"] = [@ EXCEPT ![Lowest(@)] = e]]
      BY <1>1 DEF Dup
    <3> HIDE DEF e
    <3> QED
      BY <1>1, <2>0, <3>1, TabOpen, ProcNames DEF Inv
  <2>2. zip_in' = <<n, zip_in[2]>> /\ zip_in'[1] = n /\ zip_in'[2] = zip_in[2]
    BY <1>1, SMT
  <2> HIDE DEF n, e
  <2>3. Types'
    <3>1. zip_in' \in Num \X Num
      BY <2>1, <2>2, SMT DEF Inv, Types, Num
    <3> QED
      BY <1>a, <2>1, <3>1 DEF Inv, Types
  <2>4. Control'
    BY <1>a, <1>b, <1>1 DEF Inv, Control, Opening, Making
  <2>5. Ends'
    BY <1>a, <1>b, <1>c, <2>1, <2>2 DEF Inv, Ends, At
  <2>6. Child'
    BY <1>a, <1>c, <1>1, <2>1, <2>2 DEF Inv, Child, At
  <2>7. SocketKept'
    <3>1. Socket => Socket'
      BY <1>a, <1>1, <2>1, <2>2 DEF Socket
    <3> QED
      BY <1>a, <1>b, <3>1 DEF Inv, SocketKept
  <2>8. FileTable'
    <3>1. file /\ ~Moves => zip_in[1] > 2
      BY <1>b DEF Inv, FileTable
    <3>2. zip_in[1] > 2 => FALSE
      BY <1>1, <1>c, SMT DEF At, Fd
    <3> QED
      BY <1>a, <3>1, <3>2 DEF FileTable, Moves
  <2>9. FlowEnds'
    BY <1>a, <1>b DEF FlowEnds
  <2>10. Result' /\ CallerTable' /\ Flow'
    BY <1>a, <1>1, <2>1, PipelineFrame
  <2> QED
    BY <1>a, <1>d, <1>1, <2>3, <2>4, <2>5, <2>6, <2>7, <2>8, <2>9, <2>10 DEF Inv
<1>2. CASE zip_in[1] > 2 /\ cpc' = "stdio" /\ UNCHANGED <<zip_in, tab>>
  <2>1. Types'
    BY <1>a, <1>2 DEF Inv, Types
  <2>2. Control'
    BY <1>a, <1>b, <1>2 DEF Inv, Control, Opening, Making
  <2>3. Child'
    BY <1>a, <1>c, <1>2 DEF Child, At
  <2>4. SocketKept'
    BY <1>a, <1>2 DEF Inv, SocketKept, Socket
  <2>5. Ends' /\ FileTable' /\ FlowEnds' /\ Result' /\ CallerTable' /\ Flow'
    BY <1>a, <1>2, ChildFrame
  <2> QED
    BY <1>d, <1>2, <2>1, <2>2, <2>3, <2>4, <2>5 DEF Inv
<1> QED
  BY <1>1, <1>2 DEF ChildMoveZip

\* stdin, stdout, stderr and the status pipe are all that stays open
\* (elfcore.c:1567-1578).
LEMMA ConnectedIs ==
  ASSUME NEW t \in [Fd -> EndNames], fds[2] \in Fd, fds[2] > 2,
         zip_in[1] \in Fd, t[zip_in[1]] = "ir", zip_out[2] \in Fd, t[zip_out[2]] = "ow",
         zip_out[2] > 2, t[fds[2]] = "sw"
  PROVE  /\ Connected(t) \in [Fd -> EndNames]
         /\ Connected(t) = [f \in Fd |-> IF f = 0 THEN "ir" ELSE IF f = 1 THEN "ow"
                                         ELSE IF f = 2 THEN "null"
                                         ELSE IF f = fds[2] THEN "sw" ELSE "free"]
<1> DEFINE a == [t EXCEPT ![0] = t[zip_in[1]]]
           b == [a EXCEPT ![1] = a[zip_out[2]]]
           c == Close(b, Fd \ {0, 1, fds[2]})
<1>1. 0 \in Fd /\ 1 \in Fd /\ 2 \in Fd /\ zip_out[2] # 0 /\ fds[2] \notin {0, 1, 2}
  BY PipelineAssumption, SMT DEF Fd
<1>2. a \in [Fd -> EndNames] /\ \A f \in Fd : a[f] = IF f = 0 THEN "ir" ELSE t[f]
  BY <1>1, EndsAreNames
<1> HIDE DEF a
<1>3. b \in [Fd -> EndNames] /\ \A f \in Fd : b[f] = IF f = 1 THEN "ow" ELSE a[f]
  BY <1>1, <1>2, EndsAreNames
<1> HIDE DEF b
<1>4. /\ c \in [Fd -> EndNames]
      /\ \A f \in Fd : c[f] = IF f \in {0, 1, fds[2]} THEN b[f] ELSE "free"
  BY <1>3, EndsAreNames DEF Close
<1> HIDE DEF c
<1>5. Connected(t) = [c EXCEPT ![2] = "null"]
  BY DEF Connected, Dup2, a, b, c
<1>6. /\ Connected(t) \in [Fd -> EndNames]
      /\ \A f \in Fd : Connected(t)[f] = IF f = 2 THEN "null" ELSE c[f]
  BY <1>1, <1>4, <1>5, EndsAreNames
<1>7. ASSUME NEW f \in Fd
      PROVE  Connected(t)[f] = IF f = 0 THEN "ir" ELSE IF f = 1 THEN "ow"
                               ELSE IF f = 2 THEN "null" ELSE IF f = fds[2] THEN "sw" ELSE "free"
  BY <1>1, <1>2, <1>3, <1>4, <1>6, SMT
<1> QED
  BY <1>6, <1>7

\* The child connects its ends (elfcore.c:1567-1578).
LEMMA ChildStdioKeeps ==
  ASSUME Inv, ChildStdio, UNCHANGED pathVars
  PROVE  Inv'
<1>a. /\ cpc = "stdio" /\ cpc' = "report"
      /\ tab' = [tab EXCEPT !["child"] = Connected(tab["child"])]
      /\ UNCHANGED <<table, first, fds, zip_in, zip_out, trying, status, found, ppc, ignored,
                     faults>>
      /\ UNCHANGED <<file, pc, dpc, mail, rc>>
  BY DEF ChildStdio, pathVars, pipeVars
<1>b. ppc \in {"close", "read"} /\ table # <<>>
  BY <1>a, DumperWaits
<1>c. /\ At("child", fds[2], "sw") /\ At("child", zip_in[1], "ir")
      /\ At("child", zip_out[2], "ow") /\ zip_out[2] > 2 /\ fds[2] > 2
  BY <1>a DEF Inv, Child
<1> DEFINE t == Connected(tab["child"])
<1>d. tab["child"] \in [Fd -> EndNames]
  BY ProcNames DEF Inv, Types
<1>1. /\ t \in [Fd -> EndNames]
      /\ t = [f \in Fd |-> IF f = 0 THEN "ir" ELSE IF f = 1 THEN "ow"
                           ELSE IF f = 2 THEN "null" ELSE IF f = fds[2] THEN "sw" ELSE "free"]
  BY <1>c, <1>d, ConnectedIs DEF At
<1> HIDE DEF t
<1>2. /\ tab' \in [Procs -> [Fd -> EndNames]] /\ tab'["child"] = t
      /\ tab'["dumper"] = tab["dumper"] /\ tab'["app"] = tab["app"]
  BY <1>a, <1>1, TabStep, ProcNames DEF Inv, t
<1>3. Types'
  BY <1>a, <1>2 DEF Inv, Types
<1>4. Control'
  BY <1>a, <1>b DEF Inv, Control, Opening, Making
<1>5. Child'
  BY <1>a, <1>c, <1>1, <1>2 DEF Child, At
<1>6. Search'
  BY <1>a DEF Inv, Search, Reported, Right, Excuse, Chosen, Ended, IsNull, IsEmpty
<1>7. SocketKept'
  BY <1>a, <1>2 DEF Inv, SocketKept, Socket
<1>8. Ends' /\ FileTable' /\ FlowEnds' /\ Result' /\ CallerTable' /\ Flow'
  BY <1>a, <1>2, ChildFrame
<1> QED
  BY <1>3, <1>4, <1>5, <1>6, <1>7, <1>8 DEF Inv

\* The entry about to be tried, or the end of the search, is reported
\* (elfcore.c:1580-1597).
LEMMA ChildReportKeeps ==
  ASSUME Inv, ChildReport, UNCHANGED pathVars
  PROVE  Inv'
<1>a. /\ cpc = "report" /\ cpc' = (IF Ended(trying) THEN "exit" ELSE "exec")
      /\ status' = Append(status, trying)
      /\ UNCHANGED <<table, tab, first, fds, zip_in, zip_out, trying, found, ppc, ignored, faults>>
      /\ UNCHANGED <<file, pc, dpc, mail, rc>>
  BY DEF ChildReport, pathVars, pipeVars, Ended
<1>b. ppc \in {"close", "read"} /\ table # <<>>
  BY <1>a, DumperWaits
<1>1. Types'
  BY <1>a, SMT DEF Inv, Types
<1>2. Control'
  BY <1>a, <1>b DEF Inv, Control, Opening, Making
<1>3. Child'
  BY <1>a DEF Inv, Child
<1>4. Search'
  <2>1. status' # <<>> /\ status'[Len(status')] = trying
    <3>1. status \in Seq(Nat) /\ trying \in Nat
      BY DEF Inv, Types
    <3>2. Len(Append(status, trying)) = Len(status) + 1 /\ Len(status) + 1 # 0
      BY <3>1, SMT
    <3>3. Append(status, trying)[Len(status) + 1] = trying
      BY <3>1, SMT
    <3>4. Len(<<>>) = 0
      BY SMT
    <3> QED
      BY <1>a, <3>2, <3>3, <3>4
  <2>2. Reported(trying)'
    BY <1>a, <2>1 DEF Reported
  <2>3. Ended(trying)' = Ended(trying)
    BY <1>a DEF Ended, IsNull, IsEmpty
  <2> QED
    BY <1>a, <1>b, <2>2, <2>3 DEF Inv, Search, Opening, Making
<1>5. SocketKept'
  BY <1>a DEF Inv, SocketKept, Socket
<1>6. Ends' /\ FileTable' /\ FlowEnds' /\ Result' /\ CallerTable' /\ Flow'
  BY <1>a, ChildFrame
<1> QED
  BY <1>1, <1>2, <1>3, <1>4, <1>5, <1>6 DEF Inv

\* The table of the child without the status pipe.
LEMMA StatusClosed ==
  ASSUME Inv, cpc \in {"exec", "exit"}, tab' = [tab EXCEPT !["child"] = Close(@, {fds[2]})]
  PROVE  /\ tab' \in [Procs -> [Fd -> EndNames]]
         /\ tab'["dumper"] = tab["dumper"] /\ tab'["app"] = tab["app"]
         /\ tab'["child"] = [f \in Fd |-> IF f = 0 THEN "ir" ELSE IF f = 1 THEN "ow"
                                          ELSE IF f = 2 THEN "null" ELSE "free"]
<1>1. /\ fds[2] \in Fd /\ fds[2] > 2
      /\ tab["child"] = [f \in Fd |-> IF f = 0 THEN "ir" ELSE IF f = 1 THEN "ow"
                                      ELSE IF f = 2 THEN "null"
                                      ELSE IF f = fds[2] THEN "sw" ELSE "free"]
  BY DEF Inv, Child
<1>2. fds[2] # 0 /\ fds[2] # 1 /\ fds[2] # 2
  BY <1>1, SMT DEF Fd
<1>3. /\ tab' \in [Procs -> [Fd -> EndNames]]
      /\ tab'["dumper"] = tab["dumper"] /\ tab'["app"] = tab["app"]
      /\ \A f \in Fd : tab'["child"][f] = IF f \in {fds[2]} THEN "free" ELSE tab["child"][f]
  <2> DEFINE X == {fds[2]}
  <2>1. Types /\ tab' = [tab EXCEPT !["child"] = Close(@, X)]
    BY DEF Inv
  <2> HIDE DEF X
  <2>2. /\ tab' \in [Procs -> [Fd -> EndNames]]
        /\ tab'["dumper"] = tab["dumper"] /\ tab'["app"] = tab["app"]
        /\ \A f \in Fd : tab'["child"][f] = IF f \in X THEN "free" ELSE tab["child"][f]
    BY <2>1, TabClose, ProcNames
  <2> QED
    BY <2>2 DEF X
<1>4. tab'["child"] \in [Fd -> EndNames]
  BY <1>3, ProcNames
<1>5. ASSUME NEW f \in Fd
      PROVE  tab'["child"][f] = IF f = 0 THEN "ir" ELSE IF f = 1 THEN "ow"
                                ELSE IF f = 2 THEN "null" ELSE "free"
  <2>1. tab["child"][f] = IF f = 0 THEN "ir" ELSE IF f = 1 THEN "ow" ELSE IF f = 2 THEN "null"
                          ELSE IF f = fds[2] THEN "sw" ELSE "free"
    BY <1>1
  <2> QED
    BY <1>2, <1>3, <2>1
<1>6. tab'["child"] = [f \in Fd |-> IF f = 0 THEN "ir" ELSE IF f = 1 THEN "ow"
                                    ELSE IF f = 2 THEN "null" ELSE "free"]
  BY <1>4, <1>5
<1> QED
  BY <1>3, <1>6

\* exec succeeds, or the next entry is tried (elfcore.c:1587-1626).
LEMMA ChildExecKeeps ==
  ASSUME Inv, ChildExec, UNCHANGED pathVars
  PROVE  Inv'
<1>a. /\ cpc = "exec"
      /\ UNCHANGED <<table, first, fds, zip_in, zip_out, status, found, ppc, ignored, faults>>
      /\ UNCHANGED <<file, pc, dpc, mail, rc>>
  BY DEF ChildExec, pathVars, pipeVars
<1>b. ppc \in {"close", "read"} /\ table # <<>>
  BY <1>a, DumperWaits
<1>1. CASE /\ CanExec(table[trying]) /\ cpc' = "running"
           /\ tab' = [tab EXCEPT !["child"] = Close(@, {fds[2]})]
           /\ UNCHANGED trying
  <2>1. /\ tab' \in [Procs -> [Fd -> EndNames]]
        /\ tab'["dumper"] = tab["dumper"] /\ tab'["app"] = tab["app"]
        /\ tab'["child"] = [f \in Fd |-> IF f = 0 THEN "ir" ELSE IF f = 1 THEN "ow"
                                         ELSE IF f = 2 THEN "null" ELSE "free"]
    BY <1>a, <1>1, StatusClosed
  <2>2. Types'
    BY <1>a, <1>1, <2>1 DEF Inv, Types
  <2>3. Control'
    BY <1>a, <1>b, <1>1 DEF Inv, Control, Opening, Making
  <2>4. Child'
    <3>1. 2 \in Fd
      <4>1. fds[2] \in Fd /\ fds[2] > 2
        BY <1>a DEF Inv, Child
      <4> QED
        BY <4>1, PipelineAssumption, SMT DEF Fd
    <3> QED
      BY <1>1, <2>1, <3>1 DEF Child
  <2>5. Search'
    BY <1>a, <1>b, <1>1 DEF Inv, Search, Opening, Making, Reported, Ended, IsNull, IsEmpty
  <2>6. SocketKept'
    BY <1>a, <1>1, <2>1 DEF Inv, SocketKept, Socket
  <2>7. Ends' /\ FileTable' /\ FlowEnds' /\ Result' /\ CallerTable' /\ Flow'
    BY <1>a, <1>1, <2>1, ChildFrame
  <2> QED
    BY <2>2, <2>3, <2>4, <2>5, <2>6, <2>7 DEF Inv
<1>2. CASE ~CanExec(table[trying]) /\ trying' = trying + 1 /\ cpc' = "report" /\ UNCHANGED tab
  <2>1. /\ trying \in 1 .. Len(table) + 1 /\ ~Ended(trying) /\ Len(table) \in Nat
        /\ \A k \in 1 .. trying - 1 : ~table[k].empty /\ ~CanExec(table[k])
    <3>1. Len(table) \in Nat
      BY SMT DEF Inv, Types
    <3> QED
      BY <1>a, <3>1 DEF Inv, Search
  <2>2. Types'
    <3>1. trying' \in Nat
      BY <1>2, SMT DEF Inv, Types
    <3> QED
      BY <1>a, <1>2, <3>1 DEF Inv, Types
  <2>3. Control'
    BY <1>a, <1>b, <1>2 DEF Inv, Control, Opening, Making
  <2>4. Child'
    BY <1>a, <1>2 DEF Inv, Child
  <2>5. Search'
    <3>1. trying' \in 1 .. Len(table) + 1 /\ trying # 0 /\ trying # Last(table)
      BY <1>2, <2>1, SMT DEF Ended, IsNull, Last
    <3>2. ~table[trying].empty
      BY <2>1 DEF Ended, IsEmpty
    <3>3. \A k \in 1 .. trying' - 1 : k = trying \/ k \in 1 .. trying - 1
      BY <1>2, <2>1, SMT
    <3>4. \A k \in 1 .. trying' - 1 : ~table[k].empty /\ ~CanExec(table[k])
      BY <1>2, <2>1, <3>2, <3>3
    <3> QED
      BY <1>a, <1>b, <1>2, <3>1, <3>4 DEF Search, Opening, Making
  <2>6. SocketKept'
    BY <1>a, <1>2 DEF Inv, SocketKept, Socket
  <2>7. Ends' /\ FileTable' /\ FlowEnds' /\ Result' /\ CallerTable' /\ Flow'
    BY <1>a, <1>b, <1>2, ChildFrame
  <2> QED
    BY <2>2, <2>3, <2>4, <2>5, <2>6, <2>7 DEF Inv
<1> QED
  BY <1>1, <1>2 DEF ChildExec

\* Nothing was found: the child closes the status pipe (elfcore.c:1628-1631).
LEMMA ChildCloseKeeps ==
  ASSUME Inv, ChildClose, UNCHANGED pathVars
  PROVE  Inv'
<1>a. /\ cpc = "exit" /\ cpc' = "closed"
      /\ UNCHANGED <<table, first, fds, zip_in, zip_out, trying, status, found, ppc, ignored,
                     faults>>
      /\ UNCHANGED <<file, pc, dpc, mail, rc>>
  BY DEF ChildClose, pathVars, pipeVars
<1>b. ppc \in {"close", "read"} /\ table # <<>>
  BY <1>a, DumperWaits
<1>1. /\ tab' \in [Procs -> [Fd -> EndNames]]
      /\ tab'["dumper"] = tab["dumper"] /\ tab'["app"] = tab["app"]
  BY <1>a, StatusClosed DEF ChildClose
<1>2. Types'
  BY <1>a, <1>1 DEF Inv, Types
<1>3. Control'
  BY <1>a, <1>b DEF Inv, Control, Opening, Making
<1>4. Child'
  BY <1>a DEF Child
<1>5. Search'
  BY <1>a, <1>b DEF Inv, Search, Opening, Making, Reported, Ended, IsNull, IsEmpty
<1>6. SocketKept'
  BY <1>a, <1>1 DEF Inv, SocketKept, Socket
<1>7. Ends' /\ FileTable' /\ FlowEnds' /\ Result' /\ CallerTable' /\ Flow'
  BY <1>a, <1>1, ChildFrame
<1> QED
  BY <1>2, <1>3, <1>4, <1>5, <1>6, <1>7 DEF Inv

\* The table of the child is gone with it.
LEMMA ChildGone ==
  ASSUME Inv, tab' = [tab EXCEPT !["child"] = Nothing]
  PROVE  /\ tab' \in [Procs -> [Fd -> EndNames]]
         /\ tab'["dumper"] = tab["dumper"] /\ tab'["app"] = tab["app"]
<1>1. Nothing \in [Fd -> EndNames]
  BY EndsAreNames DEF Nothing
<1> QED
  BY <1>1, TabStep, ProcNames DEF Inv

\* The exit of the child that found nothing (elfcore.c:1632-1633).
LEMMA ChildExitKeeps ==
  ASSUME Inv, ChildExit, UNCHANGED pathVars
  PROVE  Inv'
<1>a. /\ cpc = "closed" /\ cpc' = "exited"
      /\ UNCHANGED <<table, first, fds, zip_in, zip_out, trying, status, found, ppc, ignored,
                     faults>>
      /\ UNCHANGED <<file, pc, dpc, mail, rc>>
  BY DEF ChildExit, pathVars, pipeVars
<1>1. /\ tab' \in [Procs -> [Fd -> EndNames]]
      /\ tab'["dumper"] = tab["dumper"] /\ tab'["app"] = tab["app"]
  BY ChildGone DEF ChildExit
<1>2. Types'
  BY <1>a, <1>1 DEF Inv, Types
<1>3. Control'
  BY <1>a DEF Inv, Control, Opening, Making
<1>4. Child'
  BY <1>a DEF Child
<1>b. Right' = Right /\ (Excuse => Excuse') /\ Ended(trying) /\ Ended(trying)'
  BY <1>a, ExcuseFrame DEF Inv, Search, Ended, IsNull, IsEmpty
<1>5. Search'
  BY <1>a, <1>b DEF Inv, Search, Reported, IsNull, IsEmpty
<1>6. SocketKept'
  BY <1>a, <1>1 DEF Inv, SocketKept, Socket
<1>7. Ends' /\ FileTable' /\ FlowEnds' /\ Result' /\ CallerTable' /\ Flow'
  BY <1>a, <1>b, <1>1, ChildFrame
<1> QED
  BY <1>2, <1>3, <1>4, <1>5, <1>6, <1>7 DEF Inv

-----------------------------------------------------------------------------
(* The compressor keeps the invariant. *)

\* The pipes of a compressor are among the pipes.
LEMMA PipeNames == "i" \in Pipes /\ "o" \in Pipes /\ ReadEnd["o"] = "or" /\ WriteEnd["i"] = "iw"
                   /\ ReadEnd["i"] = "ir" /\ WriteEnd["o"] = "ow"
BY SMT DEF Pipes, ReadEnd, WriteEnd

\* While the dumper feeds a compressor it holds both its ends (elfcore.c:1726-1733).
LEMMA DumperHoldsEnds ==
  ASSUME Inv, file, cpc = "running"
  PROVE  /\ pc \in {"create", "open", "poll", "drain", "push", "endpipe"} =>
              Writers("i") /\ Readers("o")
         /\ pc = "flush" => Readers("o")
<1>1. ~Ended(trying) /\ table # <<>>
  BY DEF Inv, Search, Control
<1>2. ASSUME NEW n, At("dumper", n, "or") PROVE Readers("o")
  BY <1>2, ProcNames, PipeNames DEF At, Held, Readers
<1>3. ASSUME NEW n, At("dumper", n, "iw") PROVE Writers("i")
  BY <1>3, ProcNames, PipeNames DEF At, Held, Writers
<1>4. ASSUME pc \in {"create", "open", "poll", "drain", "push", "endpipe"}
      PROVE  ppc \in {"close", "read", "decide", "ok"}
  BY <1>1, <1>4 DEF Inv, Control, Search, Making, Opening, Writing
<1>5. CASE ppc \in {"close", "read", "decide"}
  <2>1. At("dumper", zip_in[2], "iw") /\ At("dumper", zip_out[1], "or") /\ pc = "create"
    BY <1>5 DEF Inv, Ends, Control, Making
  <2> QED
    BY <1>2, <1>3, <2>1
<1>6. CASE ppc = "ok"
  <2>1. fds[1] >= 0
    BY <1>1, <1>6 DEF Inv, FlowEnds
  <2>2. pc \in {"create", "open", "poll", "drain", "push", "endpipe"} =>
          At("dumper", fds[1], "or") /\ At("dumper", fds[2], "iw")
    BY <1>6, <2>1 DEF Inv, FlowEnds
  <2>3. pc = "flush" => At("dumper", fds[1], "or")
    BY DEF Inv, FlowEnds
  <2> QED
    BY <1>2, <1>3, <2>2, <2>3
<1>7. pc = "flush" => ppc = "ok"
  BY <1>1 DEF Inv, Control, Writing
<1> QED
  BY <1>4, <1>5, <1>6, <1>7

\* Whatever the compressor does but end, only the blocks move.
LEMMA CompressFrame ==
  ASSUME Inv, UNCHANGED <<compressorKeeps, died, faults>>, tab' \in [Procs -> [Fd -> EndNames]],
         tab'["dumper"] = tab["dumper"], tab'["app"] = tab["app"], cpc = "running",
         \/ cpc' = cpc /\ tab' = tab
         \/ cpc' = "exited"
  PROVE  Types' /\ Control' /\ Ends' /\ Child' /\ Search' /\ Result' /\ SocketKept' /\ FileTable'
         /\ CallerTable' /\ FlowEnds'
<1>a. UNCHANGED <<table, first, fds, zip_in, zip_out, trying, status, found, ppc, ignored, file,
                  pc, dpc, rc, selected, mail>>
  BY DEF compressorKeeps
<1>1. Types'
  BY <1>a DEF Inv, Types
<1>2. Control'
  BY <1>a DEF Inv, Control, Opening, Making
<1>3. Child'
  BY <1>a DEF Inv, Child
<1>b. Right' = Right /\ (Excuse => Excuse') /\ Ended(trying)' = Ended(trying)
  BY <1>a, ExcuseFrame DEF Ended, IsNull, IsEmpty
<1>4. Search'
  BY <1>a, <1>b DEF Inv, Search, Reported, IsNull, IsEmpty
<1>5. SocketKept'
  BY <1>a DEF Inv, SocketKept, Socket
<1>6. Result' /\ CallerTable'
  BY <1>a, CallerFrame
<1>7. Ends' /\ FileTable' /\ FlowEnds'
  BY <1>a, DumperFrame
<1> QED
  BY <1>1, <1>2, <1>3, <1>4, <1>5, <1>6, <1>7

\* A step of the compressor: no block is lost, and it ends by itself only when its
\* input is at the end, or nobody wants its output any more.
LEMMA CompressKeeps ==
  ASSUME Inv, Compress
  PROVE  Inv'
<1>a. /\ cpc = "running" /\ UNCHANGED <<compressorKeeps, died, faults>>
      /\ UNCHANGED <<file, pc, left, out, max_length, rc, table, trying, fds>>
  BY DEF Compress, compressorKeeps
<1>b. Ended(trying)' = Ended(trying) /\ ~Ended(trying)
  BY <1>a DEF Inv, Search, Ended, IsNull, IsEmpty
<1>c. file => /\ left \in Nat /\ held \in Nat /\ out \in Nat /\ q \in [Pipes -> Nat]
              /\ q["i"] \in Nat /\ q["o"] \in Nat
  BY PipeNames DEF Inv, Flow
<1>1. CASE /\ q["i"] > 0
           /\ q' = [q EXCEPT !["i"] = @ - 1] /\ held' = held + 1
           /\ UNCHANGED <<tab, cpc>>
  <2>1. file => /\ held' \in Nat /\ q' \in [Pipes -> Nat] /\ InTransit' = InTransit
                /\ ~(pc \in {"begin", "create", "open"})
    <3> SUFFICES ASSUME file PROVE /\ held' \in Nat /\ q' \in [Pipes -> Nat]
                                   /\ InTransit' = InTransit
                                   /\ ~(pc \in {"begin", "create", "open"})
      OBVIOUS
    <3>1. q'["i"] = q["i"] - 1 /\ q'["o"] = q["o"] /\ q["i"] - 1 \in Nat
      BY <1>1, <1>c, PipeNames, SMT
    <3>2. InTransit' = InTransit /\ held' \in Nat
      BY <1>a, <1>1, <1>c, <3>1, SMT DEF InTransit
    <3>3. q' \in [Pipes -> Nat]
      BY <1>1, <1>c, <3>1, PipeNames
    <3>4. ~(pc \in {"begin", "create", "open"})
      <4>1. q["i"] # 0
        BY <1>1, <1>c, SMT
      <4> QED
        BY <4>1 DEF Inv, Flow
    <3> QED
      BY <3>2, <3>3, <3>4
  <2>2. Flow'
    BY <1>a, <1>b, <1>1, <2>1 DEF Inv, Flow
  <2>3. tab' \in [Procs -> [Fd -> EndNames]]
    BY <1>1 DEF Inv, Types
  <2> QED
    BY <1>a, <1>1, <2>2, <2>3, CompressFrame DEF Inv
<1>2. CASE /\ held > 0 /\ q["o"] < Cap /\ Readers("o")
           /\ q' = [q EXCEPT !["o"] = @ + 1] /\ held' = held - 1
           /\ UNCHANGED <<tab, cpc>>
  <2>1. file => /\ held' \in Nat /\ q' \in [Pipes -> Nat] /\ InTransit' = InTransit
                /\ ~(pc \in {"begin", "create", "open"})
    <3> SUFFICES ASSUME file PROVE /\ held' \in Nat /\ q' \in [Pipes -> Nat]
                                   /\ InTransit' = InTransit
                                   /\ ~(pc \in {"begin", "create", "open"})
      OBVIOUS
    <3>1. q'["o"] = q["o"] + 1 /\ q'["i"] = q["i"] /\ q["o"] + 1 \in Nat
      BY <1>2, <1>c, PipeNames, SMT
    <3>2. InTransit' = InTransit /\ held' \in Nat
      BY <1>a, <1>2, <1>c, <3>1, SMT DEF InTransit
    <3>3. q' \in [Pipes -> Nat]
      BY <1>2, <1>c, <3>1, PipeNames
    <3>4. ~(pc \in {"begin", "create", "open"})
      <4>1. held # 0
        BY <1>2, <1>c, SMT
      <4> QED
        BY <4>1 DEF Inv, Flow
    <3> QED
      BY <3>2, <3>3, <3>4
  <2>2. Flow'
    BY <1>a, <1>b, <1>2, <2>1 DEF Inv, Flow
  <2>3. tab' \in [Procs -> [Fd -> EndNames]]
    BY <1>2 DEF Inv, Types
  <2> QED
    BY <1>a, <1>2, <2>2, <2>3, CompressFrame DEF Inv
<1>3. CASE /\ \/ held = 0 /\ q["i"] = 0 /\ ~Writers("i")
              \/ held > 0 /\ ~Readers("o")
           /\ cpc' = "exited" /\ tab' = [tab EXCEPT !["child"] = Nothing]
           /\ UNCHANGED <<q, held>>
  <2>1. file => /\ ~(pc \in {"create", "open", "poll", "drain", "push", "endpipe"})
                /\ pc = "flush" => held = 0 /\ q["i"] = 0
    BY <1>a, <1>3, DumperHoldsEnds
  <2>2. InTransit' = InTransit
    BY <1>a, <1>3 DEF InTransit
  <2>3. Flow'
    BY <1>a, <1>3, <2>1, <2>2 DEF Inv, Flow
  <2>4. /\ tab' \in [Procs -> [Fd -> EndNames]]
        /\ tab'["dumper"] = tab["dumper"] /\ tab'["app"] = tab["app"]
    BY <1>3, ChildGone
  <2> QED
    BY <1>a, <1>3, <2>3, <2>4, CompressFrame DEF Inv
<1> QED
  BY <1>1, <1>2, <1>3 DEF Compress

\* A compressor that is killed takes a fault.
LEMMA CompressorDiesKeeps ==
  ASSUME Inv, CompressorDies
  PROVE  Inv'
<1>a. /\ cpc = "running" /\ cpc' = "exited" /\ died' = TRUE /\ faults' = faults + 1
      /\ UNCHANGED <<table, first, fds, zip_in, zip_out, trying, status, found, ppc, ignored, file,
                     pc, dpc, left, out, max_length, rc, selected, mail, q, held>>
  BY DEF CompressorDies, compressorKeeps, Fault
<1>b. faults' \in Nat /\ faults' > 0
  BY <1>a, SMT DEF Inv, Types
<1>c. /\ tab' \in [Procs -> [Fd -> EndNames]]
      /\ tab'["dumper"] = tab["dumper"] /\ tab'["app"] = tab["app"]
  BY ChildGone DEF CompressorDies
<1>d. Right' = Right /\ (Excuse => Excuse') /\ Ended(trying)' = Ended(trying)
  BY <1>a, <1>b, ExcuseFrame DEF Ended, IsNull, IsEmpty
<1>1. Types'
  BY <1>a, <1>b, <1>c DEF Inv, Types
<1>2. Control'
  BY <1>a DEF Inv, Control, Opening, Making
<1>3. Child'
  BY <1>a DEF Child
<1>4. Search'
  BY <1>a, <1>d DEF Inv, Search, Reported, IsNull, IsEmpty
<1>5. SocketKept'
  BY <1>a, <1>c DEF Inv, SocketKept, Socket
<1>6. Result' /\ CallerTable'
  BY <1>a, <1>b, <1>c, CallerFrame
<1>7. Ends' /\ FileTable' /\ FlowEnds'
  BY <1>a, <1>c, DumperFrame
<1>8. Flow'
  <2>1. InTransit' = InTransit
    BY <1>a DEF InTransit
  <2> QED
    BY <1>a, <1>b, <2>1 DEF Inv, Flow
<1> QED
  BY <1>1, <1>2, <1>3, <1>4, <1>5, <1>6, <1>7, <1>8 DEF Inv

-----------------------------------------------------------------------------
(* The writer of a file keeps the invariant. *)

\* What a step outside CreatePipeline leaves as it is.
LEMMA CallsFrame ==
  ASSUME Inv, UNCHANGED calls, tab'["child"] = tab["child"], faults > 0 => faults' > 0,
         tab'["dumper"] = tab["dumper"] \/ ppc \in {"idle", "ok", "failed"}
  PROVE  /\ Ends' /\ Child' /\ Search' /\ Right' = Right /\ (Excuse => Excuse')
         /\ Ended(trying)' = Ended(trying)
<1>a. UNCHANGED <<table, first, fds, zip_in, zip_out, trying, status, found, ppc, cpc, ignored>>
  BY DEF calls
<1>1. Right' = Right /\ (Excuse => Excuse') /\ Ended(trying)' = Ended(trying)
  BY <1>a, ExcuseFrame DEF Ended, IsNull, IsEmpty
<1>2. Ends'
  BY <1>a DEF Inv, Ends, At
<1>3. Child'
  BY <1>a DEF Inv, Child, At
<1>4. Search'
  BY <1>a, <1>1 DEF Inv, Search, Reported, IsNull, IsEmpty
<1> QED
  BY <1>1, <1>2, <1>3, <1>4

\* A failed call is counted.
LEMMA FaultCounts ==
  ASSUME Inv, Fault
  PROVE  faults' \in Nat /\ faults' > 0
BY SMT DEF Inv, Types, Fault

\* -1 is not a descriptor.
LEMMA NoNumber == -1 \notin Fd
BY PipelineAssumption, SMT DEF Fd

\* A file name: a pipeline is made if the table has an entry (elfcore.c:2264-2287).
LEMMA BeginKeeps ==
  ASSUME Inv, Begin
  PROVE  Inv'
<1>a. /\ file /\ pc = "begin"
      /\ UNCHANGED <<table, tab, first, fds, zip_in, zip_out, trying, status, found, cpc, ignored,
                     faults, file, dpc, rc, mail>>
      /\ UNCHANGED <<left, q, held, out, max_length, died>>
  BY DEF Begin, data
<1>b. ppc = "idle" /\ cpc = "none" /\ dpc = "none" /\ rc = -1
  BY <1>a DEF Inv, Control, Result
<1>c. Right' = Right /\ (Excuse => Excuse') /\ Ended(trying)' = Ended(trying)
  BY <1>a, ExcuseFrame DEF Ended, IsNull, IsEmpty
<1>d. \/ table = <<>> /\ pc' = "open" /\ ppc' = ppc /\ selected' = found
      \/ table # <<>> /\ pc' = "create" /\ ppc' = "pipe" /\ selected' = selected
  BY DEF Begin
<1>e. fds = <<-1, -1>> /\ fds[1] = -1 /\ fds[2] = -1
  <2>1. fds = <<-1, -1>>
    BY <1>b DEF Inv, Ends
  <2> QED
    BY <2>1, SMT
<1>1. Types'
  BY <1>a DEF Inv, Types
<1>2. Control'
  <2>1. CASE table = <<>> /\ pc' = "open" /\ ppc' = ppc
    BY <1>a, <1>b, <2>1 DEF Control, Opening, Making
  <2>2. CASE table # <<>> /\ pc' = "create" /\ ppc' = "pipe"
    BY <1>a, <1>b, <2>2 DEF Control, Opening, Making, Writing
  <2> QED
    BY <1>d, <2>1, <2>2
<1>3. Ends'
  BY <1>a, <1>b, <1>d DEF Inv, Ends
<1>4. Child'
  BY <1>a, <1>b DEF Inv, Child, At
<1>5. Search'
  BY <1>a, <1>b, <1>c, <1>d DEF Inv, Search, Opening
<1>6. Result'
  BY <1>a, <1>b, <1>c, <1>d DEF Inv, Result, Search, Right, Returned, Writing
<1>7. SocketKept'
  BY <1>a, <1>b DEF SocketKept
<1>8. FileTable'
  <2>1. Moves' = Moves
    BY <1>a DEF Moves
  <2>2. ~Moves => Owns("dumper", {})'
    BY <1>a DEF Inv, FileTable, Owns
  <2>3. ~Moves => Owns("dumper", {fds[1], fds[2]})'
    BY <1>a, <1>e, <2>2, NoNumber DEF Owns
  <2> QED
    BY <1>b, <1>d, <2>1, <2>2, <2>3 DEF FileTable, Writing
<1>9. CallerTable'
  BY <1>a DEF CallerTable
<1>10. FlowEnds'
  BY <1>a, <1>b, <1>d DEF FlowEnds
<1>11. Flow'
  <2>1. InTransit' = InTransit
    BY <1>a DEF InTransit
  <2> QED
    BY <1>a, <1>b, <1>d, <2>1 DEF Inv, Flow
<1> QED
  BY <1>1, <1>2, <1>3, <1>4, <1>5, <1>6, <1>7, <1>8, <1>9, <1>10, <1>11 DEF Inv

\* What a step of the writer of a file leaves as it is.
LEMMA FileFrame ==
  ASSUME Inv, file, UNCHANGED <<calls, file, dpc, mail>>, tab' \in [Procs -> [Fd -> EndNames]],
         tab'["child"] = tab["child"], faults > 0 => faults' > 0, faults' \in Nat, rc' \in Int,
         pc \in {"create", "open"} \cup Writing, pc' \in {"open", "end"} \cup Writing,
         pc = "create" => ppc \in {"ok", "failed"}, ppc = "failed" => pc' = "end"
  PROVE  /\ Types' /\ Control' /\ Ends' /\ Child' /\ Search' /\ SocketKept' /\ CallerTable'
         /\ Right' = Right /\ (Excuse => Excuse') /\ Ended(trying)' = Ended(trying)
         /\ ppc \in {"idle", "ok", "failed"} /\ dpc = "none" /\ Moves' = Moves
<1>a. UNCHANGED <<table, first, fds, zip_in, zip_out, trying, status, found, ppc, cpc, ignored>>
  BY DEF calls
<1>b. ppc \in {"idle", "ok", "failed"} /\ dpc = "none"
  <2>1. pc \in {"open"} \cup Writing => ppc \in {"ok", "idle"}
    BY DEF Inv, Control
  <2> QED
    BY <2>1 DEF Inv, Control
<1>1. /\ Ends' /\ Child' /\ Search' /\ Right' = Right /\ (Excuse => Excuse')
      /\ Ended(trying)' = Ended(trying)
  BY <1>b, CallsFrame
<1>2. Types'
  BY <1>a DEF Inv, Types
<1>3. Control'
  <2>1. ppc = "idle" <=> table = <<>>
    <3>1. pc = "create" => table # <<>> /\ ppc # "idle"
      BY DEF Inv, Control
    <3>2. pc # "begin"
      BY DEF Writing
    <3> QED
      BY <3>1, <3>2 DEF Inv, Control
  <2>2. /\ pc' \notin {"begin", "create", "fork", "skipped"}
        /\ pc' \in {"begin", "create", "open", "end"} \cup Writing
    BY DEF Writing
  <2>3. pc' \in {"open"} \cup Writing => ppc \in {"ok", "idle"}
    BY <1>b DEF Writing
  <2>4. ppc \notin Making
    BY <1>b DEF Making, Opening
  <2> QED
    BY <1>a, <1>b, <2>1, <2>2, <2>3, <2>4 DEF Inv, Control
<1>4. SocketKept'
  BY <1>b DEF SocketKept
<1>5. CallerTable'
  BY DEF CallerTable
<1>6. Moves' = Moves
  BY <1>a DEF Moves
<1> QED
  BY <1>1, <1>2, <1>3, <1>4, <1>5, <1>6, <1>b

\* CreatePipeline returned (elfcore.c:2283-2290).
LEMMA CreatedKeeps ==
  ASSUME Inv, Created
  PROVE  Inv'
<1>a. /\ file /\ pc = "create" /\ ppc \in {"ok", "failed"}
      /\ UNCHANGED <<calls, tab, faults, file, dpc, rc, mail>>
      /\ UNCHANGED <<left, q, held, out, max_length, died>>
      /\ UNCHANGED <<table, first, fds, trying, ppc, cpc, found>>
      /\ \/ ppc = "ok" /\ pc' = "open" /\ selected' = found
         \/ ppc = "failed" /\ pc' = "end" /\ selected' = selected
  BY DEF Created, pipeline, calls, data
<1>b. /\ faults \in Nat /\ rc \in Int /\ rc = -1 /\ tab \in [Procs -> [Fd -> EndNames]]
      /\ ~(rc >= 0) /\ rc # 0
  <2>1. faults \in Nat /\ rc \in Int /\ rc = -1 /\ tab \in [Procs -> [Fd -> EndNames]]
    BY <1>a DEF Inv, Types, Flow
  <2> QED
    BY <2>1, SMT
<1>1. /\ Types' /\ Control' /\ Ends' /\ Child' /\ Search' /\ SocketKept' /\ CallerTable'
      /\ Right' = Right /\ (Excuse => Excuse') /\ Ended(trying)' = Ended(trying)
      /\ Moves' = Moves
  <2>1. pc' \in {"open", "end"} \cup Writing /\ (ppc = "failed" => pc' = "end")
    BY <1>a
  <2> QED
    BY <1>a, <1>b, <2>1, FileFrame
<1>2. Result'
  <2>1. ppc = "ok" => found = Right
    BY DEF Inv, Search
  <2>2. ppc = "failed" => Excuse
    BY DEF Inv, Search
  <2> QED
    BY <1>a, <1>b, <1>1, <2>1, <2>2 DEF Inv, Result, Returned, Writing
<1>3. FileTable'
  <2>1. /\ ~Moves /\ ppc = "failed" => Owns("dumper", {})'
        /\ ~Moves /\ ppc = "ok" => Owns("dumper", {fds[1], fds[2]})'
    BY <1>a DEF Inv, FileTable, Owns
  <2> QED
    BY <1>a, <1>1, <2>1 DEF FileTable, Writing
<1>4. FlowEnds'
  BY <1>a, <1>1 DEF Inv, FlowEnds, At
<1>5. Flow'
  <2>1. InTransit' = InTransit
    BY <1>a DEF InTransit
  <2> QED
    BY <1>a, <1>b, <1>1, <2>1 DEF Inv, Flow
<1> QED
  BY <1>1, <1>2, <1>3, <1>4, <1>5 DEF Inv

\* What the application had open is not an end of a pipe or of a socket.
LEMMA OldIsPlain ==
  ASSUME Types, NEW f \in Fd
  PROVE  first[f] \notin {"file", "a", "b"}
<1>1. first[f] \in {"free", "old"}
  BY DEF Types
<1> QED
  BY <1>1

\* There is an entry in the table if there is a compressor to write to.
LEMMA PipeHasTable ==
  ASSUME Inv, file, pc = "open", fds[1] >= 0
  PROVE  ppc = "ok" /\ table # <<>>
<1>1. ppc \in {"ok", "idle"}
  BY DEF Inv, Control
<1>2. ppc # "idle"
  <2>1. ppc = "idle" => fds = <<-1, -1>>
    BY DEF Inv, Ends
  <2> QED
    BY <2>1, SMT
<1>3. ~Ended(trying)
  BY <1>1, <1>2 DEF Inv, FlowEnds
<1>4. trying = Last(table) \/ table # <<>>
  BY SMT DEF Inv, Search, Last
<1> QED
  BY <1>1, <1>2, <1>3, <1>4 DEF Ended, IsNull

\* The file is opened, or not (elfcore.c:2292-2344).
LEMMA OpenFileKeeps ==
  ASSUME Inv, OpenFile
  PROVE  Inv'
<1>a. /\ pc = "open" /\ UNCHANGED <<calls, file, dpc, selected, mail>>
      /\ UNCHANGED <<left, q, held, out, max_length, died>>
      /\ UNCHANGED <<table, first, fds, trying, ppc, cpc, found>>
  BY DEF OpenFile, calls, data
<1>b. /\ file /\ faults \in Nat /\ tab \in [Procs -> [Fd -> EndNames]] /\ rc = -1
      /\ ppc \in {"ok", "idle"} /\ selected = Right
      /\ left = Blocks /\ out = 0 /\ held = 0 /\ q["i"] = 0 /\ q["o"] = 0
  <2>1. file
    BY <1>a DEF Inv, Types, Control
  <2> QED
    BY <1>a, <2>1 DEF Inv, Types, Control, Flow, Result
<1>n. rc \in Int /\ ~(rc >= 0) /\ rc # 0 /\ 0 \in Int /\ 0 >= 0 /\ Types
  BY <1>b, SMT DEF Inv
<1>t. InTransit' = InTransit
  BY <1>a DEF InTransit
<1>o. ~Moves => Owns("dumper", {fds[1], fds[2]})
  BY <1>a, <1>b DEF Inv, FileTable
<1>1. CASE /\ max_length = 0
           /\ pc' = "close" /\ rc' = 0 /\ UNCHANGED <<tab, faults>>
  <2>1. /\ Types' /\ Control' /\ Ends' /\ Child' /\ Search' /\ SocketKept' /\ CallerTable'
        /\ Right' = Right /\ (Excuse => Excuse') /\ Ended(trying)' = Ended(trying)
        /\ Moves' = Moves
    <3>1. pc' \in {"open", "end"} \cup Writing /\ ppc # "failed" /\ rc' \in Int
          /\ pc \in {"create", "open"} \cup Writing
      BY <1>a, <1>b, <1>1, <1>n DEF Writing
    <3> QED
      BY <1>a, <1>b, <1>1, <3>1, FileFrame
  <2>2. Result'
    BY <1>a, <1>b, <1>1, <2>1 DEF Inv, Result, Returned, Writing
  <2>3. FileTable'
    <3>1. ~Moves => Owns("dumper", {fds[1], fds[2]} \cup Numbers("dumper", {"file"}))'
      BY <1>a, <1>n, <1>1, <1>o, OldIsPlain DEF Owns, Numbers
    <3> QED
      BY <1>a, <1>b, <1>1, <2>1, <3>1 DEF FileTable
  <2>4. FlowEnds'
    BY <1>a, <1>1, <2>1 DEF Inv, FlowEnds, At
  <2>5. Flow'
    BY <1>a, <1>b, <1>n, <1>1, <1>t, <2>1 DEF Inv, Flow
  <2> QED
    BY <2>1, <2>2, <2>3, <2>4, <2>5 DEF Inv
<1>2. CASE /\ max_length > 0 /\ Room(tab["dumper"])
           /\ tab' = [tab EXCEPT !["dumper"][Lowest(tab["dumper"])] = "file"]
           /\ pc' = (IF fds[1] >= 0 THEN "poll" ELSE "direct")
           /\ UNCHANGED <<rc, faults>>
  <2> DEFINE l == Lowest(tab["dumper"])
  <2>a. /\ tab' \in [Procs -> [Fd -> EndNames]] /\ tab'["child"] = tab["child"]
        /\ l \in Fd /\ tab["dumper"][l] = "free"
        /\ \A f \in Fd : tab'["dumper"][f] = IF f = l THEN "file" ELSE tab["dumper"][f]
    <3>1. tab' = [tab EXCEPT !["dumper"] = [@ EXCEPT ![Lowest(@)] = "file"]]
      BY <1>2
    <3>2. "file" \in EndNames
      BY DEF EndNames
    <3> QED
      BY <1>2, <1>n, <3>1, <3>2, TabOpen, ProcNames
  <2> HIDE DEF l
  <2>1. /\ Types' /\ Control' /\ Ends' /\ Child' /\ Search' /\ SocketKept' /\ CallerTable'
        /\ Right' = Right /\ (Excuse => Excuse') /\ Ended(trying)' = Ended(trying)
        /\ Moves' = Moves
    <3>1. pc' \in {"open", "end"} \cup Writing /\ ppc # "failed" /\ rc' \in Int
          /\ pc \in {"create", "open"} \cup Writing
      BY <1>a, <1>b, <1>2, <1>n DEF Writing
    <3> QED
      BY <1>a, <1>b, <1>2, <2>a, <3>1, FileFrame
  <2>2. Result'
    BY <1>a, <1>b, <1>2, <2>1 DEF Inv, Result, Returned, Writing
  <2>3. FileTable'
    <3>1. ~Moves => first[l] = "free"
      BY <1>o, <2>a DEF Owns
    <3>2. ~Moves => Owns("dumper", {fds[1], fds[2]} \cup Numbers("dumper", {"file"}))'
      BY <1>a, <1>n, <1>o, <2>a, <3>1, OldIsPlain DEF Owns, Numbers
    <3> QED
      BY <1>a, <1>b, <1>2, <2>1, <3>2 DEF FileTable
  <2>4. FlowEnds'
    <3>1. CASE fds[1] >= 0
      <4>1. /\ At("dumper", fds[1], "or") /\ At("dumper", fds[2], "iw") /\ fds[1] # fds[2]
            /\ table # <<>> /\ ppc = "ok" /\ pc' = "poll" /\ ~Ended(trying)
        BY <1>a, <1>b, <1>2, <3>1, PipeHasTable DEF Inv, FlowEnds
      <4>2. At("dumper", fds[1], "or")' /\ At("dumper", fds[2], "iw")'
        BY <1>a, <2>a, <4>1 DEF At
      <4> QED
        BY <1>a, <2>1, <3>1, <4>1, <4>2 DEF FlowEnds
    <3>2. CASE ~(fds[1] >= 0)
      <4>1. fds[1] < 0
        BY <1>n, <3>2, PipelineAssumption, SMT DEF Types, Num, Fd
      <4> QED
        BY <1>a, <1>2, <2>1, <3>2, <4>1 DEF Inv, FlowEnds
    <3> QED
      BY <3>1, <3>2
  <2>5. Flow'
    <3>1. InTransit = Blocks /\ left + out = Blocks
      BY <1>b, PathsAssumption, SMT DEF InTransit
    <3>2. pc' \in {"poll", "direct"}
      BY <1>2
    <3> QED
      BY <1>a, <1>b, <1>2, <1>t, <2>1, <3>1, <3>2 DEF Inv, Flow
  <2> QED
    BY <2>1, <2>2, <2>3, <2>4, <2>5 DEF Inv
<1>3. CASE /\ max_length > 0 /\ Fault
           /\ tab' = [tab EXCEPT !["dumper"] = Close(@, {fds[1], fds[2]})]
           /\ pc' = "end" /\ UNCHANGED rc
  <2> DEFINE X == {fds[1], fds[2]}
  <2>o. ~Moves => Owns("dumper", X)
    BY <1>o
  <2>c. tab' = [tab EXCEPT !["dumper"] = Close(@, X)]
    BY <1>3
  <2> HIDE DEF X
  <2>a. /\ tab' \in [Procs -> [Fd -> EndNames]] /\ tab'["child"] = tab["child"]
        /\ \A f \in Fd : tab'["dumper"][f] = IF f \in X THEN "free" ELSE tab["dumper"][f]
    BY <2>c, <1>n, TabClose, ProcNames
  <2>b. faults' \in Nat /\ faults' > 0
    BY <1>3, FaultCounts
  <2>1. /\ Types' /\ Control' /\ Ends' /\ Child' /\ Search' /\ SocketKept' /\ CallerTable'
        /\ Right' = Right /\ (Excuse => Excuse') /\ Ended(trying)' = Ended(trying)
        /\ Moves' = Moves
    <3>1. pc' \in {"open", "end"} \cup Writing /\ ppc # "failed" /\ rc' \in Int
          /\ pc \in {"create", "open"} \cup Writing
      BY <1>a, <1>b, <1>3, <1>n DEF Writing
    <3> QED
      BY <1>a, <1>b, <1>3, <2>a, <2>b, <3>1, FileFrame
  <2>2. Result'
    <3>1. Excuse'
      BY <2>b DEF Excuse
    <3> QED
      BY <1>a, <1>b, <1>n, <1>3, <2>1, <3>1 DEF Inv, Result, Returned, Writing
  <2>3. FileTable'
    <3>1. ~Moves => Owns("dumper", {})'
      BY <1>a, <2>o, <2>a DEF Owns
    <3>2. ppc \in {"ok", "idle"} /\ pc' \notin Writing
      BY <1>b, <1>3 DEF Writing
    <3> QED
      BY <1>a, <1>3, <2>1, <3>1, <3>2 DEF FileTable
  <2>4. FlowEnds'
    BY <1>a, <1>3, <2>1 DEF Inv, FlowEnds
  <2>5. Flow'
    BY <1>a, <1>b, <1>n, <1>3, <1>t, <2>1, <2>b DEF Inv, Flow
  <2> QED
    BY <2>1, <2>2, <2>3, <2>4, <2>5 DEF Inv
<1> QED
  BY <1>1, <1>2, <1>3 DEF OpenFile

\* The steps of the writer that leave the descriptors alone.
LEMMA WriteFrame ==
  ASSUME Inv, UNCHANGED <<calls, tab, file, dpc, selected, mail>>, faults > 0 => faults' > 0,
         faults' \in Nat, rc' \in {-1, 0},
         \/ pc = "direct" /\ pc' \in {"direct", "close"}
         \/ pc \in {"poll", "drain", "push"} /\ pc' \in {"poll", "drain", "push", "endpipe"}
         \/ pc = "flush" /\ pc' \in {"flush", "close"}
  PROVE  /\ Types' /\ Control' /\ Ends' /\ Child' /\ Search' /\ Result' /\ SocketKept'
         /\ FileTable' /\ CallerTable' /\ FlowEnds'
         /\ file /\ Ended(trying)' = Ended(trying) /\ cpc' = cpc /\ trying' = trying
<1>a. UNCHANGED <<table, first, fds, ppc, cpc, trying>>
  BY DEF calls
<1>b. pc \in Writing /\ pc' \in Writing /\ pc' \notin {"begin", "create", "open", "end"}
  BY DEF Writing
<1>c. file
  <2>1. pc \notin {"begin", "skipped", "fork", "recv", "end", "copy", "eof", "closed"}
    OBVIOUS
  <2> QED
    BY <2>1 DEF Inv, Control
<1>d. ppc \in {"ok", "idle"} /\ selected = Right /\ tab \in [Procs -> [Fd -> EndNames]]
  BY <1>b, <1>c DEF Inv, Control, Result, Types
<1>e. rc' \in Int
  BY SMT
<1>1. /\ Types' /\ Control' /\ Ends' /\ Child' /\ Search' /\ SocketKept' /\ CallerTable'
      /\ Right' = Right /\ (Excuse => Excuse') /\ Ended(trying)' = Ended(trying)
      /\ Moves' = Moves
  <2>1. /\ pc \in {"create", "open"} \cup Writing /\ pc' \in {"open", "end"} \cup Writing
        /\ (pc = "create" => ppc \in {"ok", "failed"}) /\ (ppc = "failed" => pc' = "end")
    BY <1>b, <1>d
  <2> QED
    BY <1>c, <1>d, <1>e, <2>1, FileFrame
<1>2. Result'
  <2>1. ~Returned' /\ pc' \notin {"begin", "fork", "recv"}
    BY DEF Returned
  <2> QED
    BY <1>c, <1>d, <1>1, <2>1 DEF Inv, Result
<1>3. FileTable'
  <2>1. ~Moves => Owns("dumper", {fds[1], fds[2]} \cup Numbers("dumper", {"file"}))'
    BY <1>a, <1>b, <1>c DEF Inv, FileTable, Owns, Numbers
  <2> QED
    BY <1>a, <1>b, <1>d, <1>1, <2>1 DEF FileTable
<1>4. FlowEnds'
  BY <1>a, <1>c, <1>1 DEF Inv, FlowEnds, At
<1> QED
  BY <1>1, <1>2, <1>3, <1>4, <1>a, <1>c

\* The types of the blocks, where a file is written.
LEMMA FlowTypes ==
  ASSUME Inv, file
  PROVE  /\ left \in Nat /\ held \in Nat /\ out \in Nat /\ max_length \in Nat
         /\ q \in [Pipes -> Nat] /\ q["i"] \in Nat /\ q["o"] \in Nat
         /\ rc \in {-1, 0} /\ faults \in Nat /\ died \in BOOLEAN
BY PipeNames DEF Inv, Flow, Types

\* The result of CreateElfCore (elfcore.c:2346-2351).
LEMMA CoreDoneIs ==
  ASSUME NEW l \in Nat, NEW m \in Nat, CoreDone(l, m)
  PROVE  /\ rc' \in {-1, 0} /\ (rc' = 0 => l = 0 \/ m = 0) /\ (rc' = -1 => l > 0 /\ m > 0)
         /\ pc' = IF fds[1] >= 0 THEN "endpipe" ELSE "close"
<1>1. pc' = IF fds[1] >= 0 THEN "endpipe" ELSE "close"
  BY DEF CoreDone
<1>2. rc' = IF l = 0 \/ m = 0 THEN 0 ELSE -1
  BY DEF CoreDone
<1>3. rc' \in {-1, 0} /\ (rc' = 0 => l = 0 \/ m = 0) /\ (rc' = -1 => l > 0 /\ m > 0)
  BY <1>2, SMT
<1> QED
  BY <1>1, <1>3

\* -1 is not 0.
LEMMA MinusOne == -1 # 0
BY SMT

\* LimitWriter writes a block, or the core ends (elfcore.c:431-442, 2346-2365).
LEMMA WriteDirectKeeps ==
  ASSUME Inv, WriteDirect
  PROVE  Inv'
<1>a. /\ pc = "direct" /\ UNCHANGED <<calls, tab, file, dpc, selected, mail, q, held, died>>
  BY DEF WriteDirect
<1>b. file
  BY <1>a DEF Inv, Control
<1>c. /\ left \in Nat /\ out \in Nat /\ max_length \in Nat /\ faults \in Nat
      /\ fds[1] < 0 /\ left + out = Blocks /\ rc = -1
  BY <1>a, <1>b, FlowTypes DEF Inv, FlowEnds, Flow
<1>d. ~(fds[1] >= 0)
  <2>1. fds[1] \in Num
    BY DEF Inv, Types
  <2> QED
    BY <1>c, <2>1, PipelineAssumption, SMT DEF Num, Fd
<1>1. CASE /\ left > 0 /\ max_length > 0
           /\ left' = left - 1 /\ max_length' = max_length - 1 /\ out' = out + 1
           /\ UNCHANGED <<pc, rc, faults>>
  <2>1. /\ left' \in Nat /\ max_length' \in Nat /\ out' \in Nat /\ left' + out' = Blocks
        /\ rc' \in {-1, 0}
    BY <1>1, <1>c, PathsAssumption, SMT
  <2>2. /\ Types' /\ Control' /\ Ends' /\ Child' /\ Search' /\ Result' /\ SocketKept'
        /\ FileTable' /\ CallerTable' /\ FlowEnds'
        /\ Ended(trying)' = Ended(trying) /\ cpc' = cpc
    BY <1>a, <1>c, <1>1, <2>1, WriteFrame
  <2>3. Flow'
    BY <1>a, <1>b, <1>1, <2>1, <2>2 DEF Inv, Flow
  <2> QED
    BY <2>2, <2>3 DEF Inv
<1>2. CASE /\ left = 0 \/ max_length = 0
           /\ CoreDone(left, max_length)
           /\ UNCHANGED <<left, max_length, out, faults>>
  <2>1. rc' = 0 /\ pc' = "close" /\ (out = Blocks \/ max_length = 0)
    <3>1. pc' = "close"
      BY <1>2, <1>d DEF CoreDone
    <3>2. rc' = 0
      BY <1>2 DEF CoreDone
    <3>3. left = 0 => out = Blocks
      BY <1>c, SMT
    <3> QED
      BY <1>2, <3>1, <3>2, <3>3
  <2>2. /\ Types' /\ Control' /\ Ends' /\ Child' /\ Search' /\ Result' /\ SocketKept'
        /\ FileTable' /\ CallerTable' /\ FlowEnds'
        /\ Ended(trying)' = Ended(trying) /\ cpc' = cpc
    BY <1>a, <1>c, <1>2, <2>1, WriteFrame
  <2>3. Flow'
    BY <1>a, <1>b, <1>2, <2>1, <2>2, MinusOne DEF Inv, Flow
  <2> QED
    BY <2>2, <2>3 DEF Inv
<1>3. CASE /\ left > 0 /\ max_length > 0 /\ Fault
           /\ CoreDone(left, max_length)
           /\ UNCHANGED <<left, max_length, out>>
  <2>1. rc' = -1 /\ pc' = "close" /\ faults' \in Nat /\ faults' > 0
    <3>1. pc' = "close"
      BY <1>3, <1>d DEF CoreDone
    <3>2. left # 0 /\ max_length # 0
      BY <1>3, <1>c, SMT
    <3> QED
      BY <1>3, <3>1, <3>2, FaultCounts DEF CoreDone
  <2>2. /\ Types' /\ Control' /\ Ends' /\ Child' /\ Search' /\ Result' /\ SocketKept'
        /\ FileTable' /\ CallerTable' /\ FlowEnds'
        /\ Ended(trying)' = Ended(trying) /\ cpc' = cpc
    BY <1>a, <2>1, WriteFrame
  <2>3. Flow'
    BY <1>a, <1>b, <1>3, <2>1, <2>2, MinusOne DEF Inv, Flow
  <2> QED
    BY <2>2, <2>3 DEF Inv
<1> QED
  BY <1>1, <1>2, <1>3 DEF WriteDirect

\* CreateElfCore ends while a compressor is fed.
LEMMA CoreEnds ==
  ASSUME Inv, pc \in {"poll", "drain", "push"}, CoreDone(left, max_length),
         UNCHANGED <<calls, tab, file, dpc, selected, mail, left, held, out, max_length, died>>,
         faults > 0 => faults' > 0, faults' \in Nat, q' \in [Pipes -> Nat],
         q' = q \/ (left > 0 /\ max_length > 0),
         left > 0 /\ max_length > 0 => faults' > 0
  PROVE  Inv'
<1>a. file
  BY DEF Inv, Control
<1>b. /\ left \in Nat /\ max_length \in Nat /\ fds[1] >= 0
      /\ (died => faults > 0) /\ InTransit = Blocks
  BY <1>a, FlowTypes DEF Inv, FlowEnds, Flow
<1>c. /\ rc' \in {-1, 0} /\ (rc' = 0 => left = 0 \/ max_length = 0)
      /\ (rc' = -1 => left > 0 /\ max_length > 0) /\ pc' = "endpipe"
  BY <1>b, CoreDoneIs
<1>1. /\ Types' /\ Control' /\ Ends' /\ Child' /\ Search' /\ Result' /\ SocketKept'
      /\ FileTable' /\ CallerTable' /\ FlowEnds'
      /\ Ended(trying)' = Ended(trying) /\ cpc' = cpc
  BY <1>c, WriteFrame
<1>2. rc' = 0 => q' = q
  <2>1. left > 0 /\ max_length > 0 => ~(left = 0 \/ max_length = 0)
    BY <1>b, SMT
  <2> QED
    BY <1>c, <2>1
<1>3. rc' = 0 => InTransit' = Blocks
  BY <1>b, <1>2 DEF InTransit
<1>4. Flow'
  BY <1>a, <1>b, <1>c, <1>1, <1>3 DEF Inv, Flow
<1> QED
  BY <1>1, <1>4 DEF Inv

\* poll reports, or the loop of PipeWriter ends (elfcore.c:449-462).
LEMMA PollKeeps ==
  ASSUME Inv, Poll
  PROVE  Inv'
<1>a. /\ pc = "poll" /\ UNCHANGED <<calls, tab, file, dpc, selected, mail>>
      /\ UNCHANGED <<left, q, held, out, max_length, died>>
  BY DEF Poll, data
<1>b. file
  BY <1>a DEF Inv, Control
<1>c. /\ left \in Nat /\ max_length \in Nat /\ faults \in Nat /\ q \in [Pipes -> Nat] /\ rc = -1
      /\ rc \in {-1, 0}
  BY <1>a, <1>b, FlowTypes DEF Inv, Flow
<1>1. CASE /\ Loops /\ pc' \in {"drain", "push", "poll"} /\ UNCHANGED <<rc, faults>>
  <2>1. /\ Types' /\ Control' /\ Ends' /\ Child' /\ Search' /\ Result' /\ SocketKept'
        /\ FileTable' /\ CallerTable' /\ FlowEnds'
        /\ Ended(trying)' = Ended(trying) /\ cpc' = cpc
    BY <1>a, <1>c, <1>1, WriteFrame
  <2>2. InTransit' = InTransit
    BY <1>a DEF InTransit
  <2>3. Flow'
    BY <1>a, <1>b, <1>c, <1>1, <2>1, <2>2 DEF Inv, Flow, Loops
  <2> QED
    BY <2>1, <2>3 DEF Inv
<1>2. CASE ~Loops /\ CoreDone(left, max_length) /\ UNCHANGED faults
  BY <1>a, <1>c, <1>2, CoreEnds DEF Loops
<1>3. CASE Fault /\ CoreDone(left, max_length)
  BY <1>a, <1>c, <1>3, FaultCounts, CoreEnds
<1>4. (pc' = IF pin' THEN "drain" ELSE IF pout' THEN "push" ELSE "poll")
        => pc' \in {"drain", "push", "poll"}
  OBVIOUS
<1> QED
  BY <1>1, <1>2, <1>3, <1>4 DEF Poll

\* What the compressor wrote is copied (elfcore.c:464-496).
LEMMA DrainKeeps ==
  ASSUME Inv, Drain
  PROVE  Inv'
<1>a. /\ pc = "drain" /\ UNCHANGED <<calls, tab, file, dpc, selected, mail, left, held, died>>
  BY DEF Drain
<1>b. file
  BY <1>a DEF Inv, Control
<1>c. /\ left \in Nat /\ max_length \in Nat /\ faults \in Nat /\ q \in [Pipes -> Nat] /\ rc = -1
      /\ rc \in {-1, 0} /\ left > 0 /\ InTransit = Blocks /\ out \in Nat /\ held \in Nat
      /\ q["i"] \in Nat /\ q["o"] \in Nat
  BY <1>a, <1>b, FlowTypes DEF Inv, Flow
<1>d. ASSUME q["o"] > 0, q' = [q EXCEPT !["o"] = @ - 1]
      PROVE  q' \in [Pipes -> Nat] /\ q'["i"] = q["i"] /\ q'["o"] = q["o"] - 1
  <2>1. q'["i"] = q["i"] /\ q'["o"] = q["o"] - 1 /\ q["o"] - 1 \in Nat
    BY <1>c, <1>d, PipeNames, SMT
  <2> QED
    BY <1>c, <1>d, <2>1, PipeNames
<1>1. CASE /\ q["o"] > 0 /\ max_length > 0 /\ q' = [q EXCEPT !["o"] = @ - 1]
           /\ out' = out + 1 /\ max_length' = max_length - 1
           /\ UNCHANGED <<pc, rc, faults>>
  <2>1. /\ Types' /\ Control' /\ Ends' /\ Child' /\ Search' /\ Result' /\ SocketKept'
        /\ FileTable' /\ CallerTable' /\ FlowEnds'
        /\ Ended(trying)' = Ended(trying) /\ cpc' = cpc
    BY <1>a, <1>c, <1>1, WriteFrame
  <2>2. q' \in [Pipes -> Nat] /\ q'["i"] = q["i"] /\ q'["o"] = q["o"] - 1
    BY <1>1, <1>d
  <2>3. out' \in Nat /\ max_length' \in Nat /\ InTransit' = Blocks
    BY <1>a, <1>c, <1>1, <2>2, SMT DEF InTransit
  <2>4. Flow'
    BY <1>a, <1>b, <1>c, <1>1, <2>1, <2>2, <2>3 DEF Inv, Flow
  <2> QED
    BY <2>1, <2>4 DEF Inv
<1>2. CASE /\ q["o"] > 0 /\ max_length > 0 /\ q' = [q EXCEPT !["o"] = @ - 1]
           /\ Fault /\ CoreDone(left, max_length) /\ UNCHANGED <<out, max_length>>
  BY <1>a, <1>c, <1>d, <1>2, FaultCounts, CoreEnds
<1>3. CASE /\ max_length' \in {max_length, 0} /\ pc' = AfterDrain
           /\ UNCHANGED <<q, out, rc, faults>>
  <2>0. pc' \in {"push", "poll"}
    BY <1>3 DEF AfterDrain
  <2>1. /\ Types' /\ Control' /\ Ends' /\ Child' /\ Search' /\ Result' /\ SocketKept'
        /\ FileTable' /\ CallerTable' /\ FlowEnds'
        /\ Ended(trying)' = Ended(trying) /\ cpc' = cpc
    BY <1>a, <1>c, <1>3, <2>0, WriteFrame
  <2>2. InTransit' = InTransit /\ max_length' \in Nat
    <3>1. max_length' \in Nat
      BY <1>c, <1>3, SMT
    <3> QED
      BY <1>a, <1>3, <3>1 DEF InTransit
  <2>3. Flow'
    BY <1>a, <1>b, <1>c, <1>3, <2>0, <2>1, <2>2 DEF Inv, Flow
  <2> QED
    BY <2>1, <2>3 DEF Inv
<1> QED
  BY <1>1, <1>2, <1>3 DEF Drain

\* A compressor that was executed and has not ended is there at both pipes; nothing
\* else can have happened to it than to be killed, as long as its input is open.
LEMMA CompressorIsThere ==
  ASSUME Inv, file, pc \in {"poll", "drain", "push", "endpipe", "flush"}
  PROVE  /\ ~Ended(trying) /\ cpc \in {"running", "exited"}
         /\ cpc = "running" => Readers("i") /\ Writers("o")
<1>1. table # <<>> /\ fds[1] >= 0
  BY DEF Inv, FlowEnds
<1>2. ppc = "ok"
  <2>1. pc \in Writing /\ pc # "begin"
    BY DEF Writing
  <2> QED
    BY <1>1, <2>1 DEF Inv, Control
<1>3. ~Ended(trying)
  BY <1>1, <1>2 DEF Inv, FlowEnds
<1>4. cpc \in {"running", "closed", "exited"} /\ cpc # "closed"
  BY <1>1, <1>2, <1>3 DEF Inv, Control, Search
<1>5. ASSUME cpc = "running" PROVE Readers("i") /\ Writers("o")
  <2>1. 0 \in Fd /\ 1 \in Fd /\ 1 # 0
    <3>1. 2 \in Fd
      BY <1>5 DEF Inv, Child
    <3> QED
      BY <3>1, PipelineAssumption, SMT DEF Fd
  <2>2. tab["child"][0] = "ir" /\ tab["child"][1] = "ow"
    BY <1>5, <2>1 DEF Inv, Child
  <2> QED
    BY <2>1, <2>2, PipeNames, ProcNames DEF Readers, Writers, Held
<1> QED
  BY <1>3, <1>4, <1>5

\* The compressor is fed, or found to be dead (elfcore.c:497-510).
LEMMA PushKeeps ==
  ASSUME Inv, Push
  PROVE  Inv'
<1>a. /\ pc = "push" /\ UNCHANGED <<calls, tab, faults, file, dpc, selected, mail, held, died>>
      /\ UNCHANGED <<out, max_length>>
  BY DEF Push, pipeline, calls
<1>b. file
  BY <1>a DEF Inv, Control
<1>c. /\ left \in Nat /\ max_length \in Nat /\ faults \in Nat /\ q \in [Pipes -> Nat] /\ rc = -1
      /\ rc \in {-1, 0} /\ left > 0 /\ InTransit = Blocks /\ out \in Nat /\ held \in Nat
      /\ q["i"] \in Nat /\ q["o"] \in Nat
  BY <1>a, <1>b, FlowTypes DEF Inv, Flow
<1>1. ASSUME NEW n \in 1 .. left, q' = [q EXCEPT !["i"] = @ + n], left' = left - n,
             pc' = "poll", UNCHANGED rc
      PROVE  Inv'
  <2>1. /\ Types' /\ Control' /\ Ends' /\ Child' /\ Search' /\ Result' /\ SocketKept'
        /\ FileTable' /\ CallerTable' /\ FlowEnds'
        /\ Ended(trying)' = Ended(trying) /\ cpc' = cpc
    BY <1>a, <1>c, <1>1, WriteFrame
  <2>2. q'["o"] = q["o"] /\ q'["i"] = q["i"] + n /\ q["i"] + n \in Nat
    BY <1>c, <1>1, PipeNames, SMT
  <2>3. q' \in [Pipes -> Nat]
    BY <1>c, <1>1, <2>2, PipeNames
  <2>4. left' \in Nat /\ InTransit' = Blocks
    BY <1>a, <1>c, <1>1, <2>2, SMT DEF InTransit
  <2>5. Flow'
    BY <1>a, <1>b, <1>c, <1>1, <2>1, <2>3, <2>4 DEF Inv, Flow
  <2> QED
    BY <2>1, <2>5 DEF Inv
<1>2. CASE ~Readers("i") /\ CoreDone(left, max_length) /\ UNCHANGED <<q, left>>
  <2>1. cpc = "exited" /\ ~Ended(trying)
    BY <1>a, <1>b, <1>2, CompressorIsThere
  <2>2. faults > 0
    BY <1>a, <1>b, <2>1 DEF Inv, Flow
  <2> QED
    BY <1>a, <1>c, <1>2, <2>2, CoreEnds
<1> QED
  BY <1>1, <1>2 DEF Push

\* The input of the compressor is closed (elfcore.c:2351-2356).
LEMMA ClosePipeKeeps ==
  ASSUME Inv, ClosePipe
  PROVE  Inv'
<1>a. /\ pc = "endpipe" /\ pc' = "flush"
      /\ UNCHANGED <<calls, faults, file, dpc, rc, selected, mail>>
      /\ UNCHANGED <<left, q, held, out, max_length, died>>
      /\ UNCHANGED <<table, first, fds, trying, ppc, cpc>>
      /\ tab' = [tab EXCEPT !["dumper"] = Close(@, {fds[2]})]
  BY DEF ClosePipe, calls, data, Input
<1>b. file
  BY <1>a DEF Inv, Control
<1>c. /\ tab' \in [Procs -> [Fd -> EndNames]] /\ tab'["child"] = tab["child"]
      /\ \A f \in Fd : tab'["dumper"][f] = IF f \in {fds[2]} THEN "free" ELSE tab["dumper"][f]
  BY <1>a, TabClose, ProcNames DEF Inv
<1>d. ppc \in {"ok", "idle"} /\ faults \in Nat /\ rc \in Int /\ selected = Right
  BY <1>a, <1>b DEF Inv, Control, Types, Result, Writing
<1>1. /\ Types' /\ Control' /\ Ends' /\ Child' /\ Search' /\ SocketKept' /\ CallerTable'
      /\ Right' = Right /\ (Excuse => Excuse') /\ Ended(trying)' = Ended(trying)
      /\ Moves' = Moves
  <2>1. pc \in {"create", "open"} \cup Writing /\ pc' \in {"open", "end"} \cup Writing
    BY <1>a DEF Writing
  <2> QED
    BY <1>a, <1>b, <1>c, <1>d, <2>1, FileFrame
<1>2. Result'
  BY <1>a, <1>b, <1>d, <1>1 DEF Inv, Result, Returned, Writing
<1>3. FileTable'
  <2> DEFINE X == {fds[1], fds[2]}
  <2>1. ~Moves => Owns("dumper", X \cup Numbers("dumper", {"file"}))
    BY <1>a, <1>b DEF Inv, FileTable, Writing
  <2>x. X' = X /\ fds[2] \in X
    BY <1>a
  <2>2. ~Moves => Owns("dumper", X \cup Numbers("dumper", {"file"}))'
    <3> HIDE DEF X
    <3>1. \A f \in Fd : f \notin X => tab'["dumper"][f] = tab["dumper"][f]
      BY <1>c, <2>x
    <3> QED
      BY <1>a, <2>1, <2>x, <3>1 DEF Owns, Numbers
  <2> QED
    BY <1>a, <1>d, <1>1, <2>2 DEF FileTable
<1>4. FlowEnds'
  <2>1. /\ fds[1] >= 0 /\ table # <<>>
        /\ ppc = "ok" => At("dumper", fds[1], "or") /\ fds[1] # fds[2] /\ ~Ended(trying)
    BY <1>a, <1>b DEF Inv, FlowEnds
  <2>2. ppc = "ok"
    BY <1>a, <1>b, <1>d, <2>1 DEF Inv, Control
  <2>3. At("dumper", fds[1], "or")'
    BY <1>a, <1>c, <2>1, <2>2 DEF At
  <2> QED
    BY <1>a, <1>1, <2>1, <2>2, <2>3 DEF FlowEnds
<1>5. Flow'
  <2>1. InTransit' = InTransit
    BY <1>a DEF InTransit
  <2> QED
    BY <1>a, <1>b, <1>1, <2>1 DEF Inv, Flow
<1> QED
  BY <1>1, <1>2, <1>3, <1>4, <1>5 DEF Inv

\* FlushPipe: what the compressor still had is copied (elfcore.c:515-540, 2357-2362).
LEMMA FlushKeeps ==
  ASSUME Inv, Flush
  PROVE  Inv'
<1>a. /\ pc = "flush" /\ UNCHANGED <<calls, tab, file, dpc, selected, mail, left, held, died>>
  BY DEF Flush
<1>b. file
  BY <1>a DEF Inv, Control
<1>c. /\ left \in Nat /\ max_length \in Nat /\ faults \in Nat /\ q \in [Pipes -> Nat]
      /\ rc \in {-1, 0} /\ out \in Nat /\ held \in Nat
      /\ q["i"] \in Nat /\ q["o"] \in Nat
      /\ (rc = 0 => InTransit = Blocks /\ (left = 0 \/ max_length = 0))
  BY <1>a, <1>b, FlowTypes DEF Inv, Flow
<1>d. ASSUME q["o"] > 0, q' = [q EXCEPT !["o"] = @ - 1]
      PROVE  q' \in [Pipes -> Nat] /\ q'["i"] = q["i"] /\ q'["o"] = q["o"] - 1
  <2>1. q'["i"] = q["i"] /\ q'["o"] = q["o"] - 1 /\ q["o"] - 1 \in Nat
    BY <1>c, <1>d, PipeNames, SMT
  <2> QED
    BY <1>c, <1>d, <2>1, PipeNames
<1>1. CASE /\ q["o"] > 0 /\ max_length > 0 /\ q' = [q EXCEPT !["o"] = @ - 1]
           /\ out' = out + 1 /\ max_length' = max_length - 1
           /\ UNCHANGED <<pc, rc, faults>>
  <2>1. /\ Types' /\ Control' /\ Ends' /\ Child' /\ Search' /\ Result' /\ SocketKept'
        /\ FileTable' /\ CallerTable' /\ FlowEnds'
        /\ Ended(trying)' = Ended(trying) /\ cpc' = cpc
    BY <1>a, <1>c, <1>1, WriteFrame
  <2>2. q' \in [Pipes -> Nat] /\ q'["i"] = q["i"] /\ q'["o"] = q["o"] - 1
    BY <1>1, <1>d
  <2>3. out' \in Nat /\ max_length' \in Nat /\ InTransit' = InTransit
    BY <1>a, <1>c, <1>1, <2>2, SMT DEF InTransit
  <2>4. rc = 0 => left = 0
    <3>1. max_length # 0
      BY <1>c, <1>1, SMT
    <3> QED
      BY <1>c, <3>1
  <2>5. Flow'
    BY <1>a, <1>b, <1>c, <1>1, <2>1, <2>2, <2>3, <2>4 DEF Inv, Flow
  <2> QED
    BY <2>1, <2>5 DEF Inv
<1>2. CASE /\ q["o"] > 0 /\ max_length > 0 /\ q' = [q EXCEPT !["o"] = @ - 1]
           /\ Fault /\ rc' = -1 /\ pc' = "close" /\ UNCHANGED <<out, max_length>>
  <2>1. faults' \in Nat /\ faults' > 0 /\ q' \in [Pipes -> Nat]
    BY <1>2, <1>d, FaultCounts
  <2>2. /\ Types' /\ Control' /\ Ends' /\ Child' /\ Search' /\ Result' /\ SocketKept'
        /\ FileTable' /\ CallerTable' /\ FlowEnds'
        /\ Ended(trying)' = Ended(trying) /\ cpc' = cpc
    BY <1>a, <1>2, <2>1, WriteFrame
  <2>3. Flow'
    BY <1>a, <1>b, <1>2, <2>1, <2>2, MinusOne DEF Inv, Flow
  <2> QED
    BY <2>2, <2>3 DEF Inv
<1>3. CASE /\ max_length = 0 \/ (q["o"] = 0 /\ ~Writers("o"))
           /\ pc' = "close"
           /\ UNCHANGED <<q, out, max_length, rc, faults>>
  <2>1. /\ Types' /\ Control' /\ Ends' /\ Child' /\ Search' /\ Result' /\ SocketKept'
        /\ FileTable' /\ CallerTable' /\ FlowEnds'
        /\ Ended(trying)' = Ended(trying) /\ cpc' = cpc
    BY <1>a, <1>c, <1>3, WriteFrame
  <2>2. ASSUME rc = 0 PROVE out = Blocks \/ max_length = 0 \/ died
    <3>1. SUFFICES ASSUME max_length # 0, ~died PROVE out = Blocks
      OBVIOUS
    <3>2. cpc = "exited" /\ ~Ended(trying)
      BY <1>a, <1>b, <1>3, <3>1, CompressorIsThere
    <3>3. held = 0 /\ q["i"] = 0
      BY <1>a, <1>b, <3>1, <3>2 DEF Inv, Flow
    <3>4. left = 0 /\ q["o"] = 0 /\ InTransit = Blocks
      BY <1>c, <1>3, <2>2, <3>1
    <3> QED
      BY <1>c, <3>3, <3>4, SMT DEF InTransit
  <2>3. Flow'
    BY <1>a, <1>b, <1>c, <1>3, <2>1, <2>2 DEF Inv, Flow
  <2> QED
    BY <2>1, <2>3 DEF Inv
<1> QED
  BY <1>1, <1>2, <1>3 DEF Flush

\* All is closed that the dumper opened (elfcore.c:2363-2398).
LEMMA CloseAllKeeps ==
  ASSUME Inv, CloseAll
  PROVE  Inv'
<1> DEFINE X == {fds[1], fds[2]}
           t == [f \in Fd |-> IF tab["dumper"][f] = "file" \/ f \in X THEN "free"
                              ELSE tab["dumper"][f]]
<1>a. /\ pc = "close" /\ pc' = "end"
      /\ UNCHANGED <<calls, faults, file, dpc, rc, selected, mail>>
      /\ UNCHANGED <<left, q, held, out, max_length, died>>
      /\ UNCHANGED <<table, first, fds, trying, ppc, cpc>>
  BY DEF CloseAll, calls, data
<1>b. file
  BY <1>a DEF Inv, Control
<1>t. tab' = [tab EXCEPT !["dumper"] = t]
  BY DEF CloseAll
<1>o. file /\ ~Moves => Owns("dumper", X \cup Numbers("dumper", {"file"}))
  BY <1>a DEF Inv, FileTable, Writing
<1> HIDE DEF X
<1>e. t \in [Fd -> EndNames]
  <2>1. tab["dumper"] \in [Fd -> EndNames]
    BY ProcNames DEF Inv, Types
  <2> QED
    BY <2>1, EndsAreNames
<1>f. \A f \in Fd : t[f] = IF tab["dumper"][f] = "file" \/ f \in X THEN "free"
                           ELSE tab["dumper"][f]
  OBVIOUS
<1> HIDE DEF t
<1>c. /\ tab' \in [Procs -> [Fd -> EndNames]] /\ tab'["child"] = tab["child"]
      /\ tab'["dumper"] = t
  BY <1>e, <1>t, TabStep, ProcNames DEF Inv
<1>d. /\ ppc \in {"ok", "idle"} /\ faults \in Nat /\ rc \in Int /\ selected = Right
      /\ rc \in {-1, 0} /\ (rc = -1 => Excuse)
  BY <1>a, <1>b DEF Inv, Control, Types, Result, Writing, Flow, Excuse
<1>1. /\ Types' /\ Control' /\ Ends' /\ Child' /\ Search' /\ SocketKept' /\ CallerTable'
      /\ Right' = Right /\ (Excuse => Excuse') /\ Ended(trying)' = Ended(trying)
      /\ Moves' = Moves
  <2>1. pc \in {"create", "open"} \cup Writing /\ pc' \in {"open", "end"} \cup Writing
    BY <1>a DEF Writing
  <2> QED
    BY <1>a, <1>b, <1>c, <1>d, <2>1, FileFrame
<1>2. Result'
  <2>1. rc = 0 => rc >= 0
    BY SMT
  <2> QED
    BY <1>a, <1>b, <1>d, <1>1, <2>1 DEF Inv, Result, Returned, Writing
<1>3. FileTable'
  <2>1. ~Moves => Owns("dumper", {})'
    BY <1>a, <1>b, <1>c, <1>f, <1>o DEF Owns, Numbers
  <2>2. pc' \notin Writing
    BY <1>a DEF Writing
  <2> QED
    BY <1>a, <1>d, <1>1, <2>1, <2>2 DEF FileTable
<1>4. FlowEnds'
  BY <1>a, <1>b, <1>1 DEF Inv, FlowEnds
<1>5. Flow'
  <2>1. InTransit' = InTransit
    BY <1>a DEF InTransit
  <2> QED
    BY <1>a, <1>b, <1>1, <2>1 DEF Inv, Flow
<1> QED
  BY <1>1, <1>2, <1>3, <1>4, <1>5 DEF Inv

-----------------------------------------------------------------------------
(* The caller without a file name, and its forked process, keep the invariant. *)

\* What a step without a file name leaves as it is.
LEMMA CallFrame ==
  ASSUME Inv, ~file, UNCHANGED <<calls, file>>, tab'["child"] = tab["child"],
         faults > 0 => faults' > 0, faults' \in Nat, rc' \in Int,
         tab' \in [Procs -> [Fd -> EndNames]], mail' # <<>> => mail'[1] \in EndNames,
         tab'["dumper"] = tab["dumper"] \/ ppc \in {"idle", "ok", "failed"}
  PROVE  /\ Types' /\ Ends' /\ Child' /\ Search' /\ FileTable' /\ FlowEnds' /\ Flow'
         /\ Right' = Right /\ (Excuse => Excuse')
<1>1. Ends' /\ Child' /\ Search' /\ Right' = Right /\ (Excuse => Excuse')
  BY CallsFrame
<1>2. Types'
  BY DEF Inv, Types, calls
<1>3. FileTable' /\ FlowEnds' /\ Flow'
  BY DEF FileTable, FlowEnds, Flow
<1> QED
  BY <1>1, <1>2, <1>3

\* A step of the caller, or of its client.
LEMMA AppFrame ==
  ASSUME Inv, ~file, UNCHANGED <<calls, file, dpc>>, tab'["child"] = tab["child"],
         tab'["dumper"] = tab["dumper"], faults > 0 => faults' > 0, faults' \in Nat, rc' \in Int,
         tab' \in [Procs -> [Fd -> EndNames]], mail' # <<>> => mail'[1] \in EndNames,
         pc' \in {"fork", "skipped"} => pc = "begin",
         pc' \in {"skipped", "fork", "end", "copy", "eof", "closed"}
  PROVE  /\ Types' /\ Control' /\ Ends' /\ Child' /\ Search' /\ SocketKept' /\ FileTable'
         /\ FlowEnds' /\ Flow' /\ Right' = Right /\ (Excuse => Excuse')
<1>a. UNCHANGED <<table, first, fds, zip_in, zip_out, ppc, cpc>>
  BY DEF calls
<1>1. /\ Types' /\ Ends' /\ Child' /\ Search' /\ FileTable' /\ FlowEnds' /\ Flow'
      /\ Right' = Right /\ (Excuse => Excuse')
  BY CallFrame
<1>2. Control'
  BY <1>a DEF Inv, Control
<1>3. SocketKept'
  BY <1>a DEF Inv, SocketKept, Socket
<1> QED
  BY <1>1, <1>2, <1>3

\* The types of what every step keeps or replaces.
LEMMA PlainTypes ==
  ASSUME Inv
  PROVE  /\ Types /\ tab \in [Procs -> [Fd -> EndNames]] /\ faults \in Nat /\ rc \in Int
         /\ (mail # <<>> => mail[1] \in EndNames)
BY DEF Inv, Types

\* The socket pair (elfcore.c:2112-2134).
LEMMA SocketPairKeeps ==
  ASSUME Inv, SocketPair
  PROVE  Inv'
<1>a. /\ ~file /\ pc = "begin" /\ UNCHANGED <<calls, file, dpc, rc, selected, mail>>
      /\ UNCHANGED <<first, table>>
  BY DEF SocketPair, calls
<1>b. rc = -1 /\ ~(rc >= 0) /\ Owns("app", {})
  <2>1. rc = -1 /\ Owns("app", {})
    BY <1>a DEF Inv, Result, CallerTable
  <2> QED
    BY <2>1, SMT
<1>1. CASE /\ Room2(tab["app"]) /\ tab' = [tab EXCEPT !["app"] = Pipe(@, "a", "b")]
           /\ pc' = "fork" /\ UNCHANGED faults
  <2> DEFINE l == Lowest(tab["app"])
             s == Second(tab["app"])
  <2>1. /\ tab' \in [Procs -> [Fd -> EndNames]]
        /\ tab'["child"] = tab["child"] /\ tab'["dumper"] = tab["dumper"]
        /\ l \in Fd /\ s \in Fd /\ l < s
        /\ tab["app"][l] = "free" /\ tab["app"][s] = "free"
        /\ \A f \in Fd : tab'["app"][f] = IF f = l THEN "a" ELSE IF f = s THEN "b"
                                          ELSE tab["app"][f]
    <3>1. "a" \in EndNames /\ "b" \in EndNames
      BY DEF EndNames
    <3> QED
      BY <1>1, <3>1, TabPipe, ProcNames, PlainTypes
  <2> HIDE DEF l, s
  <2>2. l # s
    BY <2>1, PipelineAssumption, SMT DEF Fd
  <2>3. /\ Types' /\ Control' /\ Ends' /\ Child' /\ Search' /\ SocketKept' /\ FileTable'
        /\ FlowEnds' /\ Flow' /\ Right' = Right /\ (Excuse => Excuse')
    BY <1>a, <1>1, <2>1, PlainTypes, AppFrame
  <2>4. Result'
    BY <1>a, <1>1, <2>3 DEF Inv, Result, Returned, Writing
  <2>5. CallerTable'
    <3>1. Owns("app", Numbers("app", {"a", "b"}))'
      BY <1>a, <1>b, <2>1, PlainTypes, OldIsPlain DEF Owns, Numbers
    <3>2. s \in Numbers("app", {"b"})'
      BY <2>1, <2>2 DEF Numbers
    <3> QED
      BY <1>a, <1>1, <3>1, <3>2 DEF CallerTable
  <2> QED
    BY <2>3, <2>4, <2>5 DEF Inv
<1>2. CASE Fault /\ pc' = "end" /\ UNCHANGED tab
  <2>1. faults' \in Nat /\ faults' > 0 /\ Excuse'
    BY <1>2, FaultCounts DEF Excuse
  <2>2. /\ Types' /\ Control' /\ Ends' /\ Child' /\ Search' /\ SocketKept' /\ FileTable'
        /\ FlowEnds' /\ Flow' /\ Right' = Right
    BY <1>a, <1>2, <2>1, PlainTypes, AppFrame
  <2>3. Result'
    BY <1>a, <1>b, <1>2, <2>1, <2>2 DEF Inv, Result, Returned, Writing
  <2>4. CallerTable'
    BY <1>a, <1>b, <1>2 DEF CallerTable, Owns
  <2> QED
    BY <2>2, <2>3, <2>4 DEF Inv
<1> QED
  BY <1>1, <1>2 DEF SocketPair

\* The fork; the caller keeps its own end of the socket (elfcore.c:2136-2140, 2209-2218).
LEMMA ForkKeeps ==
  ASSUME Inv, Fork
  PROVE  Inv'
<1> DEFINE keep == [f \in Fd |-> IF tab["app"][f] = "b" THEN "free" ELSE tab["app"][f]]
<1>a. /\ pc = "fork" /\ pc' = "recv"
      /\ UNCHANGED <<table, first, fds, zip_in, zip_out, trying, status, found, cpc, ignored,
                     file, rc, selected, mail>>
  BY DEF Fork
<1>b. /\ ~file /\ rc = -1 /\ dpc = "none" /\ ppc = "idle" /\ cpc = "none"
      /\ Owns("app", Numbers("app", {"a", "b"})) /\ Numbers("app", {"b"}) # {}
  <2>1. ~file
    BY <1>a DEF Inv, Control, Writing
  <2> QED
    BY <1>a, <2>1 DEF Inv, Control, Result, CallerTable
<1>c. PICK b \in Fd : tab["app"][b] = "b"
  BY <1>b DEF Numbers
<1>d. tab["app"] \in [Fd -> EndNames] /\ keep \in [Fd -> EndNames]
  <2>1. tab["app"] \in [Fd -> EndNames]
    BY PlainTypes, ProcNames
  <2> QED
    BY <2>1, EndsAreNames
<1>e. \A f \in Fd : keep[f] = IF tab["app"][f] = "b" THEN "free" ELSE tab["app"][f]
  OBVIOUS
<1>s. \/ /\ tab' = [tab EXCEPT !["dumper"] = tab["app"], !["app"] = keep]
         /\ dpc' = "create" /\ ppc' = "pipe" /\ UNCHANGED faults
      \/ /\ Fault /\ tab' = [tab EXCEPT !["app"] = keep] /\ UNCHANGED <<dpc, ppc>>
  BY DEF Fork
<1> HIDE DEF keep
<1>f. /\ tab' \in [Procs -> [Fd -> EndNames]] /\ tab'["app"] = keep
      /\ tab'["child"] = tab["child"]
      /\ tab'["dumper"] = tab["app"] \/ tab'["dumper"] = tab["dumper"]
  BY <1>d, <1>s, ProcNames, PlainTypes
<1>1. CallerTable'
  <2>1. Owns("app", Numbers("app", {"a"}))'
    BY <1>a, <1>b, <1>e, <1>f DEF Owns, Numbers
  <2>2. Room(tab["app"])'
    BY <1>c, <1>e, <1>f DEF Room, Free
  <2> QED
    BY <1>a, <2>1, <2>2 DEF CallerTable
<1>2. FileTable' /\ FlowEnds' /\ Flow'
  BY <1>a, <1>b DEF FileTable, FlowEnds, Flow
<1>3. CASE /\ tab' = [tab EXCEPT !["dumper"] = tab["app"], !["app"] = keep]
           /\ dpc' = "create" /\ ppc' = "pipe" /\ UNCHANGED faults
  <2>a. Right' = Right /\ (Excuse => Excuse')
    BY <1>a, <1>3, ExcuseFrame
  <2>b. tab'["dumper"] = tab["app"]
    BY <1>3, ProcNames, PlainTypes
  <2>1. Types'
    BY <1>a, <1>f, <1>3 DEF Inv, Types
  <2>2. Control'
    BY <1>a, <1>b, <1>3 DEF Control, Making, Opening
  <2>3. Ends' /\ Child'
    BY <1>a, <1>b, <1>3 DEF Ends, Child
  <2>4. Search'
    BY <1>a, <1>b, <1>3, <2>a DEF Inv, Search, Opening
  <2>5. Result'
    BY <1>a, <1>b, <1>3, <2>a DEF Inv, Result, Returned
  <2>6. SocketKept'
    <3>1. fds[1] = -1 /\ fds[2] = -1 /\ zip_in[1] = -1 /\ zip_in[2] = -1
          /\ zip_out[1] = -1 /\ zip_out[2] = -1
      <4>1. fds = <<-1, -1>> /\ zip_in = <<-1, -1>> /\ zip_out = <<-1, -1>>
        BY <1>b DEF Inv, Ends
      <4> QED
        BY <4>1, SMT
    <3>2. tab'["dumper"][b] = "b" /\ b # -1 /\ cpc' = "none"
      BY <1>a, <1>b, <1>c, <2>b, NoNumber
    <3>3. b \notin {fds[1], fds[2], zip_in[1], zip_in[2], zip_out[1], zip_out[2]}'
      BY <1>a, <3>1, <3>2
    <3>4. Socket'
      BY <3>2, <3>3 DEF Socket
    <3> QED
      BY <1>3, <3>4 DEF SocketKept
  <2> QED
    BY <1>1, <1>2, <2>1, <2>2, <2>3, <2>4, <2>5, <2>6 DEF Inv
<1>4. CASE Fault /\ tab' = [tab EXCEPT !["app"] = keep] /\ UNCHANGED <<dpc, ppc>>
  <2>a. faults' \in Nat /\ faults' > 0 /\ Excuse'
    BY <1>4, FaultCounts DEF Excuse
  <2>b. UNCHANGED calls /\ tab'["dumper"] = tab["dumper"]
    <3>1. tab'["dumper"] = tab["dumper"]
      BY <1>4, <1>d, PlainTypes, ProcNames, TabStep
    <3> QED
      BY <1>a, <1>4, <3>1 DEF calls
  <2>1. /\ Types' /\ Ends' /\ Child' /\ Search' /\ Right' = Right
    BY <1>a, <1>b, <1>f, <2>a, <2>b, PlainTypes, CallFrame
  <2>2. Control'
    BY <1>a, <1>b, <1>4 DEF Control, Making, Opening
  <2>3. Result'
    BY <1>a, <1>b, <2>a, <2>1 DEF Inv, Result, Returned
  <2>4. SocketKept'
    BY <1>b, <1>4 DEF SocketKept
  <2> QED
    BY <1>1, <1>2, <2>1, <2>2, <2>3, <2>4 DEF Inv
<1> QED
  BY <1>s, <1>3, <1>4

\* The descriptor arrives, or the other end of the socket is gone (elfcore.c:2220-2252).
LEMMA ReceiveKeeps ==
  ASSUME Inv, Receive
  PROVE  Inv'
<1> DEFINE t == [f \in Fd |-> IF tab["app"][f] = "a" THEN "free" ELSE tab["app"][f]]
           l == Lowest(tab["app"])
           u == [t EXCEPT ![l] = mail[1]]
<1>a. /\ pc = "recv" /\ pc' = "end" /\ mail' = <<>> /\ (mail # <<>> \/ ~Held("b"))
      /\ UNCHANGED <<calls, faults, file, dpc>> /\ UNCHANGED <<table, first>>
  BY DEF Receive, calls
<1>b. ~file
  BY <1>a DEF Inv, Control, Writing
<1>c. /\ rc = -1 /\ ~(rc >= 0) /\ Owns("app", Numbers("app", {"a"})) /\ Room(tab["app"])
      /\ (mail # <<>> => mail[2] = Right)
      /\ (mail = <<>> => dpc \in {"create", "send"} \/ Excuse)
  <2>1. /\ rc = -1 /\ Owns("app", Numbers("app", {"a"})) /\ Room(tab["app"])
        /\ (mail # <<>> => mail[2] = Right)
        /\ (mail = <<>> => dpc \in {"create", "send"} \/ Excuse)
    BY <1>a, <1>b DEF Inv, Result, CallerTable
  <2> QED
    BY <2>1, SMT
<1>d. tab["app"] \in [Fd -> EndNames] /\ t \in [Fd -> EndNames]
  <2>1. tab["app"] \in [Fd -> EndNames]
    BY PlainTypes, ProcNames
  <2> QED
    BY <2>1, EndsAreNames
<1>e. \A f \in Fd : t[f] = IF tab["app"][f] = "a" THEN "free" ELSE tab["app"][f]
  OBVIOUS
<1>s. IF mail # <<>>
      THEN rc' = l /\ tab' = [tab EXCEPT !["app"] = u] /\ selected' = mail[2]
      ELSE tab' = [tab EXCEPT !["app"] = t] /\ UNCHANGED <<rc, selected>>
  BY DEF Receive
<1>l. l \in Fd /\ tab["app"][l] = "free"
  BY <1>c, <1>d, LowestIsFree
<1> HIDE DEF t, l
<1>1. CASE mail # <<>>
  <2>1. /\ u \in [Fd -> EndNames]
        /\ \A f \in Fd : u[f] = IF f = l THEN mail[1] ELSE t[f]
    BY <1>1, <1>d, <1>l, PlainTypes
  <2> HIDE DEF u
  <2>2. /\ tab' \in [Procs -> [Fd -> EndNames]] /\ tab'["app"] = u
        /\ tab'["child"] = tab["child"] /\ tab'["dumper"] = tab["dumper"]
    BY <1>1, <1>s, <2>1, TabStep, ProcNames, PlainTypes
  <2>3. rc' \in Int /\ rc' >= 0 /\ rc' \in Fd /\ rc' = l
    BY <1>1, <1>s, <1>l, PipelineAssumption, SMT DEF Fd
  <2>4. /\ Types' /\ Control' /\ Ends' /\ Child' /\ Search' /\ SocketKept' /\ FileTable'
        /\ FlowEnds' /\ Flow' /\ Right' = Right /\ (Excuse => Excuse')
    BY <1>a, <1>b, <2>2, <2>3, PlainTypes, AppFrame
  <2>5. Result'
    BY <1>a, <1>b, <1>c, <1>s, <1>1, <2>3, <2>4 DEF Result, Returned
  <2>6. CallerTable'
    <3>1. first[l] = "free"
      BY <1>c, <1>l DEF Owns, Numbers
    <3>2. \A f \in Fd : f # l => tab'["app"][f] = first[f]
      BY <1>c, <1>e, <2>1, <2>2 DEF Owns, Numbers
    <3>3. Owns("app", {rc})'
      BY <1>a, <2>3, <3>1, <3>2 DEF Owns
    <3> QED
      BY <1>a, <2>3, <3>3 DEF CallerTable
  <2> QED
    BY <2>4, <2>5, <2>6 DEF Inv
<1>2. CASE mail = <<>>
  <2>1. /\ tab' \in [Procs -> [Fd -> EndNames]] /\ tab'["app"] = t
        /\ tab'["child"] = tab["child"] /\ tab'["dumper"] = tab["dumper"]
    BY <1>2, <1>d, <1>s, TabStep, ProcNames, PlainTypes
  <2>2. Excuse
    <3>1. dpc \in {"create", "send"} => Held("b")
      BY ProcNames DEF Inv, SocketKept, Socket, Held
    <3> QED
      BY <1>a, <1>c, <1>2, <3>1
  <2>3. /\ Types' /\ Control' /\ Ends' /\ Child' /\ Search' /\ SocketKept' /\ FileTable'
        /\ FlowEnds' /\ Flow' /\ Right' = Right /\ (Excuse => Excuse')
    BY <1>a, <1>b, <1>s, <1>2, <2>1, PlainTypes, AppFrame
  <2>4. Result'
    BY <1>a, <1>b, <1>c, <1>s, <1>2, <2>2, <2>3 DEF Result, Returned
  <2>5. CallerTable'
    <3>1. Owns("app", {})'
      BY <1>a, <1>c, <1>e, <2>1 DEF Owns, Numbers
    <3> QED
      BY <1>a, <1>c, <1>s, <1>2, <3>1 DEF CallerTable
  <2> QED
    BY <2>3, <2>4, <2>5 DEF Inv
<1> QED
  BY <1>1, <1>2

\* The forked process ends; if it has told its parent nothing, it had a reason.
LEMMA ExitKeeps ==
  ASSUME Inv, Exit, ppc \in {"idle", "ok", "failed"}, dpc \in {"create", "send", "write"},
         UNCHANGED <<calls, file, pc, rc, selected, mail>>,
         faults > 0 => faults' > 0, faults' \in Nat,
         Excuse' \/ dpc = "write"
  PROVE  Inv'
<1>a. ~file /\ UNCHANGED <<table, first, ppc, cpc>> /\ dpc' = "gone"
  BY DEF Inv, Control, calls, Exit
<1>b. /\ tab' \in [Procs -> [Fd -> EndNames]]
      /\ tab'["child"] = tab["child"] /\ tab'["app"] = tab["app"]
  <2>1. Nothing \in [Fd -> EndNames]
    BY EndsAreNames DEF Nothing
  <2> QED
    BY <2>1, TabStep, ProcNames, PlainTypes DEF Exit
<1>1. /\ Types' /\ Ends' /\ Child' /\ Search' /\ FileTable' /\ FlowEnds' /\ Flow'
      /\ Right' = Right /\ (Excuse => Excuse')
  BY <1>a, <1>b, PlainTypes, CallFrame
<1>2. Control'
  <2>1. ppc \notin Making /\ pc \notin {"begin", "fork", "skipped"} /\ ppc # "idle"
    BY <1>a DEF Inv, Control, Making, Opening
  <2> QED
    BY <1>a, <2>1 DEF Inv, Control
<1>3. Result'
  BY <1>a, <1>1 DEF Inv, Result, Returned
<1>4. SocketKept'
  BY <1>a DEF SocketKept
<1>5. CallerTable'
  BY <1>a, <1>b DEF Inv, CallerTable, Owns, Numbers, Room, Free
<1> QED
  BY <1>1, <1>2, <1>3, <1>4, <1>5 DEF Inv

\* What the forked process sends or writes with leaves the caller as it is.
LEMMA WriterFrame ==
  ASSUME Inv, ~file, UNCHANGED <<file, pc, rc, selected, table, first, ignored>>,
         tab'["app"] = tab["app"], Right' = Right, Excuse => Excuse',
         mail' = mail \/ (mail' # <<>> /\ mail'[2] = Right),
         dpc' \in {"create", "send"} \/ mail' # <<>> \/ dpc \notin {"create", "send"}
  PROVE  Result' /\ CallerTable'
<1>1. Result'
  BY DEF Inv, Result, Returned
<1>2. CallerTable'
  BY DEF Inv, CallerTable, Owns, Numbers, Room, Free
<1> QED
  BY <1>1, <1>2

\* CreatePipeline returned in the forked process (elfcore.c:2140-2149).
LEMMA ChildCreatedKeeps ==
  ASSUME Inv, ChildCreated
  PROVE  Inv'
<1>a. /\ dpc = "create"
      /\ UNCHANGED <<table, first, zip_in, zip_out, trying, status, found, ppc, cpc, ignored,
                     file, pc, rc, selected, mail>>
  BY DEF ChildCreated
<1>b. ~file /\ Socket
  BY <1>a DEF Inv, Control, SocketKept
<1>1. CASE ppc = "failed" /\ Exit /\ UNCHANGED <<fds, faults>>
  <2>1. UNCHANGED calls
    BY <1>a, <1>1 DEF calls
  <2>2. Excuse
    BY <1>1 DEF Inv, Search
  <2>3. Excuse'
    BY <1>a, <1>1, <2>2, ExcuseFrame
  <2> QED
    BY <1>a, <1>1, <2>1, <2>3, PlainTypes, ExitKeeps
<1>2. CASE ppc = "ok" /\ fds[1] >= 0 /\ dpc' = "send" /\ UNCHANGED <<tab, fds, faults>>
  <2>1. UNCHANGED calls
    BY <1>a, <1>2 DEF calls
  <2>2. /\ Types' /\ Ends' /\ Child' /\ Search' /\ FileTable' /\ FlowEnds' /\ Flow'
        /\ Right' = Right /\ (Excuse => Excuse')
    BY <1>a, <1>b, <1>2, <2>1, PlainTypes, CallFrame
  <2>3. Result' /\ CallerTable'
    BY <1>a, <1>b, <1>2, <2>2, WriterFrame
  <2>4. Control'
    BY <1>a, <1>b, <1>2 DEF Inv, Control, Making, Opening
  <2>5. SocketKept'
    <3>1. fds[1] \in Fd
      <4>1. fds[1] \in Num
        BY DEF Inv, Types
      <4> QED
        BY <1>2, <4>1, SMT DEF Num
    <3> QED
      BY <1>a, <1>b, <1>2, <3>1 DEF SocketKept, Socket
  <2> QED
    BY <2>2, <2>3, <2>4, <2>5 DEF Inv
<1>3. CASE /\ ppc = "ok" /\ Room2(tab["dumper"])
           /\ tab' = [tab EXCEPT !["dumper"] = Pipe(@, "nr", "nw")]
           /\ fds' = PipeFds(tab["dumper"]) /\ dpc' = "send" /\ UNCHANGED faults
  <2> DEFINE l == Lowest(tab["dumper"])
             s == Second(tab["dumper"])
  <2>1. /\ tab' \in [Procs -> [Fd -> EndNames]]
        /\ tab'["child"] = tab["child"] /\ tab'["app"] = tab["app"]
        /\ l \in Fd /\ s \in Fd
        /\ tab["dumper"][l] = "free" /\ tab["dumper"][s] = "free"
        /\ \A f \in Fd : tab'["dumper"][f] = IF f = l THEN "nr" ELSE IF f = s THEN "nw"
                                             ELSE tab["dumper"][f]
    <3>1. "nr" \in EndNames /\ "nw" \in EndNames
      BY DEF EndNames
    <3> QED
      BY <1>3, <3>1, TabPipe, ProcNames, PlainTypes
  <2>2. fds' = <<l, s>>
    BY <1>3 DEF PipeFds
  <2> HIDE DEF l, s
  <2>3. fds' \in Num \X Num /\ fds'[1] = l /\ fds'[2] = s
    BY <2>1, <2>2, SMT DEF Num
  <2>4. Types'
    BY <1>a, <1>3, <2>1, <2>3 DEF Inv, Types
  <2>5. Control'
    BY <1>a, <1>b, <1>3 DEF Inv, Control, Making, Opening
  <2>6. Right' = Right /\ (Excuse => Excuse') /\ Ended(trying)' = Ended(trying)
    BY <1>a, <1>3, ExcuseFrame DEF Ended, IsNull, IsEmpty
  <2>7. Ends'
    BY <1>a, <1>3 DEF Ends
  <2>8. cpc \in {"none", "running", "closed", "exited"}
    BY <1>3 DEF Inv, Control
  <2>9. Child'
    BY <1>a, <2>1, <2>8 DEF Inv, Child
  <2>10. Search'
    BY <1>a, <2>6 DEF Inv, Search, Reported, IsNull, IsEmpty
  <2>11. Result' /\ CallerTable'
    BY <1>a, <1>b, <1>3, <2>1, <2>6, WriterFrame
  <2>12. SocketKept'
    <3>1. PICK b \in Fd : /\ tab["dumper"][b] = "b"
                          /\ b \notin {zip_in[1], zip_in[2], zip_out[1], zip_out[2]}
      BY <1>b DEF Socket
    <3>2. b # l /\ b # s /\ tab'["dumper"][b] = "b"
      BY <2>1, <3>1
    <3>3. b \notin {fds[1], fds[2], zip_in[1], zip_in[2], zip_out[1], zip_out[2]}'
      BY <1>a, <2>3, <3>1, <3>2
    <3>4. Socket'
      BY <1>a, <2>8, <3>2, <3>3 DEF Socket
    <3> QED
      BY <2>1, <2>3, <3>4 DEF SocketKept
  <2>13. FileTable' /\ FlowEnds' /\ Flow'
    BY <1>a, <1>b DEF FileTable, FlowEnds, Flow
  <2> QED
    BY <2>4, <2>5, <2>7, <2>9, <2>10, <2>11, <2>12, <2>13 DEF Inv
<1>4. CASE ppc = "ok" /\ Fault /\ Exit /\ UNCHANGED fds
  <2>1. UNCHANGED calls /\ faults' \in Nat /\ faults' > 0 /\ Excuse'
    BY <1>a, <1>4, FaultCounts DEF calls, Excuse
  <2> QED
    BY <1>a, <1>4, <2>1, ExitKeeps
<1> QED
  BY <1>1, <1>2, <1>3, <1>4 DEF ChildCreated

\* The read end is passed to the parent (elfcore.c:2151-2188).
LEMMA SendKeeps ==
  ASSUME Inv, Send
  PROVE  Inv'
<1>a. /\ dpc = "send" /\ UNCHANGED <<calls, file, pc, rc, selected>>
      /\ UNCHANGED <<table, first, ignored, found, ppc, cpc>>
  BY DEF Send, calls
<1>b. ~file /\ ppc = "ok" /\ fds[1] \in Fd /\ found = Right
  BY <1>a DEF Inv, Control, SocketKept, Search
<1>1. CASE /\ mail' = <<tab["dumper"][fds[1]], found>>
           /\ tab' = [tab EXCEPT !["dumper"] = Close(@, Surplus)]
           /\ dpc' = "write" /\ UNCHANGED faults
  <2>1. /\ tab' \in [Procs -> [Fd -> EndNames]]
        /\ tab'["child"] = tab["child"] /\ tab'["app"] = tab["app"]
    BY <1>1, TabClose, ProcNames, PlainTypes
  <2>2. mail' # <<>> /\ mail'[1] = tab["dumper"][fds[1]] /\ mail'[2] = found
    BY <1>1, SMT
  <2>3. mail'[1] \in EndNames
    BY <1>b, <2>2, PlainTypes, ProcNames
  <2>4. /\ Types' /\ Ends' /\ Child' /\ Search' /\ FileTable' /\ FlowEnds' /\ Flow'
        /\ Right' = Right /\ (Excuse => Excuse')
    BY <1>a, <1>b, <1>1, <2>1, <2>3, PlainTypes, CallFrame
  <2>5. Result' /\ CallerTable'
    BY <1>a, <1>b, <2>1, <2>2, <2>4, WriterFrame
  <2>6. Control'
    BY <1>a, <1>b, <1>1 DEF Inv, Control, Making, Opening
  <2>7. SocketKept'
    BY <1>1 DEF SocketKept
  <2> QED
    BY <2>4, <2>5, <2>6, <2>7 DEF Inv
<1>2. CASE Fault /\ Exit /\ UNCHANGED mail
  <2>1. faults' \in Nat /\ faults' > 0 /\ Excuse'
    BY <1>2, FaultCounts DEF Excuse
  <2> QED
    BY <1>a, <1>b, <1>2, <2>1, ExitKeeps
<1> QED
  BY <1>1, <1>2 DEF Send

\* The core is written into the pipe, and the process exits (elfcore.c:2200-2205).
LEMMA SimpleWriteKeeps ==
  ASSUME Inv, SimpleWrite
  PROVE  Inv'
<1>a. /\ dpc = "write" /\ UNCHANGED <<calls, file, pc, rc, selected, mail>>
      /\ UNCHANGED <<table, first, ignored, ppc, cpc>>
  BY DEF SimpleWrite, calls
<1>b. ~file /\ ppc = "ok"
  BY <1>a DEF Inv, Control
<1>1. CASE UNCHANGED <<tab, dpc, faults>>
  <2>1. /\ Types' /\ Ends' /\ Child' /\ Search' /\ FileTable' /\ FlowEnds' /\ Flow'
        /\ Right' = Right /\ (Excuse => Excuse')
    BY <1>a, <1>b, <1>1, PlainTypes, CallFrame
  <2>2. Result' /\ CallerTable'
    BY <1>a, <1>b, <1>1, <2>1, WriterFrame
  <2>3. Control'
    BY <1>a, <1>b, <1>1 DEF Inv, Control, Making, Opening
  <2>4. SocketKept'
    BY <1>a, <1>1 DEF SocketKept
  <2> QED
    BY <2>1, <2>2, <2>3, <2>4 DEF Inv
<1>2. CASE Exit /\ UNCHANGED faults
  BY <1>a, <1>b, <1>2, PlainTypes, ExitKeeps
<1>3. CASE Exit /\ Fault
  BY <1>a, <1>b, <1>3, FaultCounts, ExitKeeps
<1> QED
  BY <1>1, <1>2, <1>3 DEF SimpleWrite

\* The client asks for no core at all (coredumper_unittest.c MyWriteCoreDumpWith).
LEMMA ClientSkipsKeeps ==
  ASSUME Inv, ClientSkips
  PROVE  Inv'
<1>a. /\ ~file /\ pc = "begin" /\ pc' = "skipped"
      /\ UNCHANGED <<calls, file, dpc, rc, selected, mail, tab, faults>>
  BY DEF ClientSkips, clientKeeps
<1>1. /\ Types' /\ Control' /\ Ends' /\ Child' /\ Search' /\ SocketKept' /\ FileTable'
      /\ FlowEnds' /\ Flow' /\ Right' = Right
  BY <1>a, PlainTypes, AppFrame
<1>2. Result' /\ CallerTable'
  BY <1>a, <1>1 DEF Inv, Result, Returned, CallerTable
<1> QED
  BY <1>1, <1>2 DEF Inv

\* The client opens its file, or closes what it was given.
LEMMA ClientOpensKeeps ==
  ASSUME Inv, ClientOpens
  PROVE  Inv'
<1>a. /\ ~file /\ pc = "end" /\ rc >= 0
      /\ UNCHANGED <<calls, file, dpc, rc, selected, mail>> /\ UNCHANGED <<table, first>>
  BY DEF ClientOpens, clientKeeps, calls
<1>b. rc \in Fd /\ Owns("app", {rc}) /\ selected = Right
  BY <1>a DEF Inv, CallerTable, Result, Returned
<1>1. CASE /\ Room(tab["app"])
           /\ tab' = [tab EXCEPT !["app"][Lowest(tab["app"])] = "file"]
           /\ pc' = "copy" /\ UNCHANGED faults
  <2> DEFINE l == Lowest(tab["app"])
  <2>1. /\ tab' \in [Procs -> [Fd -> EndNames]]
        /\ tab'["child"] = tab["child"] /\ tab'["dumper"] = tab["dumper"]
        /\ l \in Fd /\ tab["app"][l] = "free"
        /\ \A f \in Fd : tab'["app"][f] = IF f = l THEN "file" ELSE tab["app"][f]
    <3>1. tab' = [tab EXCEPT !["app"] = [@ EXCEPT ![Lowest(@)] = "file"]]
      BY <1>1
    <3>2. "file" \in EndNames
      BY DEF EndNames
    <3> QED
      BY <1>1, <3>1, <3>2, TabOpen, ProcNames, PlainTypes
  <2> HIDE DEF l
  <2>2. /\ Types' /\ Control' /\ Ends' /\ Child' /\ Search' /\ SocketKept' /\ FileTable'
        /\ FlowEnds' /\ Flow' /\ Right' = Right
    BY <1>a, <1>1, <2>1, PlainTypes, AppFrame
  <2>3. Result'
    BY <1>a, <1>b, <1>1, <2>2 DEF Inv, Result, Returned
  <2>4. CallerTable'
    <3>1. first[l] = "free"
      BY <1>b, <2>1 DEF Owns
    <3>2. Owns("app", {rc} \cup Numbers("app", {"file"}))'
      BY <1>a, <1>b, <2>1, <3>1, PlainTypes, OldIsPlain DEF Owns, Numbers
    <3> QED
      BY <1>a, <1>b, <1>1, <3>2 DEF CallerTable
  <2> QED
    BY <2>2, <2>3, <2>4 DEF Inv
<1>2. CASE Fault /\ tab' = [tab EXCEPT !["app"] = Close(@, {rc})] /\ pc' = "closed"
  <2>1. /\ tab' \in [Procs -> [Fd -> EndNames]]
        /\ tab'["child"] = tab["child"] /\ tab'["dumper"] = tab["dumper"]
        /\ \A f \in Fd : tab'["app"][f] = IF f \in {rc} THEN "free" ELSE tab["app"][f]
    BY <1>2, TabClose, ProcNames, PlainTypes
  <2>2. faults' \in Nat /\ faults' > 0
    BY <1>2, FaultCounts
  <2>3. /\ Types' /\ Control' /\ Ends' /\ Child' /\ Search' /\ SocketKept' /\ FileTable'
        /\ FlowEnds' /\ Flow' /\ Right' = Right
    BY <1>a, <1>2, <2>1, <2>2, PlainTypes, AppFrame
  <2>4. Result'
    BY <1>a, <1>b, <1>2, <2>3 DEF Inv, Result, Returned
  <2>5. CallerTable'
    <3>1. Owns("app", {})'
      BY <1>a, <1>b, <2>1 DEF Owns
    <3> QED
      BY <1>a, <1>2, <3>1 DEF CallerTable
  <2> QED
    BY <2>3, <2>4, <2>5 DEF Inv
<1> QED
  BY <1>1, <1>2 DEF ClientOpens

\* The client copies the core, and closes both descriptors at the end.
LEMMA ClientCopiesKeeps ==
  ASSUME Inv, ClientCopies
  PROVE  Inv'
<1> DEFINE t == [f \in Fd |-> IF f = rc \/ tab["app"][f] = "file" THEN "free" ELSE tab["app"][f]]
<1>a. /\ pc = "copy" /\ UNCHANGED <<calls, file, dpc, rc, selected, mail>>
      /\ UNCHANGED <<table, first>>
  BY DEF ClientCopies, clientKeeps, calls
<1>b. ~file
  BY <1>a DEF Inv, Control, Writing
<1>c. /\ rc \in Fd /\ Owns("app", {rc} \cup Numbers("app", {"file"}))
      /\ (IF rc >= 0 THEN selected = Right ELSE Excuse)
  BY <1>a, <1>b DEF Inv, CallerTable, Result, Returned
<1>s. \/ UNCHANGED <<tab, pc, faults>>
      \/ UNCHANGED <<tab, pc>> /\ Fault
      \/ /\ tab' = [tab EXCEPT !["app"] = t] /\ pc' \in {"eof", "closed"}
         /\ UNCHANGED faults
  BY DEF ClientCopies
<1>d. /\ t \in [Fd -> EndNames]
      /\ \A f \in Fd : t[f] = IF f = rc \/ tab["app"][f] = "file" THEN "free" ELSE tab["app"][f]
  <2>1. tab["app"] \in [Fd -> EndNames]
    BY PlainTypes, ProcNames
  <2> QED
    BY <2>1, EndsAreNames
<1> HIDE DEF t
<1>1. CASE UNCHANGED <<tab, pc>> /\ (UNCHANGED faults \/ Fault)
  <2>1. faults' \in Nat /\ (faults > 0 => faults' > 0)
    BY <1>1, FaultCounts, PlainTypes
  <2>2. /\ Types' /\ Control' /\ Ends' /\ Child' /\ Search' /\ SocketKept' /\ FileTable'
        /\ FlowEnds' /\ Flow' /\ Right' = Right /\ (Excuse => Excuse')
    BY <1>a, <1>b, <1>1, <2>1, PlainTypes, AppFrame
  <2>3. Result'
    BY <1>a, <1>b, <1>c, <1>1, <2>2 DEF Inv, Result, Returned
  <2>4. CallerTable'
    BY <1>a, <1>c, <1>1 DEF CallerTable, Owns, Numbers
  <2> QED
    BY <2>2, <2>3, <2>4 DEF Inv
<1>2. CASE /\ tab' = [tab EXCEPT !["app"] = t] /\ pc' \in {"eof", "closed"}
           /\ UNCHANGED faults
  <2>1. /\ tab' \in [Procs -> [Fd -> EndNames]] /\ tab'["app"] = t
        /\ tab'["child"] = tab["child"] /\ tab'["dumper"] = tab["dumper"]
    BY <1>2, <1>d, TabStep, ProcNames, PlainTypes
  <2>2. /\ Types' /\ Control' /\ Ends' /\ Child' /\ Search' /\ SocketKept' /\ FileTable'
        /\ FlowEnds' /\ Flow' /\ Right' = Right /\ (Excuse => Excuse')
    BY <1>a, <1>b, <1>2, <2>1, PlainTypes, AppFrame
  <2>3. Result'
    BY <1>a, <1>b, <1>c, <1>2, <2>2 DEF Inv, Result, Returned
  <2>4. CallerTable'
    <3>1. Owns("app", {})'
      BY <1>a, <1>c, <1>d, <2>1 DEF Owns, Numbers
    <3> QED
      BY <1>2, <3>1 DEF CallerTable
  <2> QED
    BY <2>2, <2>3, <2>4 DEF Inv
<1> QED
  BY <1>s, <1>1, <1>2

-----------------------------------------------------------------------------
(* The theorems. *)

\* The invariant holds at the call.
LEMMA InitKeeps == Init => Inv
<1> SUFFICES ASSUME Init PROVE Inv
  OBVIOUS
<1>a. /\ file \in BOOLEAN /\ PipelineInit(Dumper) /\ pc = "begin" /\ dpc = "none"
      /\ max_length \in Lengths /\ left = Blocks /\ out = 0 /\ held = 0
      /\ q = [p \in Pipes |-> 0] /\ rc = -1 /\ mail = <<>> /\ died = FALSE
  BY DEF Init
<1>b. /\ table \in Tables
      /\ tab = [p \in Procs |-> IF p = Dumper THEN first ELSE Nothing]
      /\ fds = <<-1, -1>> /\ zip_in = <<-1, -1>> /\ zip_out = <<-1, -1>>
      /\ trying = 1 /\ status = <<>> /\ found = 1
      /\ ppc = "idle" /\ cpc = "none" /\ ignored \in BOOLEAN /\ faults = 0
  BY <1>a DEF PipelineInit
<1>c. first \in [Fd -> {"free", "old"}]
  <2>1. PICK s \in OpenSets : first = [f \in Fd |-> IF f \in s THEN "old" ELSE "free"]
    BY <1>a DEF PipelineInit
  <2> QED
    BY <2>1
<1>d. table \in Seq(Entry)
  BY <1>b, PipelineAssumption
<1>1. Types
  <2>1. tab \in [Procs -> [Fd -> EndNames]]
    <3>1. first \in [Fd -> EndNames] /\ Nothing \in [Fd -> EndNames]
      BY <1>c DEF Nothing, EndNames
    <3> QED
      BY <1>b, <3>1
  <2>2. /\ fds \in Num \X Num /\ zip_in \in Num \X Num /\ zip_out \in Num \X Num
        /\ status \in Seq(Nat) /\ trying \in Nat /\ found \in Nat /\ faults \in Nat
        /\ rc \in Int
    BY <1>a, <1>b, SMT DEF Num
  <2> QED
    BY <1>a, <1>b, <1>c, <1>d, <2>1, <2>2 DEF Types
<1>2. Control
  BY <1>a, <1>b DEF Control, Opening, Making, Writing
<1>3. Ends /\ Child /\ SocketKept
  BY <1>a, <1>b DEF Ends, Child, SocketKept
<1>4. Search
  <2>1. trying \in 1 .. Len(table) + 1 /\ 1 .. trying - 1 = {}
    BY <1>b, <1>d, SMT
  <2> QED
    BY <1>b, <2>1 DEF Search
<1>5. Result
  BY <1>a DEF Result, Returned, Writing
<1>6. FileTable
  <2>1. file => tab["dumper"] = first
    BY <1>b, ProcNames DEF Dumper
  <2> QED
    BY <1>a, <1>b, <2>1 DEF FileTable, Owns, Writing
<1>7. CallerTable
  <2>1. ~file => tab["app"] = first
    BY <1>b, ProcNames DEF Dumper
  <2> QED
    BY <1>a, <2>1 DEF CallerTable, Owns
<1>8. FlowEnds
  BY <1>a, <1>b DEF FlowEnds
<1>9. Flow
  <2>1. /\ left \in Nat /\ held \in Nat /\ out \in Nat /\ max_length \in Nat
        /\ 0 \in Nat /\ rc \in {-1, 0}
    BY <1>a, PathsAssumption, SMT
  <2>2. q \in [Pipes -> Nat] /\ q["i"] = 0 /\ q["o"] = 0
    BY <1>a, <2>1, PipeNames
  <2> QED
    BY <1>a, <1>b, <2>1, <2>2 DEF Flow
<1> QED
  BY <1>1, <1>2, <1>3, <1>4, <1>5, <1>6, <1>7, <1>8, <1>9 DEF Inv

\* A step that changes nothing.
LEMMA StutterKeeps ==
  ASSUME Inv, UNCHANGED vars
  PROVE  Inv'
<1>a. /\ UNCHANGED calls /\ UNCHANGED <<tab, faults, file, pc, dpc, rc, selected, mail>>
      /\ UNCHANGED <<left, q, held, out, max_length, died>>
      /\ UNCHANGED <<table, first, fds, zip_in, zip_out, trying, ppc, cpc, ignored>>
  BY DEF vars, pipeline, data, calls
<1>1. /\ Ends' /\ Child' /\ Search' /\ Right' = Right /\ (Excuse => Excuse')
      /\ Ended(trying)' = Ended(trying)
  BY <1>a, CallsFrame
<1>2. Types'
  BY <1>a DEF Inv, Types, calls
<1>3. Control'
  BY <1>a DEF Inv, Control
<1>4. Result' /\ CallerTable'
  BY <1>a, CallerFrame
<1>5. SocketKept'
  BY <1>a DEF Inv, SocketKept, Socket
<1>6. FileTable' /\ FlowEnds'
  BY <1>a, DumperFrame
<1>7. Flow'
  <2>1. InTransit' = InTransit
    BY <1>a DEF InTransit
  <2> QED
    BY <1>a, <1>1, <2>1 DEF Inv, Flow
<1> QED
  BY <1>1, <1>2, <1>3, <1>4, <1>5, <1>6, <1>7 DEF Inv

\* The invariant of CreatePipeline and of the two ways to deliver a core.
THEOREM Invariance == Spec => []Inv
<1>1. ASSUME Inv, [Next]_vars PROVE Inv'
  <2>1. CASE DumperPipeline /\ UNCHANGED pathVars
    BY <1>1, <2>1, StatusPipeKeeps, ZipInKeeps, ZipOutKeeps, CloneKeeps, CloseWriteEndKeeps,
       ReadStatusKeeps, DecideKeeps, ReapKeeps DEF DumperPipeline
  <2>2. CASE ChildPipeline /\ UNCHANGED pathVars
    BY <1>1, <2>2, ChildStartKeeps, ChildMoveStatusKeeps, ChildMoveZipKeeps, ChildStdioKeeps,
       ChildReportKeeps, ChildExecKeeps, ChildCloseKeeps, ChildExitKeeps DEF ChildPipeline
  <2>3. CASE Lister
    BY <1>1, <2>3, BeginKeeps, CreatedKeeps, OpenFileKeeps, WriteDirectKeeps, PollKeeps,
       DrainKeeps, PushKeeps, ClosePipeKeeps, FlushKeeps, CloseAllKeeps, SocketPairKeeps,
       ForkKeeps, ReceiveKeeps DEF Lister
  <2>4. CASE Writer
    BY <1>1, <2>4, ChildCreatedKeeps, SendKeeps, SimpleWriteKeeps DEF Writer
  <2>5. CASE Compress
    BY <1>1, <2>5, CompressKeeps
  <2>6. CASE CompressorDies
    BY <1>1, <2>6, CompressorDiesKeeps
  <2>7. CASE Client
    BY <1>1, <2>7, ClientSkipsKeeps, ClientOpensKeeps, ClientCopiesKeeps DEF Client
  <2>8. CASE UNCHANGED vars
    BY <1>1, <2>8, StutterKeeps
  <2> QED
    BY <1>1, <2>1, <2>2, <2>3, <2>4, <2>5, <2>6, <2>7, <2>8 DEF Next
<1> QED
  BY <1>1, InitKeeps, PTL DEF Spec

\* A running compressor has its input at 0, its output at 1, /dev/null at 2 and no
\* other end of any pipe, for whatever numbers were open at the call
\* (elfcore.c:1544-1575).
THEOREM CompressorHoldsOnly == Spec => []CompressorHoldsOnlyItsPipes
<1>1. Inv => CompressorHoldsOnlyItsPipes
  <2> SUFFICES ASSUME Inv, cpc = "running"
               PROVE  tab["child"] = [f \in Fd |-> CASE f = 0 -> "ir" [] f = 1 -> "ow"
                                                     [] f = 2 -> "null" [] OTHER -> "free"]
    BY DEF CompressorHoldsOnlyItsPipes
  <2>1. 0 # 1 /\ 0 # 2 /\ 1 # 2
    BY SMT
  <2>2. ASSUME NEW f \in Fd
        PROVE  (IF f = 0 THEN "ir" ELSE IF f = 1 THEN "ow" ELSE IF f = 2 THEN "null" ELSE "free")
               = CASE f = 0 -> "ir" [] f = 1 -> "ow" [] f = 2 -> "null" [] OTHER -> "free"
    BY <2>1
  <2>3. tab["child"] = [f \in Fd |-> IF f = 0 THEN "ir" ELSE IF f = 1 THEN "ow"
                                     ELSE IF f = 2 THEN "null" ELSE "free"]
    BY DEF Inv, Child
  <2> QED
    BY <2>2, <2>3
<1> QED
  BY <1>1, Invariance, PTL

\* The table of p is that of the call.
LEMMA OwnsNothing ==
  ASSUME Types, NEW p \in Procs, Owns(p, {})
  PROVE  tab[p] = first
<1>1. tab[p] \in [Fd -> EndNames] /\ first \in [Fd -> {"free", "old"}]
  BY DEF Types
<1>2. \A f \in Fd : tab[p][f] = first[f]
  BY DEF Owns
<1>3. /\ tab[p] = [f \in Fd |-> tab[p][f]] /\ first = [f \in Fd |-> first[f]]
  BY <1>1
<1> QED
  BY <1>2, <1>3

\* When the call returns, the process has the descriptors it had, and the one it is
\* given until the client is done with it, unless the child moved descriptors whose
\* numbers it shares with its parent (elfcore.c:1660-1750, 2236-2240, 2312-2316,
\* 2367-2372).
THEOREM DescriptorsRestored == Spec => []DescriptorsAreRestored
<1>1. Inv => DescriptorsAreRestored
  <2> SUFFICES ASSUME Inv, pc \in {"end", "eof", "closed"}, ~Moves
               PROVE  tab[Dumper] = IF ~file /\ rc >= 0 /\ pc = "end"
                                    THEN [first EXCEPT ![rc] = tab["app"][rc]] ELSE first
    BY DEF DescriptorsAreRestored
  <2>1. CASE file
    <3>1. pc = "end"
      BY <2>1 DEF Inv, Control, Writing
    <3>2. Owns("dumper", {})
      BY <2>1, <3>1 DEF Inv, FileTable
    <3> QED
      BY <2>1, <3>2, OwnsNothing, ProcNames, PlainTypes DEF Dumper
  <2>2. CASE ~file /\ rc >= 0 /\ pc = "end"
    <3>1. rc \in Fd /\ Owns("app", {rc})
      BY <2>2 DEF Inv, CallerTable
    <3>2. tab["app"] \in [Fd -> EndNames] /\ first \in [Fd -> {"free", "old"}]
      BY ProcNames DEF Inv, Types
    <3>3. \A f \in Fd : f # rc => tab["app"][f] = first[f]
      BY <3>1 DEF Owns
    <3>4. tab["app"] = [first EXCEPT ![rc] = tab["app"][rc]]
      BY <3>1, <3>2, <3>3
    <3> QED
      BY <2>2, <3>4 DEF Dumper
  <2>3. CASE ~file /\ ~(rc >= 0 /\ pc = "end")
    <3>1. Owns("app", {})
      BY <2>3 DEF Inv, CallerTable
    <3> QED
      BY <2>3, <3>1, OwnsNothing, ProcNames, PlainTypes DEF Dumper
  <2> QED
    BY <2>1, <2>2, <2>3
<1> QED
  BY <1>1, Invariance, PTL

\* The result is the truth: on success the selected compressor is the one that runs,
\* and a file reported good is whole or as long as allowed unless the compressor was
\* killed; a call fails only for one of the reasons it has (elfcore.c:449-540,
\* 1567-1633, 1700-1748, 2204-2233, 2326-2365).
THEOREM ResultTrue == Spec => []ResultIsTruth
<1>1. Inv => ResultIsTruth
  <2> SUFFICES ASSUME Inv PROVE ResultIsTruth
    OBVIOUS
  <2>1. Returned => IF rc >= 0 THEN selected = Right ELSE Excuse
    BY DEF Inv, Result
  <2>2. file /\ pc = "end" /\ rc = 0 => out = Blocks \/ max_length = 0 \/ died
    BY DEF Inv, Flow
  <2> QED
    BY <2>1, <2>2 DEF ResultIsTruth, Right, Excuse
<1> QED
  BY <1>1, Invariance, PTL
=============================================================================

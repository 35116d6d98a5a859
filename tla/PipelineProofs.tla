--------------------------- MODULE PipelineProofs ---------------------------
(***************************************************************************)
(* What the compressor pipeline leaves behind and what it has written, for *)
(* every table of compressors, size of the core and capacity of the pipe.  *)
(***************************************************************************)
EXTENDS Pipeline, SequenceTheorems, TLAPS

\* The ends of the pipes have holders, ...
FdType ==
  /\ readers \in [Entries -> SUBSET {"host", "comp", "other"}]
  /\ writers \in [Entries -> SUBSET {"host", "comp", "child", "other"}]

\* ... the processes have states, ...
ProcessType ==
  /\ comp \in [Entries -> States] /\ child \in [Entries -> States]
  /\ sent \in [Entries -> 0..Blocks]

\* ... and the pipes and the file have blocks.
BlockType ==
  /\ pipe \in [Entries -> Seq(1..Blocks)]
  /\ \A e \in Entries : Len(pipe[e]) <= Capacity
  /\ out \in Seq(Entries \X (1..Blocks))

\* What is left of TypeOK.
CallType ==
  /\ Raw \in Tables
  /\ pc \in {"next", "fork", "close", "dump", "dumping", "raw", "finish",
             "wait", "done"}
  /\ entry \in 1..Terminal /\ selected \in 1..Terminal
  /\ rc \in {0, -1} /\ dumpRc \in {0, -1}
  /\ forked \in BOOLEAN /\ crashed \in BOOLEAN /\ faults \in 0..MaxFaults

\* The steps at which the host holds the write end of the pipe.
HoldsPipe == {"fork", "close", "dump", "dumping", "finish"}

\* The steps at which a compressor is there to be reaped.
HasCompressor == {"close", "dump", "dumping", "finish", "wait"}

\* The host holds ends of the current entry's pipe only, and only until finish
\* closes them; no other compressor is alive or unreaped.
Ownership ==
  /\ CallType
  /\ pc \notin {"next", "done"} => entry < Terminal
  /\ pc \in {"fork", "close", "finish", "wait"} => ~Raw[entry]
  /\ pc = "raw" => Raw[entry]
  /\ \A e \in Entries :
       /\ "host" \in readers[e] => e = entry /\ pc \in {"fork", "close"}
       /\ "host" \in writers[e] => e = entry /\ ~Raw[e] /\ pc \in HoldsPipe
       /\ e = entry /\ pc \in HoldsPipe /\ ~Raw[e] => "host" \in writers[e]
       /\ comp[e] \notin {"none", "reaped"} =>
            e = entry /\ ~Raw[e] /\ pc \in HasCompressor

\* Blocks of entry e's core that have left the pipe.
Delivered(e) == sent[e] - Len(pipe[e])

\* An entry has a writer only once its dump has begun, and a writer that runs on
\* after a crash signal holds its pipe; only the last entry walked can be the
\* empty name.
Writers ==
  /\ \A e \in 1 .. entry - 1 : ~Raw[e]
  /\ \A e \in Entries :
       /\ child[e] # "none" => \/ e < entry
                               \/ /\ e = entry
                                  /\ pc \notin {"next", "fork", "close", "dump"}
       /\ child[e] # "none" => e < Terminal
       /\ child[e] = "none" => sent[e] = 0
       /\ child[e] = "ok" => sent[e] = Blocks
       /\ child[e] = "running" /\ ~Raw[e] => "child" \in writers[e]

\* A pipe holds, in order, the blocks that follow those delivered.
Piped ==
  \A e \in Entries :
    /\ e \in 1 .. Len(Raw) /\ Raw[e] => pipe[e] = <<>>
    /\ Len(pipe[e]) <= sent[e]
    /\ \A j \in 1 .. Len(pipe[e]) : pipe[e][j] = Delivered(e) + j

\* The file ends with the delivered blocks of the current entry.
Written ==
  entry \in Entries =>
    /\ Len(out) >= Delivered(entry)
    /\ \A j \in 1 .. Delivered(entry) :
         out[Len(out) - Delivered(entry) + j] = <<entry, j>>

\* A compressor succeeds only at the end of its input, a dump only with its
\* writer, and the call only with both.
Reported ==
  /\ \A e \in Entries : comp[e] = "ok" =>
       pc = "wait" /\ pipe[e] = <<>> /\ child[e] # "running"
  /\ pc \in {"raw", "finish", "wait"} /\ dumpRc = 0 => child[entry] = "ok"
  /\ pc = "done" /\ rc = 0 =>
       /\ selected = entry /\ entry < Terminal
       /\ child[entry] = "ok" /\ pipe[entry] = <<>>
  /\ pc # "done" \/ rc # 0 => selected = Terminal /\ rc = -1

-----------------------------------------------------------------------------

\* An entry before the end of the table has a pipe of its own.
LEMMA EntryInTable ==
  ASSUME CallType
  PROVE  /\ Terminal \in Nat \ {0} /\ entry \in Nat \ {0} /\ entry <= Terminal
         /\ entry < Terminal => entry \in Entries
         /\ \A e \in 1 .. Len(Raw) : Raw[e] \in BOOLEAN
<1>1. Raw \in Tables /\ Raw \in Seq(BOOLEAN) /\ entry \in 1..Terminal
  BY PipelineAssumption DEF CallType
<1>2. DOMAIN Raw = 1 .. Len(Raw) /\ Len(Raw) \in Nat
  BY <1>1
<1>3. DOMAIN Raw \subseteq Entries
  BY <1>1 DEF Entries
<1> QED
  BY <1>1, <1>2, <1>3 DEF Terminal

\* The table is the caller's: no step of the walk changes it.
LEMMA TableIsConstant ==
  ASSUME [Next]_vars
  PROVE  Raw' = Raw /\ Terminal' = Terminal /\ Entries' = Entries
<1>1. Raw' = Raw
  BY DEF Next, CallStep, CompStep, ChildStep, EndOfTable,
     UncompressedEntry, CreatePipe, ForkCompressor, CloseReadEnd, StartDump,
     DumpReturns, UncompressedResult, FinishClose, FinishWait, HostFork,
     OtherExit, CompExec, CompRead, CompExit, ChildWrite, ChildExit, vars
<1> QED
  BY <1>1 DEF Terminal, Entries

\* Whoever opens, inherits or closes an end is one of the four kinds of process.
LEMMA FdTypeStep ==
  ASSUME FdType, entry < Terminal => entry \in Entries,
         pc \notin {"next", "done"} => entry < Terminal, [Next]_vars
  PROVE  FdType'
<1> USE DEF FdType, fdVars, Close
<1>1. CASE CreatePipe
  BY <1>1 DEF CreatePipe
<1>2. CASE ForkCompressor
  BY <1>2 DEF ForkCompressor
<1>3. CASE CloseReadEnd
  BY <1>3 DEF CloseReadEnd
<1>4. CASE StartDump
  BY <1>4 DEF StartDump
<1>5. CASE FinishClose
  BY <1>5 DEF FinishClose
<1>6. CASE HostFork
  BY <1>6 DEF HostFork
<1>7. CASE OtherExit
  BY <1>7 DEF OtherExit
<1>8. ASSUME NEW e \in Entries, CompExec(e) PROVE FdType'
  BY <1>8 DEF CompExec
<1>9. ASSUME NEW e \in Entries, CompExit(e) PROVE FdType'
  BY <1>9 DEF CompExit
<1>10. ASSUME NEW e \in Entries, ChildExit(e) PROVE FdType'
  BY <1>10 DEF ChildExit
<1>11. CASE \/ EndOfTable \/ UncompressedEntry \/ DumpReturns
            \/ UncompressedResult \/ FinishWait
            \/ \E e \in Entries : CompRead(e) \/ ChildWrite(e)
            \/ UNCHANGED vars
  BY <1>11 DEF EndOfTable, UncompressedEntry, DumpReturns,
       UncompressedResult, FinishWait, CompRead, ChildWrite, vars
<1> HIDE DEF FdType
<1> QED
  BY <1>1, <1>2, <1>3, <1>4, <1>5, <1>6, <1>7, <1>8, <1>9, <1>10, <1>11
     DEF Next, CallStep, CompStep, ChildStep

\* The states of the processes are states, and no writer writes too much.
LEMMA ProcessTypeStep ==
  ASSUME ProcessType, entry < Terminal => entry \in Entries,
         pc \notin {"next", "done"} => entry < Terminal, [Next]_vars
  PROVE  ProcessType'
<1> USE PipelineAssumption DEF ProcessType, States
<1>1. CASE ForkCompressor
  BY <1>1 DEF ForkCompressor
<1>2. CASE StartDump
  BY <1>2 DEF StartDump
<1>3. CASE FinishWait
  BY <1>3 DEF FinishWait
<1>4. ASSUME NEW e \in Entries, CompExec(e) PROVE ProcessType'
  BY <1>4 DEF CompExec
<1>5. ASSUME NEW e \in Entries, CompExit(e) PROVE ProcessType'
  BY <1>5 DEF CompExit
<1>6. ASSUME NEW e \in Entries, ChildWrite(e) PROVE ProcessType'
  BY <1>6 DEF ChildWrite, MoreToWrite
<1>7. ASSUME NEW e \in Entries, ChildExit(e) PROVE ProcessType'
  BY <1>7 DEF ChildExit
<1>8. CASE \/ EndOfTable \/ UncompressedEntry \/ CreatePipe \/ CloseReadEnd
           \/ DumpReturns \/ UncompressedResult \/ FinishClose \/ HostFork
           \/ OtherExit \/ \E e \in Entries : CompRead(e)
           \/ UNCHANGED vars
  BY <1>8 DEF EndOfTable, UncompressedEntry, CreatePipe, CloseReadEnd,
       DumpReturns, UncompressedResult, FinishClose, HostFork, OtherExit,
       CompRead, vars
<1> HIDE DEF ProcessType
<1> QED
  BY <1>1, <1>2, <1>3, <1>4, <1>5, <1>6, <1>7, <1>8
     DEF Next, CallStep, CompStep, ChildStep

\* The blocks in the pipes and in the file are blocks of the core.
LEMMA BlockTypeStep ==
  ASSUME BlockType, ProcessType, [Next]_vars
  PROVE  BlockType'
<1> USE PipelineAssumption DEF BlockType
<1>1. ASSUME NEW e \in Entries, CompRead(e) PROVE BlockType'
  <2>1. /\ pipe[e] \in Seq(1..Blocks) /\ pipe[e] # <<>>
        /\ pipe' = [pipe EXCEPT ![e] = Tail(pipe[e])]
        /\ out' = Append(out, <<e, Head(pipe[e])>>)
    BY <1>1 DEF CompRead
  <2>2. /\ Head(pipe[e]) \in 1..Blocks /\ Tail(pipe[e]) \in Seq(1..Blocks)
        /\ Len(Tail(pipe[e])) <= Capacity
    BY <2>1
  <2>3. <<e, Head(pipe[e])>> \in Entries \X (1..Blocks)
    BY <2>2
  <2> QED
    BY <2>1, <2>2, <2>3
<1>2. ASSUME NEW e \in Entries, ChildWrite(e) PROVE BlockType'
  <2>1. sent[e] + 1 \in 1..Blocks
    BY <1>2 DEF ChildWrite, MoreToWrite, ProcessType
  <2>2. CASE out' = Append(out, <<e, sent[e] + 1>>) /\ UNCHANGED pipe
    <3>1. <<e, sent[e] + 1>> \in Entries \X (1..Blocks)
      BY <2>1
    <3> QED
      BY <2>2, <3>1
  <2>3. CASE /\ Len(pipe[e]) < Capacity /\ UNCHANGED out
             /\ pipe' = [pipe EXCEPT ![e] = Append(pipe[e], sent[e] + 1)]
    <3>1. /\ Append(pipe[e], sent[e] + 1) \in Seq(1..Blocks)
          /\ Len(Append(pipe[e], sent[e] + 1)) = Len(pipe[e]) + 1
      BY <2>1
    <3> QED
      BY <2>3, <3>1
  <2> QED
    BY <1>2, <2>2, <2>3 DEF ChildWrite
<1>3. CASE UNCHANGED <<pipe, out>>
  BY <1>3
<1>4. CASE CallStep \/ HostFork \/ OtherExit
  BY <1>3, <1>4 DEF CallStep, EndOfTable, UncompressedEntry, CreatePipe,
       ForkCompressor, CloseReadEnd, StartDump, DumpReturns,
       UncompressedResult, FinishClose, FinishWait, HostFork, OtherExit
<1>5. ASSUME NEW e \in Entries, CompExec(e) \/ CompExit(e) \/ ChildExit(e)
      PROVE  BlockType'
  BY <1>3, <1>5 DEF CompExec, CompExit, ChildExit
<1>6. CASE UNCHANGED vars
  BY <1>3, <1>6 DEF vars
<1> HIDE DEF BlockType
<1> QED
  BY <1>1, <1>2, <1>4, <1>5, <1>6 DEF Next, CompStep, ChildStep

\* The call walks from entry to entry, and every end it opens and every
\* compressor it starts for one is closed and reaped before the next.
LEMMA OwnershipStep ==
  ASSUME FdType, ProcessType, Ownership, [Next]_vars
  PROVE  Ownership'
<1>a. /\ Terminal \in Nat \ {0} /\ entry \in Nat \ {0} /\ entry <= Terminal
      /\ entry < Terminal => entry \in Entries
  BY EntryInTable DEF Ownership
<1>b. Entries' = Entries
  BY DEF Entries
<1> USE <1>a, <1>b, PipelineAssumption
    DEF Ownership, FdType, ProcessType, CallType, HoldsPipe, HasCompressor,
        callVars, fdVars, Terminal, Fault, Close
<1>1. CASE EndOfTable
  BY <1>1 DEF EndOfTable
<1>2. CASE UncompressedEntry
  BY <1>2 DEF UncompressedEntry
<1>3. CASE CreatePipe
  BY <1>3 DEF CreatePipe
<1>4. CASE ForkCompressor
  BY <1>4 DEF ForkCompressor
<1>5. CASE CloseReadEnd
  BY <1>5 DEF CloseReadEnd
<1>6. CASE StartDump
  BY <1>6 DEF StartDump, AfterDump
<1>7. CASE DumpReturns
  <2>1. /\ pc = "dumping" /\ (pc' = IF Raw[entry] THEN "raw" ELSE "finish")
        /\ UNCHANGED <<Raw, entry, selected, rc, readers, writers, comp, forked>>
    BY <1>7 DEF DumpReturns, AfterDump
  <2>2. \/ dumpRc' \in {0, -1} /\ UNCHANGED <<crashed, faults>>
        \/ /\ faults < MaxFaults /\ faults' = faults + 1
           /\ dumpRc' = -1 /\ crashed' = TRUE
    BY <1>7 DEF DumpReturns
  <2>3. dumpRc' \in {0, -1} /\ faults' \in 0..MaxFaults
    BY <2>2
  <2>4. crashed' \in BOOLEAN
    BY <2>2, Zenon
  <2> QED
    BY <2>1, <2>3, <2>4
<1>8. CASE UncompressedResult
  BY <1>8 DEF UncompressedResult
<1>9. CASE FinishClose
  BY <1>9 DEF FinishClose
<1>10. CASE FinishWait
  BY <1>10 DEF FinishWait
<1>11. CASE HostFork
  BY <1>11 DEF HostFork
<1>12. CASE OtherExit
  BY <1>12 DEF OtherExit
<1>13. ASSUME NEW e \in Entries, CompExec(e) PROVE Ownership'
  BY <1>13 DEF CompExec
<1>14. ASSUME NEW e \in Entries, CompRead(e) PROVE Ownership'
  BY <1>14 DEF CompRead
<1>15. ASSUME NEW e \in Entries, CompExit(e) PROVE Ownership'
  BY <1>15 DEF CompExit
<1>16. ASSUME NEW e \in Entries, ChildWrite(e) PROVE Ownership'
  BY <1>16 DEF ChildWrite
<1>17. ASSUME NEW e \in Entries, ChildExit(e) PROVE Ownership'
  BY <1>17 DEF ChildExit
<1>18. CASE UNCHANGED vars
  BY <1>18 DEF vars
<1> HIDE DEF Ownership
<1> QED
  BY <1>1, <1>2, <1>3, <1>4, <1>5, <1>6, <1>7, <1>8, <1>9, <1>10, <1>11,
     <1>12, <1>13, <1>14, <1>15, <1>16, <1>17, <1>18
     DEF Next, CallStep, CompStep, ChildStep

\* A writer starts with the dump of its entry, counts what it writes, and ends
\* with all of it written or with a failure.
LEMMA WritersStep ==
  ASSUME FdType, ProcessType, Ownership, Writers, [Next]_vars
  PROVE  Writers'
<1>a. /\ Terminal \in Nat \ {0} /\ entry \in Nat \ {0} /\ entry <= Terminal
      /\ entry < Terminal => entry \in Entries
      /\ Entries' = Entries /\ Terminal' = Terminal
  BY EntryInTable, TableIsConstant DEF Ownership
<1>b. /\ pc \notin {"next", "done"} => entry < Terminal
      /\ pc \in {"fork", "wait"} => ~Raw[entry]
  BY DEF Ownership
<1>c. \A e \in Entries : e \in Nat
  BY PipelineAssumption DEF Entries
<1> USE <1>a, <1>b, <1>c, PipelineAssumption
    DEF Writers, FdType, ProcessType, fdVars, Fault, Close
<1>d. ASSUME entry' = entry + 1, ~Raw[entry], UNCHANGED <<Raw, child, sent>>,
             \A e \in Entries : "child" \in writers[e] /\ e # entry
                               => "child" \in writers'[e],
             child[entry] = "running" => "child" \in writers'[entry]
      PROVE  Writers'
  <2>1. \A e \in 1 .. entry' - 1 : ~Raw'[e]
    <3>1. \A e \in 1 .. entry' - 1 : e \in 1 .. entry - 1 \/ e = entry
      BY <1>d
    <3> QED
      BY <1>d, <3>1
  <2> QED
    BY <1>d, <2>1
<1>1. CASE CreatePipe
  <2>1. CASE entry' = entry + 1 /\ UNCHANGED writers
    BY <1>1, <1>d, <2>1 DEF CreatePipe
  <2>2. CASE /\ writers' = [writers EXCEPT ![entry] = {"host"}]
             /\ pc' = "fork" /\ UNCHANGED entry
    BY <1>1, <2>2 DEF CreatePipe
  <2> QED
    BY <1>1, <2>1, <2>2 DEF CreatePipe
<1>2. CASE ForkCompressor
  <2>1. CASE /\ entry' = entry + 1
             /\ writers' = [writers EXCEPT ![entry] = @ \ {"host"}]
    BY <1>2, <1>d, <2>1 DEF ForkCompressor
  <2>2. CASE /\ writers' = [writers EXCEPT ![entry] = @ \cup {"comp"}]
             /\ pc' = "close" /\ UNCHANGED entry
    BY <1>2, <2>2 DEF ForkCompressor
  <2> QED
    BY <1>2, <2>1, <2>2 DEF ForkCompressor
<1>3. CASE CloseReadEnd
  BY <1>3 DEF CloseReadEnd
<1>4. CASE StartDump
  <2>1. entry \in Entries /\ pc = "dump" /\ UNCHANGED <<Raw, entry, sent>>
    BY <1>4 DEF StartDump
  <2>2. CASE /\ child' = [child EXCEPT ![entry] = "running"]
             /\ writers' = IF Raw[entry] THEN writers ELSE
                             [writers EXCEPT ![entry] = @ \cup {"child"}]
             /\ pc' = "dumping"
    BY <2>1, <2>2
  <2>3. CASE UNCHANGED <<child, writers>> /\ pc' \in {"raw", "finish"}
    BY <2>1, <2>3
  <2> QED
    BY <1>4, <2>2, <2>3 DEF StartDump, AfterDump
<1>5. CASE DumpReturns
  BY <1>5 DEF DumpReturns, AfterDump
<1>6. CASE FinishClose
  BY <1>6 DEF FinishClose
<1>7. CASE FinishWait
  BY <1>7, <1>d DEF FinishWait
<1>8. CASE HostFork
  BY <1>8 DEF HostFork
<1>9. CASE OtherExit
  BY <1>9 DEF OtherExit
<1>10. ASSUME NEW e \in Entries, CompExec(e) PROVE Writers'
  BY <1>10 DEF CompExec
<1>11. ASSUME NEW e \in Entries, ChildWrite(e) PROVE Writers'
  BY <1>11 DEF ChildWrite, MoreToWrite
<1>12. ASSUME NEW e \in Entries, ChildExit(e) PROVE Writers'
  BY <1>12 DEF ChildExit, MoreToWrite
<1>13. CASE \/ EndOfTable \/ UncompressedEntry \/ UncompressedResult
            \/ \E e \in Entries : CompRead(e) \/ CompExit(e)
            \/ UNCHANGED vars
  BY <1>13 DEF EndOfTable, UncompressedEntry, UncompressedResult, CompRead,
       CompExit, vars
<1> HIDE DEF Writers
<1> QED
  BY <1>1, <1>2, <1>3, <1>4, <1>5, <1>6, <1>7, <1>8, <1>9, <1>10, <1>11,
     <1>12, <1>13 DEF Next, CallStep, CompStep, ChildStep

\* A block enters a pipe behind the blocks written before it and leaves it ahead
\* of those written after it.
LEMMA PipedStep ==
  ASSUME ProcessType, BlockType, CallType, Writers, Piped, [Next]_vars
  PROVE  Piped'
<1>a. /\ Entries' = Entries /\ \A e \in Entries : pipe[e] \in Seq(1..Blocks)
      /\ Raw' = Raw /\ \A e \in Entries : sent[e] \in Nat
      /\ pipe \in [Entries -> Seq(1..Blocks)] /\ sent \in [Entries -> 0..Blocks]
  BY TableIsConstant, PipelineAssumption DEF BlockType, ProcessType
<1>b. ASSUME NEW e \in Entries, child[e] = "running" PROVE e \in 1 .. Len(Raw)
  <2>1. e < Terminal
    BY <1>b DEF Writers
  <2>2. e \in Nat \ {0} /\ Len(Raw) \in Nat
    BY PipelineAssumption DEF Entries, CallType
  <2> QED
    BY <2>1, <2>2 DEF Terminal
<1> USE <1>a, PipelineAssumption DEF Piped, Delivered
<1>1. ASSUME NEW e \in Entries, CompRead(e) PROVE Piped'
  <2>1. /\ pipe[e] # <<>> /\ pipe' = [pipe EXCEPT ![e] = Tail(pipe[e])]
        /\ UNCHANGED sent
    BY <1>1 DEF CompRead
  <2>2. /\ Len(Tail(pipe[e])) = Len(pipe[e]) - 1 /\ Len(pipe[e]) \in Nat \ {0}
        /\ \A j \in 1 .. Len(Tail(pipe[e])) : Tail(pipe[e])[j] = pipe[e][j + 1]
    BY <2>1
  <2>3. ASSUME NEW j \in 1 .. Len(pipe[e]) - 1
        PROVE  pipe[e][j + 1] = Delivered(e) + 1 + j
    <3>1. j + 1 \in 1 .. Len(pipe[e])
      BY <2>2
    <3>2. pipe[e][j + 1] = Delivered(e) + (j + 1)
      BY <3>1
    <3>3. Delivered(e) \in Int /\ j \in Int
      BY <2>2
    <3> HIDE DEF Piped, Delivered
    <3> QED
      BY <3>2, <3>3
  <2>4. ASSUME NEW d \in Entries, d # e PROVE pipe'[d] = pipe[d]
    BY <2>1, <2>4
  <2>5. /\ Len(pipe'[e]) = Len(pipe[e]) - 1 /\ pipe[e] # <<>>
        /\ \A j \in 1 .. Len(pipe'[e]) : pipe'[e][j] = Delivered(e)' + j
    BY <2>1, <2>2, <2>3
  <2> QED
    BY <2>1, <2>2, <2>4, <2>5
<1>2. ASSUME NEW e \in Entries, ChildWrite(e) PROVE Piped'
  <2>1. sent' = [sent EXCEPT ![e] = sent[e] + 1] /\ e \in 1 .. Len(Raw)
    BY <1>2, <1>b DEF ChildWrite
  <2>2. CASE Raw[e] /\ UNCHANGED pipe
    BY <2>1, <2>2
  <2>3. CASE /\ ~Raw[e]
             /\ pipe' = [pipe EXCEPT ![e] = Append(pipe[e], sent[e] + 1)]
    <3>1. /\ Len(Append(pipe[e], sent[e] + 1)) = Len(pipe[e]) + 1
          /\ \A j \in 1 .. Len(pipe[e]) :
               Append(pipe[e], sent[e] + 1)[j] = pipe[e][j]
          /\ Append(pipe[e], sent[e] + 1)[Len(pipe[e]) + 1] = sent[e] + 1
      OBVIOUS
    <3>2. ASSUME NEW d \in Entries, d # e
          PROVE  pipe'[d] = pipe[d] /\ sent'[d] = sent[d]
      BY <2>1, <2>3, <3>2
    <3>3. /\ Len(pipe'[e]) = Len(pipe[e]) + 1 /\ sent'[e] = sent[e] + 1
          /\ \A j \in 1 .. Len(pipe'[e]) : pipe'[e][j] = Delivered(e)' + j
      BY <2>1, <2>3, <3>1
    <3> QED
      BY <2>1, <2>3, <3>2, <3>3
  <2> QED
    BY <1>2, <2>2, <2>3 DEF ChildWrite
<1>3. CASE UNCHANGED <<pipe, sent>>
  BY <1>3
<1>4. CASE CallStep \/ HostFork \/ OtherExit
  BY <1>3, <1>4 DEF CallStep, EndOfTable, UncompressedEntry, CreatePipe,
       ForkCompressor, CloseReadEnd, StartDump, DumpReturns,
       UncompressedResult, FinishClose, FinishWait, HostFork, OtherExit
<1>5. ASSUME NEW e \in Entries, CompExec(e) \/ CompExit(e) \/ ChildExit(e)
      PROVE  Piped'
  BY <1>3, <1>5 DEF CompExec, CompExit, ChildExit
<1>6. CASE UNCHANGED vars
  BY <1>3, <1>6 DEF vars
<1> HIDE DEF Piped
<1> QED
  BY <1>1, <1>2, <1>4, <1>5, <1>6 DEF Next, CompStep, ChildStep

\* Only the compressor of the current entry, or its writer when there is none,
\* adds to the file, and it adds the block that follows.
LEMMA WrittenStep ==
  ASSUME ProcessType, BlockType, Ownership, Writers, Piped, Written,
         [Next]_vars
  PROVE  Written'
<1>a. /\ Entries' = Entries /\ Raw' = Raw /\ entry \in Nat \ {0}
      /\ Entries \subseteq Nat \ {0}
      /\ pipe \in [Entries -> Seq(1..Blocks)] /\ sent \in [Entries -> 0..Blocks]
      /\ out \in Seq(Entries \X (1..Blocks))
  <2>1. Entries \subseteq Nat \ {0}
    BY PipelineAssumption DEF Entries
  <2> QED
    BY <2>1, TableIsConstant, EntryInTable DEF BlockType, ProcessType, Ownership
<1>e. ASSUME NEW e \in Entries
      PROVE  /\ e \in Nat \ {0} /\ sent[e] \in Nat /\ Len(pipe[e]) \in Nat
             /\ pipe[e] \in Seq(1..Blocks)
             /\ Len(pipe[e]) <= sent[e] /\ Delivered(e) \in Nat
  <2>1. /\ sent[e] \in Nat /\ pipe[e] \in Seq(1..Blocks)
        /\ Len(pipe[e]) <= sent[e]
    BY <1>a, PipelineAssumption DEF Piped
  <2> QED
    BY <1>a, <2>1 DEF Delivered
<1>b. ASSUME entry' = entry + 1, UNCHANGED <<pipe, sent, out>>
      PROVE  Written'
  <2>1. ASSUME entry' \in Entries PROVE Delivered(entry)' = 0
    <3>1. child[entry'] = "none"
      <4>1. ~(entry' < entry) /\ entry' # entry
        BY <1>a, <1>b
      <4> QED
        BY <2>1, <4>1 DEF Writers
    <3>2. sent[entry'] = 0 /\ Len(pipe[entry']) <= sent[entry']
      BY <2>1, <3>1 DEF Writers, Piped
    <3>3. Len(pipe[entry']) = 0
      BY <1>e, <2>1, <3>2
    <3> QED
      BY <1>b, <3>2, <3>3 DEF Delivered
  <2>2. Len(out') \in Nat
    BY <1>a, <1>b
  <2> QED
    BY <1>a, <2>1, <2>2 DEF Written
<1>c. CASE UNCHANGED <<entry, pipe, sent, out>>
  BY <1>a, <1>c DEF Written, Delivered
<1>d. ASSUME UNCHANGED entry, entry \in Entries,
             Delivered(entry)' = Delivered(entry) + 1,
             Delivered(entry) + 1 \in 1..Blocks,
             out' = Append(out, <<entry, Delivered(entry) + 1>>)
      PROVE  Written'
  <2>1. <<entry, Delivered(entry) + 1>> \in Entries \X (1..Blocks)
    BY <1>d
  <2>2. /\ Len(out) >= Delivered(entry) /\ Delivered(entry) \in Nat
        /\ \A j \in 1 .. Delivered(entry) :
             out[Len(out) - Delivered(entry) + j] = <<entry, j>>
    BY <1>d, <1>e DEF Written
  <2> DEFINE d == Delivered(entry)
  <2>3. /\ Len(out') = Len(out) + 1 /\ Len(out) \in Nat
        /\ out'[Len(out) + 1] = <<entry, d + 1>>
        /\ \A n \in 1 .. Len(out) : out'[n] = out[n]
    BY <1>a, <1>d, <2>1
  <2> HIDE DEF d
  <2>4. ASSUME NEW j \in 1 .. d + 1
        PROVE  out'[Len(out') - (d + 1) + j] = <<entry, j>>
    <3>1. Len(out') - (d + 1) + j = Len(out) - d + j /\ d \in Nat
      BY <2>2, <2>3 DEF d
    <3>2. CASE j = d + 1
      <4>1. Len(out) - d + j = Len(out) + 1
        BY <2>3, <3>1, <3>2
      <4> QED
        BY <2>3, <3>1, <3>2, <4>1
    <3>3. CASE j # d + 1
      <4>1. j \in 1 .. d /\ Len(out) - d + j \in 1 .. Len(out)
        BY <2>2, <2>3, <3>1, <3>3 DEF d
      <4>2. out[Len(out) - d + j] = <<entry, j>>
        BY <2>2, <4>1 DEF d
      <4> QED
        BY <2>3, <3>1, <4>1, <4>2
    <3> QED
      BY <3>2, <3>3
  <2>5. Len(out') >= d + 1
    BY <2>2, <2>3 DEF d
  <2>6. entry' = entry /\ Delivered(entry)' = d + 1
    BY <1>d DEF d
  <2> QED
    BY <2>4, <2>5, <2>6 DEF Written
<1>1. ASSUME NEW e \in Entries, CompRead(e) PROVE Written'
  <2>1. /\ e = entry /\ pipe[e] # <<>> /\ UNCHANGED <<entry, sent>>
        /\ pipe' = [pipe EXCEPT ![e] = Tail(pipe[e])]
        /\ out' = Append(out, <<e, Head(pipe[e])>>)
    BY <1>1 DEF CompRead, callVars, Ownership
  <2>2. /\ Head(pipe[e]) = pipe[e][1] /\ Head(pipe[e]) \in 1..Blocks
        /\ Len(Tail(pipe[e])) = Len(pipe[e]) - 1 /\ 1 \in 1 .. Len(pipe[e])
    <3>1. pipe[e] \in Seq(1..Blocks) /\ pipe[e] # <<>>
      BY <1>e, <2>1
    <3>2. Len(pipe[e]) \in Nat \ {0}
      BY <3>1
    <3>3. Head(pipe[e]) = pipe[e][1] /\ Len(Tail(pipe[e])) = Len(pipe[e]) - 1
      BY <3>1, <3>2
    <3>4. 1 \in 1 .. Len(pipe[e]) /\ pipe[e][1] \in 1..Blocks
      BY <3>1, <3>2, PipelineAssumption
    <3> QED
      BY <3>3, <3>4
  <2>3. Head(pipe[e]) = Delivered(e) + 1
    BY <2>2 DEF Piped
  <2>4. Delivered(e)' = Delivered(e) + 1
    BY <1>a, <1>e, <2>1, <2>2 DEF Delivered
  <2> QED
    BY <1>d, <2>1, <2>2, <2>3, <2>4
<1>2. ASSUME NEW e \in Entries, ChildWrite(e) PROVE Written'
  <2>1. /\ sent' = [sent EXCEPT ![e] = sent[e] + 1] /\ UNCHANGED entry
        /\ child[e] = "running" /\ sent[e] + 1 \in 1..Blocks
    BY <1>2, <1>e, PipelineAssumption DEF ChildWrite, MoreToWrite
  <2>a. e < Terminal /\ (e < entry \/ e = entry)
    BY <2>1 DEF Writers
  <2>2. CASE /\ Raw[e] /\ UNCHANGED pipe
             /\ out' = Append(out, <<e, sent[e] + 1>>)
    <3>1. e = entry
      <4>1. e < entry => e \in 1 .. entry - 1
        BY <1>a
      <4> QED
        BY <2>2, <2>a, <4>1 DEF Writers
    <3>2. e \in 1 .. Len(Raw)
      BY <1>a, <2>a, PipelineAssumption DEF Terminal, Ownership, CallType
    <3>3. pipe[e] = <<>> /\ Len(pipe[e]) = 0
      BY <2>2, <3>2 DEF Piped
    <3>4. Delivered(e) = sent[e] /\ Delivered(e)' = sent[e] + 1
      BY <1>a, <2>1, <2>2, <3>3 DEF Delivered
    <3> QED
      BY <1>d, <2>1, <2>2, <3>1, <3>4
  <2>3. CASE /\ pipe' = [pipe EXCEPT ![e] = Append(pipe[e], sent[e] + 1)]
             /\ UNCHANGED out
    <3>1. Len(Append(pipe[e], sent[e] + 1)) = Len(pipe[e]) + 1
      BY <1>e
    <3>2. ASSUME NEW d \in Entries PROVE Delivered(d)' = Delivered(d)
      <4>1. CASE d = e
        <5>1. sent'[d] = sent[d] + 1 /\ Len(pipe'[d]) = Len(pipe[d]) + 1
          BY <1>a, <2>1, <2>3, <3>1, <4>1
        <5>2. sent[d] \in Int /\ Len(pipe[d]) \in Int
          BY <1>e
        <5>3. \A x, y \in Int : (x + 1) - (y + 1) = x - y
          OBVIOUS
        <5> QED
          BY <5>1, <5>2, <5>3, Zenon DEF Delivered
      <4>2. CASE d # e
        <5>1. sent'[d] = sent[d] /\ pipe'[d] = pipe[d]
          BY <1>a, <2>1, <2>3, <4>2
        <5> QED
          BY <5>1 DEF Delivered
      <4> QED
        BY <4>1, <4>2
    <3> QED
      BY <1>a, <2>1, <2>3, <3>2 DEF Written
  <2> QED
    BY <1>2, <2>2, <2>3 DEF ChildWrite
<1>3. CASE CreatePipe \/ ForkCompressor \/ FinishWait
  BY <1>a, <1>b, <1>c, <1>3, SMTT(30) DEF CreatePipe, ForkCompressor, FinishWait
<1>4. CASE \/ EndOfTable \/ UncompressedEntry \/ CloseReadEnd \/ StartDump
           \/ DumpReturns \/ UncompressedResult \/ FinishClose \/ HostFork
           \/ OtherExit
           \/ \E e \in Entries : CompExec(e) \/ CompExit(e) \/ ChildExit(e)
           \/ UNCHANGED vars
  BY <1>c, <1>4 DEF EndOfTable, UncompressedEntry, CloseReadEnd, StartDump,
       DumpReturns, UncompressedResult, FinishClose, HostFork, OtherExit,
       CompExec, CompExit, ChildExit, vars
<1> QED
  BY <1>1, <1>2, <1>3, <1>4 DEF Next, CallStep, CompStep, ChildStep

\* A compressor that exits at the end of its input leaves no writer behind it, so
\* the result the call reports is that of a core delivered whole.
LEMMA ReportedStep ==
  ASSUME FdType, ProcessType, BlockType, Ownership, Writers, Piped, Reported,
         [Next]_vars
  PROVE  Reported'
<1>a. /\ Entries' = Entries /\ Terminal' = Terminal /\ Raw' = Raw
      /\ entry < Terminal => entry \in Entries /\ entry \in 1 .. Len(Raw)
      /\ pc \notin {"next", "done"} => entry < Terminal
      /\ dumpRc \in {0, -1}
  <2>1. /\ Terminal \in Nat /\ entry \in Nat \ {0}
        /\ entry < Terminal => entry \in Entries
    BY EntryInTable DEF Ownership
  <2>2. entry < Terminal => entry \in 1 .. Len(Raw)
    <3>1. Len(Raw) \in Nat
      BY PipelineAssumption DEF Ownership, CallType
    <3> QED
      BY <2>1, <3>1 DEF Terminal
  <2>3. dumpRc \in {0, -1} /\ (pc \notin {"next", "done"} => entry < Terminal)
    BY DEF Ownership, CallType
  <2> QED
    BY <2>1, <2>2, <2>3, TableIsConstant, SMTT(30)
<1>b. /\ pipe \in [Entries -> Seq(1..Blocks)]
      /\ comp \in [Entries -> States] /\ child \in [Entries -> States]
  BY DEF BlockType, ProcessType
<1> USE <1>a, <1>b DEF Reported, callVars
<1>1. CASE UncompressedEntry
  BY <1>1 DEF UncompressedEntry
<1>2. CASE CreatePipe
  BY <1>2 DEF CreatePipe
<1>3. CASE ForkCompressor
  BY <1>3 DEF ForkCompressor
<1>4. CASE CloseReadEnd
  BY <1>4 DEF CloseReadEnd
<1>5. CASE StartDump
  BY <1>5 DEF StartDump, AfterDump
<1>6. CASE DumpReturns
  BY <1>6 DEF DumpReturns, AfterDump
<1>7. CASE UncompressedResult
  <2>1. pipe[entry] = <<>>
    BY <1>7 DEF UncompressedResult, Ownership, Piped
  <2> QED
    BY <1>7, <2>1 DEF UncompressedResult
<1>8. CASE FinishClose
  BY <1>8 DEF FinishClose
<1>9. CASE FinishWait
  <2>1. /\ pc = "wait" /\ entry \in Entries
        /\ \A e \in Entries : comp'[e] = "ok" => e # entry /\ comp[e] = "ok"
        /\ UNCHANGED <<dumpRc, pipe, child>>
    BY <1>9 DEF FinishWait
  <2>2. \A e \in Entries : comp'[e] # "ok"
    BY <2>1 DEF Ownership
  <2>3. CASE /\ PipelineResult(comp[entry]) = 0
             /\ rc' = 0 /\ selected' = entry /\ pc' = "done" /\ UNCHANGED entry
    BY <2>1, <2>2, <2>3 DEF PipelineResult
  <2>4. CASE pc' = "next" /\ UNCHANGED <<rc, selected>>
    BY <2>1, <2>2, <2>4
  <2> QED
    BY <1>9, <2>3, <2>4 DEF FinishWait
<1>10. CASE EndOfTable
  BY <1>10 DEF EndOfTable
<1>11. ASSUME NEW e \in Entries, CompExec(e) PROVE Reported'
  BY <1>11 DEF CompExec
<1>12. ASSUME NEW e \in Entries, CompRead(e) PROVE Reported'
  BY <1>12 DEF CompRead, Ownership
<1>13. ASSUME NEW e \in Entries, CompExit(e) PROVE Reported'
  <2>1. CASE pipe[e] = <<>> /\ writers[e] = {}
    <3>1. e = entry /\ ~Raw[e] /\ pc = "wait"
      BY <1>13, <2>1 DEF CompExit, Ownership, HasCompressor, HoldsPipe
    <3>2. child[e] # "running"
      BY <2>1, <3>1 DEF Writers
    <3> QED
      BY <1>13, <2>1, <3>1, <3>2 DEF CompExit
  <2>2. CASE comp' = [comp EXCEPT ![e] = "failed"]
    BY <1>13, <2>2 DEF CompExit
  <2> QED
    BY <1>13, <2>1, <2>2 DEF CompExit
<1>14. ASSUME NEW e \in Entries, ChildWrite(e) PROVE Reported'
  BY <1>14 DEF ChildWrite
<1>15. ASSUME NEW e \in Entries, ChildExit(e) PROVE Reported'
  BY <1>15 DEF ChildExit
<1>16. CASE HostFork \/ OtherExit \/ UNCHANGED vars
  BY <1>16 DEF HostFork, OtherExit, vars
<1> HIDE DEF Reported
<1> QED
  BY <1>1, <1>2, <1>3, <1>4, <1>5, <1>6, <1>7, <1>8, <1>9, <1>10, <1>11,
     <1>12, <1>13, <1>14, <1>15, <1>16 DEF Next, CallStep, CompStep, ChildStep

\* The invariant the two theorems rest on.
WalkInvariant ==
  /\ FdType /\ ProcessType /\ BlockType /\ Ownership
  /\ Writers /\ Piped /\ Written /\ Reported

\* It holds before the walk, ...
LEMMA WalkInit == Init => WalkInvariant
<1> SUFFICES ASSUME Init PROVE WalkInvariant
  OBVIOUS
<1>1. Raw \in Seq(BOOLEAN) /\ Terminal \in Nat \ {0}
  BY PipelineAssumption DEF Init, Terminal
<1>2. FdType /\ ProcessType
  BY PipelineAssumption DEF Init, FdType, ProcessType, States
<1>3. BlockType
  BY PipelineAssumption DEF Init, BlockType
<1>4. Ownership
  <2>1. CallType
    <3>1. forked \in BOOLEAN /\ crashed \in BOOLEAN
      BY Zenon DEF Init
    <3>2. entry \in 1..Terminal /\ selected \in 1..Terminal /\ faults \in 0..MaxFaults
      BY <1>1, PipelineAssumption DEF Init
    <3> QED
      BY <3>1, <3>2 DEF Init, CallType
  <2> QED
    BY <2>1 DEF Init, Ownership, HoldsPipe, HasCompressor
<1>5. Writers /\ Piped
  BY DEF Init, Writers, Piped, Delivered
<1>6. Written
  BY DEF Init, Written, Delivered
<1>7. Reported
  BY DEF Init, Reported
<1> QED
  BY <1>2, <1>3, <1>4, <1>5, <1>6, <1>7 DEF WalkInvariant

\* ... every step of every process keeps it, ...
LEMMA WalkStep == WalkInvariant /\ [Next]_vars => WalkInvariant'
<1> SUFFICES ASSUME WalkInvariant, [Next]_vars PROVE WalkInvariant'
  OBVIOUS
<1> USE DEF WalkInvariant
<1>1. /\ entry < Terminal => entry \in Entries
      /\ pc \notin {"next", "done"} => entry < Terminal
      /\ CallType
  BY EntryInTable DEF Ownership
<1>2. FdType' /\ ProcessType' /\ BlockType'
  BY <1>1, FdTypeStep, ProcessTypeStep, BlockTypeStep
<1>3. Ownership' /\ Writers'
  BY OwnershipStep, WritersStep
<1>4. Piped' /\ Written' /\ Reported'
  BY <1>1, PipedStep, WrittenStep, ReportedStep
<1> QED
  BY <1>2, <1>3, <1>4

\* ... and so it holds throughout.
LEMMA Walk == Spec => []WalkInvariant
BY WalkInit, WalkStep, PTL DEF Spec

-----------------------------------------------------------------------------

\* The state of the walk is well typed; in particular no pipe ever holds more
\* than its capacity and no position runs past the NULL entry.
THEOREM TypeCorrect == Spec => []TypeOK
<1>1. WalkInvariant => TypeOK
  BY DEF WalkInvariant, FdType, ProcessType, BlockType, Ownership, CallType,
     TypeOK
<1> QED
  BY <1>1, Walk, PTL

\* On return, whichever pipe, fork, exec, dump or wait failed on the way, the
\* host holds no end of a pipe and has no compressor to reap.
THEOREM HostIsLeftClean == Spec => []NothingLeft
<1>1. WalkInvariant => NothingLeft
  BY DEF WalkInvariant, Ownership, NothingLeft, HoldsPipe, HasCompressor
<1> QED
  BY <1>1, Walk, PTL

\* When dump_compressed reports success the file ends with the whole core, every
\* block once and in order, as the selected compressor was fed it.
THEOREM SelectedIsWhole == Spec => []SelectedStreamIsWhole
<1>1. WalkInvariant => SelectedStreamIsWhole
  <2> SUFFICES ASSUME WalkInvariant, pc = "done" PROVE SelectedStreamIsWhole
    BY DEF SelectedStreamIsWhole
  <2>1. CASE rc # 0
    BY <2>1 DEF WalkInvariant, Reported, SelectedStreamIsWhole
  <2>2. CASE rc = 0
    <3>1. /\ selected = entry /\ entry < Terminal
          /\ child[entry] = "ok" /\ pipe[entry] = <<>>
      BY <2>2 DEF WalkInvariant, Reported
    <3>2. entry \in Entries
      BY <3>1, EntryInTable DEF WalkInvariant, Ownership
    <3>3. Delivered(entry) = Blocks
      <4>1. sent[entry] = Blocks /\ Len(pipe[entry]) = 0
        BY <3>1, <3>2 DEF WalkInvariant, Writers
      <4> QED
        BY <4>1, PipelineAssumption DEF Delivered
    <3>4. /\ Len(out) >= Blocks
          /\ \A j \in 1..Blocks : out[Len(out) - Blocks + j] = <<entry, j>>
      BY <3>2, <3>3 DEF WalkInvariant, Written
    <3>5. out \in Seq(Entries \X (1..Blocks)) /\ Len(out) \in Nat
      BY DEF WalkInvariant, BlockType
    <3> DEFINE from == Len(out) - Blocks + 1
    <3>6. /\ from \in Int /\ from >= 1 /\ Len(out) - from + 1 = Blocks
          /\ \A n \in Nat : from + n - 1 = Len(out) - Blocks + n
      BY <3>4, <3>5, PipelineAssumption
    <3> HIDE DEF from
    <3> DEFINE last == SubSeq(out, from, Len(out))
    <3>7. \A n \in from .. Len(out) : out[n] \in Entries \X (1..Blocks)
      <4>1. \A n \in from .. Len(out) : n \in 1 .. Len(out)
        BY <3>5, <3>6
      <4> DEFINE S == Entries \X (1..Blocks)
      <4>2. out \in Seq(S)
        BY <3>5
      <4> HIDE DEF S
      <4>3. \A n \in 1 .. Len(out) : out[n] \in S
        BY <4>2
      <4> QED
        BY <4>1, <4>3 DEF S
    <3>8. /\ last \in Seq(Entries \X (1..Blocks)) /\ Len(last) = Blocks
          /\ \A n \in 1 .. Len(out) - from + 1 : last[n] = out[from + n - 1]
      <4>1. Len(last) = IF from <= Len(out) THEN Len(out) - from + 1 ELSE 0
        BY <3>5, <3>6, <3>7, SubSeqProperties
      <4>2. Len(last) = Blocks
        BY <3>5, <3>6, <4>1, PipelineAssumption
      <4>3. last \in Seq(Entries \X (1..Blocks))
        BY <3>5, <3>6, <3>7, SubSeqProperties
      <4>4. \A n \in 1 .. Len(out) - from + 1 : last[n] = out[from + n - 1]
        BY <3>5, <3>6, <3>7, SubSeqProperties
      <4> QED
        BY <4>2, <4>3, <4>4
    <3> HIDE DEF last
    <3>9. last = Stream(entry)
      <4>1. ASSUME NEW n \in 1..Blocks PROVE last[n] = <<entry, n>>
        <5>1. n \in Nat /\ n \in 1 .. Len(out) - from + 1
          BY <3>6, PipelineAssumption
        <5>2. from + n - 1 = Len(out) - Blocks + n
          BY <3>6, <5>1
        <5>3. last[n] = out[from + n - 1]
          BY <3>8, <5>1
        <5> QED
          BY <3>4, <5>2, <5>3
      <4>2. DOMAIN last = 1..Blocks /\ last = [n \in DOMAIN last |-> last[n]]
        BY <3>8
      <4> QED
        BY <4>1, <4>2 DEF Stream
    <3> QED
      BY <2>2, <3>1, <3>2, <3>4, <3>9 DEF SelectedStreamIsWhole, last, from
  <2> QED
    BY <2>1, <2>2
<1> QED
  BY <1>1, Walk, PTL

=============================================================================

------------------------- MODULE LinuxThreadsProofs -------------------------
(***************************************************************************)
(* The thread lister of the C library, for every set of threads: whom it   *)
(* holds at each step and whom it leaves attached, what a pass over /proc  *)
(* has covered, and what the exit status tells the Caller.                 *)
(***************************************************************************)
EXTENDS LinuxThreads, TLAPS

\* Most steps are first-order reasoning over sets and functions; those with arithmetic
\* or sequences name SMT.
USE Zenon

\* The steps of a walk over /proc, and those between the publication of an
\* entry and the verdict on it.
Trying   == {"attach", "await", "verify"}
Scanning == {"scan", "examine"} \cup Trying
Holding  == Scanning \cup {"found", "callback"}

ThreadStates == {"unborn", "running", "stopped", "exited"}

Types ==
  /\ tstate \in [Everyone -> ThreadStates]
  /\ caller \in Threads \ Exiters /\ Leader \in Threads
  /\ path \in {1, 2}
  /\ pids \in Seq(Everyone) /\ cur \in Everyone
  /\ added_entries \in Nat /\ todo \in Nat

\* Which program counters go together; the Caller lives while the lister runs, and the
\* leader is never unborn and exits only if it may or the program is aborted.
Control ==
  /\ cpc \in {"idle", "mask", "clone", "return"} => lpc = "none"
  /\ lpc \notin {"none", "dead"} => tstate[caller] \in {"running", "stopped"}
  /\ lpc \notin {"none", "dead", "setup", "install"} => handlers
  /\ tstate[Leader] # "unborn"
  /\ tstate[Leader] = "exited" => Leader \in Exiters \/ tstate[caller] = "exited"

\* The threads the walk has accepted: all of pids but an entry under trial.
Kept == {pids[k] : k \in 1 .. (IF lpc \in Trying THEN Len(pids) - 1 ELSE Len(pids))}

\* Whom the lister is attached to.
Held ==
  /\ traced \cap stranded = {}
  /\ lpc \notin Holding \cup {"resume"} => traced = {}
  /\ lpc \in {"none", "setup", "install", "open", "publish"} => pids = <<>>
  /\ lpc \in Holding \cup {"resume"} => sig_pids = call /\ sig_num_threads = Len(pids)
  /\ lpc \in Trying =>
       /\ Len(pids) > 0 /\ pids[Len(pids)] = cur /\ cur \notin Kept
       /\ lpc = "attach" => cur \notin traced
       /\ lpc # "attach" => IF cur \in traced THEN cur \in Live ELSE tstate[cur] = "exited"
       /\ lpc = "verify" => tstate[cur] # "running"
  /\ lpc \in Holding =>
       /\ \A t \in Kept : t \in Threads \cap traced /\ tstate[t] = "stopped"
       /\ traced \subseteq Kept \cup (IF lpc \in Trying THEN {cur} ELSE {})
  /\ lpc = "resume" =>
       /\ todo <= Len(pids)
       /\ \A t \in traced : tstate[t] = "stopped" /\ \E k \in 1 .. todo : t = pids[k]

\* A pass that has accepted nobody so far, in a call in which no attach was refused.
Fruitless == lpc \in Scanning /\ added_entries = 0 /\ refused = {}

\* In such a pass, a live thread that was there at the rewind is accepted, on trial, or
\* its entry is still to come.  The leader, while it lives, was there at the rewind.
Walked ==
  /\ \A t \in must : t \in Everyone /\ tstate[t] # "unborn"
  /\ Fruitless =>
       \A t \in must \cap Live \cap Threads :
         t \in Kept \/ t \notin listed \/ (t = cur /\ lpc \in Trying \cup {"examine"})
  /\ lpc \in Scanning /\ Leader \in Live => Leader \in must
  /\ lpc = "found" /\ refused = {} /\ Leader \in Live => Leader \in Kept
  /\ lpc \in Scanning \cup {"found"} /\ Leader \in Kept => found_parent

\* A reason for EPERM.
Excused == refused # {} \/ skipped \/ Leader \in Exiters

Reported ==
  /\ cpc \notin {"idle", "return"} => args[2] # "EPERM"
  /\ lpc = "resume" /\ after = "exit3" => Excused
  /\ lpc = "dead" /\ status = 0 => how = "exit" /\ (args[1] = 0 => ~detached)
  /\ lpc = "dead" /\ status = 3 => Excused
  /\ cpc = "return" =>
       /\ args[1] = 0 => how = "exit" /\ ~detached
       /\ args[2] = "EPERM" => Excused

\* No attach was refused in this call, and task/ could be opened.
Smooth == refused = {} /\ ~skipped

\* A thread that may create threads does not exit, and the leader does not.
Tame == Spawners \cap Exiters = {} /\ Leader \notin Exiters

\* Then a thread born in a fruitless pass has a creator that is still to be accepted,
\* and on /proc/ the leader is alone.
Covered ==
  Tame =>
    /\ lpc = "none" => path = 1
    /\ Fruitless /\ ~skipped =>
         \/ Live \cap Threads \subseteq must
         \/ \E s \in must \cap Live \cap Threads \cap Spawners : s \notin Kept
    /\ path = 2 /\ Smooth /\ lpc \notin {"none", "dead"} => Live \cap Threads = {Leader}
    /\ lpc \in {"found", "callback"} /\ Smooth => Live \cap Threads \subseteq Kept

Inv == Types /\ Control /\ Held /\ Walked /\ Reported /\ Covered

-----------------------------------------------------------------------------
(* The list.                                                               *)

\* The accepted threads are the same while the list is and no trial begins or ends.
LEMMA KeptSame ==
  ASSUME pids' = pids, lpc' \in Trying <=> lpc \in Trying
  PROVE  Kept' = Kept
  BY DEF Kept

\* Publishing an entry accepts nobody.
LEMMA KeptOnTrial ==
  ASSUME pids \in Seq(Everyone), cur \in Everyone, lpc \notin Trying, lpc' \in Trying,
         pids' = Append(pids, cur)
  PROVE  /\ pids' \in Seq(Everyone) /\ Len(pids') = Len(pids) + 1
         /\ pids'[Len(pids')] = cur
         /\ Kept' = Kept
<1>1. pids' \in Seq(Everyone) /\ Len(pids') = Len(pids) + 1 /\ Len(pids) \in Nat
  BY SMT
<1>2. \A k \in 1 .. Len(pids) : pids'[k] = pids[k]
  BY SMT
<1>3. pids'[Len(pids) + 1] = cur
  BY SMT
<1>4. Kept' = {pids'[k] : k \in 1 .. Len(pids)} /\ Kept = {pids[k] : k \in 1 .. Len(pids)}
  BY <1>1, SMT DEF Kept
<1> QED
  BY <1>1, <1>2, <1>3, <1>4

\* Taking back the last entry leaves a list.
LEMMA FrontType ==
  ASSUME pids \in Seq(Everyone), Len(pids) > 0
  PROVE  /\ SubSeq(pids, 1, Len(pids) - 1) \in Seq(Everyone)
         /\ Len(SubSeq(pids, 1, Len(pids) - 1)) = Len(pids) - 1
<1>1. SubSeq(pids, 1, Len(pids) - 1) \in Seq(Everyone)
  BY SMT
<1>2. CASE Len(pids) = 1
  BY <1>1, <1>2, SMT
<1>3. CASE Len(pids) > 1
  BY <1>1, <1>3, SMT
<1>4. Len(pids) \in Nat /\ \A n \in Nat : n > 0 => n = 1 \/ n > 1
  BY SMT
<1> QED
  BY <1>1, <1>2, <1>3, <1>4, Zenon

\* An entry that passes is accepted, ...
LEMMA KeptAccepted ==
  ASSUME pids \in Seq(Everyone), Len(pids) > 0, lpc \in Trying, lpc' \notin Trying, pids' = pids
  PROVE  Kept' = Kept \cup {pids[Len(pids)]}
<1>1. Kept' = {pids[k] : k \in 1 .. Len(pids)} /\ Kept = {pids[k] : k \in 1 .. Len(pids) - 1}
  BY DEF Kept
<1>2. Len(pids) \in Nat /\ 1 .. Len(pids) = (1 .. Len(pids) - 1) \cup {Len(pids)}
  BY SMT
<1> QED
  BY <1>1, <1>2

\* ... and one that fails is taken back.
LEMMA KeptDropped ==
  ASSUME pids \in Seq(Everyone), Len(pids) > 0, lpc \in Trying, lpc' \notin Trying,
         pids' = SubSeq(pids, 1, Len(pids) - 1)
  PROVE  /\ pids' \in Seq(Everyone) /\ Len(pids') = Len(pids) - 1
         /\ Kept' = Kept
<1>1. pids' \in Seq(Everyone) /\ Len(pids') = Len(pids) - 1
  BY FrontType, Zenon
<1>2. \A k \in 1 .. Len(pids) - 1 : pids'[k] = pids[k]
  BY SMT
<1>3. Kept' = {pids'[k] : k \in 1 .. Len(pids) - 1} /\ Kept = {pids[k] : k \in 1 .. Len(pids) - 1}
  BY <1>1 DEF Kept
<1> QED
  BY <1>1, <1>2, <1>3

\* Outside a trial the accepted threads are those of the list.
LEMMA KeptIsList == lpc \notin Trying => Kept = PidSet
  BY DEF Kept, PidSet

-----------------------------------------------------------------------------
(* Frames: what a step leaves alone.                                       *)

\* All that the process does not touch.
quietVars == <<caller, cpc, call, args, lpc, path, pids, added_entries, found_parent, cur,
               must, listed, todo, detached, after, status, how, handlers, sig_pids,
               sig_num_threads, refused, skipped>>

\* A step of the lister on its way to the callback keeps the program counters together, ...
LEMMA ControlKept ==
  ASSUME Control, UNCHANGED <<tstate, caller, cpc, handlers>>,
         lpc \notin {"none", "dead", "setup", "install"}, lpc' # "none"
  PROVE  Control'
  BY DEF Control

\* ... and one that changes no result, and does not end the lister, what is reported.
LEMMA ReportedKept ==
  ASSUME Control, Reported, UNCHANGED <<cpc, args>>, lpc \notin {"none", "dead"},
         lpc' \notin {"none", "dead"}, lpc' = "resume" => after' # "exit3"
  PROVE  Reported'
  BY DEF Control, Reported

\* Nothing is reported anew where neither the results nor the lister's place change.
LEMMA ReportedFrame ==
  ASSUME Reported, UNCHANGED <<cpc, args, lpc, after, status, how, detached, refused, skipped>>
  PROVE  Reported'
  BY DEF Reported, Excused

-----------------------------------------------------------------------------
(* The process.                                                            *)

\* A thread is born.
LEMMA SpawnKeeps ==
  ASSUME Inv, NEW t \in Threads, NEW u \in Threads, Spawn(t, u)
  PROVE  Inv'
<1>a. /\ t \in Spawners \ {caller} /\ tstate[t] = "running" /\ tstate[u] = "unborn"
      /\ tstate' = [tstate EXCEPT ![u] = "running"]
      /\ UNCHANGED <<traced, stranded>> /\ UNCHANGED quietVars
  BY DEF Spawn, quietVars, callerVars, scanVars, endVars, sigVars, noteVars
<1>b. /\ tstate \in [Everyone -> ThreadStates] /\ t \in Everyone /\ u \in Everyone
      /\ Leader \in Everyone /\ caller \in Threads /\ caller \in Everyone
  BY DEF Inv, Types, Everyone
<1>c. Kept' = Kept
  BY <1>a, KeptSame DEF quietVars
<1>d. Live' = Live \cup {u} /\ t \in Live /\ u \notin Live
  BY <1>a, <1>b DEF Live
<1>1. Types' /\ Control'
  BY <1>a, <1>b DEF Inv, Types, Control, ThreadStates, quietVars
<1>2. Held'
  BY <1>a, <1>b, <1>c, <1>d, SMT DEF Inv, Held, Holding, Scanning, Trying, quietVars
<1>3. Walked'
  <2>1. u # Leader /\ u \notin must
    BY <1>a DEF Inv, Walked, Control
  <2> QED
    BY <1>a, <1>b, <1>c, <1>d, <2>1 DEF Inv, Walked, Fruitless, quietVars
<1>4. Reported'
  BY <1>a, ReportedFrame DEF Inv, quietVars
<1>5. Covered'
  <2>1. lpc \in Holding => t \notin Kept
    BY <1>a DEF Inv, Held
  <2>2. lpc \notin {"none", "dead"} => caller \in Live
    BY <1>b DEF Inv, Control, Live
  <2> QED
    BY <1>a, <1>b, <1>c, <1>d, <2>1, <2>2
       DEF Inv, Covered, Fruitless, Smooth, Holding, Scanning, quietVars
<1> QED
  BY <1>1, <1>2, <1>3, <1>4, <1>5 DEF Inv

\* A thread or a child exits.
LEMMA LeaveKeeps ==
  ASSUME Inv, NEW t \in Everyone, Leave(t)
  PROVE  Inv'
<1>a. /\ t \in Exiters /\ tstate[t] = "running" /\ tstate' = [tstate EXCEPT ![t] = "exited"]
      /\ traced' = traced \ {t} /\ stranded' = stranded \ {t} /\ UNCHANGED quietVars
  BY DEF Leave, quietVars, callerVars, scanVars, endVars, sigVars, noteVars
<1>b. /\ tstate \in [Everyone -> ThreadStates] /\ Leader \in Everyone
      /\ caller \in Everyone /\ caller # t
  BY <1>a DEF Inv, Types, Everyone
<1>c. Kept' = Kept
  BY <1>a, KeptSame DEF quietVars
<1>d. Live' = Live \ {t} /\ t \in Live
  BY <1>a, <1>b DEF Live
<1>1. Types' /\ Control'
  BY <1>a, <1>b DEF Inv, Types, Control, ThreadStates, quietVars
<1>2. Held'
  BY <1>a, <1>b, <1>c, <1>d, SMT DEF Inv, Held, Holding, Scanning, Trying, quietVars
<1>3. Walked' /\ Covered'
  BY <1>a, <1>b, <1>c, <1>d DEF Inv, Walked, Fruitless, quietVars, Covered, Tame, Smooth
<1>4. Reported'
  BY <1>a, ReportedFrame DEF Inv, quietVars
<1> QED
  BY <1>1, <1>2, <1>3, <1>4 DEF Inv

\* The SIGSTOP of an attach arrives.
LEMMA StopKeeps ==
  ASSUME Inv, NEW t \in Everyone, Stop(t)
  PROVE  Inv'
<1>a. /\ tstate[t] = "running" /\ tstate' = [tstate EXCEPT ![t] = "stopped"]
      /\ UNCHANGED stranded
      /\ UNCHANGED traced /\ UNCHANGED quietVars
  BY DEF Stop, quietVars, callerVars, scanVars, endVars, sigVars, noteVars
<1>b. /\ tstate \in [Everyone -> ThreadStates] /\ Leader \in Everyone /\ caller \in Everyone
  BY DEF Inv, Types, Everyone
<1>c. Kept' = Kept
  BY <1>a, KeptSame DEF quietVars
<1>d. Live' = Live
  BY <1>a, <1>b DEF Live
<1>1. Types' /\ Control'
  BY <1>a, <1>b DEF Inv, Types, Control, ThreadStates, quietVars
<1>2. Held'
  BY <1>a, <1>b, <1>c, <1>d, SMT DEF Inv, Held, Holding, Scanning, Trying, quietVars
<1>3. Walked' /\ Covered'
  BY <1>a, <1>b, <1>c, <1>d DEF Inv, Walked, Covered, Fruitless, Smooth, quietVars
<1>4. Reported'
  BY <1>a, ReportedFrame DEF Inv, quietVars
<1> QED
  BY <1>1, <1>2, <1>3, <1>4 DEF Inv

\* The kernel wakes up a thread whose tracer is gone.
LEMMA WakeKeeps ==
  ASSUME Inv, NEW t \in Everyone, Wake(t)
  PROVE  Inv'
<1>a. /\ t \in stranded /\ stranded' = stranded \ {t}
      /\ tstate' = IF tstate[t] = "stopped" THEN [tstate EXCEPT ![t] = "running"] ELSE tstate
      /\ UNCHANGED traced /\ UNCHANGED quietVars
  BY DEF Wake, quietVars, callerVars, scanVars, endVars, sigVars, noteVars
<1>b. /\ tstate \in [Everyone -> ThreadStates] /\ Leader \in Everyone /\ caller \in Everyone
  BY DEF Inv, Types, Everyone
<1>c. Kept' = Kept
  BY <1>a, KeptSame DEF quietVars
<1>d. Live' = Live
  BY <1>a, <1>b DEF Live
<1>1. Types' /\ Control'
  BY <1>a, <1>b DEF Inv, Types, Control, ThreadStates, quietVars
<1>2. Held'
  BY <1>a, <1>b, <1>c, <1>d, SMT DEF Inv, Held, Holding, Scanning, Trying, quietVars
<1>3. Walked' /\ Covered'
  BY <1>a, <1>b, <1>c, <1>d DEF Inv, Walked, Covered, Fruitless, Smooth, quietVars
<1>4. Reported'
  BY <1>a, ReportedFrame DEF Inv, quietVars
<1> QED
  BY <1>1, <1>2, <1>3, <1>4 DEF Inv

-----------------------------------------------------------------------------
(* ListAllProcessThreads.                                                  *)

\* A call begins.
LEMMA BeginKeeps ==
  ASSUME Inv, Begin
  PROVE  Inv'
<1>a. /\ lpc = "none" /\ lpc' = "none"
      /\ cpc' = "mask" /\ args' = <<-1, "none">>
      /\ UNCHANGED callerFrame
  BY DEF Inv, Control, Begin
<1>1. Types' /\ Control' /\ Held'
  BY <1>a
     DEF Inv, Types, callerFrame, scanVars, endVars, Control, Held, Holding, Scanning,
         Trying
<1>2. Walked' /\ Covered'
  BY <1>a DEF Inv, Walked, Fruitless, Scanning, Trying, callerFrame, scanVars, Covered
<1>3. Reported'
  BY <1>a DEF Inv, Reported
<1> QED
  BY <1>1, <1>2, <1>3 DEF Inv

\* Signals are blocked, or cannot be.
LEMMA MaskKeeps ==
  ASSUME Inv, Mask
  PROVE  Inv'
<1>a. /\ lpc = "none" /\ lpc' = "none"
      /\ (cpc = "mask" /\ cpc' = "clone" /\ args' = args) \/ (cpc' = "return" /\ args' = <<-1, "EINVAL">>)
      /\ UNCHANGED callerFrame
  BY DEF Inv, Control, Mask
<1>1. Types' /\ Control' /\ Held'
  BY <1>a
     DEF Inv, Types, callerFrame, scanVars, endVars, Control, Held, Holding, Scanning,
         Trying
<1>2. Walked' /\ Covered'
  BY <1>a DEF Inv, Walked, Fruitless, Scanning, Trying, callerFrame, scanVars, Covered
<1>3. Reported'
  BY <1>a, SMT DEF Inv, Reported
<1> QED
  BY <1>1, <1>2, <1>3 DEF Inv

\* The call returns.
LEMMA ReturnKeeps ==
  ASSUME Inv, Return
  PROVE  Inv'
<1>a. /\ lpc = "none" /\ lpc' = "none"
      /\ cpc' = "idle"
      /\ UNCHANGED callerFrame
  BY DEF Inv, Control, Return
<1>1. Types' /\ Control' /\ Held'
  BY <1>a
     DEF Inv, Types, callerFrame, scanVars, endVars, Control, Held, Holding, Scanning,
         Trying
<1>2. Walked' /\ Covered'
  BY <1>a DEF Inv, Walked, Fruitless, Scanning, Trying, callerFrame, scanVars, Covered
<1>3. Reported'
  BY <1>a DEF Inv, Reported
<1> QED
  BY <1>1, <1>2, <1>3 DEF Inv

\* The lister is cloned, or cannot be.
LEMMA CloneKeeps ==
  ASSUME Inv, Clone
  PROVE  Inv'
<1>a. /\ cpc = "clone" /\ cpc' = "ptracer" /\ lpc = "none" /\ lpc' \in {"none", "setup"}
      /\ tstate[caller] = "running"
      /\ UNCHANGED <<tstate, traced, stranded, caller, path, pids, cur, added_entries, must, todo,
                     args, handlers>>
  BY DEF Inv, Control, Clone, Runs, scanVars
<1>1. Types' /\ Control' /\ Held'
  BY <1>a DEF Inv, Types, Control, Held, Holding, Scanning, Trying
<1>2. Walked' /\ Covered'
  BY <1>a, SMT DEF Inv, Walked, Fruitless, Scanning, Trying, Covered
<1>3. Reported'
  BY <1>a DEF Inv, Reported
<1> QED
  BY <1>1, <1>2, <1>3 DEF Inv

\* The lister is named the ptracer.
LEMMA SetPtracerKeeps ==
  ASSUME Inv, SetPtracer
  PROVE  Inv'
<1>a. /\ cpc = "ptracer" /\ cpc' = "unmask"
      /\ UNCHANGED <<callerFrame, call, args, lpc, noteVars>>
  BY DEF SetPtracer
<1>b. Kept' = Kept /\ Live' = Live
  BY <1>a, KeptSame DEF Live, callerFrame, scanVars
<1>1. Types' /\ Control' /\ Held'
  BY <1>a, <1>b, SMT DEF Inv, Types, callerFrame, scanVars, endVars, Control, sigVars, Held
<1>2. Walked' /\ Covered'
  BY <1>a, <1>b DEF Inv, Walked, Fruitless, callerFrame, scanVars, noteVars, Covered, Smooth
<1>3. Reported'
  BY <1>a DEF Inv, Reported, Excused, callerFrame, endVars, noteVars
<1> QED
  BY <1>1, <1>2, <1>3 DEF Inv

\* Signals are unblocked.
LEMMA UnmaskKeeps ==
  ASSUME Inv, Unmask
  PROVE  Inv'
<1>a. /\ cpc = "unmask" /\ cpc' = "wait"
      /\ UNCHANGED <<callerFrame, call, args, lpc, noteVars>>
  BY DEF Unmask
<1>b. Kept' = Kept /\ Live' = Live
  BY <1>a, KeptSame DEF Live, callerFrame, scanVars
<1>1. Types' /\ Control' /\ Held'
  BY <1>a, <1>b, SMT DEF Inv, Types, callerFrame, scanVars, endVars, Control, sigVars, Held
<1>2. Walked' /\ Covered'
  BY <1>a, <1>b DEF Inv, Walked, Fruitless, callerFrame, scanVars, noteVars, Covered, Smooth
<1>3. Reported'
  BY <1>a DEF Inv, Reported, Excused, callerFrame, endVars, noteVars
<1> QED
  BY <1>1, <1>2, <1>3 DEF Inv

\* The lister is reaped, and its status decoded.
LEMMA WaitKeeps ==
  ASSUME Inv, Wait
  PROVE  Inv'
<1>a. /\ cpc = "wait" /\ cpc' = "return" /\ lpc' = "none" /\ path' = 1 /\ pids' = <<>>
      /\ added_entries' = 0 /\ cur' = Leader /\ must' = {} /\ todo' = 0 /\ traced = {}
      /\ UNCHANGED <<tstate, traced, stranded, caller, how, detached, refused, skipped>>
      /\ \/ lpc = "none" /\ args' = <<-1, "EAGAIN">>
         \/ lpc = "dead" /\ args' = Decoded(status)
  BY DEF Inv, Held, Holding, Scanning, Trying, Wait, noteVars
<1>1. Types' /\ Control'
  BY <1>a, SMT DEF Inv, Types, Everyone, Control
<1>2. Held'
  BY <1>a DEF Inv, Held, Holding, Scanning, Trying
<1>3. Walked' /\ Covered'
  BY <1>a DEF Inv, Walked, Fruitless, Scanning, Trying, Covered
<1>4. Reported'
  <2>1. CASE lpc = "dead" /\ status = 0
    BY <1>a, <2>1, SMT DEF Inv, Reported, Excused, Decoded
  <2>2. CASE lpc = "dead" /\ status = 3
    BY <1>a, <2>2, SMT DEF Inv, Reported, Excused, Decoded
  <2>3. CASE lpc = "none" \/ status \notin {0, 3}
    <3>1. args' \in {<<-1, "EAGAIN">>, <<-1, "EFAULT">>, <<-1, "ECHILD">>}
      BY <1>a, <2>3 DEF Decoded
    <3> QED
      BY <1>a, <3>1, SMT DEF Reported
  <2> QED
    BY <1>a, <2>1, <2>2, <2>3
<1> QED
  BY <1>1, <1>2, <1>3, <1>4 DEF Inv

-----------------------------------------------------------------------------
(* ListerThread.                                                           *)

\* The failure path, from a place where the handlers are installed or not: nobody is
\* attached any more, and the Caller is told of an error.
LEMMA FailureKeeps ==
  ASSUME Inv, Failure, lpc \notin {"none", "dead"}, path' \in {1, 2},
         UNCHANGED <<tstate, caller, cpc, pids, cur, added_entries, todo, must>>
  PROVE  Inv'
<1>a. /\ lpc' = "dead" /\ status' = 1 /\ args' = <<-1, "ESYS">> /\ traced' = {}
  BY DEF Failure, End
<1>b. cpc \notin {"idle", "return"}
  BY DEF Inv, Control
<1>1. Types' /\ Control' /\ Held'
  BY <1>a DEF Inv, Types, Control, Held, Holding, Scanning, Trying
<1>2. Walked' /\ Covered'
  BY <1>a DEF Inv, Walked, Fruitless, Scanning, Trying, Covered
<1>3. Reported'
  BY <1>a, <1>b, SMT DEF Reported
<1> QED
  BY <1>1, <1>2, <1>3 DEF Inv

\* The marker socket.
LEMMA SetupKeeps ==
  ASSUME Inv, Setup
  PROVE  Inv'
<1>1. CASE Failure
  BY <1>1, FailureKeeps DEF Inv, Types, Setup, listerFrame, callerVars, scanVars, endVars, sigVars, noteVars
<1>2. CASE lpc' = "install"
  <2>a. /\ lpc = "setup"
        /\ UNCHANGED <<tstate, traced, stranded, caller, cpc, args, path, pids, cur, added_entries,
                       must, todo, refused, skipped>>
    BY <1>2 DEF Setup, Failure, End, listerFrame, callerVars, scanVars, endVars, sigVars, noteVars
  <2>b. Live' = Live
    BY <2>a DEF Live
  <2>1. Types' /\ Control' /\ Held'
    BY <1>2, <2>a DEF Inv, Types, Control, Held, Holding, Scanning, Trying
  <2>4. Walked' /\ Covered'
    BY <1>2, <2>a, <2>b DEF Inv, Walked, Fruitless, Scanning, Trying, Covered, Smooth
  <2>5. Reported'
    BY <1>2, <2>a, ReportedKept DEF Inv
  <2> QED
    BY <2>1, <2>4, <2>5 DEF Inv
<1> QED
  BY <1>1, <1>2 DEF Setup

\* The handlers of synchronous signals.
LEMMA InstallKeeps ==
  ASSUME Inv, Install
  PROVE  Inv'
<1>a. /\ lpc = "install" /\ lpc' = "open" /\ handlers'
      /\ UNCHANGED <<tstate, traced, stranded, caller, cpc, args, path, pids, cur, added_entries,
                     must, todo, refused, skipped>>
  BY DEF Install, listerFrame, callerVars, scanVars, endVars, sigVars, noteVars
<1>b. Live' = Live
  BY <1>a DEF Live
<1>1. Types' /\ Control' /\ Held'
  BY <1>a DEF Inv, Types, Control, Held, Holding, Scanning, Trying
<1>2. Walked' /\ Covered'
  BY <1>a, <1>b DEF Inv, Walked, Fruitless, Scanning, Trying, Covered, Smooth
<1>3. Reported'
  BY <1>a, ReportedKept DEF Inv
<1> QED
  BY <1>1, <1>2, <1>3 DEF Inv

\* The directory is opened; that of the threads may be skipped.
LEMMA OpenProcKeeps ==
  ASSUME Inv, OpenProc
  PROVE  Inv'
<1>1. CASE Failure
  BY <1>1, FailureKeeps DEF Inv, Types, OpenProc, listerFrame, callerVars, scanVars, endVars, sigVars, noteVars
<1>2. CASE ~Failure
  <2>a. /\ lpc = "open" /\ lpc' \in {"open", "publish"}
        /\ UNCHANGED <<tstate, traced, stranded, caller, cpc, args, pids, cur, added_entries, must,
                       todo, handlers, refused>>
        /\ UNCHANGED <<path, skipped>> \/ (path' = 2 /\ skipped' = TRUE)
    BY <1>2 DEF OpenProc, listerFrame, callerVars, scanVars, endVars, sigVars, noteVars
  <2>b. Live' = Live
    BY <2>a DEF Live
  <2>1. Types' /\ Control' /\ Held'
    BY <2>a, ControlKept DEF Inv, Types, Held, Holding, Scanning, Trying
  <2>4. Walked' /\ Covered'
    BY <2>a, <2>b, SMT DEF Inv, Walked, Fruitless, Scanning, Trying, Covered, Smooth
  <2>5. Reported'
    BY <2>a, ReportedKept DEF Inv
  <2> QED
    BY <2>1, <2>4, <2>5 DEF Inv
<1> QED
  BY <1>1, <1>2

\* What a directory lists is alive; the live leader is listed by both, and all live
\* threads by that of the threads.
LEMMA EntriesLive ==
  ASSUME Types
  PROVE  /\ Entries \subseteq Live /\ Entries \subseteq Everyone
         /\ \A t \in Entries : t \in Everyone /\ tstate[t] # "unborn"
         /\ Leader \in Live => Leader \in Entries
         /\ path # 2 => Entries = Live \cap Threads
<1>1. Entries \subseteq Live /\ (Leader \in Live => Leader \in Entries)
  BY DEF Entries, Types
<1>2. \A t \in Live : t \in Everyone /\ tstate[t] # "unborn"
  BY DEF Live
<1>3. path # 2 => Entries = Live \cap Threads
  BY DEF Entries, Types
<1> QED
  BY <1>1, <1>2, <1>3

\* The array is published, and the first pass begins.
LEMMA PublishKeeps ==
  ASSUME Inv, Publish
  PROVE  Inv'
<1>a. /\ lpc = "publish" /\ lpc' = "scan" /\ added_entries' = 0 /\ must' = Entries /\ listed' = {}
      /\ sig_num_threads' = Len(pids) /\ sig_pids' = call
      /\ UNCHANGED <<tstate, traced, stranded, caller, cpc, call, args, path, pids, cur, todo,
                     handlers, refused, skipped>>
  BY DEF Publish, ThisArray, listerFrame, callerVars, scanVars, endVars, sigVars, noteVars
<1>b. pids = <<>> /\ traced = {}
  BY <1>a DEF Inv, Held, Holding, Scanning, Trying
<1>c. Kept' = {}
  BY <1>a, <1>b, SMT DEF Kept, Trying
<1>d. Live' = Live
  BY <1>a DEF Live
<1>1. Types' /\ Control'
  BY <1>a, ControlKept DEF Inv, Types
<1>2. Held'
  BY <1>a, <1>b, <1>c DEF Inv, Held, Holding, Scanning, Trying
<1>3. Walked'
  BY <1>a, <1>c, <1>d, EntriesLive DEF Inv, Walked
<1>4. Reported'
  BY <1>a, ReportedKept DEF Inv
<1>5. Covered'
  <2>1. path = 2 /\ Tame /\ Smooth => Live \cap Threads \subseteq Entries
    BY <1>a, EntriesLive DEF Inv, Covered
  <2> QED
    BY <1>a, <1>d, <2>1, EntriesLive DEF Inv, Covered, Fruitless, Smooth, Scanning, Trying
<1> QED
  BY <1>1, <1>2, <1>3, <1>4, <1>5 DEF Inv

\* An entry is read, or a pass ends.
LEMMA GetDentsKeeps ==
  ASSUME Inv, GetDents
  PROVE  Inv'
<1>1. CASE Failure
  <2>1. UNCHANGED <<tstate, caller, cpc, path, pids, cur, added_entries, todo, must>> /\ lpc = "scan"
    BY <1>1 DEF GetDents, Failure, End, listerFrame, callerVars, scanVars, endVars, sigVars, noteVars
  <2> QED
    BY <1>1, <2>1, FailureKeeps DEF Inv, Types
<1>2. CASE ~Failure
  <2>a. /\ lpc = "scan" /\ lpc' \in {"examine", "scan", "found"}
        /\ UNCHANGED <<tstate, traced, stranded, caller, cpc, call, args, path, pids, found_parent,
                       todo, after, handlers, sig_pids, sig_num_threads, refused, skipped>>
    BY <1>2 DEF GetDents, listerFrame, callerVars, scanVars, endVars, sigVars, noteVars
  <2>b. \/ /\ lpc' = "examine" /\ cur' \in Entries /\ listed' = listed \cup {cur'}
           /\ UNCHANGED <<must, added_entries>>
        \/ /\ lpc' = "scan" /\ cur' = cur /\ added_entries' = 0 /\ must' = Entries /\ listed' = {}
        \/ /\ lpc' = "found" /\ cur' = cur /\ ~Again /\ must \cap Entries \subseteq listed
           /\ UNCHANGED <<must, added_entries>>
    BY <1>2, <2>a DEF GetDents
  <2>c. Kept' = Kept /\ Live' = Live
    BY <2>a, KeptSame DEF Trying, Live
  <2>d. lpc' = "found" => added_entries = 0
    BY <2>b, SMT DEF Inv, Types, Again
  <2>1. Types' /\ Control'
    BY <2>a, <2>b, EntriesLive, ControlKept, SMT DEF Inv, Types
  <2>3. Held'
    BY <2>a, <2>c DEF Inv, Held, Holding, Scanning, Trying
  <2>4. Walked'
    <3>1. CASE lpc' = "examine"
      BY <2>a, <2>b, <2>c, <3>1 DEF Inv, Walked, Fruitless, Scanning, Trying
    <3>2. CASE lpc' = "scan"
      BY <2>a, <2>b, <2>c, <3>2, EntriesLive DEF Inv, Walked, Scanning, Trying
    <3>3. CASE lpc' = "found"
      BY <2>a, <2>b, <2>c, <2>d, <3>3, EntriesLive DEF Inv, Types, Walked, Fruitless, Scanning, Trying
    <3> QED
      BY <2>a, <3>1, <3>2, <3>3
  <2>5. Reported'
    BY <2>a, ReportedKept DEF Inv
  <2>6. Covered'
    <3>1. CASE lpc' = "examine"
      BY <2>a, <2>b, <2>c, <3>1 DEF Inv, Covered, Fruitless, Smooth, Scanning, Trying
    <3>2. CASE lpc' = "scan"
      <4>1. path = 2 /\ Tame /\ Smooth => Live \cap Threads \subseteq Entries
        BY <2>a, EntriesLive DEF Inv, Covered
      <4> QED
        BY <2>a, <2>b, <2>c, <3>2, <4>1, EntriesLive DEF Inv, Covered, Fruitless, Smooth, Scanning
    <3>3. CASE lpc' = "found"
      <4>1. Tame /\ Smooth => Live \cap Threads \subseteq Kept
        <5>1. SUFFICES ASSUME Tame, Smooth PROVE Live \cap Threads \subseteq Kept
          OBVIOUS
        <5>2. Fruitless
          BY <2>a, <2>d, <3>3, <5>1 DEF Fruitless, Smooth, Scanning
        <5>3. CASE path = 2
          <6>1. Live \cap Threads = {Leader} /\ Leader \in Live
            BY <2>a, <5>1, <5>3 DEF Inv, Covered
          <6> QED
            BY <2>a, <2>c, <2>4, <3>3, <5>1, <6>1 DEF Walked, Smooth
        <5>4. CASE path # 2
          <6>1. must \cap Live \cap Threads \subseteq Kept
            BY <2>a, <2>b, <3>3, <5>2, <5>4, EntriesLive DEF Inv, Walked, Trying
          <6> QED
            BY <2>a, <5>1, <5>2, <6>1 DEF Inv, Covered, Smooth
        <5> QED
          BY <5>3, <5>4
      <4> QED
        BY <2>a, <2>c, <3>3, <4>1 DEF Inv, Covered, Fruitless, Smooth, Scanning, Trying
    <3> QED
      BY <2>a, <3>1, <3>2, <3>3
  <2> QED
    BY <2>1, <2>3, <2>4, <2>5, <2>6 DEF Inv
<1> QED
  BY <1>1, <1>2

\* An entry is passed over or published, or there is no room for it.
LEMMA ExamineKeeps ==
  ASSUME Inv, Examine
  PROVE  Inv'
<1>a. /\ lpc = "examine"
      /\ UNCHANGED <<tstate, traced, stranded, caller, cpc, call, args, path, found_parent, cur, must,
                     listed, added_entries, handlers, sig_pids, refused, skipped>>
  BY DEF Examine, listerFrame, callerVars, scanVars, endVars, sigVars, noteVars
<1>b. \/ lpc' = "scan" /\ Known /\ UNCHANGED <<pids, todo, sig_num_threads>>
      \/ lpc' = "resume" /\ todo' = Len(pids) /\ after' = "retry" /\ UNCHANGED <<pids, sig_num_threads>>
      \/ lpc' = "attach" /\ ~Known /\ pids' = Append(pids, cur) /\ sig_num_threads' = Len(pids') /\ todo' = todo
  BY DEF Examine
<1>c. pids \in Seq(Everyone) /\ cur \in Everyone /\ Len(pids) \in Nat /\ Live' = Live
  BY <1>a, SMT DEF Inv, Types, Live
<1>d. /\ Kept' = Kept
      /\ lpc' = "attach" => /\ pids' \in Seq(Everyone) /\ Len(pids') = Len(pids) + 1
                            /\ pids'[Len(pids')] = cur
  <2>1. CASE lpc' = "attach"
    BY <1>a, <1>b, <1>c, <2>1, KeptOnTrial DEF Trying
  <2>2. CASE lpc' # "attach"
    BY <1>a, <1>b, <2>2, KeptSame DEF Trying
  <2> QED
    BY <2>1, <2>2
<1>e. Known <=> cur \notin Live \/ cur \in Kept
  BY <1>a, KeptIsList DEF Known, Trying
<1>1. Types' /\ Control'
  BY <1>a, <1>b, <1>c, <1>d, ControlKept DEF Inv, Types
<1>2. Held'
  <2>1. CASE lpc' = "scan"
    BY <1>a, <1>b, <1>d, <2>1 DEF Inv, Held, Holding, Scanning, Trying
  <2>2. CASE lpc' = "resume"
    <3>1. Kept = {pids[k] : k \in 1 .. Len(pids)}
      BY <1>a DEF Kept, Trying
    <3> QED
      BY <1>a, <1>b, <1>c, <2>2, <3>1, SMT DEF Inv, Held, Holding, Scanning, Trying
  <2>3. CASE lpc' = "attach"
    BY <1>a, <1>b, <1>c, <1>d, <1>e, <2>3, SMT DEF Inv, Held, Holding, Scanning, Trying
  <2> QED
    BY <1>b, <2>1, <2>2, <2>3
<1>3. Walked' /\ Covered'
  BY <1>a, <1>b, <1>c, <1>d, <1>e
     DEF Inv, Walked, Fruitless, Scanning, Trying, Covered, Smooth
<1>4. Reported'
  BY <1>a, <1>b, ReportedKept DEF Inv
<1> QED
  BY <1>1, <1>2, <1>3, <1>4 DEF Inv

\* The entry is attached to, or taken back.
LEMMA AttachKeeps ==
  ASSUME Inv, Attach
  PROVE  Inv'
<1>a. /\ lpc = "attach"
      /\ UNCHANGED <<tstate, caller, cpc, call, args, path, found_parent, cur, must, listed,
                     added_entries, todo, handlers, sig_pids, skipped>>
  BY DEF Attach, listerFrame, callerVars, scanVars, endVars, sigVars, noteVars
<1>b. \/ /\ lpc' = "await" /\ cur \in Live /\ traced' = traced \cup {cur} /\ stranded' = stranded \ {cur}
         /\ UNCHANGED <<pids, sig_num_threads, refused>>
      \/ /\ lpc' = "scan" /\ Drop /\ UNCHANGED <<traced, stranded>>
         /\ refused \subseteq refused' /\ (cur \in Live => cur \in refused')
  BY DEF Attach
<1>c. pids \in Seq(Everyone) /\ cur \in Everyone /\ Len(pids) > 0 /\ Live' = Live
  BY <1>a DEF Inv, Types, Held, Trying, Live
<1>d. /\ Kept' = Kept
      /\ pids' \in Seq(Everyone) /\ sig_num_threads' = Len(pids') /\ (lpc' = "await" => pids' = pids)
  <2>1. CASE lpc' = "await"
    BY <1>a, <1>b, <1>c, <2>1, KeptSame DEF Inv, Held, Holding, Scanning, Trying
  <2>2. CASE lpc' = "scan"
    BY <1>a, <1>b, <1>c, <2>2, KeptDropped DEF Trying, Drop
  <2> QED
    BY <1>b, <2>1, <2>2
<1>e. refused' = {} => refused = {} /\ (lpc' = "scan" => cur \notin Live)
  BY <1>b
<1>1. Types' /\ Control'
  BY <1>a, <1>b, <1>d, ControlKept DEF Inv, Types
<1>2. Held'
  BY <1>a, <1>b, <1>c, <1>d DEF Inv, Held, Holding, Scanning, Trying
<1>3. Walked' /\ Covered'
  BY <1>a, <1>b, <1>c, <1>d, <1>e
     DEF Inv, Walked, Fruitless, Scanning, Trying, Covered, Smooth
<1>4. Reported'
  BY <1>a, <1>b, ReportedKept DEF Inv
<1> QED
  BY <1>1, <1>2, <1>3, <1>4 DEF Inv

\* The entry has stopped, or is gone.
LEMMA AwaitKeeps ==
  ASSUME Inv, Await
  PROVE  Inv'
<1>a. /\ lpc = "await" /\ lpc' = "verify" /\ tstate[cur] # "running"
      /\ UNCHANGED <<tstate, traced, stranded, caller, cpc, call, args, path, pids, found_parent, cur,
                     must, listed, added_entries, todo, handlers, sig_pids, sig_num_threads,
                     refused, skipped>>
  BY DEF Await, listerFrame, callerVars, scanVars, endVars, sigVars, noteVars
<1>b. Kept' = Kept /\ Live' = Live
  BY <1>a, KeptSame DEF Trying, Live
<1>1. Types' /\ Control'
  BY <1>a, ControlKept DEF Inv, Types
<1>2. Held'
  BY <1>a, <1>b DEF Inv, Held, Holding, Scanning, Trying
<1>3. Walked' /\ Covered'
  BY <1>a, <1>b DEF Inv, Walked, Fruitless, Scanning, Trying, Covered, Smooth
<1>4. Reported'
  BY <1>a, ReportedKept DEF Inv
<1> QED
  BY <1>1, <1>2, <1>3, <1>4 DEF Inv

\* The entry is accepted, or let go.
LEMMA VerifyKeeps ==
  ASSUME Inv, Verify
  PROVE  Inv'
<1>a. /\ lpc = "verify" /\ lpc' = "scan"
      /\ UNCHANGED <<stranded, caller, cpc, call, args, path, cur, must, listed, todo, handlers,
                     sig_pids, refused, skipped>>
  BY DEF Verify, listerFrame, callerVars, scanVars, endVars, sigVars, noteVars
<1>b. /\ tstate \in [Everyone -> ThreadStates] /\ pids \in Seq(Everyone) /\ cur \in Everyone
      /\ added_entries \in Nat /\ Len(pids) > 0 /\ pids[Len(pids)] = cur /\ cur \notin Kept
  BY <1>a DEF Inv, Types, Held, Trying
<1>c. CASE tstate[cur] = "stopped" /\ cur \in Threads
  <2>a. /\ UNCHANGED <<tstate, traced, pids, sig_num_threads>> /\ Live' = Live
        /\ added_entries' = added_entries + 1
        /\ found_parent' = (found_parent \/ cur = Leader)
    BY <1>c DEF Verify, Live
  <2>b. Kept' = Kept \cup {cur}
    BY <1>a, <1>b, <2>a, KeptAccepted DEF Trying
  <2>c. ~Fruitless'
    BY <1>b, <2>a, SMT DEF Fruitless
  <2>1. Types' /\ Control'
    BY <1>a, <1>b, <2>a, ControlKept, SMT DEF Inv, Types
  <2>3. Held'
    BY <1>a, <1>c, <2>a, <2>b DEF Inv, Held, Holding, Scanning, Trying
  <2>4. Walked'
    <3>1. Leader \in Kept' => found_parent'
      BY <1>a, <2>a, <2>b, Zenon DEF Inv, Walked, Scanning, Trying
    <3> QED
      BY <1>a, <2>a, <2>c, <3>1 DEF Inv, Walked, Scanning, Trying
  <2>5. Reported'
    BY <1>a, ReportedKept DEF Inv
  <2>6. Covered'
    BY <1>a, <2>a, <2>c DEF Inv, Covered, Smooth
  <2> QED
    BY <2>1, <2>3, <2>4, <2>5, <2>6 DEF Inv
<1>d. CASE ~(tstate[cur] = "stopped" /\ cur \in Threads)
  <2>a. /\ Detach(cur) /\ Drop /\ UNCHANGED <<added_entries, found_parent>>
    BY <1>d DEF Verify
  <2>b. /\ Kept' = Kept /\ pids' \in Seq(Everyone) /\ sig_num_threads' = Len(pids')
    BY <1>a, <1>b, <2>a, KeptDropped DEF Trying, Drop
  <2>c. /\ Live' = Live /\ cur \notin Live \cap Threads /\ traced' = traced \ {cur}
        /\ tstate' \in [Everyone -> ThreadStates]
        /\ \A t \in Everyone : tstate'[t] = tstate[t] \/ (t = cur /\ tstate[t] = "stopped" /\ tstate'[t] = "running")
    BY <1>a, <1>b, <1>d, <2>a DEF Inv, Held, Live, Detach, Detaches, Trying, ThreadStates
  <2>1. Types' /\ Control'
    BY <1>a, <2>a, <2>b, <2>c DEF Inv, Types, Control, Everyone
  <2>3. Held'
    BY <1>a, <1>b, <2>b, <2>c, SMT DEF Inv, Held, Holding, Scanning, Trying, Everyone
  <2>4. Walked' /\ Covered'
    BY <1>a, <2>a, <2>b, <2>c DEF Inv, Walked, Fruitless, Scanning, Trying, Covered, Smooth
  <2>5. Reported'
    BY <1>a, ReportedKept DEF Inv
  <2> QED
    BY <2>1, <2>3, <2>4, <2>5 DEF Inv
<1> QED
  BY <1>c, <1>d

\* The walk is over.
LEMMA FoundKeeps ==
  ASSUME Inv, Found
  PROVE  Inv'
<1>a. /\ lpc = "found" /\ lpc' \in {"callback", "resume"}
      /\ UNCHANGED <<tstate, traced, stranded, caller, cpc, call, args, pids, found_parent, cur, must,
                     added_entries, handlers, sig_pids, sig_num_threads, refused, skipped>>
      /\ todo' = IF lpc' = "resume" THEN Len(pids) ELSE todo
      /\ path' = path \/ (path' = 2 /\ Len(pids) <= 1)
      /\ lpc' = "resume" /\ after' = "exit3" => ~found_parent
  <2>1. pids \in Seq(Everyone)
    BY DEF Inv, Types
  <2> QED
    BY <2>1, SMT DEF Found, listerFrame, callerVars, scanVars, endVars, sigVars, noteVars
<1>b. pids \in Seq(Everyone) /\ Len(pids) \in Nat /\ Live' = Live /\ Kept' = Kept
  BY <1>a, KeptSame, SMT DEF Inv, Types, Live, Trying
<1>c. Kept = {pids[k] : k \in 1 .. Len(pids)}
  BY <1>a DEF Kept, Trying
<1>d. Leader \notin Exiters => Leader \in Live
  BY <1>a DEF Inv, Control, Live, Types, Everyone, ThreadStates
<1>1. Types' /\ Control'
  BY <1>a, <1>b, ControlKept DEF Inv, Types
<1>2. Held'
  BY <1>a, <1>b, <1>c, SMT DEF Inv, Held, Holding, Scanning, Trying
<1>3. Walked'
  BY <1>a DEF Inv, Walked, Fruitless, Scanning, Trying
<1>4. Reported'
  <2>1. ~found_parent => Excused
    <3>1. refused = {} /\ Leader \in Live => found_parent
      BY <1>a, Zenon DEF Inv, Walked
    <3> QED
      BY <1>d, <3>1, Zenon DEF Excused
  <2>2. cpc \notin {"idle", "return"}
    BY <1>a DEF Inv, Control
  <2> QED
    BY <1>a, <2>1, <2>2 DEF Inv, Reported, Excused
<1>5. Covered'
  <2>1. Tame /\ Smooth /\ Len(pids) <= 1 => Live \cap Threads = {Leader}
    <3>1. SUFFICES ASSUME Tame, Smooth, Len(pids) <= 1 PROVE Live \cap Threads = {Leader}
      OBVIOUS
    <3>2. Live \cap Threads \subseteq Kept /\ Leader \in Live \cap Threads
      BY <1>a, <1>d, <3>1 DEF Inv, Covered, Tame, Types
    <3>3. \A t, u \in Kept : t = u
      BY <1>b, <1>c, <3>1, SMT
    <3> QED
      BY <3>2, <3>3
  <2> QED
    BY <1>a, <1>b, <2>1 DEF Inv, Covered, Fruitless, Smooth, Scanning, Trying
<1> QED
  BY <1>1, <1>2, <1>3, <1>4, <1>5 DEF Inv

\* The callback returns.
LEMMA CallbackKeeps ==
  ASSUME Inv, Callback
  PROVE  Inv'
<1>a. /\ lpc = "callback" /\ lpc' = "resume" /\ todo' = Len(pids) /\ after' # "exit3"
      /\ args'[2] = "none"
      /\ UNCHANGED <<tstate, traced, stranded, caller, cpc, call, path, pids, cur, must,
                     added_entries, handlers, sig_pids, sig_num_threads, refused, skipped>>
  BY SMT DEF Callback, listerFrame, callerVars, scanVars, endVars, sigVars, noteVars
<1>b. pids \in Seq(Everyone) /\ Len(pids) \in Nat /\ Live' = Live
  BY <1>a, SMT DEF Inv, Types, Live
<1>c. Kept = {pids[k] : k \in 1 .. Len(pids)}
  BY <1>a DEF Kept, Trying
<1>1. Types' /\ Control'
  BY <1>a, <1>b, ControlKept DEF Inv, Types
<1>2. Held'
  BY <1>a, <1>b, <1>c, SMT DEF Inv, Held, Holding, Scanning, Trying
<1>3. Walked' /\ Covered'
  BY <1>a, <1>b DEF Inv, Walked, Fruitless, Scanning, Trying, Covered, Smooth
<1>4. Reported'
  BY <1>a DEF Inv, Control, Reported
<1> QED
  BY <1>1, <1>2, <1>3, <1>4 DEF Inv

\* A thread is resumed.
LEMMA ResumeOneKeeps ==
  ASSUME Inv, ResumeOne
  PROVE  Inv'
<1>a. /\ lpc = "resume" /\ lpc' = "resume" /\ todo > 0 /\ todo' = todo - 1
      /\ traced' = traced \ {pids[todo]}
      /\ UNCHANGED <<stranded, caller, cpc, call, args, path, pids, cur, must, added_entries, after,
                     handlers, sig_pids, sig_num_threads, refused, skipped>>
  BY DEF ResumeOne, Detach, listerFrame, callerVars, scanVars, endVars, sigVars, noteVars
<1>b. /\ tstate \in [Everyone -> ThreadStates] /\ pids \in Seq(Everyone) /\ todo \in Nat
      /\ Len(pids) \in Nat /\ todo <= Len(pids)
  BY <1>a, SMT DEF Inv, Types, Held
<1>c. /\ tstate' \in [Everyone -> ThreadStates] /\ Live' = Live
      /\ \A t \in Everyone :
           \/ tstate'[t] = tstate[t]
           \/ t = pids[todo] /\ tstate[t] = "stopped" /\ tstate'[t] = "running"
  BY <1>b DEF ResumeOne, Detach, Detaches, Live, ThreadStates
<1>1. Types' /\ Control'
  BY <1>a, <1>b, <1>c, SMT DEF Inv, Types, Control, Everyone
<1>2. Held'
  <2>1. \A t \in traced' : tstate'[t] = "stopped" /\ \E k \in 1 .. todo' : t = pids[k]
    BY <1>a, <1>b, <1>c, SMT DEF Inv, Held
  <2> QED
    BY <1>a, <1>b, <2>1, SMT DEF Inv, Held, Holding, Scanning, Trying
<1>3. Walked' /\ Covered'
  BY <1>a, <1>c DEF Inv, Walked, Fruitless, Scanning, Trying, Covered, Smooth
<1>4. Reported'
  BY <1>a DEF Inv, Control, Reported, Excused
<1> QED
  BY <1>1, <1>2, <1>3, <1>4 DEF Inv

\* All are resumed: once more, another attempt, or the end.
LEMMA ResumedKeeps ==
  ASSUME Inv, Resumed
  PROVE  Inv'
<1>a. /\ lpc = "resume" /\ todo = 0
      /\ UNCHANGED <<tstate, caller, cpc, call, path, cur, must, added_entries, handlers,
                     refused, skipped>>
  BY DEF Resumed, listerFrame, callerVars, scanVars, endVars, sigVars, noteVars
<1>b. /\ pids \in Seq(Everyone) /\ Len(pids) \in Nat /\ traced = {} /\ Live' = Live
      /\ cpc \notin {"idle", "return"}
  BY <1>a, SMT DEF Inv, Types, Held, Control, Live
<1>c. \/ /\ lpc' = "resume" /\ after' = "exit0" /\ todo' = Len(pids)
         /\ UNCHANGED <<args, pids, traced, stranded, sig_pids, sig_num_threads>>
      \/ /\ lpc' = "dead" /\ UNCHANGED <<pids, todo>> /\ traced' = {}
         /\ \/ status' = 0 /\ how' = "exit" /\ args' = Outcome /\ detached' = detached
            \/ after = "exit3" /\ status' = 3 /\ args' = args
      \/ lpc' = "open" /\ pids' = <<>> /\ UNCHANGED <<args, todo, traced, stranded>>
  BY DEF Resumed, End
<1>1. Types'
  <2>1. pids' \in {pids, <<>>} /\ todo' \in {0, Len(pids)}
    BY <1>a, <1>c
  <2>2. <<>> \in Seq(Everyone)
    BY SMT
  <2>3. pids' \in Seq(Everyone)
    BY <1>b, <2>1, <2>2, Zenon
  <2>4. todo' \in Nat
    BY <1>b, <2>1, SMT
  <2> QED
    BY <1>a, <2>3, <2>4 DEF Inv, Types
<1>2. Control'
  BY <1>a, <1>c, ControlKept DEF Inv
<1>3. Held'
  BY <1>a, <1>b, <1>c, SMT DEF Inv, Held, Holding, Scanning, Trying
<1>4. Walked' /\ Covered'
  BY <1>a, <1>b, <1>c DEF Inv, Walked, Fruitless, Scanning, Trying, Covered, Smooth
<1>5. Reported'
  <2>1. Outcome = <<-1, "EINVAL">> \/ (~detached /\ Outcome = args)
    BY Zenon DEF Outcome
  <2>2. CASE lpc' = "dead"
    <3>1. args[2] # "EPERM" /\ (after = "exit3" => Excused) /\ Excused' = Excused
      BY <1>a, <1>b DEF Inv, Reported, Excused
    <3>2. CASE status' = 0 /\ how' = "exit" /\ args' = Outcome /\ detached' = detached
      <4>1. args'[2] # "EPERM" /\ (args'[1] = 0 => ~detached)
        BY <2>1, <3>1, <3>2, SMT
      <4> QED
        BY <1>a, <1>b, <2>2, <3>2, <4>1, SMT DEF Reported
    <3>3. CASE after = "exit3" /\ status' = 3 /\ args' = args
      BY <1>a, <1>b, <2>2, <3>1, <3>3, SMT DEF Reported
    <3> QED
      BY <1>c, <2>2, <3>2, <3>3
  <2>3. CASE lpc' # "dead"
    BY <1>a, <1>b, <1>c, <2>3 DEF Inv, Reported
  <2> QED
    BY <2>2, <2>3
<1> QED
  BY <1>1, <1>2, <1>3, <1>4, <1>5 DEF Inv

\* A synchronous signal ends the lister.
LEMMA SignalKeeps ==
  ASSUME Inv, NEW sig \in Signals, Signal(sig)
  PROVE  Inv'
<1>a. /\ lpc \notin {"none", "dead"} /\ lpc' = "dead" /\ traced' = {} /\ status' \in {-1, 1, 2}
      /\ UNCHANGED <<caller, cpc, args, path, pids, cur, must, added_entries, todo>>
  BY DEF Signal, listerFrame, callerVars, scanVars, endVars, sigVars, noteVars
<1>b. /\ tstate \in [Everyone -> ThreadStates] /\ caller \in Threads /\ Leader \in Threads
      /\ Threads \subseteq Everyone
  BY DEF Inv, Types, Everyone
<1>c. /\ tstate' \in [Everyone -> ThreadStates]
      /\ \A t \in Everyone : tstate[t] # "unborn" => tstate'[t] # "unborn"
      /\ tstate'[Leader] = "exited" => tstate[Leader] = "exited" \/ tstate'[caller] = "exited"
      /\ tstate[caller] = "exited" => tstate'[caller] = "exited"
  <2>1. CASE ~handlers
    BY <1>b, <2>1 DEF Signal
  <2>2. CASE handlers
    BY <1>b, <2>2 DEF Signal, ThreadStates, Detaches
  <2> QED
    BY <2>1, <2>2, Zenon
<1>1. Types' /\ Control'
  BY <1>a, <1>b, <1>c DEF Inv, Types, Control
<1>2. Held'
  BY <1>a DEF Held, Holding, Scanning, Trying
<1>3. Walked' /\ Covered'
  BY <1>a, <1>c DEF Inv, Walked, Fruitless, Scanning, Trying, Covered
<1>4. Reported'
  BY <1>a, SMT DEF Inv, Control, Reported
<1> QED
  BY <1>1, <1>2, <1>3, <1>4 DEF Inv

-----------------------------------------------------------------------------
(* The invariant.                                                          *)

\* It holds before the first call, whoever is alive and whoever calls.
LEMMA InvInit == Init => Inv
<1> SUFFICES ASSUME Init PROVE Inv
  OBVIOUS
<1>a. PICK s \in Starts :
        /\ tstate = [t \in Everyone |-> IF t \in s.alive \cup Kids THEN "running" ELSE "unborn"]
        /\ caller = s.caller
  BY DEF Init
<1>b. /\ Leader \in s.alive /\ caller \in s.alive /\ s.alive \subseteq Threads
      /\ caller \notin Exiters
  BY <1>a, ListerAssumption
<1>c. /\ tstate \in [Everyone -> ThreadStates] /\ tstate[Leader] = "running"
      /\ Leader \in Threads /\ Leader \in Everyone /\ caller \in Threads
  BY <1>a, <1>b DEF Everyone, ThreadStates
<1>1. Types
  BY <1>b, <1>c, SMT DEF Init, Types
<1>2. Control
  BY <1>c DEF Init, Control
<1>3. Held
  BY DEF Init, Held, Holding, Scanning, Trying
<1>4. Walked
  BY DEF Init, Walked, Fruitless, Scanning, Trying
<1>5. Reported
  BY DEF Init, Reported
<1>6. Covered
  BY DEF Init, Covered, Fruitless, Scanning, Trying
<1> QED
  BY <1>1, <1>2, <1>3, <1>4, <1>5, <1>6 DEF Inv

\* Every step of the process, the Caller, the lister and a signal keeps it.
LEMMA InvStep == Inv /\ [Next]_vars => Inv'
<1> SUFFICES ASSUME Inv, [Next]_vars PROVE Inv'
  OBVIOUS
<1>1. CASE \E t, u \in Threads : Spawn(t, u)
  BY <1>1, SpawnKeeps
<1>2. CASE \E t \in Everyone : Leave(t)
  BY <1>2, LeaveKeeps
<1>3. CASE \E t \in Everyone : Stop(t)
  BY <1>3, StopKeeps
<1>4. CASE \E t \in Everyone : Wake(t)
  BY <1>4, WakeKeeps
<1>5. CASE Begin
  BY <1>5, BeginKeeps
<1>6. CASE Mask
  BY <1>6, MaskKeeps
<1>7. CASE Clone
  BY <1>7, CloneKeeps
<1>8. CASE SetPtracer
  BY <1>8, SetPtracerKeeps
<1>9. CASE Unmask
  BY <1>9, UnmaskKeeps
<1>10. CASE Wait
  BY <1>10, WaitKeeps
<1>11. CASE Return
  BY <1>11, ReturnKeeps
<1>12. CASE Setup
  BY <1>12, SetupKeeps
<1>13. CASE Install
  BY <1>13, InstallKeeps
<1>14. CASE OpenProc
  BY <1>14, OpenProcKeeps
<1>15. CASE Publish
  BY <1>15, PublishKeeps
<1>16. CASE GetDents
  BY <1>16, GetDentsKeeps
<1>17. CASE Examine
  BY <1>17, ExamineKeeps
<1>18. CASE Attach
  BY <1>18, AttachKeeps
<1>19. CASE Await
  BY <1>19, AwaitKeeps
<1>20. CASE Verify
  BY <1>20, VerifyKeeps
<1>21. CASE Found
  BY <1>21, FoundKeeps
<1>22. CASE Callback
  BY <1>22, CallbackKeeps
<1>23. CASE ResumeOne
  BY <1>23, ResumeOneKeeps
<1>24. CASE Resumed
  BY <1>24, ResumedKeeps
<1>25. CASE \E sig \in Signals : Signal(sig)
  BY <1>25, SignalKeeps
<1>26. CASE UNCHANGED vars
  <2>1. UNCHANGED <<tstate, traced, stranded>> /\ UNCHANGED quietVars
    BY <1>26 DEF vars, quietVars, callerVars, scanVars, endVars, sigVars, noteVars
  <2>2. Kept' = Kept /\ Live' = Live /\ Types' /\ Control'
    BY <2>1, KeptSame DEF Inv, Types, Control, Live, quietVars
  <2>3. Held'
    BY <2>1, <2>2 DEF Inv, Held, quietVars
  <2>4. Walked' /\ Covered'
    BY <2>1, <2>2 DEF Inv, Walked, Covered, Fruitless, Smooth, quietVars
  <2>5. Reported'
    BY <2>1, ReportedFrame DEF Inv, quietVars
  <2> QED
    BY <2>2, <2>3, <2>4, <2>5 DEF Inv
<1> QED
  BY <1>1, <1>2, <1>3, <1>4, <1>5, <1>6, <1>7, <1>8, <1>9,
     <1>10, <1>11, <1>12, <1>13, <1>14, <1>15, <1>16, <1>17, <1>18,
     <1>19, <1>20, <1>21, <1>22, <1>23, <1>24, <1>25, <1>26
     DEF Next, ListAll, ListerThread

-----------------------------------------------------------------------------
(* Theorems.                                                               *)

\* When the callback runs, every live thread of the process is in the list and stopped,
\* and nobody else is listed, for every set of threads, however they come and go, as
\* long as a thread that creates others does not exit under the walk and the leader
\* does not exit at all (linuxthreads.c:360-379, 411-465).
THEOREM FrozenUnderWalk == ASSUME Tame PROVE Spec => []FrozenAtCallback
<1>1. Inv => FrozenAtCallback
  <2>1. SUFFICES ASSUME Inv, lpc = "callback", refused = {}, ~skipped
                 PROVE  /\ \A t \in Live \cap Threads : tstate[t] = "stopped" /\ t \in PidSet
                        /\ PidSet \subseteq Threads
    BY DEF FrozenAtCallback
  <2>2. Kept = PidSet
    BY <2>1, KeptIsList DEF Trying
  <2>3. Live \cap Threads \subseteq Kept
    BY <2>1, Tame DEF Inv, Covered, Smooth
  <2>4. \A t \in Kept : t \in Threads /\ tstate[t] = "stopped"
    BY <2>1 DEF Inv, Held, Holding
  <2> QED
    BY <2>2, <2>3, <2>4
<1> QED
  BY <1>1, InvInit, InvStep, PTL DEF Spec

\* What ListAllProcessThreads returns is the truth: success means that the callback ran
\* and its threads were resumed, EPERM that an attach was refused, task/ could not be
\* opened or the leader may be gone (linuxthreads.c:485-507, 630-655).
THEOREM ResultsTrue == Spec => []ResultIsTruth
<1>1. Inv => ResultIsTruth
  BY DEF Inv, Reported, Excused, ResultIsTruth
<1> QED
  BY <1>1, InvInit, InvStep, PTL DEF Spec

\* A step that leaves a thread attached is the failure path, or the handler between an
\* attach and the stop it waits for.
LEMMA StrandsStep ==
  Inv /\ [Next]_vars =>
    \/ stranded' \subseteq stranded
    \/ how' = "failure"
    \/ how' = "handler" /\ stranded' \ stranded = {cur} /\ lpc = "await"
<1> SUFFICES ASSUME Inv, [Next]_vars, ~(stranded' \subseteq stranded), how' # "failure"
             PROVE  how' = "handler" /\ stranded' \ stranded = {cur} /\ lpc = "await"
  OBVIOUS
<1> USE DEF endVars, callerFrame
<1>1. CASE \E t, u \in Threads : Spawn(t, u)
  BY <1>1 DEF Spawn
<1>2. CASE \E t \in Everyone : Leave(t)
  BY <1>2 DEF Leave
<1>3. CASE \E t \in Everyone : Stop(t)
  BY <1>3 DEF Stop
<1>4. CASE \E t \in Everyone : Wake(t)
  BY <1>4 DEF Wake
<1>5. CASE Begin
  BY <1>5 DEF Begin
<1>6. CASE Mask
  BY <1>6 DEF Mask
<1>7. CASE Clone
  BY <1>7 DEF Clone
<1>8. CASE SetPtracer
  BY <1>8 DEF SetPtracer
<1>9. CASE Unmask
  BY <1>9 DEF Unmask
<1>10. CASE Wait
  BY <1>10 DEF Wait
<1>11. CASE Return
  BY <1>11 DEF Return
<1>12. CASE Setup
  BY <1>12 DEF Setup, Failure, End
<1>13. CASE Install
  BY <1>13 DEF Install
<1>14. CASE OpenProc
  BY <1>14 DEF OpenProc, Failure, End
<1>15. CASE Publish
  BY <1>15 DEF Publish
<1>16. CASE GetDents
  BY <1>16 DEF GetDents, Failure, End
<1>17. CASE Examine
  BY <1>17 DEF Examine
<1>18. CASE Attach
  BY <1>18 DEF Attach
<1>19. CASE Await
  BY <1>19 DEF Await
<1>20. CASE Verify
  BY <1>20 DEF Verify
<1>21. CASE Found
  BY <1>21 DEF Found
<1>22. CASE Callback
  BY <1>22 DEF Callback
<1>23. CASE ResumeOne
  BY <1>23 DEF ResumeOne
<1>24. CASE Resumed
  <2>1. traced = {}
    BY <1>24, SMT DEF Inv, Held, Resumed, Types
  <2> QED
    BY <1>24, <2>1 DEF Resumed, End
<1>25. CASE \E sig \in Signals : Signal(sig)
  <2>1. PICK sig \in Signals : Signal(sig)
    BY <1>25
  <2>2. lpc \notin {"none", "dead", "setup", "install"} /\ lpc \in Holding \cup {"resume"} /\ handlers
    BY <2>1 DEF Inv, Control, Held, Holding, Scanning, Trying, Signal
  <2>3. /\ how' = "handler"
        /\ stranded' = stranded \cup (traced \ {t \in Published : Detaches(t)})
    BY <2>1, <2>2 DEF Signal
  <2>4. Published = PidSet
    BY <2>2 DEF Inv, Held, Published, PidSet
  <2>5. CASE lpc = "resume"
    BY <2>3, <2>4, <2>5, SMT DEF Inv, Held, Types, PidSet, Detaches
  <2>6. CASE lpc \in Holding
    <3>1. Kept \subseteq PidSet /\ (lpc \in Trying => cur \in PidSet)
      BY <2>6, SMT DEF Inv, Held, Types, Kept, PidSet
    <3>2. \A t \in traced : t \in PidSet /\ (Detaches(t) \/ (t = cur /\ lpc \in Trying))
      BY <2>6, <3>1 DEF Inv, Held, Detaches
    <3>3. traced \ {t \in PidSet : Detaches(t)} \subseteq {cur} /\ traced \cap stranded = {}
      BY <3>2 DEF Inv, Held
    <3>4. ~Detaches(cur) /\ cur \in traced /\ lpc \in Trying
      BY <2>3, <2>4, <3>2, <3>3
    <3>5. lpc = "await"
      BY <3>4 DEF Inv, Held, Trying, Detaches, Live
    <3> QED
      BY <2>3, <2>4, <3>3, <3>4, <3>5
  <2> QED
    BY <2>2, <2>5, <2>6
<1>26. CASE UNCHANGED vars
  BY <1>26 DEF vars
<1> QED
  BY <1>1, <1>2, <1>3, <1>4, <1>5, <1>6, <1>7, <1>8, <1>9,
     <1>10, <1>11, <1>12, <1>13, <1>14, <1>15, <1>16, <1>17, <1>18,
     <1>19, <1>20, <1>21, <1>22, <1>23, <1>24, <1>25, <1>26
     DEF Next, ListAll, ListerThread

\* The lister leaves a thread attached only on its failure path or when a signal meets
\* it between an attach and the stop, whatever threads there are, whoever exits and
\* whichever calls fail (linuxthreads.c:197-226, 270-282, 429-451).
THEOREM StrandsSeldom == Spec => StrandsOnlyOnFailure
  BY InvInit, InvStep, StrandsStep, PTL DEF Spec, StrandsOnlyOnFailure

=============================================================================

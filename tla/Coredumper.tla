----------------------------- MODULE Coredumper -----------------------------
(***************************************************************************)
(* The interface of the C library (coredumper/coredumper.c) and what its   *)
(* callback InternalGetCoreDump (coredumper/elfcore.c) does before the     *)
(* core is delivered, which is DumpPaths' subject.  A client fills in the  *)
(* parameters, in any order, and asks for dumps; it may have been built    *)
(* with an older header, whose structure has fewer fields.                 *)
(***************************************************************************)
EXTENDS Frame, FiniteSets, SequencesExt

CONSTANTS
  Versions,  \* how many of the fields the structure of the client has
  Tables,    \* compressor tables
  NULL,      \* no table
  Lengths,   \* values for max_length
  SIZE_MAX,  \* the greatest length
  PidLists,  \* threads in the order the lister found them
  main_pid,  \* the thread that calls
  Stats,     \* /proc/self/stat: its words, the numbers as they are
  Exes,      \* targets of /proc/self/exe, as sequences of characters
  FnameSize, \* sizeof(pr_fname)
  MaxSets,   \* bound: changes of the parameters
  MaxFaults  \* bound: system calls that fail

ASSUME InterfaceAssumption ==
  /\ Versions \subseteq 1 .. 9 /\ NULL \notin Tables
  /\ Lengths \subseteq 0 .. SIZE_MAX
  /\ MaxSets \in Nat /\ MaxFaults \in Nat

VARIABLES
  arch,
  params,    \* struct CoreDumpParameters
  sets,      \* changes made
  pc,
  req,       \* the parameters the call uses, and whether it names a file
  pids,      \* the threads of the process
  stopped,   \* those that are suspended
  thread_regs,
  hasSSE,
  exe, prpsinfo,
  stat, prstatus,
  rc,        \* 0, a descriptor (1), or -1
  got,       \* the parameters as the delivery reads them
  aborted,   \* abort() was called
  faults

dumpVars == <<req, pids, stopped, thread_regs, hasSSE, exe, prpsinfo, stat, prstatus, rc, got>>
vars == <<arch, params, sets, pc, dumpVars, aborted, faults>>

-----------------------------------------------------------------------------
(* The parameters. *)

\* The fields, in the order of the structure; the size counts them.
FieldNames == <<"size", "flags", "max_length", "compressors", "selected_compressor", "notes",
                "note_count", "callback_fn", "callback_arg">>

Fields == ToSet(FieldNames)

\* CoreDumpParametersHas
Has(p, f) == p.size >= CHOOSE i \in 1 .. 9 : FieldNames[i] = f

\* SetCoreDumpParameter: without the field the program is aborted.
SetParameter(p, f, v) == IF Has(p, f) /\ ~p.aborts THEN [p EXCEPT ![f] = v]
                         ELSE [p EXCEPT !.aborts = TRUE]

\* GetCoreDumpParameter
GetParameter(p, f, zero) == IF Has(p, f) THEN p[f] ELSE zero

\* The result of a setter is 0 or EINVAL.
Refuse(p) == [p EXCEPT !.result = "EINVAL"]
Accept(p) == [p EXCEPT !.result = "ok"]

\* Everything is 0, and the length not limited.
ClearCoreDumpParameters(size) ==
  SetParameter([size |-> size, flags |-> {}, max_length |-> 0, compressors |-> NULL,
                selected_compressor |-> 0, notes |-> 0, note_count |-> 0,
                callback_fn |-> 0, callback_arg |-> 0, aborts |-> FALSE, result |-> "ok"],
               "max_length", SIZE_MAX)

SetCoreDumpLimited(p, n) ==
  IF "PRIORITY" \in p.flags THEN Refuse(p)
  ELSE Accept(SetParameter([p EXCEPT !.flags = @ \cup {"LIMITED"}], "max_length", n))

SetCompressedAnyway(p, c) ==   \* a mutant
  Accept(SetParameter(SetParameter(p, "compressors", c), "selected_compressor", 1))

SetCoreDumpCompressed(p, c) ==
  IF "PRIORITY" \in p.flags THEN Refuse(p)
  ELSE Accept(SetParameter(SetParameter(p, "compressors", c), "selected_compressor", 1))

\* The field compressors is read whether it is there or not; the client's memory
\* then decides.
SetCoreDumpLimitedByPriority(p, n, beyond) ==
  IF \/ "LIMITED" \in p.flags /\ "PRIORITY" \notin p.flags
     \/ (IF Has(p, "compressors") THEN p.compressors # NULL ELSE beyond)
  THEN Refuse(p)
  ELSE Accept(SetParameter(SetParameter(p, "flags", p.flags \cup {"LIMITED", "PRIORITY"}),
                           "max_length", n))

SetCoreDumpNotes(p, n) ==
  Accept(SetParameter(SetParameter(p, "notes", n), "note_count", n))

\* The callback is known by the result it will give, plus 1.
SetCoreDumpCallback(p, r) ==
  Accept(SetParameter(SetParameter(p, "callback_fn", r + 1), "callback_arg", 1))

None == <<>>

Init ==
  /\ arch \in Archs
  /\ \E v \in Versions : params = ClearCoreDumpParameters(v)
  /\ sets = 0 /\ pc = "idle" /\ req = None
  /\ pids = None /\ stopped = {}
  /\ thread_regs = None /\ hasSSE = 1
  /\ exe = None /\ prpsinfo = None /\ stat = None /\ prstatus = None
  /\ rc = 0 /\ got = None
  /\ aborted = params.aborts
  /\ faults = 0

Fault == faults < MaxFaults /\ faults' = faults + 1

\* The client changes its parameters.
Change ==
  /\ pc = "idle" /\ ~aborted /\ sets < MaxSets
  /\ sets' = sets + 1
  /\ \/ \E n \in Lengths : params' = SetCoreDumpLimited(params, n)
     \/ \E c \in Tables \cup {NULL} : params' = SetCoreDumpCompressed(params, c)
     \/ \E n \in Lengths, b \in BOOLEAN : params' = SetCoreDumpLimitedByPriority(params, n, b)
     \/ params' = SetCoreDumpNotes(params, 1)
     \/ \E r \in {0, 1} : params' = SetCoreDumpCallback(params, r)
     \/ params' = ClearCoreDumpParameters(params.size)
  /\ aborted' = params'.aborts
  /\ UNCHANGED <<arch, pc, dumpVars, faults>>

-----------------------------------------------------------------------------
(* The entry points. *)

\* FRAME, and ListAllProcessThreads: it calls InternalGetCoreDump with every thread
\* suspended, or fails.
List(file, p) ==
  /\ pc = "idle" /\ ~aborted
  /\ req' = [file |-> file, p |-> p] /\ got' = None
  /\ thread_regs' = None /\ hasSSE' = 1
  /\ exe' = None /\ prpsinfo' = None /\ stat' = None /\ prstatus' = None
  /\ \/ /\ pids' \in PidLists /\ stopped' = ToSet(pids')
        /\ rc' = -1 /\ pc' = "callback"
        /\ UNCHANGED faults
     \/ /\ Fault
        /\ pids' = None /\ stopped' = {} /\ rc' = -1 /\ pc' = "returned"
  /\ UNCHANGED <<arch, params, sets, aborted>>

\* The convenience functions use parameters of their own, and look at no result of a
\* setter.
Fresh == ClearCoreDumpParameters(9)

GetCoreDumpFunction(p) == List(FALSE, p)
WriteCoreDumpFunction(p) == List(TRUE, p)

GetCoreDump == GetCoreDumpFunction(Fresh)

GetWithAnyway == GetCoreDumpFunction(params)   \* a mutant

GetCoreDumpWith ==
  \/ params.flags = {} /\ GetCoreDumpFunction(params)
  \/ /\ params.flags # {} /\ pc = "idle" /\ ~aborted
     /\ rc' = -1 /\ pc' = "returned" /\ req' = [file |-> FALSE, p |-> params]
     /\ pids' = None /\ got' = None
     /\ UNCHANGED <<arch, params, sets, aborted, faults, stopped, thread_regs, hasSSE, exe,
                    prpsinfo, stat, prstatus>>

GetCompressedCoreDump ==
  \E c \in Tables : GetCoreDumpFunction(SetCoreDumpCompressed(Fresh, c))

WriteCoreDump == WriteCoreDumpFunction(Fresh)

WriteCoreDumpWith == WriteCoreDumpFunction(params)

WriteCoreDumpLimited ==
  \E n \in Lengths : WriteCoreDumpFunction(SetCoreDumpLimited(Fresh, n))

WriteCoreDumpLimitedByPriority ==
  \E n \in Lengths : WriteCoreDumpFunction(SetCoreDumpLimitedByPriority(Fresh, n, FALSE))

WriteCompressedCoreDump ==
  \E n \in Lengths, c \in Tables :
    WriteCoreDumpFunction(SetCoreDumpLimited(SetCoreDumpCompressed(Fresh, c), n))

Call ==
  \/ GetCoreDump \/ GetCoreDumpWith \/ GetCompressedCoreDump
  \/ WriteCoreDump \/ WriteCoreDumpWith \/ WriteCoreDumpLimited
  \/ WriteCoreDumpLimitedByPriority \/ WriteCompressedCoreDump

-----------------------------------------------------------------------------
(* InternalGetCoreDump. *)

callVars == <<arch, params, sets, req, pids, aborted>>

\* error: the threads go on.  A second ResumeAllProcessThreads finds nothing to do.
Error == rc' = -1 /\ stopped' = {} /\ pc' = "returned"

Callback ==
  /\ pc = "callback"
  /\ IF GetParameter(req.p, "callback_fn", 0) \in {0, 1}
     THEN pc' = "regs" /\ UNCHANGED <<rc, stopped>> ELSE Error
  /\ UNCHANGED <<callVars, thread_regs, hasSSE, exe, prpsinfo, stat, prstatus, got, faults>>

CapturedFirst ==   \* a mutant: the first thread is taken for the caller
  IF thread_regs = None THEN SET_FRAME(arch, FRAME(arch), PtraceRegs(arch))
  ELSE PtraceRegs(arch)

\* The registers of the next thread; those of the caller are as FRAME saved them.
Captured ==
  LET t == pids[Len(thread_regs) + 1] IN
  IF t = main_pid THEN SET_FRAME(arch, FRAME(arch), PtraceRegs(arch)) ELSE PtraceRegs(arch)

\* Both sets of registers are read, or the dump fails.
ReadThread(sse) ==
  /\ \/ /\ thread_regs' = Append(thread_regs, Captured) /\ hasSSE' = sse
        /\ pc' = IF Len(thread_regs') = Len(pids) THEN "psinfo" ELSE "regs"
        /\ UNCHANGED <<rc, stopped, faults>>
     \/ Fault /\ Error /\ UNCHANGED <<thread_regs, hasSSE>>
  /\ UNCHANGED <<callVars, exe, prpsinfo, stat, prstatus, got>>

ReadMips    == pc = "regs" /\ arch = "mips" /\ ReadThread(0)
ReadAarch64 == pc = "regs" /\ arch = "aarch64" /\ ReadThread(0)

\* Only i386 has registers of its own for SSE, and not on every machine.
ReadX86 ==
  /\ pc = "regs" /\ arch \in {"x86_64", "i386", "arm"}
  /\ \E sse \in {0, hasSSE} : (arch = "i386" \/ sse = 0) /\ ReadThread(sse)

\* What follows the last slash, cut to the field.
Fname(e) ==
  LET name == FoldLeft(LAMBDA acc, c : IF c = "/" THEN <<>> ELSE Append(acc, c), <<>>, e) IN
  SubSeq(name, 1, IF Len(name) > FnameSize THEN FnameSize ELSE Len(name))

\* The link may be unreadable.  The identifiers and the command line are left out.
BuildPrpsinfo ==
  /\ pc = "psinfo" /\ pc' = "status"
  /\ exe' \in Exes \cup {None}
  /\ prpsinfo' = [pr_pid |-> main_pid, pr_fname |-> Fname(exe')]
  /\ UNCHANGED <<callVars, stopped, thread_regs, hasSSE, stat, prstatus, rc, got, faults>>

Digits(n) == CHOOSE d \in 1 .. 9 : n < 10 ^ d /\ (d = 1 \/ n >= 10 ^ (d - 1))

\* A word that is no number gives a number of no meaning.
NoNumber == -1

Word(s, i) == IF i <= Len(s) THEN s[i] ELSE 0

Time(n) == IF n = NoNumber THEN [tv_sec |-> NoNumber, tv_usec |-> 0]
           ELSE [tv_sec |-> n \div 1000, tv_usec |-> (n % 1000) * 1000]

\* The times are the four words after the thirteenth space.  The words after the
\* thirtieth space are the pending signals and the held ones, and the digits of both
\* go to pr_sigpend.
ParseStat(s) ==
  [pr_pid |-> prpsinfo.pr_pid,
   pr_utime |-> Time(Word(s, 14)), pr_stime |-> Time(Word(s, 15)),
   pr_cutime |-> Time(Word(s, 16)), pr_cstime |-> Time(Word(s, 17)),
   pr_sigpend |-> Word(s, 31) * 10 ^ Digits(Word(s, 32)) + Word(s, 32),
   pr_sighold |-> 0]

\* The line may be unreadable.
BuildPrstatus ==
  /\ pc = "status" /\ pc' = "params"
  /\ stat' \in Stats \cup {None}
  /\ prstatus' = ParseStat(stat')
  /\ UNCHANGED <<callVars, stopped, thread_regs, hasSSE, exe, prpsinfo, rc, got, faults>>

\* The fields the structure does not have are 0.  The selected compressor is the end
\* of the table until one is found.
ReadParameters ==
  /\ pc = "params" /\ pc' = "deliver"
  /\ got' = [max_length |-> GetParameter(req.p, "max_length", 0),
             compressors |-> GetParameter(req.p, "compressors", NULL),
             selected |-> GetParameter(req.p, "selected_compressor", 0),
             prioritize |-> "PRIORITY" \in GetParameter(req.p, "flags", {}),
             notes |-> GetParameter(req.p, "notes", 0),
             note_count |-> GetParameter(req.p, "note_count", 0)]
  /\ UNCHANGED <<callVars, stopped, thread_regs, hasSSE, exe, prpsinfo, stat, prstatus, rc,
                 faults>>

\* DumpPaths: the file is written, or a descriptor obtained, or not.
Deliver ==
  /\ pc = "deliver"
  /\ \/ /\ rc' = IF req.file THEN 0 ELSE 1
        /\ stopped' = {} /\ pc' = "returned" /\ UNCHANGED faults
     \/ Fault /\ Error
  /\ UNCHANGED <<callVars, thread_regs, hasSSE, exe, prpsinfo, stat, prstatus, got>>

\* The client has its result; what the call held is gone.
Return ==
  /\ pc = "returned" /\ pc' = "idle"
  /\ req' = None /\ pids' = None
  /\ thread_regs' = None /\ hasSSE' = 1
  /\ exe' = None /\ prpsinfo' = None /\ stat' = None /\ prstatus' = None /\ got' = None
  /\ rc' = 0
  /\ UNCHANGED <<arch, params, sets, stopped, aborted, faults>>

Terminated == aborted /\ UNCHANGED vars

Next ==
  \/ Change \/ Call \/ Callback \/ ReadMips \/ ReadAarch64 \/ ReadX86
  \/ BuildPrpsinfo \/ BuildPrstatus \/ ReadParameters \/ Deliver \/ Return \/ Terminated

Spec == Init /\ [][Next]_vars

-----------------------------------------------------------------------------
(* Properties. *)

\* The parameters, the request and the results keep their shape.
TypeOK ==
  /\ params.size \in Versions /\ params.max_length \in Lengths \cup {SIZE_MAX}
  /\ params.flags \subseteq {"LIMITED", "PRIORITY"} /\ params.compressors \in Tables \cup {NULL}
  /\ pc \in {"idle", "callback", "regs", "psinfo", "status", "params", "deliver", "returned"}
  /\ rc \in {-1, 0, 1} /\ hasSSE \in {0, 1}
  /\ Len(thread_regs) <= Len(pids)
  /\ \A k \in 1 .. Len(thread_regs) : thread_regs[k] \in [RegsOf(arch) -> Values]

\* However a client orders the setters, no dump is asked for that is compressed and
\* limited by priority: each of the two setters refuses what the other accepted before
\* (coredumper.c:264 and 275-277).
PriorityExcludesCompression ==
  /\ ~("PRIORITY" \in params.flags /\ params.compressors # NULL)
  /\ got # None => ~(got.prioritize /\ got.compressors # NULL)

\* A dump that is read from a descriptor is never limited (coredumper.c:148): the flag
\* that GetCoreDumpWith looks at is set whenever a setter changed the length.
DescriptorIsUnlimited ==
  got # None /\ ~req.file => got.max_length = SIZE_MAX

\* In the core the calling thread is where it called the library, whatever its place in
\* the list of threads, and keeps the segment bases its thread-local storage needs;
\* every other thread is where it was suspended (elfcore.h:60).
ThreadsAreWhereTheyWere ==
  \A k \in 1 .. Len(thread_regs) :
    LET r == thread_regs[k] IN
    IF pids[k] # main_pid THEN \A x \in RegsOf(arch) : r[x] = "ptrace"
    ELSE /\ r["IP"] = "here" /\ r["gpr"] = "caller" /\ r["SP"] \in {"caller", "cut"}
         /\ \A x \in {"fs_base", "gs_base", "status"} \cap RegsOf(arch) : r[x] = "ptrace"

=============================================================================

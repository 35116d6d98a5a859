-------------------------- MODULE CoredumperProofs --------------------------
(* Proofs about the parameters of the C library's interface and the registers it saves. *)
EXTENDS Coredumper, TLAPS

\* COREDUMPER_FLAG_LIMITED and COREDUMPER_FLAG_LIMITED_BY_PRIORITY.
FlagSets == SUBSET {"LIMITED", "PRIORITY"}

\* The structure, with the result of the last setter and whether it aborted.
Parameters ==
  [size : Int, flags : FlagSets, max_length : Lengths \cup {SIZE_MAX, 0},
   compressors : Tables \cup {NULL}, selected_compressor : {0, 1}, notes : {0, 1},
   note_count : {0, 1}, callback_fn : {0, 1, 2}, callback_arg : {0, 1}, aborts : BOOLEAN,
   result : {"ok", "EINVAL"}]

\* What the setters keep true of a structure: priority excludes compressors, a field that
\* is missing was not written, and a length that was set has left a flag.
Sane(p) ==
  /\ p \in Parameters
  /\ ~("PRIORITY" \in p.flags /\ p.compressors # NULL)
  /\ ~Has(p, "compressors") => p.compressors = NULL
  /\ ~p.aborts => Has(p, "max_length") /\ (p.flags = {} => p.max_length = SIZE_MAX)

\* Has depends on the size only.
LEMMA HasBySize ==
  ASSUME NEW p, NEW q, p.size = q.size, NEW f
  PROVE  Has(p, f) <=> Has(q, f)
BY DEF Has

\* A structure of nine fields has each of them.
LEMMA HasAll ==
  ASSUME NEW p, p.size = 9
  PROVE  Has(p, "max_length") /\ Has(p, "compressors") /\ Has(p, "selected_compressor")
<1>1. FieldNames[3] = "max_length" /\ FieldNames[4] = "compressors"
      /\ FieldNames[5] = "selected_compressor"
  BY DEF FieldNames
<1> DEFINE m == CHOOSE i \in 1 .. 9 : FieldNames[i] = "max_length"
           c == CHOOSE i \in 1 .. 9 : FieldNames[i] = "compressors"
           s == CHOOSE i \in 1 .. 9 : FieldNames[i] = "selected_compressor"
<1>2. m \in 1 .. 9 /\ c \in 1 .. 9 /\ s \in 1 .. 9
  BY <1>1
<1> HIDE DEF m, c, s
<1>3. p.size >= m /\ p.size >= c /\ p.size >= s
  BY <1>2
<1> QED
  BY <1>3, Zenon DEF Has, m, c, s

\* A cleared structure is sane.
LEMMA ClearIsSane ==
  ASSUME NEW n \in Int
  PROVE  Sane(ClearCoreDumpParameters(n)) /\ ClearCoreDumpParameters(n).size = n
<1> DEFINE p == [size |-> n, flags |-> {}, max_length |-> 0, compressors |-> NULL,
                 selected_compressor |-> 0, notes |-> 0, note_count |-> 0,
                 callback_fn |-> 0, callback_arg |-> 0, aborts |-> FALSE, result |-> "ok"]
<1>1. p \in Parameters
  BY DEF Parameters, FlagSets
<1>2. CASE Has(p, "max_length")
  <2> DEFINE q == [p EXCEPT !["max_length"] = SIZE_MAX]
  <2>1. ClearCoreDumpParameters(n) = q
    BY <1>2 DEF ClearCoreDumpParameters, SetParameter
  <2>2. q \in Parameters /\ q.size = p.size /\ q.flags = {} /\ q.compressors = NULL /\ q.max_length = SIZE_MAX
    BY <1>1 DEF Parameters
  <2>3. Has(q, "max_length")
    BY <1>2, <2>2, HasBySize
  <2> QED
    BY <2>1, <2>2, <2>3 DEF Sane
<1>3. CASE ~Has(p, "max_length")
  <2> DEFINE q == [p EXCEPT !.aborts = TRUE]
  <2>1. ClearCoreDumpParameters(n) = q
    BY <1>3 DEF ClearCoreDumpParameters, SetParameter
  <2>2. q \in Parameters /\ q.size = p.size /\ q.flags = {} /\ q.compressors = NULL /\ q.aborts
    BY <1>1 DEF Parameters
  <2> QED
    BY <2>1, <2>2 DEF Sane
<1> QED
  BY <1>2, <1>3

\* What SetCoreDumpParameter does to max_length, ...
LEMMA SetLength ==
  ASSUME NEW p \in Parameters, NEW n \in Lengths
  PROVE  LET q == SetParameter(p, "max_length", n) IN
         /\ q \in Parameters /\ q.size = p.size /\ q.flags = p.flags /\ q.compressors = p.compressors
         /\ p.aborts => q.aborts
BY DEF SetParameter, Parameters

\* ... to the flags, ...
LEMMA SetFlags ==
  ASSUME NEW p \in Parameters, NEW fl \in FlagSets
  PROVE  LET q == SetParameter(p, "flags", fl) IN
         /\ q \in Parameters /\ q.size = p.size /\ q.compressors = p.compressors
         /\ q.max_length = p.max_length /\ (p.aborts => q.aborts)
         /\ q.flags = fl \/ (q.flags = p.flags /\ q.aborts)
<1>1. CASE Has(p, "flags") /\ ~p.aborts
  <2> DEFINE q == [p EXCEPT !["flags"] = fl]
  <2>1. SetParameter(p, "flags", fl) = q
    BY <1>1 DEF SetParameter
  <2>2. q \in Parameters /\ q.size = p.size /\ q.compressors = p.compressors
    BY DEF Parameters
  <2>3. q.max_length = p.max_length /\ q.flags = fl /\ (p.aborts => q.aborts)
    BY <1>1 DEF Parameters
  <2> HIDE DEF q
  <2> QED
    BY <2>1, <2>2, <2>3
<1>2. CASE ~(Has(p, "flags") /\ ~p.aborts)
  BY <1>2 DEF SetParameter, Parameters
<1> QED
  BY <1>1, <1>2

\* ... to the compressors, ...
LEMMA SetCompressors ==
  ASSUME NEW p \in Parameters, NEW c \in Tables \cup {NULL}
  PROVE  LET q == SetParameter(p, "compressors", c) IN
         /\ q \in Parameters /\ q.size = p.size /\ q.flags = p.flags
         /\ q.max_length = p.max_length /\ (p.aborts => q.aborts)
         /\ q.compressors = p.compressors \/ Has(p, "compressors")
BY DEF SetParameter, Parameters

\* ... and to a field that matters to no property.
LEMMA SetOther ==
  ASSUME NEW p \in Parameters,
         NEW f \in {"selected_compressor", "notes", "note_count", "callback_arg"}, NEW v \in {0, 1}
  PROVE  LET q == SetParameter(p, f, v) IN
         /\ q \in Parameters /\ q.size = p.size /\ q.flags = p.flags
         /\ q.max_length = p.max_length /\ q.compressors = p.compressors /\ (p.aborts => q.aborts)
<1>1. CASE f = "selected_compressor"
  BY <1>1 DEF SetParameter, Parameters
<1>2. CASE f = "notes"
  BY <1>2 DEF SetParameter, Parameters
<1>3. CASE f = "note_count"
  BY <1>3 DEF SetParameter, Parameters
<1>4. CASE f = "callback_arg"
  BY <1>4 DEF SetParameter, Parameters
<1> QED
  BY <1>1, <1>2, <1>3, <1>4

\* The callback is one of those too.
LEMMA SetFn ==
  ASSUME NEW p \in Parameters, NEW r \in {0, 1}
  PROVE  LET q == SetParameter(p, "callback_fn", r + 1) IN
         /\ q \in Parameters /\ q.size = p.size /\ q.flags = p.flags
         /\ q.max_length = p.max_length /\ q.compressors = p.compressors /\ (p.aborts => q.aborts)
<1>1. r + 1 \in {0, 1, 2}
  OBVIOUS
<1>2. \A v \in {0, 1, 2} :
        LET q == SetParameter(p, "callback_fn", v) IN
        /\ q \in Parameters /\ q.size = p.size /\ q.flags = p.flags
        /\ q.max_length = p.max_length /\ q.compressors = p.compressors /\ (p.aborts => q.aborts)
  BY DEF SetParameter, Parameters
<1> QED
  BY <1>1, <1>2, Zenon

\* The result of a setter.
LEMMA Results ==
  ASSUME NEW p \in Parameters, NEW q \in {Refuse(p), Accept(p)}
  PROVE  /\ q \in Parameters /\ q.size = p.size /\ q.flags = p.flags
         /\ q.max_length = p.max_length /\ q.compressors = p.compressors /\ q.aborts = p.aborts
BY DEF Refuse, Accept, Parameters

\* Only these fields matter.
LEMMA SameIsSane ==
  ASSUME NEW p, Sane(p), NEW q \in Parameters,
         q.size = p.size, q.flags = p.flags, q.max_length = p.max_length,
         q.compressors = p.compressors, p.aborts => q.aborts
  PROVE  Sane(q)
<1>1. (Has(q, "compressors") <=> Has(p, "compressors")) /\ (Has(q, "max_length") <=> Has(p, "max_length"))
  BY HasBySize
<1> QED
  BY <1>1, Zenon DEF Sane

\* The result of a setter is not among them.
LEMMA ResultIsSane ==
  ASSUME NEW p, Sane(p), NEW q \in {Refuse(p), Accept(p)}
  PROVE  Sane(q) /\ q.size = p.size
<1>1. p \in Parameters
  BY DEF Sane
<1>2. /\ q \in Parameters /\ q.size = p.size /\ q.flags = p.flags
      /\ q.max_length = p.max_length /\ q.compressors = p.compressors /\ q.aborts = p.aborts
  BY <1>1, Results
<1> QED
  BY <1>2, SameIsSane

\* Each setter keeps a structure sane, whatever was set before.
LEMMA LimitedIsSane ==
  ASSUME NEW p, Sane(p), NEW n \in Lengths
  PROVE  Sane(SetCoreDumpLimited(p, n)) /\ SetCoreDumpLimited(p, n).size = p.size
<1>1. CASE "PRIORITY" \in p.flags
  <2>1. SetCoreDumpLimited(p, n) = Refuse(p)
    BY <1>1 DEF SetCoreDumpLimited
  <2> QED
    BY <2>1, ResultIsSane
<1>2. CASE "PRIORITY" \notin p.flags
  <2> DEFINE q == [p EXCEPT !.flags = @ \cup {"LIMITED"}]
             r == SetParameter(q, "max_length", n)
  <2>1. SetCoreDumpLimited(p, n) = Accept(r)
    BY <1>2 DEF SetCoreDumpLimited
  <2>2. q \in Parameters /\ q.size = p.size /\ q.flags = p.flags \cup {"LIMITED"}
        /\ q.compressors = p.compressors /\ q.aborts = p.aborts
    BY DEF Sane, Parameters, FlagSets
  <2> HIDE DEF q
  <2>3. r \in Parameters /\ r.size = q.size /\ r.flags = q.flags /\ r.compressors = q.compressors
        /\ (q.aborts => r.aborts)
    BY <2>2, SetLength
  <2> HIDE DEF r
  <2>4. Sane(r)
    <3>1. "PRIORITY" \notin r.flags /\ r.flags # {}
      BY <1>2, <2>2, <2>3
    <3>2. (Has(r, "compressors") <=> Has(p, "compressors")) /\ (Has(r, "max_length") <=> Has(p, "max_length"))
      BY <2>2, <2>3, HasBySize
    <3>3. r.compressors = p.compressors /\ (~r.aborts => ~p.aborts)
      BY <2>2, <2>3
    <3> QED
      BY <2>3, <3>1, <3>2, <3>3, Zenon DEF Sane
  <2> QED
    BY <2>1, <2>2, <2>3, <2>4, ResultIsSane
<1> QED
  BY <1>1, <1>2

\* SetCoreDumpCompressed, which leaves the flags as they are.
LEMMA CompressedIsSane ==
  ASSUME NEW p, Sane(p), NEW c \in Tables \cup {NULL}
  PROVE  Sane(SetCoreDumpCompressed(p, c)) /\ SetCoreDumpCompressed(p, c).size = p.size
         /\ SetCoreDumpCompressed(p, c).flags = p.flags
<1>0. p \in Parameters
  BY DEF Sane
<1>1. CASE "PRIORITY" \in p.flags
  <2>1. SetCoreDumpCompressed(p, c) = Refuse(p)
    BY <1>1 DEF SetCoreDumpCompressed
  <2> QED
    BY <1>0, <2>1, ResultIsSane, Results
<1>2. CASE "PRIORITY" \notin p.flags
  <2> DEFINE q == SetParameter(p, "compressors", c)
             r == SetParameter(q, "selected_compressor", 1)
  <2>1. SetCoreDumpCompressed(p, c) = Accept(r)
    BY <1>2 DEF SetCoreDumpCompressed
  <2>2. /\ q \in Parameters /\ q.size = p.size /\ q.flags = p.flags
        /\ q.max_length = p.max_length /\ (p.aborts => q.aborts)
        /\ (q.compressors = p.compressors \/ Has(p, "compressors"))
    BY <1>0, SetCompressors
  <2> HIDE DEF q
  <2>3. Sane(q)
    <3>1. (Has(q, "compressors") <=> Has(p, "compressors")) /\ (Has(q, "max_length") <=> Has(p, "max_length"))
      BY <2>2, HasBySize
    <3> QED
      BY <1>2, <2>2, <3>1, Zenon DEF Sane
  <2>4. /\ r \in Parameters /\ r.size = q.size /\ r.flags = q.flags
        /\ r.max_length = q.max_length /\ r.compressors = q.compressors /\ (q.aborts => r.aborts)
    BY <2>2, SetOther
  <2> HIDE DEF r
  <2>5. Sane(r)
    BY <2>3, <2>4, SameIsSane
  <2> QED
    BY <2>1, <2>2, <2>4, <2>5, ResultIsSane, Results
<1> QED
  BY <1>1, <1>2

\* SetCoreDumpLimitedByPriority, with any memory behind a short structure.
LEMMA PriorityIsSane ==
  ASSUME NEW p, Sane(p), NEW n \in Lengths, NEW b \in BOOLEAN
  PROVE  LET q == SetCoreDumpLimitedByPriority(p, n, b) IN Sane(q) /\ q.size = p.size
<1>0. p \in Parameters
  BY DEF Sane
<1> DEFINE refused == \/ "LIMITED" \in p.flags /\ "PRIORITY" \notin p.flags
                      \/ (IF Has(p, "compressors") THEN p.compressors # NULL ELSE b)
<1>1. CASE refused
  <2>1. SetCoreDumpLimitedByPriority(p, n, b) = Refuse(p)
    BY <1>1, Zenon DEF SetCoreDumpLimitedByPriority
  <2> QED
    BY <2>1, ResultIsSane
<1>2. CASE ~refused
  <2> DEFINE fl == p.flags \cup {"LIMITED", "PRIORITY"}
             q == SetParameter(p, "flags", fl)
             r == SetParameter(q, "max_length", n)
  <2>1. SetCoreDumpLimitedByPriority(p, n, b) = Accept(r)
    BY <1>2, Zenon DEF SetCoreDumpLimitedByPriority
  <2>2. p.compressors = NULL
    BY <1>2, Zenon DEF Sane
  <2>3. fl \in FlagSets /\ fl # {}
    BY <1>0 DEF Parameters, FlagSets
  <2> HIDE DEF fl
  <2>4. /\ q \in Parameters /\ q.size = p.size /\ q.compressors = p.compressors
        /\ q.max_length = p.max_length /\ (p.aborts => q.aborts)
        /\ q.flags = fl \/ (q.flags = p.flags /\ q.aborts)
    BY <1>0, <2>3, SetFlags
  <2> HIDE DEF q
  <2>5. /\ r \in Parameters /\ r.size = q.size /\ r.flags = q.flags /\ r.compressors = q.compressors
        /\ (q.aborts => r.aborts)
    BY <2>4, SetLength
  <2> HIDE DEF r
  <2>6. (Has(r, "compressors") <=> Has(p, "compressors")) /\ (Has(r, "max_length") <=> Has(p, "max_length"))
    BY <2>4, <2>5, HasBySize
  <2>7. r.compressors = NULL /\ (~r.aborts => ~p.aborts /\ r.flags # {})
    BY <2>2, <2>3, <2>4, <2>5, Zenon
  <2>8. Sane(r)
    BY <2>5, <2>6, <2>7, Zenon DEF Sane
  <2> QED
    BY <2>1, <2>4, <2>5, <2>8, ResultIsSane
<1> QED
  BY <1>1, <1>2

\* SetCoreDumpNotes and SetCoreDumpCallback.
LEMMA NotesIsSane ==
  ASSUME NEW p, Sane(p)
  PROVE  Sane(SetCoreDumpNotes(p, 1)) /\ SetCoreDumpNotes(p, 1).size = p.size
<1>0. p \in Parameters
  BY DEF Sane
<1> DEFINE q == SetParameter(p, "notes", 1)
           r == SetParameter(q, "note_count", 1)
<1>1. SetCoreDumpNotes(p, 1) = Accept(r)
  BY DEF SetCoreDumpNotes
<1>2. /\ q \in Parameters /\ q.size = p.size /\ q.flags = p.flags
      /\ q.max_length = p.max_length /\ q.compressors = p.compressors /\ (p.aborts => q.aborts)
  BY <1>0, SetOther
<1> HIDE DEF q
<1>3. /\ r \in Parameters /\ r.size = q.size /\ r.flags = q.flags
      /\ r.max_length = q.max_length /\ r.compressors = q.compressors /\ (q.aborts => r.aborts)
  BY <1>2, SetOther
<1> HIDE DEF r
<1>4. Sane(q)
  BY <1>2, SameIsSane
<1>5. Sane(r)
  BY <1>3, <1>4, SameIsSane
<1> QED
  BY <1>1, <1>2, <1>3, <1>5, ResultIsSane

\* The callback.
LEMMA CallbackIsSane ==
  ASSUME NEW p, Sane(p), NEW k \in {0, 1}
  PROVE  Sane(SetCoreDumpCallback(p, k)) /\ SetCoreDumpCallback(p, k).size = p.size
<1>0. p \in Parameters
  BY DEF Sane
<1> DEFINE q == SetParameter(p, "callback_fn", k + 1)
           r == SetParameter(q, "callback_arg", 1)
<1>1. SetCoreDumpCallback(p, k) = Accept(r)
  BY DEF SetCoreDumpCallback
<1>2. /\ q \in Parameters /\ q.size = p.size /\ q.flags = p.flags
      /\ q.max_length = p.max_length /\ q.compressors = p.compressors /\ (p.aborts => q.aborts)
  BY <1>0, SetFn
<1> HIDE DEF q
<1>3. /\ r \in Parameters /\ r.size = q.size /\ r.flags = q.flags
      /\ r.max_length = q.max_length /\ r.compressors = q.compressors /\ (q.aborts => r.aborts)
  BY <1>2, SetOther
<1> HIDE DEF r
<1>4. Sane(q)
  BY <1>2, SameIsSane
<1>5. Sane(r)
  BY <1>3, <1>4, SameIsSane
<1> QED
  BY <1>1, <1>2, <1>3, <1>5, ResultIsSane

\* The parameters of the convenience functions are not limited, and have every field.
LEMMA FreshIsSane ==
  /\ Sane(Fresh) /\ Fresh.flags = {} /\ ~Fresh.aborts
<1> DEFINE p == [size |-> 9, flags |-> {}, max_length |-> 0, compressors |-> NULL,
                 selected_compressor |-> 0, notes |-> 0, note_count |-> 0,
                 callback_fn |-> 0, callback_arg |-> 0, aborts |-> FALSE, result |-> "ok"]
<1>1. Has(p, "max_length")
  BY HasAll
<1>2. Fresh = [p EXCEPT !["max_length"] = SIZE_MAX]
  BY <1>1 DEF Fresh, ClearCoreDumpParameters, SetParameter
<1>3. Fresh.flags = {} /\ ~Fresh.aborts
  BY <1>2
<1> QED
  BY <1>3, ClearIsSane DEF Fresh

\* GetCompressedCoreDump passes parameters that are not limited either.
LEMMA FreshCompressed ==
  ASSUME NEW c \in Tables
  PROVE  LET p == SetCoreDumpCompressed(Fresh, c) IN Sane(p) /\ p.flags = {} /\ ~p.aborts
<1> DEFINE f == Fresh
           q == SetParameter(f, "compressors", c)
           r == SetParameter(q, "selected_compressor", 1)
<1>1. f \in Parameters /\ f.flags = {} /\ ~f.aborts /\ Has(f, "compressors") /\ Has(f, "selected_compressor")
  BY FreshIsSane, ClearIsSane, HasAll DEF Sane, Fresh
<1>2. Sane(SetCoreDumpCompressed(f, c)) /\ SetCoreDumpCompressed(f, c).flags = {}
  BY <1>1, FreshIsSane, CompressedIsSane
<1>3. SetCoreDumpCompressed(f, c) = Accept(r)
  BY <1>1 DEF SetCoreDumpCompressed
<1> HIDE DEF f
<1>4. q \in Parameters /\ ~q.aborts /\ q.size = f.size
  BY <1>1 DEF SetParameter, Parameters
<1>5. Has(q, "selected_compressor")
  BY <1>1, <1>4, HasBySize
<1> HIDE DEF q
<1>6. r \in Parameters /\ ~r.aborts
  BY <1>4, <1>5 DEF SetParameter, Parameters
<1> HIDE DEF r
<1>7. Accept(r).aborts = r.aborts
  BY <1>6, Results
<1> QED
  BY <1>2, <1>3, <1>6, <1>7 DEF f

-----------------------------------------------------------------------------
(* The invariant of the calls. *)

Busy == {"callback", "regs", "psinfo", "status", "params", "deliver"}

\* What a call was given stays sane; one for a descriptor is not limited, since
\* GetCoreDumpWith refuses any flag.
RequestOK ==
  pc \in Busy => Sane(req.p) /\ (~req.file => ~req.p.aborts /\ req.p.flags = {})

GotOK ==
  got # None => /\ ~(got.prioritize /\ got.compressors # NULL)
                /\ ~req.file => got.max_length = SIZE_MAX

ParamsInv == Sane(params) /\ (params.aborts => aborted) /\ RequestOK /\ GotOK

\* No setter called between two dumps breaks it.
LEMMA ChangeStep ==
  ASSUME ParamsInv, Change
  PROVE  ParamsInv'
<1>0. Sane(params) /\ params.size \in Int
  BY DEF ParamsInv, Sane, Parameters
<1>1. pc' = pc /\ req' = req /\ got' = got /\ aborted' = params'.aborts /\ pc = "idle"
  BY DEF Change, dumpVars
<1>2. \/ \E n \in Lengths : params' = SetCoreDumpLimited(params, n)
      \/ \E c \in Tables \cup {NULL} : params' = SetCoreDumpCompressed(params, c)
      \/ \E n \in Lengths, b \in BOOLEAN : params' = SetCoreDumpLimitedByPriority(params, n, b)
      \/ params' = SetCoreDumpNotes(params, 1)
      \/ \E r \in {0, 1} : params' = SetCoreDumpCallback(params, r)
      \/ params' = ClearCoreDumpParameters(params.size)
  BY Zenon DEF Change
<1>3. Sane(params')
  <2>1. CASE \E n \in Lengths : params' = SetCoreDumpLimited(params, n)
    BY <1>0, <2>1, LimitedIsSane
  <2>2. CASE \E c \in Tables \cup {NULL} : params' = SetCoreDumpCompressed(params, c)
    BY <1>0, <2>2, CompressedIsSane
  <2>3. CASE \E n \in Lengths, b \in BOOLEAN : params' = SetCoreDumpLimitedByPriority(params, n, b)
    BY <1>0, <2>3, PriorityIsSane
  <2>4. CASE params' = SetCoreDumpNotes(params, 1)
    BY <1>0, <2>4, NotesIsSane
  <2>5. CASE \E r \in {0, 1} : params' = SetCoreDumpCallback(params, r)
    BY <1>0, <2>5, CallbackIsSane
  <2>6. CASE params' = ClearCoreDumpParameters(params.size)
    BY <1>0, <2>6, ClearIsSane
  <2> QED
    BY <1>2, <2>1, <2>2, <2>3, <2>4, <2>5, <2>6, Zenon
<1>4. Sane(params)'
  BY <1>3, Zenon DEF Sane, Has
<1>5. GotOK'
  BY <1>1, Zenon DEF ParamsInv, GotOK, None
<1>6. RequestOK'
  BY <1>1 DEF RequestOK, Busy
<1> QED
  BY <1>1, <1>4, <1>5, <1>6, Zenon DEF ParamsInv

\* A call with sane parameters, unlimited if it is for a descriptor.
LEMMA ListStep ==
  ASSUME ParamsInv, NEW file \in BOOLEAN, NEW p, Sane(p), ~file => ~p.aborts /\ p.flags = {},
         List(file, p)
  PROVE  ParamsInv'
<1>1. /\ req' = [file |-> file, p |-> p] /\ got' = None
      /\ params' = params /\ aborted' = aborted
  BY Zenon DEF List
<1>2. req'.p = p /\ req'.file = file
  BY <1>1
<1>3. GotOK'
  BY <1>1, Zenon DEF GotOK, None
<1>4. RequestOK'
  BY <1>2, Zenon DEF RequestOK
<1>5. Sane(params)' /\ (params.aborts => aborted)'
  BY <1>1, Zenon DEF ParamsInv
<1> QED
  BY <1>3, <1>4, <1>5, Zenon DEF ParamsInv

\* Every entry point makes such a call, or refuses.
LEMMA CallStep ==
  ASSUME ParamsInv, Call
  PROVE  ParamsInv'
<1>0. Sane(params) /\ (params.aborts => aborted)
  BY DEF ParamsInv
<1>1. CASE GetCoreDump
  BY <1>1, FreshIsSane, ListStep DEF GetCoreDump, GetCoreDumpFunction
<1>2. CASE params.flags = {} /\ GetCoreDumpFunction(params)
  <2>1. ~params.aborts
    BY <1>0, <1>2, Zenon DEF GetCoreDumpFunction, List
  <2> QED
    BY <1>0, <1>2, <2>1, ListStep DEF GetCoreDumpFunction
<1>3. CASE /\ params.flags # {} /\ pc = "idle" /\ ~aborted
           /\ rc' = -1 /\ pc' = "returned" /\ req' = [file |-> FALSE, p |-> params]
           /\ pids' = None /\ got' = None
           /\ UNCHANGED <<arch, params, sets, aborted, faults, stopped, thread_regs, hasSSE, exe,
                          prpsinfo, stat, prstatus>>
  <2>1. Sane(params)' /\ (params.aborts => aborted)'
    BY <1>0, <1>3, Zenon
  <2>2. GotOK'
    BY <1>3, Zenon DEF GotOK, None
  <2>3. RequestOK'
    BY <1>3 DEF RequestOK, Busy
  <2> QED
    BY <2>1, <2>2, <2>3, Zenon DEF ParamsInv
<1>4. CASE GetCompressedCoreDump
  BY <1>4, FreshCompressed, ListStep DEF GetCompressedCoreDump, GetCoreDumpFunction
<1>5. CASE WriteCoreDump
  BY <1>5, FreshIsSane, ListStep DEF WriteCoreDump, WriteCoreDumpFunction
<1>6. CASE WriteCoreDumpWith
  BY <1>0, <1>6, ListStep DEF WriteCoreDumpWith, WriteCoreDumpFunction
<1>7. CASE WriteCoreDumpLimited
  BY <1>7, FreshIsSane, LimitedIsSane, ListStep DEF WriteCoreDumpLimited, WriteCoreDumpFunction
<1>8. CASE WriteCoreDumpLimitedByPriority
  BY <1>8, FreshIsSane, PriorityIsSane, ListStep
  DEF WriteCoreDumpLimitedByPriority, WriteCoreDumpFunction
<1>9. CASE WriteCompressedCoreDump
  BY <1>9, FreshIsSane, CompressedIsSane, LimitedIsSane, ListStep
  DEF WriteCompressedCoreDump, WriteCoreDumpFunction
<1> QED
  BY <1>1, <1>2, <1>3, <1>4, <1>5, <1>6, <1>7, <1>8, <1>9, Zenon DEF Call, GetCoreDumpWith

\* The steps of InternalGetCoreDump leave the parameters and the request alone.
LEMMA DumpStep ==
  ASSUME ParamsInv, pc \in Busy, UNCHANGED <<params, req, aborted, got>>
  PROVE  ParamsInv'
<1>1. Sane(params)' /\ (params.aborts => aborted)'
  BY Zenon DEF ParamsInv
<1>2. GotOK'
  BY Zenon DEF ParamsInv, GotOK, None
<1>3. RequestOK'
  BY Zenon DEF ParamsInv, RequestOK, Busy
<1> QED
  BY <1>1, <1>2, <1>3, Zenon DEF ParamsInv

\* What the delivery reads from a structure that may lack fields.
LEMMA ReadStep ==
  ASSUME ParamsInv, ReadParameters
  PROVE  ParamsInv'
<1> DEFINE p == req.p
<1>0. Sane(p) /\ (~req.file => ~p.aborts /\ p.flags = {})
  BY Zenon DEF ParamsInv, RequestOK, ReadParameters, Busy
<1>1. got' = [max_length |-> GetParameter(p, "max_length", 0),
              compressors |-> GetParameter(p, "compressors", NULL),
              selected |-> GetParameter(p, "selected_compressor", 0),
              prioritize |-> "PRIORITY" \in GetParameter(p, "flags", {}),
              notes |-> GetParameter(p, "notes", 0),
              note_count |-> GetParameter(p, "note_count", 0)]
  BY DEF ReadParameters
<1>2. params' = params /\ req' = req /\ aborted' = aborted /\ pc = "params"
  BY DEF ReadParameters, callVars
<1> HIDE DEF p
<1>3. /\ got'.max_length = GetParameter(p, "max_length", 0)
      /\ got'.compressors = GetParameter(p, "compressors", NULL)
      /\ got'.prioritize = ("PRIORITY" \in GetParameter(p, "flags", {}))
  BY <1>1
<1>4. ~(got'.prioritize /\ got'.compressors # NULL)
  BY <1>0, <1>3 DEF Sane, GetParameter
<1>5. ~req.file => got'.max_length = SIZE_MAX
  BY <1>0, <1>3, Zenon DEF Sane, GetParameter
<1>6. GotOK'
  BY <1>2, <1>4, <1>5, Zenon DEF GotOK, None
<1>7. Sane(params)' /\ (params.aborts => aborted)'
  BY <1>2, Zenon DEF ParamsInv
<1>8. RequestOK'
  BY <1>2, Zenon DEF ParamsInv, RequestOK, Busy
<1> QED
  BY <1>6, <1>7, <1>8, Zenon DEF ParamsInv

\* The invariant holds at the start and is kept by every step.
LEMMA ParamsInvariant ==
  Spec => []ParamsInv
<1>1. Init => ParamsInv
  <2> SUFFICES ASSUME Init PROVE ParamsInv
    OBVIOUS
  <2>1. PICK v \in Versions : params = ClearCoreDumpParameters(v)
    BY DEF Init
  <2>2. Sane(params)
    BY <2>1, InterfaceAssumption, ClearIsSane
  <2>3. pc = "idle" /\ got = None /\ aborted = params.aborts
    BY DEF Init
  <2>4. RequestOK
    BY <2>3 DEF RequestOK, Busy
  <2>5. GotOK
    BY <2>3, Zenon DEF GotOK
  <2> QED
    BY <2>2, <2>3, <2>4, <2>5, Zenon DEF ParamsInv
<1>2. ParamsInv /\ [Next]_vars => ParamsInv'
  <2> SUFFICES ASSUME ParamsInv, [Next]_vars PROVE ParamsInv'
    OBVIOUS
  <2>1. CASE Change
    BY <2>1, ChangeStep
  <2>2. CASE Call
    BY <2>2, CallStep
  <2>3. CASE Callback
    BY <2>3, DumpStep DEF Callback, callVars, Busy
  <2>4. CASE ReadMips
    BY <2>4, DumpStep DEF ReadMips, ReadThread, callVars, Busy
  <2>5. CASE ReadAarch64
    BY <2>5, DumpStep DEF ReadAarch64, ReadThread, callVars, Busy
  <2>6. CASE ReadX86
    BY <2>6, DumpStep DEF ReadX86, ReadThread, callVars, Busy
  <2>7. CASE BuildPrpsinfo
    BY <2>7, DumpStep DEF BuildPrpsinfo, callVars, Busy
  <2>8. CASE BuildPrstatus
    BY <2>8, DumpStep DEF BuildPrstatus, callVars, Busy
  <2>9. CASE ReadParameters
    BY <2>9, ReadStep
  <2>10. CASE Deliver
    BY <2>10, DumpStep DEF Deliver, callVars, Busy
  <2>11. CASE Return
    <3>1. pc' = "idle" /\ got' = None /\ params' = params /\ aborted' = aborted
      BY <2>11 DEF Return
    <3>2. RequestOK' /\ Sane(params)' /\ (params.aborts => aborted)'
      <4>1. RequestOK'
        BY <3>1 DEF RequestOK, Busy
      <4> QED
        BY <3>1, <4>1, Zenon DEF ParamsInv
    <3>3. GotOK'
      BY <3>1, Zenon DEF GotOK, None
    <3> QED
      BY <3>2, <3>3, Zenon DEF ParamsInv
  <2>12. CASE UNCHANGED vars
    <3>1. UNCHANGED <<params, req, aborted, got>> /\ pc' = pc
      BY <2>12 DEF vars, dumpVars
    <3> QED
      BY <3>1, Zenon DEF ParamsInv, RequestOK, GotOK, None
  <2> QED
    BY <2>1, <2>2, <2>3, <2>4, <2>5, <2>6, <2>7, <2>8, <2>9, <2>10, <2>11, <2>12, Zenon
    DEF Next, Terminated
<1> QED
  BY <1>1, <1>2, PTL DEF Spec

\* Whatever the order of the setters, and whichever fields the client's structure has, no
\* dump is both compressed and limited by priority (coredumper.c:264 and 275-277).
THEOREM PriorityIsExclusive ==
  Spec => []PriorityExcludesCompression
<1>1. ParamsInv => PriorityExcludesCompression
  BY Zenon DEF ParamsInv, Sane, GotOK, PriorityExcludesCompression
<1> QED
  BY <1>1, ParamsInvariant, PTL

\* A dump that is read from a descriptor is never limited (coredumper.c:148).
THEOREM DescriptorsAreUnlimited ==
  Spec => []DescriptorIsUnlimited
<1>1. ParamsInv => DescriptorIsUnlimited
  BY Zenon DEF ParamsInv, GotOK, DescriptorIsUnlimited
<1> QED
  BY <1>1, ParamsInvariant, PTL

-----------------------------------------------------------------------------
(* The registers of the threads. *)

\* The registers the core shows for the thread that called.
CallerRegs(a) == SET_FRAME(a, FRAME(a), PtraceRegs(a))

\* A thread other than the caller is shown as ptrace saw it, the caller at its call.
Shows(a, t, r) ==
  IF t # main_pid THEN \A x \in RegsOf(a) : r[x] = "ptrace"
  ELSE /\ r["IP"] = "here" /\ r["gpr"] = "caller" /\ r["SP"] \in {"caller", "cut"}
       /\ \A x \in {"fs_base", "gs_base", "status"} \cap RegsOf(a) : r[x] = "ptrace"

\* FRAME and SET_FRAME together, on each architecture: the registers saved at the call
\* replace those that ptrace read, but for what only ptrace can know.
LEMMA CallerIsAtItsCall ==
  ASSUME NEW a \in Archs
  PROVE  Shows(a, main_pid, CallerRegs(a))
<1> USE DEF Shows, CallerRegs, SET_FRAME, FRAME, PtraceRegs, Over
<1>1. CASE a = "x86_64"
  BY <1>1 DEF SetFrameX86_64, FrameX86_64, RegsOf
<1>2. CASE a = "i386"
  BY <1>2 DEF SetFrameI386, FrameI386, RegsOf
<1>3. CASE a = "arm"
  BY <1>3 DEF SetFrameArm, FrameArm, RegsOf
<1>4. CASE a = "aarch64"
  BY <1>4 DEF SetFrameAarch64, FrameAarch64, RegsOf
<1>5. CASE a = "mips"
  BY <1>5 DEF SetFrameMips, FrameMips, RegsOf
<1> QED
  BY <1>1, <1>2, <1>3, <1>4, <1>5 DEF Archs

\* The registers read so far are those of the first threads of the list; none are kept
\* from one dump to the next.
RegsInv ==
  /\ arch \in Archs
  /\ thread_regs \in Seq({CallerRegs(arch), PtraceRegs(arch)})
  /\ pc = "idle" => thread_regs = <<>>
  /\ \A k \in 1 .. Len(thread_regs) : Shows(arch, pids[k], thread_regs[k])

\* The next thread is read with registers that show it where it was.
LEMMA ReadThreadShows ==
  ASSUME RegsInv, pc = "regs", NEW sse, ReadThread(sse)
  PROVE  RegsInv'
<1>1. CASE thread_regs' = Append(thread_regs, Captured)
  <2>1. arch' = arch /\ pids' = pids /\ pc' # "idle"
    BY DEF ReadThread, callVars, Error
  <2>2. Captured \in {CallerRegs(arch), PtraceRegs(arch)}
    BY DEF Captured, CallerRegs
  <2>3. Shows(arch, pids[Len(thread_regs) + 1], Captured)
    <3>1. Shows(arch, main_pid, CallerRegs(arch))
      BY CallerIsAtItsCall DEF RegsInv
    <3>2. \A t : t # main_pid => Shows(arch, t, PtraceRegs(arch))
      BY DEF Shows, PtraceRegs
    <3> QED
      BY <3>1, <3>2 DEF Captured, CallerRegs
  <2> HIDE DEF RegsInv
  <2>4. /\ thread_regs' \in Seq({CallerRegs(arch), PtraceRegs(arch)})
        /\ Len(thread_regs') = Len(thread_regs) + 1 /\ Len(thread_regs) \in Nat
        /\ thread_regs'[Len(thread_regs) + 1] = Captured
        /\ \A k \in 1 .. Len(thread_regs) : thread_regs'[k] = thread_regs[k]
    BY <1>1, <2>2 DEF RegsInv
  <2>5. ASSUME NEW k \in 1 .. Len(thread_regs')
        PROVE  Shows(arch, pids[k], thread_regs'[k])
    <3>1. k \in 1 .. Len(thread_regs) \/ k = Len(thread_regs) + 1
      BY <2>4
    <3> QED
      BY <2>3, <2>4, <3>1 DEF RegsInv
  <2> QED
    BY <2>1, <2>4, <2>5 DEF RegsInv, CallerRegs
<1>2. CASE UNCHANGED thread_regs /\ Error
  BY <1>2 DEF RegsInv, ReadThread, callVars, Error, Shows, CallerRegs
<1> QED
  BY <1>1, <1>2 DEF ReadThread

\* Between two calls nothing is kept; in a call only ReadThread adds registers.
LEMMA RegsInvariant == Spec => []RegsInv
<1>1. Init => RegsInv
  BY DEF Init, RegsInv, None
<1>2. ASSUME RegsInv, [Next]_vars PROVE RegsInv'
  <2>1. CASE arch' = arch /\ thread_regs' = <<>>
    BY <1>2, <2>1 DEF RegsInv
  <2>2. CASE UNCHANGED <<arch, pids, thread_regs>> /\ (pc' = "idle" => pc = "idle")
    BY <1>2, <2>2 DEF RegsInv, Shows, CallerRegs
  <2>3. ASSUME NEW file, NEW p, List(file, p) PROVE RegsInv'
    BY <2>1, <2>3 DEF List, None
  <2>4. CASE Call
    <3>1. CASE GetCoreDumpWith
      <4>1. CASE GetCoreDumpFunction(params)
        BY <2>3, <4>1 DEF GetCoreDumpFunction
      <4>2. CASE ~GetCoreDumpFunction(params)
        BY <1>2, <2>1, <3>1, <4>2 DEF GetCoreDumpWith, RegsInv
      <4> QED
        BY <4>1, <4>2
    <3>2. CASE GetCoreDump \/ GetCompressedCoreDump
      BY <2>3, <3>2, Zenon
      DEF GetCoreDump, GetCompressedCoreDump, GetCoreDumpFunction
    <3>3. CASE \/ WriteCoreDump \/ WriteCoreDumpWith \/ WriteCoreDumpLimited
               \/ WriteCoreDumpLimitedByPriority \/ WriteCompressedCoreDump
      BY <2>3, <3>3, Zenon
      DEF WriteCoreDump, WriteCoreDumpWith, WriteCoreDumpLimited,
          WriteCoreDumpLimitedByPriority, WriteCompressedCoreDump, WriteCoreDumpFunction
    <3> QED
      BY <2>4, <3>1, <3>2, <3>3, Zenon DEF Call
  <2>5. CASE Change
    BY <2>2, <2>5 DEF Change, dumpVars
  <2>6. CASE Callback
    BY <2>2, <2>6 DEF Callback, callVars, Error
  <2>7. CASE ReadMips \/ ReadAarch64
    BY <1>2, <2>7, ReadThreadShows DEF ReadMips, ReadAarch64
  <2>8. CASE ReadX86
    BY <1>2, <2>8, ReadThreadShows DEF ReadX86
  <2>9. CASE BuildPrpsinfo \/ BuildPrstatus \/ ReadParameters
    BY <2>2, <2>9 DEF BuildPrpsinfo, BuildPrstatus, ReadParameters, callVars
  <2>10. CASE Deliver
    BY <2>2, <2>10 DEF Deliver, callVars, Error
  <2>11. CASE Return
    BY <2>1, <2>11 DEF Return, None
  <2>12. CASE UNCHANGED vars
    BY <2>2, <2>12 DEF vars, dumpVars
  <2> QED
    BY <1>2, <2>4, <2>5, <2>6, <2>7, <2>8, <2>9, <2>10, <2>11, <2>12, Zenon
    DEF Next, Terminated
<1> QED
  BY <1>1, <1>2, PTL DEF Spec

\* On every architecture and for every list of threads, the core shows the caller at its
\* call and every other thread where it was suspended (elfcore.h:60).
THEOREM ThreadsAreShownWhereTheyWere ==
  Spec => []ThreadsAreWhereTheyWere
<1>1. RegsInv => ThreadsAreWhereTheyWere
  BY DEF RegsInv, Shows, ThreadsAreWhereTheyWere
<1> QED
  BY <1>1, RegsInvariant, PTL
=============================================================================

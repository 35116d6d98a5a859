-------------------------- MODULE SerializeProofs --------------------------
(* Proofs about Serialize: the memory probes, and what is dumped. *)
EXTENDS Serialize, WellFoundedInduction, TLAPS

\* Slots stay in the pipe only after a call that failed.
Slots == slots \in Nat /\ faults \in Nat /\ slots <= faults

\* Min of a set of naturals is its smallest element.
LEMMA MinIsElement ==
  ASSUME NEW S \in SUBSET Nat, S # {}
  PROVE  Min(S) \in S /\ \A y \in S : Min(S) <= y
<1> DEFINE Less == {ss \in Nat \X Nat : ss[1] < ss[2]}
<1>1. IsWellFoundedOn(Less, Nat)
  BY NatLessThanWellFounded DEF OpToRel
<1>2. PICK x \in S : \A y \in S : ~(<<y, x>> \in Less)
  <2> HIDE DEF Less
  <2> QED BY <1>1, WFMin
<1>3. ASSUME NEW y \in S PROVE x <= y
  <2>1. <<y, x>> \in Nat \X Nat /\ <<y, x>>[1] = y /\ <<y, x>>[2] = x
    OBVIOUS
  <2>2. ~(y < x)
    BY <1>2, <2>1
  <2> QED
    BY <2>2
<1> QED
  BY <1>3, Zenon DEF Min

\* A copy leaves the pipe as it was, or empty (read_memory, clear_probe_slots).
LEMMA CopyClears ==
  ASSUME NEW a, NEW n, NEW c \in Copied(a, n)
  PROVE  c[2] \in {0, slots}
BY DEF Copied, Cleared

\* No step leaves a slot in the pipe unless a call failed in it.
LEMMA SlotsStep ==
  ASSUME Slots, [Next]_vars
  PROVE  Slots'
<1> USE DEF Slots, Fault
<1>1. CASE ParseMaps
  BY <1>1 DEF ParseMaps
<1>2. CASE Enrich
  <2>1. slots' = slots
    BY <1>2, Zenon DEF Enrich
  <2>2. faults' = faults \/ faults' = faults + 1
    BY <1>2, Zenon DEF Enrich
  <2> QED
    BY <2>1, <2>2
<1>3. CASE Scan
  <2>1. \/ slots' = slots /\ faults' = faults
        \/ \E wrote : slots' = Cleared(page, wrote) /\ faults' = faults
        \/ \E wrote : slots' = Emptied(page, wrote) /\ faults' = faults + 1
    BY <1>3, Zenon DEF Scan
  <2> QED
    BY <2>1 DEF Cleared, Emptied
<1>4. CASE Scanned
  BY <1>4 DEF Scanned
<1>5. CASE Limit
  BY <1>5 DEF Limit
<1>6. CASE WriteEhdr
  BY <1>6 DEF WriteEhdr, WriteFull
<1>7. CASE WritePhdrs
  BY <1>7 DEF WritePhdrs, WriteFull
<1>8. CASE WriteNotes
  BY <1>8 DEF WriteNotes, WriteFull
<1>9. CASE WritePadding
  BY <1>9 DEF WritePadding, WriteFull
<1>10. CASE Copy
  BY <1>10, CopyClears DEF Copy, WriteFull, copy
<1>11. CASE Ended \/ UNCHANGED vars
  BY <1>11 DEF Ended, vars
<1> QED
  BY <1>1, <1>2, <1>3, <1>4, <1>5, <1>6, <1>7, <1>8, <1>9, <1>10, <1>11 DEF Next

\* However many pages cannot be read, and in whatever order, a probe finds no slot left
\* by an earlier one unless a system call failed: clear_probe_slots is enough.
THEOREM RoomForProbes == Spec => []ProbesFindRoom
<1>1. Init => Slots
  BY DEF Init, Slots
<1>2. Slots => ProbesFindRoom
  BY DEF Slots, ProbesFindRoom
<1> QED
  BY <1>1, <1>2, SlotsStep, PTL DEF Spec

\* Cells read without the pipe can be read, as long as no call failed.
Safe ==
  /\ in \in Inputs /\ lead \in Nat /\ faults \in Nat
  /\ \A j \in 1 .. Len(maps) : maps[j].start \in Nat /\ "start" \in DOMAIN maps[j]
  /\ k \in Nat \ {0} /\ Len(maps) \in Nat /\ DOMAIN maps = 1 .. Len(maps)
  /\ faults = 0 => touched \cap in.bad = {}

\* A probe that copies a page whole has read its first cell.
LEMMA WholePageIsReadable ==
  ASSUME in \in Inputs, NEW a \in Nat, NEW wrote \in Probed(a, page), ~Unreadable(wrote)
  PROVE  a \notin in.bad
<1> DEFINE bad == {i \in 0 .. page - 1 : a + i \in in.bad}
<1>1. page \in Nat \ {0}
  BY SerializeAssumption DEF page
<1>2. SUFFICES ASSUME a \in in.bad PROVE FALSE
  OBVIOUS
<1>3. bad \in SUBSET Nat /\ 0 \in bad
  BY <1>1, <1>2
<1>4. Min(bad) \in bad
  <2> HIDE DEF bad
  <2> QED BY <1>3, MinIsElement
<1>5. wrote \in {Min(bad), Min(bad) - (Min(bad) % page)}
  BY <1>3 DEF Probed
<1>6. Min(bad) \in 0 .. page - 1
  BY <1>4
<1> HIDE DEF bad
<1> QED
  BY <1>1, <1>5, <1>6 DEF Unreadable

\* Every step leaves it so: only Scan touches memory, after a probe of the same page.
LEMMA SafeStep ==
  ASSUME Safe, [Next]_vars
  PROVE  Safe'
<1>1. CASE ParseMaps
  <2> DEFINE n == Min({Len(in.maps), MAX_MAPPINGS})
             first(i, cut) ==
               [j \in 1 .. i |-> IF j = cut THEN Cut(Parsed(in.maps[j])) ELSE Parsed(in.maps[j])]
  <2>1. n \in Nat /\ n <= Len(in.maps)
    <3>1. {Len(in.maps), MAX_MAPPINGS} \in SUBSET Nat
      BY SerializeAssumption DEF Safe
    <3> QED BY <3>1, MinIsElement
  <2>2. UNCHANGED <<in, lead, k, touched>> /\ (faults' = faults \/ faults' = faults + 1)
    BY <1>1, Zenon DEF ParseMaps, Fault, config, scan
  <2>3. maps' = maps \/ \E i \in 0 .. n : \E cut \in {0, i} : maps' = first(i, cut)
    <3>1. maps' = maps \/ maps' = first(n, 0) \/ \E i \in 0 .. n : \E cut \in {0, i} : maps' = first(i, cut)
      BY <1>1, Zenon DEF ParseMaps
    <3> HIDE DEF n, first
    <3> QED BY <2>1, <3>1
  <2>4. ASSUME NEW i \in 0 .. n, NEW cut \in {0, i}
        PROVE  Len(first(i, cut)) = i /\ DOMAIN first(i, cut) = 1 .. i
               /\ \A j \in 1 .. i : first(i, cut)[j].start \in Nat /\ "start" \in DOMAIN first(i, cut)[j]
    <3>1. \A j \in 1 .. i : in.maps[j].start \in Nat
      <4> HIDE DEF n, first
      <4> QED BY <2>1, SerializeAssumption DEF Safe
    <3>2. \A j \in 1 .. i : /\ Parsed(in.maps[j]).start = in.maps[j].start
                            /\ "start" \in DOMAIN Parsed(in.maps[j])
      BY DEF Parsed
    <3>3. \A j \in 1 .. i : /\ Cut(Parsed(in.maps[j])).start = in.maps[j].start
                            /\ "start" \in DOMAIN Cut(Parsed(in.maps[j]))
      BY DEF Parsed, Cut
    <3>4. \A j \in 1 .. i : first(i, cut)[j] \in {Parsed(in.maps[j]), Cut(Parsed(in.maps[j]))}
      OBVIOUS
    <3>5. Len(first(i, cut)) = i
      <4> HIDE DEF n
      <4> QED BY <2>1
    <3>6. DOMAIN first(i, cut) = 1 .. i
      OBVIOUS
    <3> HIDE DEF first
    <3> QED BY <3>1, <3>2, <3>3, <3>4, <3>5, <3>6
  <2> HIDE DEF n, first
  <2>5. \/ maps' = maps
        \/ /\ Len(maps') \in 0 .. n /\ DOMAIN maps' = 1 .. Len(maps')
           /\ \A j \in 1 .. Len(maps') : maps'[j].start \in Nat /\ "start" \in DOMAIN maps'[j]
    BY <2>3, <2>4
  <2> QED
    BY <2>1, <2>2, <2>5 DEF Safe
<1>2. CASE Enrich
  <2>1. UNCHANGED <<in, lead, k, touched>>
    BY <1>2, Zenon DEF Enrich, config, scan
  <2>2. faults' = faults \/ faults' = faults + 1
    BY <1>2, Zenon DEF Enrich, Fault
  <2> DEFINE dd(i) == \E s \in sections' : Matches(s, maps[i]) /\ s.dd
             anon(i) == \E s \in sections' : Matches(s, maps[i]) /\ s.anon
  <2>3. \/ maps' = maps
        \/ maps' = [i \in DOMAIN maps |->
                      [maps[i] EXCEPT !.dontdump = dd(i), !.has_anon_pages = anon(i)]]
    BY <1>2, Zenon DEF Enrich, source
  <2> DEFINE new(i) == [maps[i] EXCEPT !.dontdump = dd(i), !.has_anon_pages = anon(i)]
             n == Len(maps)
  <2> HIDE DEF dd, anon
  <2>4. ASSUME NEW j \in 1 .. n PROVE "start" \in DOMAIN maps[j] => new(j).start = maps[j].start /\ "start" \in DOMAIN new(j)
    OBVIOUS
  <2>5. maps' = maps \/ maps' = [i \in 1 .. n |-> new(i)]
    BY <2>3, Zenon DEF Safe
  <2> HIDE DEF new, n
  <2>6. n \in Nat
    BY DEF n, Safe
  <2>7. CASE maps' = maps
    BY <2>1, <2>2, <2>7 DEF Safe
  <2>8. CASE maps' = [i \in 1 .. n |-> new(i)]
    <3>1. DOMAIN maps' = 1 .. n /\ Len(maps') = n
      BY <2>6, <2>8
    <3>2. \A j \in 1 .. n : maps'[j] = new(j)
      BY <2>8
    <3>3. \A j \in 1 .. n : maps'[j].start \in Nat /\ "start" \in DOMAIN maps'[j]
      BY <3>2, <2>4 DEF Safe, n
    <3> QED
      BY <2>1, <2>2, <2>6, <3>1, <3>3 DEF Safe
  <2> QED
    BY <2>5, <2>7, <2>8
<1>3. CASE Scan
  <2> DEFINE a == maps[k].start + lead
  <2>1. UNCHANGED <<in, maps>> /\ k <= Len(maps)
    BY <1>3 DEF Scan, config, source
  <2>2. \/ k' = k + 1 /\ lead' = 0 /\ UNCHANGED <<touched, faults>>
        \/ lead' = lead + page /\ UNCHANGED <<k, touched, faults>>
        \/ /\ faults' = faults /\ Keep
           /\ \E wrote \in Probed(a, page) : ~Unreadable(wrote)
        \/ faults' = faults + 1 /\ Keep
    BY <1>3, Zenon DEF Scan, Fault
  <2>3. a \in Nat
    BY <2>1 DEF Safe
  <2>4. Keep => k' = k + 1 /\ lead' = 0 /\ touched' \subseteq touched \cup {a}
    BY DEF Keep
  <2>5. page \in Nat
    BY SerializeAssumption DEF Safe, page
  <2>6. (\E wrote \in Probed(a, page) : ~Unreadable(wrote)) => a \notin in.bad
    BY <2>3, WholePageIsReadable DEF Safe
  <2> HIDE DEF a
  <2> QED
    BY <2>1, <2>2, <2>4, <2>5, <2>6 DEF Safe
<1>4. CASE Scanned
  BY <1>4 DEF Scanned, config, source, Safe
<1>5. CASE Limit
  BY <1>5 DEF Limit, config, source, scan, Safe
<1>6. CASE WriteEhdr
  BY <1>6 DEF WriteEhdr, WriteFull, Fault, config, source, scan, Safe
<1>7. CASE WritePhdrs
  BY <1>7 DEF WritePhdrs, WriteFull, Fault, config, source, scan, Safe
<1>8. CASE WriteNotes
  BY <1>8 DEF WriteNotes, WriteFull, Fault, config, source, scan, Safe
<1>9. CASE WritePadding
  BY <1>9 DEF WritePadding, WriteFull, Fault, config, source, scan, Safe
<1>10. CASE Copy
  <2>1. UNCHANGED <<in, maps, lead, touched>>
    BY <1>10 DEF Copy, config, source
  <2>2. (k' = k \/ k' = k + 1) /\ (faults' = faults \/ faults' = faults + 1)
    BY <1>10 DEF Copy, WriteFull, Fault, copy
  <2> QED
    BY <2>1, <2>2 DEF Safe
<1>11. CASE Ended \/ UNCHANGED vars
  BY <1>11 DEF Ended, vars, config, source, scan, Safe
<1> QED
  BY <1>1, <1>2, <1>3, <1>4, <1>5, <1>6, <1>7, <1>8, <1>9, <1>10, <1>11 DEF Next

\* first_bytes_are_elf reads memory directly, and never a page that cannot be read: the
\* scan for leading zeros has just copied that page, unless a system call failed.
THEOREM DirectReadsAreSafe == Spec => []ReadsAreSafe
<1>1. Init => Safe
  BY DEF Init, Safe
<1>2. Safe => ReadsAreSafe
  BY DEF Safe, ReadsAreSafe
<1> QED
  BY <1>1, <1>2, SafeStep, PTL DEF Spec

-----------------------------------------------------------------------------
(* What is dumped. *)

IsSequence(s) == Len(s) \in Nat /\ s = [i \in 1 .. Len(s) |-> s[i]]

\* Mapping j is the one read, and smaps says of it what its section says.
AsRead(j) ==
  /\ maps[j].start = in.maps[j].start /\ maps[j].end = in.maps[j].end
  /\ maps[j].readable = in.maps[j].readable /\ maps[j].writable = in.maps[j].writable
  /\ maps[j].is_anon = in.maps[j].is_anon /\ maps[j].is_device = in.maps[j].is_device

Matched(j) ==
  /\ maps[j].dontdump <=> \E s \in sections : s.start = in.maps[j].start /\ s.dd
  /\ maps[j].has_anon_pages <=> \E s \in sections : s.start = in.maps[j].start /\ s.anon

\* A segment of sz cells lies in a mapping that is to be dumped.
Within(i, sz) ==
  \E j \in 1 .. Len(maps) :
    /\ ~Skipped(maps[j])
    /\ maps[j].start <= kept[i].start /\ kept[i].start + sz[i] <= maps[j].end

Segments(sz) ==
  /\ IsSequence(kept) /\ sz \in Seq(Nat) /\ Len(sz) = Len(kept)
  /\ \A i \in 1 .. Len(kept) : kept[i].start \in Nat /\ Within(i, sz)

InSegment(a, sz) ==
  \E i \in 1 .. Len(kept) : kept[i].start <= a /\ a < kept[i].start + sz[i]

\* What only the process has of mapping j is in a segment.
Saved(j, sz) ==
  ~Skipped(maps[j]) /\ Whole(maps[j]) =>
    \A a \in maps[j].start .. maps[j].end - 1 : Content(a) # "0" => InSegment(a, sz)

\* leading_zeros has passed over zeros only, page by page.
Leading ==
  LET m == maps[k] IN
  /\ m.start + lead <= m.end /\ (m.start + lead) % page = 0
  /\ \A a \in m.start .. m.start + lead - 1 : Content(a) = "0"

Scanning ==
  /\ Segments(size) /\ \A j \in 1 .. Len(maps) : j < k => Saved(j, size)
  /\ k <= Len(maps) => Leading

Selected == Segments(orig) /\ \A j \in 1 .. Len(maps) : Saved(j, orig)

Headed == DOMAIN ph = 1 .. Len(kept) /\ \A i \in 1 .. Len(kept) : ph[i].vaddr = kept[i].start

\* As long as no call fails: the mappings are those of the process, scanned ones are in
\* the segments or not to be dumped, and the headers are those of the segments.
Faithful ==
  /\ pc \in {"maps", "smaps"} => kept = <<>> /\ size = <<>> /\ k = 1 /\ lead = 0
  /\ pc # "maps" => Len(maps) = Min({Len(in.maps), MAX_MAPPINGS})
  /\ pc = "smaps" => \A j \in 1 .. Len(maps) : maps[j] = Parsed(in.maps[j])
  /\ pc \notin {"maps", "smaps"} => \A j \in 1 .. Len(maps) : AsRead(j) /\ Matched(j)
  /\ pc = "scan" => Scanning
  /\ pc \notin {"maps", "smaps", "scan"} => Selected
  /\ pc \in {"notes", "pad", "copy", "end"} /\ res # "err" => Headed
  /\ pc # "end" => res # "err"

Dumps == faults = 0 => Faithful

\* Arithmetic of pages: a page that starts before an aligned end lies before it.
LEMMA NextPage ==
  ASSUME NEW p \in Nat \ {0}, NEW a \in Nat, NEW e \in Nat, a % p = 0, e % p = 0, a < e
  PROVE  a + p <= e /\ (a + p) % p = 0
<1>1. a = p * (a \div p) /\ e = p * (e \div p) /\ a \div p \in Nat /\ e \div p \in Nat
  OBVIOUS
<1> DEFINE c == a \div p
           d == e \div p
<1>2. c \in Nat /\ d \in Nat /\ a = p * c /\ e = p * d
  BY <1>1
<1> HIDE DEF c, d
<1>3. c < d
  BY <1>2
<1>4. p * (c + 1) <= p * d /\ p * (c + 1) = a + p
  BY <1>2, <1>3
<1>5. (p * (c + 1)) % p = 0
  BY <1>2
<1> QED
  BY <1>2, <1>4, <1>5

\* Append to a sequence.
LEMMA AppendIs ==
  ASSUME NEW s, IsSequence(s), NEW e
  PROVE  /\ IsSequence(Append(s, e)) /\ Len(Append(s, e)) = Len(s) + 1
         /\ \A i \in 1 .. Len(s) : Append(s, e)[i] = s[i]
         /\ Append(s, e)[Len(s) + 1] = e
<1> DEFINE S == {s[i] : i \in 1 .. Len(s)} \cup {e}
<1>1. s \in Seq(S) /\ e \in S
  BY DEF IsSequence
<1> HIDE DEF S
<1>2. Append(s, e) \in Seq(S) /\ Len(Append(s, e)) = Len(s) + 1 /\ Len(s) \in Nat
  BY <1>1
<1>3. Append(s, e) = [i \in 1 .. Len(Append(s, e)) |-> Append(s, e)[i]]
  <2> DEFINE t == Append(s, e)
  <2>1. t \in Seq(S)
    BY <1>2
  <2> HIDE DEF t
  <2>2. t \in [1 .. Len(t) -> S]
    BY <2>1
  <2>3. t = [i \in 1 .. Len(t) |-> t[i]]
    BY <2>2, Zenon
  <2> QED
    BY <2>3 DEF t
<1> QED
  BY <1>1, <1>2, <1>3 DEF IsSequence

\* The mappings parsed have what the kernel guarantees of those of the process.
LEMMA MappingFacts ==
  ASSUME Safe, Len(maps) = Min({Len(in.maps), MAX_MAPPINGS}), NEW j \in 1 .. Len(maps), AsRead(j)
  PROVE  /\ j \in 1 .. Len(in.maps) /\ maps[j].start \in Nat /\ maps[j].end \in Nat
         /\ maps[j].start <= maps[j].end /\ maps[j].start % page = 0 /\ maps[j].end % page = 0
         /\ \A a \in maps[j].start .. maps[j].end - 1 : a % page = 0 =>
              \/ \A b \in a .. a + page - 1 : b \in in.bad
              \/ \A b \in a .. a + page - 1 : b \notin in.bad
<1>1. {Len(in.maps), MAX_MAPPINGS} \in SUBSET Nat
  BY SerializeAssumption DEF Safe
<1>2. Len(maps) \in Nat /\ Len(maps) <= Len(in.maps) /\ Len(in.maps) \in Nat
  BY <1>1, MinIsElement DEF Safe
<1>3. j \in 1 .. Len(in.maps)
  BY <1>2
<1>4. in \in Inputs
  BY DEF Safe
<1> QED
  BY <1>3, <1>4, SerializeAssumption, MappingsAssumption, Zenon DEF AsRead, page

\* The segments stay selected as long as they, the mappings and the memory stay.
LEMMA SelectedStays ==
  ASSUME Selected, UNCHANGED <<in, maps, kept, orig>>
  PROVE  Selected'
BY DEF Selected, Segments, Within, Saved, InSegment, Content, Skipped, Whole, IsSequence

\* A page that the probe does not copy, or that holds zeros, is zeros.
LEMMA PageOfZeros ==
  ASSUME Safe, NEW a \in Nat, NEW wrote \in Probed(a, page),
         \/ \A b \in a .. a + page - 1 : b \in in.bad
         \/ \A b \in a .. a + page - 1 : b \notin in.bad,
         Unreadable(wrote) \/ ZeroPage([i \in 1 .. page |-> in.mem[a + i - 1]])
  PROVE  \A b \in a .. a + page - 1 : Content(b) = "0"
<1>1. page \in Nat \ {0}
  BY SerializeAssumption DEF Safe, page
<1>2. CASE ZeroPage([i \in 1 .. page |-> in.mem[a + i - 1]])
  <2> TAKE b \in a .. a + page - 1
  <2>1. b - a + 1 \in 1 .. page /\ a + (b - a + 1) - 1 = b
    BY <1>1
  <2>2. in.mem[a + (b - a + 1) - 1] = "0"
    BY <1>2, <2>1 DEF ZeroPage
  <2> QED
    BY <2>1, <2>2 DEF Content
<1>3. CASE Unreadable(wrote)
  <2> DEFINE bad == {i \in 0 .. page - 1 : a + i \in in.bad}
  <2>1. bad # {}
    <3>1. bad = {} => wrote = page
      BY DEF Probed
    <3> QED
      BY <1>1, <1>3, <3>1 DEF Unreadable
  <2>2. PICK i \in 0 .. page - 1 : a + i \in in.bad
    BY <2>1
  <2>3. a + i \in a .. a + page - 1
    BY <1>1
  <2>4. \A b \in a .. a + page - 1 : b \in in.bad
    BY <2>2, <2>3
  <2> QED
    BY <2>4 DEF Content
<1> QED
  BY <1>2, <1>3

\* Before the first page of a mapping nothing has been passed over.
LEMMA LeadingStarts ==
  ASSUME Safe, Len(maps) = Min({Len(in.maps), MAX_MAPPINGS}),
         \A j \in 1 .. Len(maps) : AsRead(j),
         UNCHANGED <<in, maps>>, k' \in 1 .. Len(maps), lead' = 0
  PROVE  Leading'
<1> DEFINE j == k'
<1>1. /\ maps[j].start \in Nat /\ maps[j].end \in Nat
      /\ maps[j].start <= maps[j].end /\ maps[j].start % page = 0
  BY MappingFacts, Zenon
<1>2. maps'[k'] = maps[j] /\ page' = page
  BY DEF page
<1> HIDE DEF j
<1>3. /\ maps[j].start + 0 = maps[j].start
      /\ \A c \in maps[j].start .. maps[j].start + 0 - 1 : FALSE
  <2>1. \A x \in Nat : x + 0 = x /\ \A c \in x .. x + 0 - 1 : FALSE
    OBVIOUS
  <2> QED BY <1>1, <2>1, Zenon
<1> QED
  BY <1>1, <1>2, <1>3, Zenon DEF Leading

\* finalize_mappings, one step: what is passed over is zeros or not to be dumped, and
\* what is kept lies in its mapping and has the rest of it, if only the process has it.
LEMMA ScanSelects ==
  ASSUME Safe, Faithful, Scan, faults' = faults
  PROVE  Scanning'
<1> DEFINE m == maps[k]
           a == m.start + lead
<1>1. /\ pc = "scan" /\ k \in 1 .. Len(maps) /\ UNCHANGED <<in, maps>>
      /\ Len(maps) \in Nat /\ lead \in Nat /\ k \in Nat /\ faults \in Nat
  BY DEF Scan, config, source, Safe
<1>2. /\ Segments(size) /\ \A j \in 1 .. Len(maps) : j < k => Saved(j, size)
      /\ Leading
  BY <1>1 DEF Faithful, Scanning
<1>3. Len(maps) = Min({Len(in.maps), MAX_MAPPINGS}) /\ \A j \in 1 .. Len(maps) : AsRead(j)
  BY <1>1 DEF Faithful
<1>4. /\ m.start \in Nat /\ m.end \in Nat /\ m.end % page = 0
      /\ \A c \in m.start .. m.end - 1 : c % page = 0 =>
              \/ \A b \in c .. c + page - 1 : b \in in.bad
              \/ \A b \in c .. c + page - 1 : b \notin in.bad
  BY <1>1, <1>3, MappingFacts, Zenon
<1>5. /\ a \in Nat /\ a <= m.end /\ a % page = 0
      /\ \A c \in m.start .. a - 1 : Content(c) = "0"
  BY <1>1, <1>2, <1>4 DEF Leading
<1>6. page \in Nat \ {0}
  BY SerializeAssumption DEF Safe, page
<1>7. \/ (Skipped(m) \/ a = m.end) /\ k' = k + 1 /\ lead' = 0 /\ UNCHANGED segments
      \/ /\ ~Skipped(m) /\ a # m.end
         /\ lead' = lead + page /\ UNCHANGED <<segments, k>>
         /\ \E wrote \in Probed(a, page) :
              Unreadable(wrote) \/ ZeroPage([i \in 1 .. page |-> in.mem[a + i - 1]])
      \/ ~Skipped(m) /\ a # m.end /\ Keep
  BY Zenon DEF Scan
<1>8. CASE (Skipped(m) \/ a = m.end) /\ k' = k + 1 /\ lead' = 0 /\ UNCHANGED segments
  <2>1. Saved(k, size)
    BY <1>4, <1>5, <1>8 DEF Saved
  <2>2. \A j \in 1 .. Len(maps) : j < k + 1 => Saved(j, size)
    BY <1>1, <1>2, <2>1
  <2>3. kept' = kept /\ size' = size
    BY <1>8 DEF segments
  <2>4. Segments(size)'
    BY <1>1, <1>2, <2>3 DEF Segments, Within, Skipped, IsSequence
  <2>5. \A j \in 1 .. Len(maps) : Saved(j, size) => Saved(j, size)'
    BY <1>1, <2>3 DEF Saved, Skipped, Whole, InSegment, Content
  <2>6. k' <= Len(maps') => Leading'
    <3>1. k' <= Len(maps') => k' \in 1 .. Len(maps)
      BY <1>1, <1>8
    <3> QED BY <1>1, <1>3, <1>8, <3>1, LeadingStarts, Zenon
  <2> QED
    BY <1>1, <1>8, <2>2, <2>4, <2>5, <2>6 DEF Scanning
<1>9. CASE /\ ~Skipped(m) /\ a # m.end
           /\ lead' = lead + page /\ UNCHANGED <<segments, k>>
           /\ \E wrote \in Probed(a, page) :
                Unreadable(wrote) \/ ZeroPage([i \in 1 .. page |-> in.mem[a + i - 1]])
  <2>1. a + page <= m.end /\ (a + page) % page = 0 /\ a \in m.start .. m.end - 1
    <3>1. a < m.end /\ m.start <= a
      BY <1>1, <1>4, <1>5, <1>9
    <3> HIDE DEF a, m
    <3>2. a + page <= m.end /\ (a + page) % page = 0
      BY <3>1, <1>4, <1>5, <1>6, NextPage
    <3> QED BY <3>1, <3>2, <1>4, <1>5
  <2>2. \A b \in a .. a + page - 1 : Content(b) = "0"
    <3>1. \/ \A b \in a .. a + page - 1 : b \in in.bad
          \/ \A b \in a .. a + page - 1 : b \notin in.bad
      BY <1>4, <1>5, <2>1
    <3> HIDE DEF a, m
    <3> QED BY <1>5, <1>9, <3>1, PageOfZeros
  <2>3. \A c \in m.start .. a + page - 1 : Content(c) = "0"
    <3> HIDE DEF a, m
    <3> QED BY <1>4, <1>5, <1>6, <2>2
  <2>4. kept' = kept /\ size' = size /\ k' = k
    BY <1>9 DEF segments
  <2>5. Segments(size)'
    BY <1>1, <1>2, <2>4 DEF Segments, Within, Skipped, IsSequence
  <2>6. \A j \in 1 .. Len(maps) : Saved(j, size) => Saved(j, size)'
    BY <1>1, <2>4 DEF Saved, Skipped, Whole, InSegment, Content
  <2>7. maps'[k'] = m /\ m.start + lead' = a + page /\ page' = page
    BY <1>1, <1>4, <1>6, <1>9, <2>4 DEF page
  <2>8. \A c : Content(c)' = Content(c)
    BY <1>1 DEF Content
  <2>9. Leading'
    <3> HIDE DEF a, m
    <3>1. maps'[k'].start + lead' = a + page /\ maps'[k'].start = m.start /\ maps'[k'].end = m.end
      BY <2>7, Zenon
    <3>2. \A c \in maps'[k'].start .. maps'[k'].start + lead' - 1 : Content(c)' = "0"
      <4>1. maps'[k'].start .. maps'[k'].start + lead' - 1 = m.start .. a + page - 1
        <5>1. \A x, y, c, p \in Nat : x + y = c + p => x .. x + y - 1 = x .. c + p - 1
          OBVIOUS
        <5>2. m.start \in Nat /\ lead' \in Nat /\ a \in Nat /\ page \in Nat
          BY <1>1, <1>4, <1>5, <1>6, <1>9
        <5>3. m.start .. m.start + lead' - 1 = m.start .. a + page - 1
          BY <2>7, <5>1, <5>2
        <5> QED BY <3>1, <5>3, Zenon
      <4> QED BY <2>3, <2>8, <4>1
    <3>3. /\ maps'[k'].start + lead' <= maps'[k'].end
          /\ (maps'[k'].start + lead') % page' = 0
      BY <2>1, <2>7, <3>1, Zenon
    <3> QED BY <3>2, <3>3, Zenon DEF Leading
  <2> QED
    BY <1>1, <1>2, <2>4, <2>5, <2>6, <2>9 DEF Scanning
<1>10. CASE ~Skipped(m) /\ a # m.end /\ Keep
  <2> DEFINE s == [m EXCEPT !.start = @ + lead]
             n == Len(kept) + 1
  <2>1. kept' = Append(kept, s) /\ size' = Append(size, WriteSize(s)) /\ k' = k + 1 /\ lead' = 0
    BY <1>10 DEF Keep
  <2>2. "start" \in DOMAIN m
    BY <1>1 DEF Safe
  <2>3. s.start = a /\ s.end = m.end
    BY <2>2
  <2>4. Whole(s) = Whole(m)
    <3>1. s.is_anon = m.is_anon /\ s.has_anon_pages = m.has_anon_pages /\ s.writable = m.writable
      BY <2>2
    <3> HIDE DEF s, m
    <3> QED BY <3>1, Zenon DEF Whole
  <2> HIDE DEF s
  <2>5. a < m.end /\ a + page <= m.end
    <3>1. a < m.end
      BY <1>4, <1>5, <1>10
    <3> HIDE DEF a, m
    <3> QED BY <3>1, <1>4, <1>5, <1>6, NextPage
  <2>6. /\ WriteSize(s) \in Nat /\ a + WriteSize(s) <= m.end
        /\ Whole(m) => a + WriteSize(s) = m.end
    <3>1. WriteSize(s) \in {m.end - a, page, 0} /\ (Whole(m) => WriteSize(s) = m.end - a)
      BY <2>3, <2>4, Zenon DEF WriteSize
    <3> HIDE DEF a, m
    <3>2. m.end - a \in Nat /\ a + (m.end - a) = m.end /\ m.end <= m.end
      BY <1>4, <1>5
    <3>3. page \in Nat /\ 0 \in Nat /\ a + 0 <= m.end
      BY <1>4, <1>5, <1>6
    <3>4. \A w \in {m.end - a, page, 0} : w \in Nat /\ a + w <= m.end
      BY <2>5, <3>2, <3>3, Zenon
    <3> QED BY <3>1, <3>2, <3>4, Zenon
  <2>7. IsSequence(kept) /\ size \in Seq(Nat) /\ Len(size) = Len(kept) /\ Len(kept) \in Nat
    BY <1>2 DEF Segments, IsSequence
  <2>8. /\ IsSequence(kept') /\ Len(kept') = n /\ kept'[n] = s
        /\ \A i \in 1 .. Len(kept) : kept'[i] = kept[i]
    BY <2>1, <2>7, AppendIs
  <2>9. /\ size' \in Seq(Nat) /\ Len(size') = n /\ size'[n] = WriteSize(s)
        /\ \A i \in 1 .. Len(kept) : size'[i] = size[i]
    <3> DEFINE w == WriteSize(s)
    <3>1. size' = Append(size, w) /\ w \in Nat
      BY <2>1, <2>6
    <3> HIDE DEF w
    <3>2. /\ size' \in Seq(Nat) /\ Len(size') = n /\ size'[n] = w
          /\ \A i \in 1 .. Len(kept) : size'[i] = size[i]
      BY <3>1, <2>7
    <3> QED BY <3>2 DEF w
  <2> HIDE DEF n, a, m
  <2>10. n = Len(kept) + 1 /\ maps[k] = m /\ m.start <= a
    BY <1>1, <1>4 DEF n, m, a
  <2>11. Segments(size)'
    <3>1. ASSUME NEW i \in 1 .. n PROVE kept'[i].start \in Nat /\ Within(i, size)'
      <4>1. CASE i = n
        <5>1. /\ ~Skipped(m) /\ m.start <= kept'[n].start
              /\ kept'[n].start + size'[n] <= m.end
          BY <1>10, <2>3, <2>6, <2>8, <2>9, <2>10
        <5> QED BY <1>1, <1>5, <2>3, <2>8, <2>10, <4>1, <5>1 DEF Within, Skipped
      <4>2. CASE i \in 1 .. Len(kept)
        <5>1. kept[i].start \in Nat /\ Within(i, size)
          BY <1>2, <4>2 DEF Segments
        <5>2. kept'[i] = kept[i] /\ size'[i] = size[i]
          BY <2>8, <2>9, <4>2
        <5> QED BY <1>1, <5>1, <5>2 DEF Within, Skipped
      <4> QED BY <2>7, <2>10, <4>1, <4>2
    <3>2. Len(kept') = n /\ Len(size') = n /\ IsSequence(kept') /\ size' \in Seq(Nat)
      BY <2>8, <2>9
    <3> QED BY <3>1, <3>2 DEF Segments, IsSequence
  <2>12. \A c : InSegment(c, size) => InSegment(c, size)'
    BY <2>7, <2>8, <2>9, <2>10 DEF InSegment
  <2>13. \A c : Content(c)' = Content(c)
    BY <1>1 DEF Content
  <2>14. ASSUME NEW j \in 1 .. Len(maps), Saved(j, size) PROVE Saved(j, size)'
    BY <1>1, <2>12, <2>13, <2>14 DEF Saved, Skipped, Whole
  <2>15. ASSUME NEW j \in 1 .. Len(maps), j = k PROVE Saved(j, size)'
    <3>1. ASSUME Whole(m), NEW c \in m.start .. m.end - 1, Content(c) # "0"
          PROVE  InSegment(c, size)'
      <4>1. a <= c /\ c < a + WriteSize(s)
        BY <1>4, <1>5, <2>6, <3>1
      <4>2. n \in 1 .. Len(kept') /\ kept'[n].start = a /\ size'[n] = WriteSize(s)
        BY <2>3, <2>7, <2>8, <2>9, <2>10
      <4> QED BY <4>1, <4>2 DEF InSegment
    <3>2. maps'[j] = m
      BY <1>1, <2>10, <2>15
    <3>3. Whole(maps[j])' => Whole(m)
      BY <3>2, Zenon DEF Whole
    <3> QED BY <2>13, <3>1, <3>2, <3>3, Zenon DEF Saved
  <2>16. k' <= Len(maps') => Leading'
    <3>1. k' <= Len(maps') => k' \in 1 .. Len(maps)
      BY <1>1, <2>1
    <3> QED BY <1>1, <1>3, <2>1, <3>1, LeadingStarts, Zenon
  <2>17. \A j \in 1 .. Len(maps') : j < k' => Saved(j, size)'
    <3> SUFFICES ASSUME NEW j \in 1 .. Len(maps'), j < k' PROVE Saved(j, size)'
      OBVIOUS
    <3>1. j \in 1 .. Len(maps) /\ (j < k \/ j = k)
      BY <1>1, <2>1
    <3>2. CASE j < k
      BY <1>2, <2>14, <3>1, <3>2, Zenon
    <3>3. CASE j = k
      BY <2>15, <3>1, <3>3, Zenon
    <3> QED BY <3>1, <3>2, <3>3
  <2> QED
    BY <2>11, <2>16, <2>17 DEF Scanning
<1> QED
  BY <1>7, <1>8, <1>9, <1>10

\* A header write, as long as no call fails, goes on or ends in an error.
LEMMA WriteFullEnds ==
  ASSUME NEW s, NEW next, WriteFull(s, next), faults \in Nat, faults' = 0
  PROVE  (pc' = next /\ res' = res) \/ (pc' = "end" /\ res' = "err")
<1>1. ~Fault
  BY DEF Fault
<1>2. IF Taken(s) = s THEN pc' = next /\ UNCHANGED res ELSE Finish("err")
  BY <1>1, Zenon DEF WriteFull
<1> QED
  BY <1>2, Zenon DEF Finish

\* As long as no call fails, each step leaves the core faithful to the address space.
LEMMA FaithfulStep ==
  ASSUME Safe, Dumps, [Next]_vars
  PROVE  Dumps'
<1> SUFFICES ASSUME faults' = 0 PROVE Faithful'
  BY DEF Dumps
<1>a. faults \in Nat /\ ~(faults' = faults + 1)
  BY DEF Safe
<1>b. ~Fault
  BY <1>a DEF Fault
<1>1. CASE ParseMaps
  <2> DEFINE n == Min({Len(in.maps), MAX_MAPPINGS})
             first == [j \in 1 .. n |-> IF j = 0 THEN Cut(Parsed(in.maps[j])) ELSE Parsed(in.maps[j])]
  <2>1. pc = "maps" /\ pc' = "smaps" /\ maps' = first /\ UNCHANGED <<res, faults, in, segments, k, lead>>
    BY <1>1, <1>b, Zenon DEF ParseMaps, config, scan
  <2>2. Faithful
    BY <2>1 DEF Dumps
  <2>3. n \in Nat
    <3>1. {Len(in.maps), MAX_MAPPINGS} \in SUBSET Nat
      BY SerializeAssumption DEF Safe
    <3> QED BY <3>1, MinIsElement
  <2>4. Len(first) = n
    <3> HIDE DEF n
    <3> QED BY <2>3
  <2>5. \A j \in 1 .. n : first[j] = Parsed(in.maps[j])
    <3> HIDE DEF n
    <3> QED BY <2>3
  <2> HIDE DEF first
  <2>6. Len(maps') = Min({Len(in'.maps), MAX_MAPPINGS})
    BY <2>1, <2>4
  <2>7. \A j \in 1 .. Len(maps') : maps'[j] = Parsed(in'.maps[j])
    BY <2>1, <2>4, <2>5, Zenon
  <2>8. kept' = <<>> /\ size' = <<>> /\ k' = 1 /\ lead' = 0 /\ res' # "err"
    BY <2>1, <2>2 DEF Faithful, segments
  <2> HIDE DEF n
  <2>9. (\A j \in 1 .. Len(maps) : maps[j] = Parsed(in.maps[j]))'
    BY <2>7, Zenon DEF Parsed
  <2> QED
    BY <2>1, <2>6, <2>8, <2>9, Zenon DEF Faithful
<1>2. CASE Enrich
  <2> DEFINE dd(i) == \E s \in sections' : Matches(s, maps[i]) /\ s.dd
             anon(i) == \E s \in sections' : Matches(s, maps[i]) /\ s.anon
             new(i) == [maps[i] EXCEPT !.dontdump = dd(i), !.has_anon_pages = anon(i)]
  <2>1. /\ pc = "smaps" /\ pc' = "scan" /\ maps' = [i \in DOMAIN maps |-> new(i)]
        /\ UNCHANGED <<res, faults, in, segments, k, lead>>
    BY <1>2, <1>b, Zenon DEF Enrich, config, scan
  <2>2. Faithful
    BY <2>1, Zenon DEF Dumps
  <2>3. /\ Len(maps) = Min({Len(in.maps), MAX_MAPPINGS})
        /\ \A j \in 1 .. Len(maps) : maps[j] = Parsed(in.maps[j])
        /\ kept = <<>> /\ size = <<>> /\ k = 1 /\ lead = 0 /\ res # "err"
    BY <2>1, <2>2, Zenon DEF Faithful
  <2>4. Len(maps) \in Nat /\ DOMAIN maps = 1 .. Len(maps) /\ in \in Inputs
    BY DEF Safe
  <2> HIDE DEF dd, anon
  <2>5. ASSUME NEW j \in 1 .. Len(maps)
        PROVE  /\ new(j).start = in.maps[j].start /\ new(j).end = in.maps[j].end
               /\ new(j).readable = in.maps[j].readable /\ new(j).writable = in.maps[j].writable
               /\ new(j).is_anon = in.maps[j].is_anon /\ new(j).is_device = in.maps[j].is_device
               /\ new(j).dontdump = dd(j) /\ new(j).has_anon_pages = anon(j)
               /\ maps[j].start = in.maps[j].start /\ "start" \in DOMAIN new(j)
    <3>1. maps[j] = Parsed(in.maps[j])
      BY <2>3, Zenon
    <3> QED BY <3>1 DEF Parsed
  <2>6. Len(maps') = Len(maps) /\ \A j \in 1 .. Len(maps) : maps'[j] = new(j)
    <3> HIDE DEF new
    <3> QED BY <2>1, <2>4
  <2> HIDE DEF new
  <2>7. \A j \in 1 .. Len(maps') : AsRead(j)'
    BY <2>1, <2>5, <2>6 DEF AsRead
  <2>8. ASSUME NEW j \in 1 .. Len(maps') PROVE Matched(j)'
    <3>1. /\ j \in 1 .. Len(maps) /\ maps'[j].dontdump = dd(j) /\ maps'[j].has_anon_pages = anon(j)
          /\ maps[j].start = in'.maps[j].start
      BY <2>1, <2>5, <2>6
    <3> QED BY <3>1, Zenon DEF Matched, dd, anon, Matches
  <2>9. Len(maps') = Min({Len(in'.maps), MAX_MAPPINGS})
    BY <2>1, <2>3, <2>6
  <2>10. Scanning'
    <3>1. kept' = <<>> /\ size' = <<>> /\ k' = 1 /\ lead' = 0
      BY <2>1, <2>3 DEF segments
    <3>2. Segments(size)'
      BY <3>1 DEF Segments, IsSequence
    <3>3. \A j \in 1 .. Len(maps') : j < k' => Saved(j, size)'
      BY <3>1
    <3>4. ASSUME k' <= Len(maps') PROVE Leading'
      <4>1. 1 \in 1 .. Len(maps')
        BY <2>4, <2>6, <3>1, <3>4
      <4>2. /\ maps'[1].start \in Nat /\ maps'[1].end \in Nat
            /\ maps'[1].start <= maps'[1].end /\ maps'[1].start % in'.page = 0
        <5>1. 1 \in 1 .. Len(in.maps) /\ maps'[1].start = in.maps[1].start /\ maps'[1].end = in.maps[1].end
          <6>1. {Len(in.maps), MAX_MAPPINGS} \in SUBSET Nat
            BY <2>4, SerializeAssumption
          <6>2. Len(maps) <= Len(in.maps) /\ Len(in.maps) \in Nat
            BY <2>3, <6>1, MinIsElement
          <6> QED BY <2>4, <2>5, <2>6, <4>1, <6>2
        <5> QED BY <2>1, <2>4, <5>1, SerializeAssumption, MappingsAssumption, Zenon
      <4>3. \A x \in Nat : x + 0 = x /\ \A c \in x .. x + 0 - 1 : FALSE
        OBVIOUS
      <4> QED BY <3>1, <4>2, <4>3, Zenon DEF Leading, page
    <3> QED BY <3>2, <3>3, <3>4 DEF Scanning
  <2> QED
    BY <2>1, <2>3, <2>7, <2>8, <2>9, <2>10, Zenon DEF Faithful
<1>3. CASE Scan
  <2>1. pc = "scan" /\ faults' = faults /\ UNCHANGED <<in, maps, sections, pc, res>>
    BY <1>3, <1>b, Zenon DEF Scan, config, source
  <2>2. Faithful
    BY <2>1 DEF Dumps
  <2>3. Scanning'
    BY <1>3, <2>1, <2>2, ScanSelects
  <2> QED
    BY <2>1, <2>2, <2>3, Zenon DEF Faithful, AsRead, Matched
<1>4. CASE Scanned
  <2>1. /\ pc = "scan" /\ k > Len(maps) /\ orig' = size /\ pc' \in {"limit", "ehdr"}
        /\ UNCHANGED <<in, maps, sections, kept, res, faults>>
    BY <1>4 DEF Scanned, config, source, segments
  <2>2. Faithful
    BY <2>1 DEF Dumps
  <2>3. Segments(size) /\ \A j \in 1 .. Len(maps) : Saved(j, size)
    <3>1. k \in Nat /\ Len(maps) \in Nat
      BY DEF Safe
    <3> QED BY <2>1, <2>2, <3>1 DEF Faithful, Scanning
  <2>4. Selected'
    BY <2>1, <2>3 DEF Selected, Segments, Within, Saved, InSegment, Content, Skipped, Whole, IsSequence
  <2> QED
    BY <2>1, <2>2, <2>4, Zenon DEF Faithful, AsRead, Matched
<1>5. CASE Limit
  <2>1. /\ pc = "limit" /\ pc' \in {"limit", "ehdr"}
        /\ UNCHANGED <<in, maps, sections, kept, orig, res, faults>>
    BY <1>5, Zenon DEF Limit, config, source, layout
  <2>2. Faithful
    BY <2>1 DEF Dumps
  <2>3. Selected'
    BY <2>1, <2>2, SelectedStays, Zenon DEF Faithful
  <2> QED
    BY <2>1, <2>2, <2>3, Zenon DEF Faithful, AsRead, Matched
<1>6. CASE WriteEhdr
  <2>1. /\ pc = "ehdr" /\ UNCHANGED <<in, maps, sections, kept, orig>>
        /\ WriteFull(Cells("H", EHDR), "phdr")
    BY <1>6, <1>b, Zenon DEF WriteEhdr, config, source, segments, layout
  <2>2. (pc' = "phdr" /\ res' = res) \/ (pc' = "end" /\ res' = "err")
    BY <1>a, <2>1, WriteFullEnds
  <2>3. Faithful
    BY <1>a, <2>1, <1>b DEF Dumps, WriteFull
  <2>4. Selected'
    BY <2>1, <2>3, SelectedStays DEF Faithful
  <2> QED
    BY <2>1, <2>2, <2>3, <2>4, Zenon DEF Faithful, AsRead, Matched
<1>7. CASE WritePhdrs
  <2>1. /\ pc = "phdr" /\ UNCHANGED <<in, maps, sections, kept, orig>>
        /\ ph' = [i \in DOMAIN kept |-> Phdr(i)]
        /\ WriteFull(Cells("P", (Len(kept) + 1) * PHDR), "notes")
    BY <1>7, Zenon DEF WritePhdrs, config, source, segments
  <2>2. (pc' = "notes" /\ res' = res) \/ (pc' = "end" /\ res' = "err")
    BY <1>a, <2>1, WriteFullEnds
  <2>3. Faithful
    BY <1>a, <2>1, <1>b DEF Dumps, WriteFull
  <2>4. Selected'
    BY <2>1, <2>3, SelectedStays, Zenon DEF Faithful
  <2>5. Headed'
    <3>1. DOMAIN kept = 1 .. Len(kept)
      BY <2>1, <2>3 DEF Faithful, Selected, Segments, IsSequence
    <3>2. \A i : Phdr(i).vaddr = kept[i].start
      BY DEF Phdr
    <3> QED BY <2>1, <3>1, <3>2 DEF Headed
  <2> QED
    BY <2>1, <2>2, <2>3, <2>4, <2>5, Zenon DEF Faithful, AsRead, Matched
<1>8. CASE WriteNotes
  <2>1. /\ pc = "notes" /\ UNCHANGED <<in, maps, sections, kept, orig, ph>>
        /\ WriteFull(Cells("N", NotesWritten), "pad")
    BY <1>8, Zenon DEF WriteNotes, config, source, segments, layout
  <2>2. (pc' = "pad" /\ res' = res) \/ (pc' = "end" /\ res' = "err")
    BY <1>a, <2>1, WriteFullEnds
  <2>3. Faithful
    BY <1>a, <2>1, <1>b DEF Dumps, WriteFull
  <2>4. Selected'
    BY <2>1, <2>3, SelectedStays, Zenon DEF Faithful
  <2> QED
    BY <2>1, <2>2, <2>3, <2>4, Zenon DEF Faithful, Headed, AsRead, Matched
<1>9. CASE WritePadding
  <2>1. /\ pc = "pad" /\ UNCHANGED <<in, maps, sections, kept, orig, ph>>
        /\ WriteFull(Cells("0", note_align), "copy")
    BY <1>9, Zenon DEF WritePadding, config, source, segments, layout
  <2>2. (pc' = "copy" /\ res' = res) \/ (pc' = "end" /\ res' = "err")
    BY <1>a, <2>1, WriteFullEnds
  <2>3. Faithful
    BY <1>a, <2>1, <1>b DEF Dumps, WriteFull
  <2>4. Selected'
    BY <2>1, <2>3, SelectedStays, Zenon DEF Faithful
  <2> QED
    BY <2>1, <2>2, <2>3, <2>4, Zenon DEF Faithful, Headed, AsRead, Matched
<1>10. CASE Copy
  <2>1. /\ pc = "copy" /\ UNCHANGED <<in, maps, sections, kept, orig, ph>>
        /\ faults' = faults
    BY <1>10, <1>b, Zenon DEF Copy, WriteFull, config, source, segments, layout
  <2>2. \/ pc' = "copy" /\ res' = res
        \/ pc' = "end" /\ res' \in {"ok", "err"}
    BY <1>10, <1>b, Zenon DEF Copy, WriteFull, Finish
  <2>3. Faithful
    BY <2>1 DEF Dumps
  <2>4. Selected'
    BY <2>1, <2>3, SelectedStays, Zenon DEF Faithful
  <2> QED
    BY <2>1, <2>2, <2>3, <2>4, Zenon DEF Faithful, Headed, AsRead, Matched
<1>11. CASE Ended \/ UNCHANGED vars
  <2>1. UNCHANGED <<in, pc, maps, sections, kept, size, k, lead, orig, ph, res, faults>>
    BY <1>11 DEF Ended, vars, config, source, segments, scan, layout
  <2>2. Faithful
    BY <2>1 DEF Dumps
  <2>3. Selected => Selected'
    BY <2>1, SelectedStays, Zenon
  <2>4. Scanning => Scanning'
    BY <2>1 DEF Scanning, Segments, Within, Saved, InSegment, Content, Skipped, Whole, IsSequence, Leading, page
  <2> QED
    BY <2>1, <2>2, <2>3, <2>4, Zenon DEF Faithful, Headed, AsRead, Matched, Parsed
<1> QED
  BY <1>1, <1>2, <1>3, <1>4, <1>5, <1>6, <1>7, <1>8, <1>9, <1>10, <1>11 DEF Next

\* Without a call that fails the headers have every cell that only the process has, and
\* none of a mapping that is not to be dumped (enrich_from_smaps, finalize_mappings).
THEOREM DumpsRight == Spec => []DumpsWhatItShould
<1>1. Init => Safe
  BY DEF Init, Safe
<1>2. Init => Dumps
  BY DEF Init, Dumps, Faithful
<1>3. Safe /\ Dumps => DumpsWhatItShould
  <2> SUFFICES ASSUME Safe, Faithful, pc \in {"notes", "pad", "copy", "end"}, res # "err",
                      NEW n \in 1 .. Min({Len(in.maps), MAX_MAPPINGS}),
                      NEW a \in in.maps[n].start .. in.maps[n].end - 1
               PROVE  LET m == in.maps[n]
                          own == {s \in sections : s.start = m.start}
                          skipped == m.is_device \/ ~m.readable \/ \E s \in own : s.dd
                          unsaved == m.is_anon \/ m.writable \/ \E s \in own : s.anon
                          in_core == \E i \in DOMAIN ph : a >= ph[i].vaddr /\ a < ph[i].vaddr + orig[i] IN
                      /\ skipped => ~in_core
                      /\ ~skipped /\ unsaved /\ Content(a) # "0" => in_core
    BY Zenon DEF Dumps, DumpsWhatItShould
  <2> DEFINE m == in.maps[n]
             own == {s \in sections : s.start = m.start}
             skipped == m.is_device \/ ~m.readable \/ \E s \in own : s.dd
             unsaved == m.is_anon \/ m.writable \/ \E s \in own : s.anon
             in_core == \E i \in DOMAIN ph : a >= ph[i].vaddr /\ a < ph[i].vaddr + orig[i]
  <2>1. /\ Len(maps) = Min({Len(in.maps), MAX_MAPPINGS}) /\ Selected /\ Headed
        /\ \A j \in 1 .. Len(maps) : AsRead(j) /\ Matched(j)
    BY DEF Faithful
  <2>2. n \in 1 .. Len(maps) /\ AsRead(n) /\ Matched(n)
    BY <2>1, Zenon
  <2>3. /\ n \in 1 .. Len(in.maps) /\ maps[n].start = m.start /\ maps[n].end = m.end
        /\ m.start \in Nat /\ m.end \in Nat /\ a \in Nat
    <3>1. /\ n \in 1 .. Len(in.maps) /\ maps[n].start = m.start /\ maps[n].end = m.end
          /\ m.start \in Nat /\ m.end \in Nat
      BY <2>1, <2>2, MappingFacts, Zenon DEF AsRead
    <3> HIDE DEF m
    <3>2. a \in m.start .. m.end - 1
      BY DEF m
    <3> QED BY <3>1, <3>2
  <2>4. skipped <=> Skipped(maps[n])
    BY <2>2, Zenon DEF Skipped, AsRead, Matched
  <2>5. unsaved <=> Whole(maps[n])
    BY <2>2, Zenon DEF Whole, AsRead, Matched
  <2>6. in_core <=> InSegment(a, orig)
    <3>1. /\ DOMAIN ph = 1 .. Len(kept)
          /\ \A i \in 1 .. Len(kept) : ph[i].vaddr = kept[i].start /\ kept[i].start \in Nat
      BY <2>1 DEF Headed, Selected, Segments
    <3> QED BY <2>3, <3>1 DEF InSegment
  <2>7. ASSUME skipped, in_core PROVE FALSE
    <3>1. PICK i \in 1 .. Len(kept) : kept[i].start <= a /\ a < kept[i].start + orig[i]
      BY <2>6, <2>7 DEF InSegment
    <3>2. kept[i].start \in Nat /\ Within(i, orig) /\ orig[i] \in Nat
      BY <2>1 DEF Selected, Segments
    <3>3. PICK j \in 1 .. Len(maps) :
            /\ ~Skipped(maps[j])
            /\ maps[j].start <= kept[i].start /\ kept[i].start + orig[i] <= maps[j].end
      BY <3>2 DEF Within
    <3>4. /\ j \in 1 .. Len(in.maps) /\ AsRead(j) /\ maps[j].start \in Nat /\ maps[j].end \in Nat
      BY <2>1, MappingFacts, Zenon
    <3>5. n # j
      BY <2>4, <2>7, <3>3, Zenon
    <3>6. in.maps[n].end <= in.maps[j].start \/ in.maps[j].end <= in.maps[n].start
      BY <2>3, <3>4, <3>5, MappingsAssumption, Zenon DEF Safe
    <3>7. maps[n].end <= maps[j].start \/ maps[j].end <= maps[n].start
      BY <2>2, <3>4, <3>6 DEF AsRead
    <3> DEFINE x == maps[j].start
               y == maps[j].end
               v == kept[i].start
               w == orig[i]
    <3>8. /\ x \in Nat /\ y \in Nat /\ x <= a /\ a < y
      <4>1. /\ x \in Nat /\ y \in Nat /\ v \in Nat /\ w \in Nat
            /\ x <= v /\ v <= a /\ a < v + w /\ v + w <= y
        BY <3>1, <3>2, <3>3, <3>4, Zenon
      <4> HIDE DEF x, y, v, w
      <4> QED BY <2>3, <4>1
    <3>9. m.start <= a /\ a < m.end
      BY <2>3
    <3> HIDE DEF m, x, y
    <3>10. m.end <= x \/ y <= m.start
      BY <2>3, <3>7 DEF x, y
    <3> QED BY <2>3, <3>8, <3>9, <3>10
  <2>8. ASSUME ~skipped, unsaved, Content(a) # "0" PROVE in_core
    <3>1. a \in maps[n].start .. maps[n].end - 1
      BY <2>3
    <3>2. Saved(n, orig)
      BY <2>1, <2>2, Zenon DEF Selected
    <3> QED BY <2>4, <2>5, <2>6, <2>8, <3>1, <3>2, Zenon DEF Saved
  <2> QED
    BY <2>7, <2>8, Zenon
<1> QED
  BY <1>1, <1>2, <1>3, SafeStep, FaithfulStep, PTL DEF Spec
=============================================================================

----------------------------- MODULE Serialize -----------------------------
(***************************************************************************)
(* run_serialize and serialize_dump (corus-core/src/dump.rs): the mappings *)
(* are parsed, matched with smaps and filtered (proc_parse.rs), shrunk to  *)
(* a limit, and streamed as an ELF core (elfcore.rs, notes.rs) through a   *)
(* writer (io.rs).  Memory is read through a pipe, into which the kernel   *)
(* copies what it can read.                                                *)
(*                                                                         *)
(* Sizes and addresses count cells.  A cell of memory is "0", "d" or "E"   *)
(* (the ELF magic); one of the file is a cell of memory or "H" (Ehdr), "P" *)
(* (Phdr) or "N" (note).                                                   *)
(***************************************************************************)
EXTENDS Integers, Sequences, FiniteSets, FiniteSetsExt

CONSTANTS
  Inputs,        \* address spaces, with what was captured before
  Limits,        \* values of max_length; -1: None
  MAX_MAPPINGS,
  MinPage,       \* MIN_KERNEL_PAGE
  Buffer,        \* MEMORY_BUFFER_SIZE
  PipeSize,      \* capacity of a pipe
  EHDR, PHDR, NHDR, NOTE_ALIGN, Long,   \* sizes
  CORE_NAMESZ, CORE_NAME,  \* of the name of a note: size, and what is written for it
  Desc,          \* sizes of descriptors: prpsinfo, user, prstatus, fpregs, auxv
  MaxFaults      \* bound: system calls that fail

ASSUME SerializeAssumption ==
  /\ \A i \in Inputs : i.page \in Nat \ {0} /\ PipeSize >= i.page /\ i.page % MinPage = 0
  /\ \A i \in Inputs : Len(i.maps) \in Nat /\ \A j \in 1 .. Len(i.maps) : i.maps[j].start \in Nat
  /\ {MAX_MAPPINGS, MinPage, Buffer, NOTE_ALIGN} \subseteq Nat \ {0}
  /\ {EHDR, PHDR, NHDR, CORE_NAMESZ, Long, MaxFaults} \subseteq Nat

\* What the kernel keeps to: mappings are whole pages and do not overlap, and a page can
\* be read as a whole or not at all.
ASSUME MappingsAssumption ==
  \A i \in Inputs : \A j \in 1 .. Len(i.maps) :
    LET m == i.maps[j] IN
    /\ m.end \in Nat /\ m.start <= m.end /\ m.start % i.page = 0 /\ m.end % i.page = 0
    /\ \A l \in 1 .. Len(i.maps) : l # j => m.end <= i.maps[l].start \/ i.maps[l].end <= m.start
    /\ \A a \in m.start .. m.end - 1 : a % i.page = 0 =>
         \/ \A b \in a .. a + i.page - 1 : b \in i.bad
         \/ \A b \in a .. a + i.page - 1 : b \notin i.bad

VARIABLES
  in,           \* page size, memory, unreadable cells, maps, possible smaps, and
                \* the numbers of threads and of auxv entries and the extra notes
  limit,        \* opts.max_length
  prioritize,   \* opts.prioritize
  pc,
  sections,     \* what smaps says
  maps,         \* the mappings parsed
  kept, size,   \* those that are kept, and their write_size
  k, lead,      \* a mapping, and leading_zeros' count for it
  orig,         \* history: the sizes before the limiter
  ph,           \* the program headers of the segments
  off, scratch, \* copy loop: offset in mapping k, cells copied from there
  slots,        \* slots of the loopback pipe in use
  touched,      \* history: cells read without the pipe
  out,          \* the file
  res,          \* what serialize_dump returned: "ok" or "err"
  faults        \* history: system calls that failed

config == <<in, limit, prioritize>>
source == <<maps, sections>>
segments == <<kept, size>>
scan   == <<k, lead, touched>>
layout == <<orig, ph>>
copy   == <<off, scratch>>
vars   == <<config, pc, source, segments, scan, layout, copy, slots, out, res, faults>>

page == in.page

Fault == faults < MaxFaults /\ faults' = faults + 1

SumOf(s) == FoldSet(LAMBDA i, a : a + s[i], 0, DOMAIN s)

Init ==
  /\ in \in Inputs /\ limit \in Limits /\ prioritize \in BOOLEAN
  /\ pc = "maps" /\ maps = <<>> /\ sections = {} /\ kept = <<>> /\ size = <<>>
  /\ k = 1 /\ lead = 0 /\ touched = {}
  /\ orig = <<>> /\ ph = <<>> /\ off = 0 /\ scratch = <<>> /\ slots = 0
  /\ out = <<>> /\ res = "none" /\ faults = 0

-----------------------------------------------------------------------------
(* The writers. *)

\* What a writer takes of s: a LimitWriter no more than is left.
Taken(s) == IF limit = -1 THEN s ELSE SubSeq(s, 1, Min({Len(s), limit - Len(out)}))

DoneIfLimited == limit # -1   \* a mutant

done == limit # -1 /\ Len(out) = limit

\* What run_serialize returns.
Success == res = "ok" \/ done

Finish(r) == pc' = "end" /\ res' = r

\* write_full: all of s is taken and next follows, or serialize_dump ends.
WriteFull(s, next) ==
  \/ /\ out' = out \o Taken(s) /\ UNCHANGED faults
     /\ IF Taken(s) = s THEN pc' = next /\ UNCHANGED res ELSE Finish("err")
  \/ /\ Fault /\ Taken(s) # <<>>
     /\ \E n \in {0, Len(Taken(s)) - 1} : out' = out \o SubSeq(s, 1, n)
     /\ Finish("err")

-----------------------------------------------------------------------------
(* The mappings. *)

Parsed(m) ==
  [start |-> m.start, end |-> m.end, readable |-> m.readable, writable |-> m.writable,
   offset |-> m.offset, name_len |-> m.name_len, is_anon |-> m.is_anon, is_device |-> m.is_device,
   dontdump |-> FALSE, has_anon_pages |-> FALSE]

\* A line that ends before the name.
Cut(m) == [m EXCEPT !.name_len = 0, !.is_anon = TRUE, !.is_device = FALSE]

\* parse_self_maps: the mappings that there is room for.  A read error between lines
\* or in a name looks like the end of the file; others fail.
ParseMaps ==
  /\ pc = "maps"
  /\ LET n == Min({Len(in.maps), MAX_MAPPINGS})
         first(i, cut) ==
           [j \in 1 .. i |-> IF j = cut THEN Cut(Parsed(in.maps[j])) ELSE Parsed(in.maps[j])] IN
     \/ maps' = first(n, 0) /\ pc' = "smaps" /\ UNCHANGED <<res, faults>>
     \/ /\ Fault /\ pc' = "smaps" /\ UNCHANGED res
        /\ \E i \in 0 .. n : \E cut \in {0, i} : maps' = first(i, cut)
     \/ Fault /\ Finish("err") /\ UNCHANGED maps
  /\ UNCHANGED <<config, sections, segments, scan, layout, copy, slots, out>>

MatchesBefore(s, m) == s.start >= m.start   \* a mutant

\* A section of smaps is that of the mapping with its start, if there is one.
Matches(s, m) == s.start = m.start

\* enrich_from_smaps, after the pipe is made.  smaps may differ from maps; that it cannot
\* be opened does not matter, and a read error looks like its end.
Enrich ==
  /\ pc = "smaps"
  /\ \/ /\ \/ sections' \in in.smaps /\ UNCHANGED faults
           \/ Fault /\ \E all \in in.smaps : sections' \in SUBSET all \ {all}
        /\ maps' = [i \in DOMAIN maps |->
             [maps[i] EXCEPT
                !.dontdump = \E s \in sections' : Matches(s, maps[i]) /\ s.dd,
                !.has_anon_pages = \E s \in sections' : Matches(s, maps[i]) /\ s.anon]]
        /\ pc' = "scan" /\ UNCHANGED res
     \/ Fault /\ Finish("err") /\ UNCHANGED source
  /\ UNCHANGED <<config, segments, scan, layout, copy, slots, out>>

-----------------------------------------------------------------------------
(* Memory probes. *)

\* The kernel fills slot after slot; of a slot that it cannot fill it may keep nothing.
Probed(a, n) ==
  LET bad == {i \in 0 .. n - 1 : a + i \in in.bad} IN
  IF bad = {} THEN {n} ELSE {Min(bad), Min(bad) - (Min(bad) % page)}

\* A probe of n cells finds room in the pipe; it blocks otherwise.
Room(n) == slots + (n + page - 1) \div page <= PipeSize \div page

\* A slot that could not be filled stays in the pipe, empty, ...
Emptied(n, wrote) == IF wrote < n THEN slots + 1 ELSE slots

\* ... until clear_probe_slots.
Cleared(n, wrote) == IF wrote < n THEN 0 ELSE slots

-----------------------------------------------------------------------------
(* finalize_mappings. *)

Skipped(m) == m.is_device \/ m.dontdump \/ ~m.readable

Whole(m) == m.is_anon \/ m.has_anon_pages \/ m.writable

WriteSize(m) ==
  IF Whole(m) THEN m.end - m.start
  ELSE IF m.offset = 0 /\ in.mem[m.start] = "E" THEN page ELSE 0

\* What is left of mapping k without its leading zeros.  first_bytes_are_elf reads
\* memory directly.
Keep ==
  LET m == [maps[k] EXCEPT !.start = @ + lead] IN
  /\ kept' = Append(kept, m) /\ size' = Append(size, WriteSize(m))
  /\ touched' = IF ~Whole(m) /\ m.offset = 0 THEN touched \cup {m.start} ELSE touched
  /\ k' = k + 1 /\ lead' = 0

ZeroPage(cells) == \A i \in 1 .. page : cells[i] = "0"

UnreadableNever(n) == FALSE   \* a mutant

\* leading_zeros: a page that cannot be copied whole counts as zeros.
Unreadable(n) == n < page

\* One mapping that is skipped, or of which nothing is left, or one page of leading_zeros.
Scan ==
  /\ pc = "scan" /\ k <= Len(maps)
  /\ LET m == maps[k]
         a == m.start + lead IN
     IF Skipped(m) \/ a = m.end
     THEN k' = k + 1 /\ lead' = 0 /\ UNCHANGED <<segments, touched, slots, faults>>
     ELSE /\ Room(page)
          /\ \E wrote \in Probed(a, page) :
               \/ /\ slots' = Cleared(page, wrote) /\ UNCHANGED faults
                  /\ IF Unreadable(wrote) \/ ZeroPage([i \in 1 .. page |-> in.mem[a + i - 1]])
                     THEN lead' = lead + page /\ UNCHANGED <<segments, k, touched>>
                     ELSE Keep
               \/ Fault /\ slots' = Emptied(page, wrote) /\ Keep
  /\ UNCHANGED <<config, pc, source, layout, copy, out, res>>

\* The pipe is dropped, and the limiter runs if asked to.
Scanned ==
  /\ pc = "scan" /\ k > Len(maps)
  /\ orig' = size
  /\ pc' = IF prioritize /\ limit # -1 THEN "limit" ELSE "ehdr"
  /\ k' = 1 /\ slots' = 0
  /\ UNCHANGED <<config, source, segments, lead, touched, ph, copy, out, res, faults>>

-----------------------------------------------------------------------------
(* Sizes of the notes. *)

align_note(n) == ((n + NOTE_ALIGN - 1) \div NOTE_ALIGN) * NOTE_ALIGN

note_size(namesz, descsz) == NHDR + align_note(namesz) + align_note(descsz)

\* The descriptor of NT_FILE, 0 without files.
nt_file_size ==
  LET files == {i \in DOMAIN kept : ~kept[i].is_anon} IN
  IF files = {} THEN 0
  ELSE 2 * Long + SumOf([i \in files |-> 3 * Long + kept[i].name_len + 1])

\* What the PT_NOTE header and the limiter count on.
note_section_size_for ==
  LET core_note(descsz) == note_size(CORE_NAMESZ, descsz) IN
    core_note(Desc.prpsinfo)
  + (IF in.threads > 0 THEN core_note(Desc.user) ELSE 0)
  + in.threads * (core_note(Desc.prstatus) + core_note(Desc.fpregs))
  + (IF in.auxv > 0 THEN core_note(in.auxv * Desc.auxv) ELSE 0)
  + (IF nt_file_size > 0 THEN core_note(nt_file_size) ELSE 0)
  + SumOf([i \in DOMAIN in.notes |-> note_size(in.notes[i].name + 1, in.notes[i].description)])

PadForgotten(n) == 0   \* a mutant

pad(n) == align_note(n) - n

\* What write_notes writes.
NotesWritten ==
  LET core(descsz) == NHDR + CORE_NAME + descsz + pad(descsz)
      extra(n) == NHDR + n.name + 1 + pad(n.name + 1) + n.description + pad(n.description) IN
    core(Desc.prpsinfo)
  + (IF in.threads > 0 THEN core(Desc.user) ELSE 0)
  + in.threads * (core(Desc.prstatus) + core(Desc.fpregs))
  + (IF in.auxv > 0 THEN core(in.auxv * Desc.auxv) ELSE 0)
  + SumOf([i \in DOMAIN in.notes |-> extra(in.notes[i])])
  + (IF nt_file_size > 0 THEN core(nt_file_size) ELSE 0)

-----------------------------------------------------------------------------
(* The limiter. *)

estimate_header_size == EHDR + (Len(kept) + 1) * PHDR + note_section_size_for

LargestIsLast(i) == i = Len(size)   \* a mutant

\* The first of the largest mappings.
Largest(i) ==
  /\ \A j \in DOMAIN size : size[j] <= size[i]
  /\ \A j \in 1 .. i - 1 : size[j] < size[i]

\* One turn of apply_priority_limit.
Limit ==
  /\ pc = "limit"
  /\ LET total == estimate_header_size + SumOf(size) IN
     IF total > limit /\ \E i \in DOMAIN size : Largest(i) /\ size[i] > 0
     THEN /\ \E i \in DOMAIN size :
               /\ Largest(i)
               /\ size' = [size EXCEPT ![i] =
                    IF total - limit > @ THEN 0 ELSE @ - (total - limit)]
          /\ UNCHANGED pc
     ELSE pc' = "ehdr" /\ UNCHANGED size
  /\ UNCHANGED <<config, source, kept, scan, layout, copy, slots, out, res, faults>>

-----------------------------------------------------------------------------
(* create_elf_core. *)

Cells(c, n) == [i \in 1 .. n |-> c]

phdrs_end == EHDR + (Len(kept) + 1) * PHDR

note_align == (page - ((phdrs_end + note_section_size_for) % page)) % page

\* The segments follow each other from the first page after the notes on.
Phdr(i) ==
  [offset |-> phdrs_end + note_section_size_for + note_align + SumOf([j \in 1 .. i - 1 |-> size[j]]),
   vaddr |-> kept[i].start, memsz |-> kept[i].end - kept[i].start, filesz |-> size[i]]

\* The file header, after a pipe of its own is made.
WriteEhdr ==
  /\ pc = "ehdr"
  /\ \/ WriteFull(Cells("H", EHDR), "phdr")
     \/ Fault /\ Finish("err") /\ UNCHANGED out
  /\ UNCHANGED <<config, source, segments, scan, layout, copy, slots>>

WritePhdrs ==
  /\ pc = "phdr"
  /\ ph' = [i \in DOMAIN kept |-> Phdr(i)]
  /\ WriteFull(Cells("P", (Len(kept) + 1) * PHDR), "notes")
  /\ UNCHANGED <<config, source, segments, scan, orig, copy, slots>>

WriteNotes ==
  /\ pc = "notes"
  /\ WriteFull(Cells("N", NotesWritten), "pad")
  /\ UNCHANGED <<config, source, segments, scan, layout, copy, slots>>

WritePadding ==
  /\ pc = "pad"
  /\ WriteFull(Cells("0", note_align), "copy")
  /\ UNCHANGED <<config, source, segments, scan, layout, copy, slots>>

chunk == Min({size[k] - off, Buffer})

ToLastPage(a, n) == Min({a % MinPage, n})   \* a mutant

\* The rest of a page that cannot be copied, of n cells left.
page_chunk(a, n) == Min({MinPage - (a % MinPage), n})

\* What the scratch buffer gets of n cells from a: a probe of what the pipe takes; when
\* nothing can be copied one of the rest of the page, which is zeros if it fails too.
\* The second component is the slots then in use.
Copied(a, n) ==
  LET probe == Min({n, PipeSize})
      small == page_chunk(a, n)
      cells(m) == [i \in 1 .. m |-> in.mem[a + i - 1]] IN
  UNION {IF wrote > 0 THEN {<<cells(wrote), Cleared(probe, wrote)>>}
         ELSE {<<IF w = 0 THEN Cells("0", small) ELSE cells(w), Cleared(small, w)>> : w \in Probed(a, small)}
         : wrote \in Probed(a, probe)}

\* One turn of the loops over the mappings, the chunks and the probes.
Copy ==
  /\ pc = "copy"
  /\ IF k > Len(kept) THEN Finish("ok") /\ UNCHANGED <<k, copy, slots, out, faults>>
     ELSE IF off >= size[k]
     THEN k' = k + 1 /\ off' = 0 /\ UNCHANGED <<pc, scratch, slots, out, res, faults>>
     ELSE IF Len(scratch) < chunk
     THEN LET a == kept[k].start + off + Len(scratch)
              n == chunk - Len(scratch) IN
          /\ Room(Min({n, PipeSize}))
          /\ \/ /\ \E c \in Copied(a, n) : scratch' = scratch \o c[1] /\ slots' = c[2]
                /\ UNCHANGED <<pc, res, faults>>
             \/ Fault /\ Finish("err") /\ UNCHANGED <<scratch, slots>>
          /\ UNCHANGED <<k, off, out>>
     ELSE /\ WriteFull(scratch, "copy")
          /\ off' = off + chunk /\ scratch' = <<>>
          /\ UNCHANGED <<k, slots>>
  /\ UNCHANGED <<config, source, segments, lead, touched, layout>>

Ended == pc = "end" /\ UNCHANGED vars

Next ==
  \/ ParseMaps \/ Enrich \/ Scan \/ Scanned \/ Limit
  \/ WriteEhdr \/ WritePhdrs \/ WriteNotes \/ WritePadding \/ Copy \/ Ended

Spec == Init /\ [][Next]_vars /\ WF_vars(Next)

-----------------------------------------------------------------------------
(* Properties. *)

\* The variables are within their ranges; no more is copied than the scratch buffer holds
\* (create_elf_core), and a file never exceeds its limit (LimitWriter::write).
TypeOK ==
  /\ pc \in {"maps", "smaps", "scan", "limit", "ehdr", "phdr", "notes", "pad", "copy", "end"}
  /\ k \in 1 .. Len(in.maps) + 1 /\ lead \in Nat /\ off \in Nat
  /\ Len(scratch) <= Buffer /\ slots \in 0 .. PipeSize \div page
  /\ res \in {"none", "ok", "err"} /\ faults \in 0 .. MaxFaults
  /\ \A i \in DOMAIN kept : size[i] \in 0 .. kept[i].end - kept[i].start
  /\ limit # -1 => Len(out) <= limit

Content(a) == IF a \in in.bad THEN "0" ELSE in.mem[a]

\* Wherever the file ends, each cell that a program header places in a segment is that
\* of memory at its address, or 0 where memory cannot be read (create_elf_core): the
\* sizes announced for the notes, the padding and the segments before are those written.
\* The first segment, and without the limiter each, starts on a page of the file, as the
\* headers' p_align says (elfcore.rs:170-189).
HeadersDescribeFile ==
  \A i \in DOMAIN ph :
    /\ \A j \in 0 .. ph[i].filesz - 1 :
         ph[i].offset + j < Len(out) => out[ph[i].offset + j + 1] = Content(ph[i].vaddr + j)
    /\ ph[i].offset % page # 0 => i > 1 /\ \E j \in 1 .. i - 1 : ph[j].filesz # orig[j]

FullSize == phdrs_end + note_section_size_for + note_align + SumOf(orig)

\* run_serialize reports success only for a file that has every segment whole, or that
\* is as long as the limit allows, also when the limit is 0 (LimitWriter::done).  Without
\* a system call that fails it succeeds, whatever the memory and the limit: pages that
\* cannot be read are zeros, and a file cut at its limit is complete.
ResultIsTruth ==
  pc = "end" =>
    IF Success
    THEN (res = "ok" /\ SumOf(size) + FullSize - SumOf(orig) = Len(out)) \/ Len(out) = limit
    ELSE faults > 0

\* A prioritized core that had to be shrunk ends at its limit: it is not shorter, and
\* when there is room for more than the headers, the LimitWriter cuts less than a page
\* off the segments the limiter left (estimate_header_size).  The limiter cuts a segment
\* only if it leaves no larger one whole (apply_priority_limit).
PrioritizedEndsAtLimit ==
  /\ pc = "end" /\ prioritize /\ limit # -1 /\ faults = 0 /\ FullSize > limit =>
       /\ Len(out) = limit
       /\ estimate_header_size <= limit => FullSize - SumOf(orig) + SumOf(size) - limit \in 0 .. page - 1
  /\ \A i, j \in DOMAIN orig : size[i] < orig[i] /\ size[j] = orig[j] => orig[j] <= orig[i]

\* The headers have every cell that only the process has (not zero, readable, of a
\* mapping that is not the unchanged copy of a file), and none of a mapping that is not
\* to be dumped, although smaps was read later than maps and names other mappings too
\* (enrich_from_smaps, finalize_mappings).
DumpsWhatItShould ==
  pc \in {"notes", "pad", "copy", "end"} /\ res # "err" /\ faults = 0 =>
    \A n \in 1 .. Min({Len(in.maps), MAX_MAPPINGS}) :
      LET m == in.maps[n]
          own == {s \in sections : s.start = m.start}
          skipped == m.is_device \/ ~m.readable \/ \E s \in own : s.dd
          unsaved == m.is_anon \/ m.writable \/ \E s \in own : s.anon IN
      \A a \in m.start .. m.end - 1 :
        LET in_core == \E i \in DOMAIN ph : a >= ph[i].vaddr /\ a < ph[i].vaddr + orig[i] IN
        /\ skipped => ~in_core
        /\ ~skipped /\ unsaved /\ Content(a) # "0" => in_core

\* A probe finds the pipe without a slot left by an earlier one, unless a call to clear
\* it failed: no sequence of unreadable pages fills the pipe (clear_probe_slots).
ProbesFindRoom == slots <= faults

\* first_bytes_are_elf touches only pages that can be read, also in a file mapping
\* with pages past the end of the file, unless a probe failed for another reason.
ReadsAreSafe == faults = 0 => touched \cap in.bad = {}

\* serialize_dump returns: the loops over probes, chunks and segments end.
Returns == <>(pc = "end")
=============================================================================

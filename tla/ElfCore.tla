------------------------------- MODULE ElfCore -------------------------------
(***************************************************************************)
(* CreateElfCore (coredumper/elfcore.c), the second half: from mappings[]  *)
(* it computes the headers of the core, announces every offset in them,    *)
(* and then writes headers, notes and memory one call of the writer at a   *)
(* time, hoping that what it writes lies where it said.  The writer is     *)
(* SimpleWriter (a pipe) or LimitWriter (a file with a largest size).      *)
(***************************************************************************)
EXTENDS Smaps

CONSTANTS
  ThreadLists,  \* sequences of thread ids
  main_pid,     \* the thread that asked for the core
  NoteLists,    \* sequences of extra notes [name_size, description_size]
  Limits        \* [max_length, prioritize]; max_length = 0: SimpleWriter

VARIABLES
  pids,        \* the threads
  hasSSE,      \* the SSE registers were read
  extra_notes,
  limit,       \* a member of Limits
  chunks,      \* the calls of the writer, in order
  next,        \* the next of them
  max_length,  \* WriterFds.max_length
  written      \* length of the file

vars == <<arch, areas, auxv, pc, num_mappings, pos, mappings, vdso, open, sane,
          rc, faults, pids, hasSSE, extra_notes, limit, chunks, next,
          max_length, written>>

dumpInputs == <<arch, areas, auxv, pids, hasSSE, extra_notes, limit>>

E == ElfClass(arch)

SumOver(Op(_), s) == FoldLeft(LAMBDA sum, e : sum + Op(e), 0, s)

PaddingForgotten(n) == 0   \* a mutant

Padding(n) == IF n % 4 # 0 THEN 4 - (n % 4) ELSE 0

user == arch # "mips"

\* fpxregs + i, where fpxregs is NULL unless the SSE registers were read.
HasFpx(i) == arch = "i386" /\ (hasSSE \/ i > 1)

\* The program headers of the vdso that are dumped on their own.
VdsoPhdrs == IF vdso = 0 THEN <<>> ELSE SelectSeq(auxv.ph, LAMBDA p : ~p.load)

FileMappings == SelectSeq(mappings, LAMBDA m : ~m.is_anon)

\* nt_file_desc_len
NtFileDescLen == SumOver(LAMBDA m : 3 * Word(arch) + m.name_len + 1, FileMappings)

-----------------------------------------------------------------------------
(* The sizes announced in the headers. *)

PhNum == Len(mappings) + Len(VdsoPhdrs) + 1

NoteOffset == E.Ehdr + PhNum * E.Phdr

NoteSize(desc) == E.Nhdr + 8 + desc

\* filesz of PT_NOTE.
NoteFilesz ==
  NoteSize(Sizeof(prpsinfo(arch)))
  + (IF user THEN NoteSize(Sizeof(core_user(arch))) ELSE 0)
  + Len(pids) * (NoteSize(Sizeof(prstatus(arch))) + NoteSize(Sizeof(fpregs(arch))))
  + (IF arch = "i386" /\ hasSSE THEN Len(pids) * NoteSize(Sizeof(fxsave)) ELSE 0)
  + SumOver(LAMBDA n : E.Nhdr + n.name_size + n.description_size
                       + Padding(n.name_size) + Padding(n.description_size),
            extra_notes)
  + (IF auxv.num > 0 THEN NoteSize(auxv.num * E.auxv_t) ELSE 0)
  + (IF FileMappings # <<>>
     THEN NoteSize(2 * Word(arch)) + NtFileDescLen + Padding(NtFileDescLen)
     ELSE 0)

NoteAlign ==
  LET a == pagesize - ((NoteOffset + NoteFilesz) % pagesize)
  IN IF a = pagesize THEN 0 ELSE a

\* Where the first PT_LOAD goes.
LoadOffset == NoteOffset + NoteFilesz + NoteAlign

TotalCoreSize ==
  LoadOffset + SumOver(LAMBDA p : p.filesz, VdsoPhdrs)
  + SumOver(LAMBDA m : m.write_size, mappings)

-----------------------------------------------------------------------------
(* The calls of the writer.  A chunk is one call: its kind, its size, the    *)
(* offset in it of the first byte that cannot be read (its size if none),    *)
(* and what the bytes say.                                                   *)

Chunk(kind, size, says) == [kind |-> kind, size |-> size, bad |-> size, says |-> says]

Phdr(type, off, filesz, vaddr, memsz) ==
  Chunk("phdr", E.Phdr, [type |-> type, off |-> off, filesz |-> filesz,
                         vaddr |-> vaddr, memsz |-> memsz])

EhdrChunk == <<Chunk("ehdr", E.Ehdr, [e_phnum |-> PhNum % 2^16,
                                      e_machine |-> ELF_ARCH(arch)])>>

NotePhdr == <<Phdr("PT_NOTE", NoteOffset, NoteFilesz, 0, 0)>>

LoadPhdrs ==
  [k \in DOMAIN mappings |->
    Phdr("PT_LOAD", LoadOffset + SumOver(LAMBDA m : m.write_size, SubSeq(mappings, 1, k - 1)),
         mappings[k].write_size, mappings[k].start, mappings[k].end - mappings[k].start)]

VdsoPhdrChunks ==
  LET base == LoadOffset + SumOver(LAMBDA m : m.write_size, mappings)
  IN [k \in DOMAIN VdsoPhdrs |->
       Phdr("PT_OTHER", base + SumOver(LAMBDA p : p.filesz, SubSeq(VdsoPhdrs, 1, k - 1)),
            VdsoPhdrs[k].filesz, VdsoPhdrs[k].vaddr, VdsoPhdrs[k].memsz)]

\* Note header and name "CORE"; the name is always given eight bytes.
CoreNote(type, descsz, of) ==
  <<Chunk("nhdr", E.Nhdr, [type |-> type, namesz |-> 5, descsz |-> descsz, of |-> of]),
    Chunk("name", 8, type)>>

Desc(size) == <<Chunk("desc", size, 0)>>

PrpsinfoNote == CoreNote("NT_PRPSINFO", Sizeof(prpsinfo(arch)), 0) \o Desc(Sizeof(prpsinfo(arch)))

UserNote == IF user
            THEN CoreNote("NT_PRXREG", Sizeof(core_user(arch)), 0) \o Desc(Sizeof(core_user(arch)))
            ELSE <<>>

AuxvNote == IF auxv.num = 0 THEN <<>>
            ELSE CoreNote("NT_AUXV", auxv.num * E.auxv_t, 0)
                 \o [k \in 1 .. auxv.num |-> Chunk("auxv", E.auxv_t, 0)]

\* The SSE registers are read at fpxregs + i even where fpxregs is NULL.
WriteThreadRegs(i) ==
  CoreNote("NT_PRSTATUS", Sizeof(prstatus(arch)), pids[i]) \o Desc(Sizeof(prstatus(arch)))
  \o CoreNote("NT_FPREGSET", Sizeof(fpregs(arch)), pids[i]) \o Desc(Sizeof(fpregs(arch)))
  \o IF ~HasFpx(i) THEN <<>>
     ELSE <<Chunk("nhdr", E.Nhdr, [type |-> "NT_PRXFPREG", namesz |-> 8,
                                   descsz |-> Sizeof(fxsave), of |-> pids[i]]),
            Chunk("name", 8, "NT_PRXFPREG"),
            [Chunk("desc", Sizeof(fxsave), 0) EXCEPT !.bad = IF hasSSE THEN @ ELSE 0]>>

\* The thread that asked first, then the others; both loops run backwards.
ThreadNotes ==
  LET back   == Reverse([i \in DOMAIN pids |-> i])
      first  == SelectSeq(back, LAMBDA i : pids[i] = main_pid)
      others == SelectSeq(back, LAMBDA i : pids[i] # main_pid)
  IN FlattenSeq([k \in DOMAIN first |-> WriteThreadRegs(first[k])])
     \o FlattenSeq([k \in DOMAIN others |-> WriteThreadRegs(others[k])])

ExtraNotes ==
  FlattenSeq([k \in DOMAIN extra_notes |->
    LET n == extra_notes[k]
    IN <<Chunk("nhdr", E.Nhdr, [type |-> "extra", namesz |-> n.name_size,
                                descsz |-> n.description_size, of |-> k]),
         Chunk("name", n.name_size, "extra"), Chunk("pad", Padding(n.name_size), 0),
         Chunk("desc", n.description_size, 0),
         Chunk("pad", Padding(n.description_size), 0)>>])

\* Start, end and file offset of every mapped file, then the names.
NtFileNote ==
  IF FileMappings = <<>> THEN <<>>
  ELSE CoreNote("NT_FILE", NtFileDescLen + 2 * Word(arch), 0)
       \o <<Chunk("count", 2 * Word(arch), Len(FileMappings))>>
       \o [k \in DOMAIN FileMappings |->
            Chunk("triple", 3 * Word(arch),
                  [area |-> FileMappings[k].area, start |-> FileMappings[k].start,
                   end |-> FileMappings[k].end,
                   page |-> FileMappings[k].offset \div pagesize])]
       \o [k \in DOMAIN FileMappings |-> Chunk("fname", FileMappings[k].name_len + 1, 0)]
       \o IF Padding(NtFileDescLen) = 0 THEN <<>>
          ELSE <<Chunk("pad", Padding(NtFileDescLen), 0)>>

AlignChunk == IF NoteAlign = 0 THEN <<>> ELSE <<Chunk("align", NoteAlign, 0)>>

\* The first byte of mapping m that cannot be read, counted from its start.
FirstBad(m) ==
  Min({x - m.start : x \in {y \in {m.start + j * pagesize :
                                    j \in 0 .. (m.end - m.start) \div pagesize - 1} :
                            PageAt(areas[m.area], y) = "bad"}}
      \cup {m.write_size})

MemoryChunks ==
  LET full == SelectSeq(mappings, LAMBDA m : m.write_size > 0)
  IN [k \in DOMAIN full |->
       [kind |-> "mem", size |-> full[k].write_size, bad |-> FirstBad(full[k]),
        says |-> full[k].start]]

VdsoChunks == [k \in DOMAIN VdsoPhdrs |-> Chunk("vdso", VdsoPhdrs[k].filesz, VdsoPhdrs[k].vaddr)]

AllChunks ==
  EhdrChunk \o NotePhdr \o LoadPhdrs \o VdsoPhdrChunks
  \o PrpsinfoNote \o UserNote \o AuxvNote \o ThreadNotes \o ExtraNotes \o NtFileNote
  \o AlignChunk \o MemoryChunks \o VdsoChunks

-----------------------------------------------------------------------------
(* The steps. *)

Init ==
  /\ SmapsInit
  /\ pids \in ThreadLists
  /\ hasSSE \in {arch = "i386", FALSE}
  /\ extra_notes \in NoteLists
  /\ limit \in Limits
  /\ chunks = <<>> /\ next = 1 /\ max_length = limit.max_length /\ written = 0

Limited == limit.max_length > 0

\* The largest mapping, the first of them if there are several.
Largest ==
  Min({k \in DOMAIN mappings :
         \A l \in DOMAIN mappings : mappings[l].write_size <= mappings[k].write_size})

\* One turn of the loop that shrinks the largest mapping until the core fits.
Prioritize ==
  /\ pc = "header"
  /\ LET largest == Largest
         needed  == TotalCoreSize - limit.max_length
         size    == mappings[largest].write_size
     IN IF limit.prioritize /\ mappings # <<>> /\ needed > 0 /\ size > 0
        THEN /\ mappings' = [mappings EXCEPT ![largest].write_size =
                               IF needed > size THEN 0 ELSE size - needed]
             /\ pc' = IF needed > size THEN "header" ELSE "layout"
        ELSE pc' = "layout" /\ UNCHANGED mappings
  /\ UNCHANGED <<dumpInputs, num_mappings, pos, vdso, open, sane, rc, faults,
                 chunks, next, max_length, written>>

Layout ==
  /\ pc = "layout"
  /\ pc' = "write"
  /\ chunks' = AllChunks
  /\ UNCHANGED <<dumpInputs, num_mappings, pos, mappings, vdso, open, sane, rc,
                 faults, next, max_length, written>>

\* The call belongs to the NT_AUXV note, for which auxv is open.
InAuxvNote(c) ==
  \/ c.kind = "auxv"
  \/ c.kind = "name" /\ c.says = "NT_AUXV"
  \/ c.kind = "nhdr" /\ c.says.type = "NT_AUXV"

\* One call of SimpleWriter or LimitWriter.  LimitWriter cuts the request to
\* what the limit leaves, and a short count ends the dump; memory that cannot
\* be read, or a full disk, fails a write that has moved some bytes already.
WriteChunk ==
  /\ pc = "write" /\ next <= Len(chunks)
  /\ LET c == chunks[next]
         n == IF Limited THEN Min({c.size, max_length}) ELSE c.size
         Abandon == pc' = "done" /\ UNCHANGED <<max_length, next>>
                    /\ open' = open \ (IF InAuxvNote(c) THEN {"auxv"} ELSE {})
     IN \/ /\ n <= c.bad /\ n = c.size
           /\ written' = written + n
           /\ max_length' = IF Limited THEN max_length - n ELSE max_length
           /\ next' = next + 1
           /\ open' = open \cup (IF InAuxvNote(c) THEN {"auxv"} ELSE {})
           /\ UNCHANGED <<pc, faults>>
        \/ /\ n <= c.bad /\ n < c.size
           /\ written' = written + n /\ max_length' = 0
           /\ pc' = "done"
           /\ open' = open \ (IF InAuxvNote(c) THEN {"auxv"} ELSE {})
           /\ UNCHANGED <<next, faults>>
        \/ n > c.bad /\ written' = written + c.bad /\ Abandon /\ UNCHANGED faults
        \/ Fault /\ c.size > 0 /\ written' \in {written, written + n \div 2} /\ Abandon
  /\ UNCHANGED <<dumpInputs, num_mappings, pos, mappings, vdso, sane, rc, chunks>>

Finish ==
  /\ pc = "write" /\ next > Len(chunks)
  /\ pc' = "done" /\ rc' = 0
  /\ UNCHANGED <<dumpInputs, num_mappings, pos, mappings, vdso, open, sane,
                 faults, chunks, next, max_length, written>>

IsDoneIfLimited == Limited   \* a mutant

\* SimpleDone is never true, PipeDone when the limit is used up.
IsDone == Limited /\ max_length = 0

\* done:
Done ==
  /\ pc = "done"
  /\ pc' = "end"
  /\ rc' = IF IsDone THEN 0 ELSE rc
  /\ open' = open \ {"loopback"}
  /\ UNCHANGED <<dumpInputs, num_mappings, pos, mappings, vdso, sane, faults,
                 chunks, next, max_length, written>>

Next ==
  \/ SmapsNext /\ UNCHANGED <<pids, hasSSE, extra_notes, limit, chunks, next,
                              max_length, written>>
  \/ Prioritize \/ Layout \/ WriteChunk \/ Finish \/ Done

Spec == Init /\ [][Next]_vars

-----------------------------------------------------------------------------
(* Properties. *)

\* The variables are within their ranges, and no more mappings are stored than the
\* array has room for (elfcore.c:794-832).
TypeOK ==
  /\ pc \in {"pipe", "maps", "auxv", "smaps", "parse", "header", "layout",
             "write", "done", "end"}
  /\ num_mappings \in 0 .. Len(areas) /\ Len(mappings) <= num_mappings
  /\ open \subseteq {"loopback", "smaps", "auxv"}
  /\ rc \in {-1, 0} /\ max_length \in Nat /\ written \in Nat
  /\ next \in 1 .. Len(chunks) + 1

FileOffset(k) == SumOver(LAMBDA c : c.size, SubSeq(chunks, 1, k - 1))

OfKind(kinds) == {k \in DOMAIN chunks : chunks[k].kind \in kinds}

FileSize == FileOffset(Len(chunks) + 1)

NoteHeaders == OfKind({"nhdr"})

\* The headers are laid out and nothing is written yet.
LaidOut == pc = "write" /\ next = 1

\* An i386 without SSE whose threads get NT_PRXFPREG notes all the same.
NullSSE == arch = "i386" /\ ~hasSSE /\ Len(pids) > 1

\* What the program headers announce is where it will be written: the notes, every
\* memory segment and every part of the vdso (elfcore.c:1149-1205, 1264-1292).
SegmentsAreThere ==
  /\ \A k \in DOMAIN chunks : chunks[k].kind = "ehdr" =>
       chunks[k].says.e_phnum = Cardinality(OfKind({"phdr"}))
  /\ \A k \in OfKind({"phdr"}) :
       LET p == chunks[k].says
       IN CASE p.type = "PT_NOTE" ->
                 /\ p.off = FileOffset(Min(NoteHeaders))
                 /\ p.off + p.filesz =
                      FileOffset(Min(OfKind({"align", "mem", "vdso"}) \cup {Len(chunks) + 1}))
            [] OTHER ->
                 p.filesz > 0 =>
                   \E j \in OfKind({IF p.type = "PT_LOAD" THEN "mem" ELSE "vdso"}) :
                     /\ chunks[j].says = p.vaddr /\ chunks[j].size = p.filesz
                     /\ FileOffset(j) = p.off

\* Memory segments start on page boundaries of the file (elfcore.c:1200, 1453),
\* except after the one that a prioritized limit cut within a page
\* (elfcore.c:1257).
SegmentsAligned ==
  LET load  == {k \in OfKind({"phdr"}) : chunks[k].says.type = "PT_LOAD"}
      cut   == {k \in load : chunks[k].says.filesz % pagesize # 0}
  IN /\ Cardinality(cut) <= (IF limit.prioritize THEN 1 ELSE 0)
     /\ \A k \in load : (\A j \in cut : k <= j) => chunks[k].says.off % pagesize = 0

\* A reader that steps from note to note by the ELF rule (names and descriptions
\* in multiples of four) meets exactly the notes written, to the last byte; the
\* first registers are those of the thread that asked for the core and every
\* thread has its registers once (elfcore.c:1294-1451).
NotesParse ==
  /\ \A k \in NoteHeaders :
       LET n     == chunks[k].says
           after == NoteHeaders \cap (k + 1 .. Len(chunks))
           end   == OfKind({"align", "mem", "vdso"}) \cup {Len(chunks) + 1}
       IN FileOffset(k) + E.Nhdr + RoundUp(n.namesz, 4) + RoundUp(n.descsz, 4)
            = FileOffset(Min(after \cup end))
  /\ LET status == {k \in NoteHeaders : chunks[k].says.type = "NT_PRSTATUS"}
     IN /\ chunks[Min(status)].says.of = main_pid
        /\ Cardinality(status) = Len(pids)
        /\ {chunks[k].says.of : k \in status} = {pids[i] : i \in DOMAIN pids}

\* Every header of a core, of a segment or of a note, says where the bytes really
\* are: the sizes summed up before anything was written agree with the calls of
\* the writer that follow, on every architecture (CreateElfCore).  Not so on an
\* i386 without SSE, where the dump of several threads fails.
HeadersDescribeFile ==
  LaidOut => NotesParse /\ SegmentsAligned /\ (NullSSE \/ SegmentsAreThere)

\* What the core must hold: a page of data of an area that is private or was
\* written to, unless it may not be read or must not be dumped.
MustHold(i, j) ==
  LET a == areas[i]
  IN /\ a.pages[j] \in {"data", "elf"} /\ "r" \in a.perms
     /\ IsAnon(a) \/ a.anonymous \/ "w" \in a.perms
     /\ ~IsDevice(a) /\ ~DontDump(a, 0, Len(Details) + 1)

\* The size a mapping had before the limit shrank it.
FullSize(m) == Mapping(m.area, areas[m.area].anonymous).write_size

\* No page of data gets lost between smaps and the headers: every page the core
\* must hold lies in a memory segment, and in the part of it that is written when
\* no limit shrank the segment (elfcore.c:922-1071, 1264-1277).  A prioritized limit
\* takes from the largest segments first, takes no more than it must, and leaves a
\* core that fits, or one without memory (elfcore.c:1207-1262).
CoreKeepsData ==
  /\ (LaidOut /\ faults = 0) =>
       \A i \in DOMAIN areas : \A j \in DOMAIN areas[i].pages : MustHold(i, j) =>
         \E k \in OfKind({"phdr"}) :
           LET p == chunks[k].says
               x == areas[i].start + pagesize * (j - 1)
           IN /\ p.type = "PT_LOAD" /\ p.vaddr <= x /\ x < p.vaddr + p.memsz
              /\ limit.prioritize \/ x + pagesize <= p.vaddr + p.filesz
  /\ (pc = "layout" /\ faults = 0 /\ limit.prioritize) =>
       LET M      == DOMAIN mappings
           Shrunk == {k \in M : mappings[k].write_size < FullSize(mappings[k])}
       IN /\ \A k \in Shrunk, l \in M \ Shrunk : FullSize(mappings[k]) >= FullSize(mappings[l])
          /\ Cardinality({k \in Shrunk : mappings[k].write_size > 0}) <= 1
          /\ \/ TotalCoreSize = limit.max_length
             \/ Shrunk = {} /\ TotalCoreSize < limit.max_length
             \/ \A k \in M : mappings[k].write_size = 0

\* An area of a device that is not the last one.
DeviceInTheWay == \E i \in 1 .. Len(areas) - 1 : IsDevice(areas[i])

\* An area that is to be written has a page that cannot be read behind one that
\* can.
HoleInTheWay == \E k \in DOMAIN mappings : FirstBad(mappings[k]) < mappings[k].write_size

\* The result is the truth about the file: 0 exactly when the file holds all of
\* the core or as much as the limit allows, and never more than the limit
\* (elfcore.c:431-442, 1489-1492).  When no system call fails, a core fails only
\* for one of three reasons: a mapped device confuses the parser (elfcore.c:928-931),
\* a page in the middle of a mapping cannot be read (elfcore.c:1465), or an i386
\* without SSE has several threads (elfcore.c:1356, 1365).
ResultIsTruth ==
  /\ Limited => written <= limit.max_length
  /\ pc = "end" =>
       (rc = 0 <=> /\ chunks # <<>>
                   /\ written = IF Limited THEN Min({FileSize, limit.max_length}) ELSE FileSize)
  /\ (pc = "end" /\ rc = -1 /\ faults = 0) =>
       DeviceInTheWay \/ HoleInTheWay \/ NullSSE

\* Memory is only read where it can be read: the magic of a file is looked for
\* on a page that was probed before (elfcore.c:1061-1065), and the vdso's headers
\* and what they point to lie inside one mapping (elfcore.c:724-767).
ReadsAreSafe ==
  /\ sane
  /\ (LaidOut /\ vdso # 0) =>
       \E k \in DOMAIN mappings :
         LET m == mappings[k]
         IN /\ m.start < vdso + auxv.phoff
            /\ vdso + auxv.phoff + Len(auxv.ph) * E.Phdr <= m.end
            /\ \A p \in Range(auxv.ph) : m.start <= p.vaddr /\ p.vaddr + p.filesz <= m.end

=============================================================================

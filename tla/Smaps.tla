-------------------------------- MODULE Smaps --------------------------------
(***************************************************************************)
(* What CreateElfCore (coredumper/elfcore.c) dumps: the first half of the  *)
(* function counts the lines of /proc/self/maps, reads /proc/self/auxv,    *)
(* parses /proc/self/smaps one definition at a time into mappings[], drops *)
(* what it will not dump, measures leading zero pages through a pipe and   *)
(* decides whether the vdso may be dumped on its own.                      *)
(*                                                                         *)
(* smaps is a sequence of lines, the reader a position in it.  An address  *)
(* space is a sequence of areas; a page of an area is zero, holds data,    *)
(* starts with the ELF magic, or cannot be read ("bad").                   *)
(***************************************************************************)
EXTENDS ElfLayout, FiniteSets

CONSTANTS
  AddressSpaces,  \* sequences of areas, in the order of their addresses
  Auxvs,          \* contents of /proc/self/auxv
  pagesize,
  MaxFaults       \* bound: system calls that fail

ASSUME SmapsAssumption == pagesize \in Nat \ {0} /\ MaxFaults \in Nat

VARIABLES
  arch,      \* the build
  areas,     \* the address space
  auxv,      \* [num, addr, phoff, ph]: number of entries, AT_SYSINFO_EHDR and
             \* what the header there says; num = 0: auxv cannot be opened
  pc,
  num_mappings,  \* slots of mappings[] that are not given up: endmap
  pos,       \* the reader of smaps: [line, mid]; mid: within that line
  mappings,  \* the mappings kept so far
  vdso,      \* vdso.address
  open,      \* descriptors that are open
  sane,      \* FALSE: memory was read that cannot be read
  rc,
  faults

FNAME_MAX == 256

-----------------------------------------------------------------------------
(* /proc/self/smaps. *)

\* Every area: its header line, then lines of details, VmFlags the last.
Details == <<"Size", "Anonymous", "VmFlags">>

Lines ==
  FlattenSeq([i \in DOMAIN areas |->
    <<[area |-> i, key |-> "header"]>>
    \o [k \in DOMAIN Details |-> [area |-> i, key |-> Details[k]]]])

IsDetail(n) == n <= Len(Lines) /\ Lines[n].key # "header"

\* The first line after line n that is not a line of details, or the end.
NextHeader(n) == Min({m \in n + 1 .. Len(Lines) + 1 : ~IsDetail(m)})

\* GetHexWithInitChar, GetHex: the two addresses parse only if the reader is at
\* the start of a header line; in any other place there is no '-' where one
\* must be.
AtHeader(p) == ~p.mid /\ p.line <= Len(Lines) /\ ~IsDetail(p.line)

\* The name a header line carries, cut to what fits.
NameLen(a) == Min({a.name_len, FNAME_MAX - 1})

IsAnon(a) == NameLen(a) = 0 \/ a.class = "bracket"

\* A path below /dev/ other than /dev/zero.
IsDevice(a) == a.class = "dev"

\* The lines of details that are parsed: those before `upto'.
HasAnonymousPages(a, n, upto) == n + 2 < upto /\ a.anonymous

DontDump(a, n, upto) ==
  /\ n + 3 < upto
  /\ \/ "dd" \in a.vmflags
     \/ arch = "aarch64" /\ "pf" \in a.vmflags

\* Where the loop over the details leaves the reader.  For a device it looks at
\* every character, not at the first one of every line, and so stops at the
\* first that could begin an address: the 'e' of "Size:".
AfterDetails(n, dev) ==
  IF dev /\ IsDetail(n + 1) THEN [line |-> n + 1, mid |-> TRUE]
  ELSE [line |-> NextHeader(n), mid |-> FALSE]

EndOfSmaps == [line |-> Len(Lines) + 1, mid |-> FALSE]

-----------------------------------------------------------------------------
(* The memory of an area. *)

LeadingZerosOneTooMany(a) ==   \* a mutant
  pagesize * (Min({k \in DOMAIN a.pages : a.pages[k] \notin {"zero", "bad"}}
                  \cup {Len(a.pages)}))

LeadingZerosStopsAtBad(a) ==   \* a mutant
  pagesize * (Min({k \in DOMAIN a.pages : a.pages[k] # "zero"}
                  \cup {Len(a.pages) + 1}) - 1)

\* Pages that are zero or cannot be read, from the start of the area.
LeadingZeros(a) ==
  pagesize * (Min({k \in DOMAIN a.pages : a.pages[k] \notin {"zero", "bad"}}
                  \cup {Len(a.pages) + 1}) - 1)

\* The page of area a that holds address x.
PageAt(a, x) == a.pages[(x - a.start) \div pagesize + 1]

EndAddress(a) == a.start + pagesize * Len(a.pages)

\* The slot filled for area a; has_anonymous_pages is what the details said.
Mapping(i, has_anonymous_pages) ==
  LET a     == areas[i]
      start == a.start + LeadingZeros(a)
      whole == EndAddress(a) - start
      magic == a.offset = 0 /\ PageAt(a, start) = "elf"
  IN [area |-> i, start |-> start, end |-> EndAddress(a), offset |-> a.offset,
      flags |-> a.perms, is_anon |-> IsAnon(a), name_len |-> NameLen(a),
      write_size |->
        IF IsAnon(a) \/ has_anonymous_pages \/ "w" \in a.perms THEN whole
        ELSE IF magic THEN pagesize ELSE 0]

\* The magic is read from the first page that is kept.
ReadsMagicOf(a, has_anonymous_pages) ==
  ~IsAnon(a) /\ ~has_anonymous_pages /\ "w" \notin a.perms /\ a.offset = 0

-----------------------------------------------------------------------------
(* The steps. *)

Fault == faults < MaxFaults /\ faults' = faults + 1

\* goto done
Fail(fds) == pc' = "done" /\ open' = fds

SmapsInit ==
  /\ arch \in Archs
  /\ areas \in AddressSpaces
  /\ auxv \in Auxvs
  /\ pc = "pipe" /\ num_mappings = 0 /\ mappings = <<>>
  /\ pos = [line |-> 1, mid |-> FALSE]
  /\ vdso = 0 /\ open = {} /\ sane = TRUE /\ rc = -1 /\ faults = 0

inputs == <<arch, areas, auxv>>

\* The pipe through which memory is probed.
OpenLoopback ==
  /\ pc = "pipe"
  /\ \/ pc' = "maps" /\ open' = {"loopback"} /\ UNCHANGED faults
     \/ Fault /\ Fail({})
  /\ UNCHANGED <<inputs, num_mappings, pos, mappings, vdso, sane, rc>>

\* One slot for every line of /proc/self/maps.
CountMaps ==
  /\ pc = "maps"
  /\ \/ /\ pc' = "auxv" /\ num_mappings' = Len(areas)
        /\ UNCHANGED <<open, faults>>
     \/ Fault /\ Fail(open) /\ UNCHANGED num_mappings
  /\ UNCHANGED <<inputs, pos, mappings, vdso, sane, rc>>

\* CountAUXV: vdso is the address, if there is one.
CountAUXV ==
  /\ pc = "auxv"
  /\ pc' = "smaps"
  /\ vdso' = IF auxv.num > 0 THEN auxv.addr ELSE 0
  /\ UNCHANGED <<inputs, num_mappings, pos, mappings, open, sane, rc, faults>>

OpenSmaps ==
  /\ pc = "smaps"
  /\ \/ pc' = "parse" /\ open' = open \cup {"smaps"} /\ UNCHANGED faults
     \/ Fault /\ Fail(open)
  /\ UNCHANGED <<inputs, num_mappings, pos, mappings, vdso, sane, rc>>

\* The end of an iteration: the definition of area i, read as far as line
\* `upto', is kept in the next slot, or one slot is given up.
Keep(i, n, upto) ==
  LET a    == areas[i]
      anon == HasAnonymousPages(a, n, upto)
  IN IF \/ IsDevice(a) \/ DontDump(a, n, upto) \/ "r" \notin a.perms
        \/ a.start + LeadingZeros(a) = EndAddress(a)
     THEN num_mappings' = num_mappings - 1 /\ UNCHANGED <<mappings, sane>>
     ELSE /\ mappings' = Append(mappings, Mapping(i, anon))
          /\ sane' = (sane /\ (ReadsMagicOf(a, anon) =>
                               PageAt(a, a.start + LeadingZeros(a)) # "bad"))
          /\ UNCHANGED num_mappings

\* read_error
ReadError == Fail(open \ {"smaps"}) /\ UNCHANGED <<num_mappings, pos, mappings, sane>>

\* One iteration of the loop over the definitions.  A read that fails within a
\* line is an error; at the first character of a line of details it passes for
\* the end of the file.
ParseMapping ==
  /\ pc = "parse"
  /\ Len(mappings) < num_mappings
  /\ LET n == pos.line
         i == Lines[n].area
     IN \/ ~AtHeader(pos) /\ ReadError /\ UNCHANGED faults
        \/ /\ AtHeader(pos)
           /\ Keep(i, n, NextHeader(n))
           /\ pos' = AfterDetails(n, IsDevice(areas[i]))
           /\ UNCHANGED <<pc, open, faults>>
        \/ Fault /\ ReadError
        \/ /\ Fault /\ AtHeader(pos)
           /\ \E upto \in n + 1 .. NextHeader(n) - 1 : Keep(i, n, upto)
           /\ pos' = EndOfSmaps
           /\ UNCHANGED <<pc, open>>
  /\ UNCHANGED <<inputs, vdso, rc>>

-----------------------------------------------------------------------------
(* The vdso. *)

\* SanitizeVDSO: the header and everything it points to lie strictly inside the
\* mapping and are aligned.
SaneVDSO(m) ==
  LET W      == Word(arch)
      phdr   == auxv.addr + auxv.phoff
      Inside(p) == p.vaddr % W = 0 /\ p.vaddr > m.start /\ p.vaddr + p.filesz < m.end
  IN /\ auxv.addr % W = 0
     /\ m.end > auxv.addr + ElfClass(arch).Ehdr
     /\ auxv.phoff % W = 0
     /\ phdr > m.start
     /\ m.end > phdr + Len(auxv.ph) * ElfClass(arch).Phdr
     /\ auxv.ph[1].load /\ auxv.ph[1].vaddr = m.start
     /\ auxv.ph[1].vaddr + auxv.ph[1].memsz < m.end
     /\ \A k \in 2 .. Len(auxv.ph) : ~auxv.ph[k].load /\ Inside(auxv.ph[k])

\* The first mapping that covers the vdso decides.
FindVDSO ==
  /\ pc = "parse"
  /\ Len(mappings) = num_mappings
  /\ pc' = "header"
  /\ open' = open \ {"smaps"}
  /\ vdso' = LET covers == {k \in DOMAIN mappings :
                              "r" \in mappings[k].flags /\
                              mappings[k].start <= vdso /\ vdso < mappings[k].end}
             IN IF vdso # 0 /\ covers # {} /\ SaneVDSO(mappings[Min(covers)])
                THEN vdso ELSE 0
  /\ UNCHANGED <<inputs, num_mappings, pos, mappings, sane, rc, faults>>

SmapsNext ==
  OpenLoopback \/ CountMaps \/ CountAUXV \/ OpenSmaps \/ ParseMapping \/ FindVDSO
=============================================================================

------------------------------ MODULE MCElfCore ------------------------------
(* Inputs of ElfCore for TLC: small address spaces with one area of every kind *)
(* the code tells apart, vdso images that pass or fail one check each, and     *)
(* limits that fall into every part of a core.                                 *)
EXTENDS ElfCore

Area(start, pages, perms, class, name_len, offset, anonymous, vmflags) ==
  [start |-> start * pagesize, pages |-> pages, perms |-> perms, class |-> class,
   name_len |-> name_len, offset |-> offset * pagesize, anonymous |-> anonymous,
   vmflags |-> vmflags]

Text     == Area(1, <<"elf", "data">>, {"r", "x"}, "file", 9, 0, FALSE, {})
Relro    == Area(3, <<"zero", "bad", "data">>, {"r"}, "file", 300, 0, FALSE, {})
Data     == Area(6, <<"data", "data", "zero">>, {"r"}, "file", 9, 1, TRUE, {})
Heap     == Area(10, <<"zero", "data", "zero", "data">>, {"r", "w"}, "bracket", 6, 0, TRUE, {})
Guard    == Area(14, <<"bad">>, {}, "none", 0, 0, FALSE, {})
Stack    == Area(15, <<"bad", "data", "data">>, {"r", "w"}, "none", 0, 0, TRUE, {})
Device   == Area(18, <<"data">>, {"r", "w"}, "dev", 8, 0, FALSE, {})
DevZero  == Area(19, <<"data">>, {"r", "w"}, "devzero", 9, 0, FALSE, {})
Secret   == Area(20, <<"data">>, {"r", "w"}, "none", 0, 0, TRUE, {"dd"})
Vvar     == Area(22, <<"data", "bad">>, {"r"}, "bracket", 6, 0, FALSE, {"pf"})
Vdso     == Area(24, <<"elf", "data">>, {"r", "x"}, "bracket", 6, 0, FALSE, {})
Hole     == Area(27, <<"data", "bad", "data">>, {"r", "w"}, "file", 11, 0, TRUE, {})
Vsyscall == Area(31, <<"bad">>, {"r", "x"}, "bracket", 10, 0, FALSE, {})

MCAddressSpaces ==
  {<<Text, Data, Heap, Vdso>>, <<Text, Relro, Stack, Secret, Vdso, Vsyscall>>,
   <<Guard, DevZero, Device>>, <<Device, Vdso>>, <<Vvar, Vdso>>, <<Data, Hole>>}

Load(vaddr, memsz)  == [load |-> TRUE, vaddr |-> vaddr, filesz |-> memsz, memsz |-> memsz]
Other(vaddr, size)  == [load |-> FALSE, vaddr |-> vaddr, filesz |-> size, memsz |-> size]
VdsoImage(off, phoff, ph) ==
  [num |-> 2, addr |-> Vdso.start + off, phoff |-> phoff, ph |-> ph]

MCAuxvs ==
  LET v == Vdso.start
      l == Load(v, 6000)
      o == Other(v + 800, 60)
  IN {[num |-> 0, addr |-> 0, phoff |-> 0, ph |-> <<>>],
      VdsoImage(0, 64, <<l, o, Other(v + 904, 24)>>),
      VdsoImage(0, 64, <<l, Other(v + 8160, 64)>>),
      VdsoImage(0, 8184, <<l, o>>)}

MCThreadLists == {<<1>>, <<2, 1>>}

MCNoteLists == {<<[name_size |-> 5, description_size |-> 3],
                  [name_size |-> 8, description_size |-> 4]>>}

MCLimits ==
  {[max_length |-> 0, prioritize |-> FALSE], [max_length |-> 1500, prioritize |-> FALSE],
   [max_length |-> 4000, prioritize |-> TRUE],
   [max_length |-> 17000, prioritize |-> TRUE]}
=============================================================================

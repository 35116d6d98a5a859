------------------------------ MODULE ElfLayout ------------------------------
(***************************************************************************)
(* The sizes of the structures that coredumper/elfcore.c writes into a     *)
(* core, on every architecture it supports.  A type is the triple          *)
(* <<size, alignment, count>>; a structure is laid out by the C rules.     *)
(***************************************************************************)
EXTENDS Integers, Sequences, SequencesExt

Archs == {"x86_64", "i386", "arm", "aarch64", "mips"}

RoundUp(n, a) == ((n + a - 1) \div a) * a

Word(arch) == IF arch \in {"x86_64", "aarch64"} THEN 8 ELSE 4

u8   == <<1, 1, 1>>
u16  == <<2, 2, 1>>
u32  == <<4, 4, 1>>
u128 == <<16, 16, 1>>
long(arch) == <<Word(arch), Word(arch), 1>>
u64(arch)  == <<8, IF arch = "i386" THEN 4 ELSE 8, 1>>

Array(type, n) == <<type[1], type[2], type[3] * n>>

\* Every field at the next multiple of its alignment, the whole rounded up to
\* the largest alignment.
Struct(fields) ==
  LET end   == FoldLeft(LAMBDA o, f : RoundUp(o, f[2]) + f[1] * f[3], 0, fields)
      align == Max({fields[i][2] : i \in DOMAIN fields} \cup {1})
  IN <<RoundUp(end, align), align, 1>>

Sizeof(type) == type[1] * type[3]

\* The general purpose registers.
regs(arch) ==
  CASE arch = "x86_64"  -> Array(u64(arch), 27)
    [] arch = "i386"    -> Struct(<<Array(u32, 7), Array(u16, 8), Array(u32, 2),
                                    Array(u16, 2), Array(u32, 2), Array(u16, 2)>>)
    [] arch = "arm"     -> Array(long(arch), 18)
    [] arch = "aarch64" -> Array(u64(arch), 34)
    [] arch = "mips"    -> Array(long(arch), 45)

\* The SSE state of i386, and the FPU state of x86_64.
fxsave == Struct(<<Array(u16, 4), Array(u32, 6), Array(u32, 32), Array(u32, 64),
                   Array(u32, 24)>>)

\* The FPU registers; an fp_reg of ARM is three words of bit fields.
fpregs(arch) ==
  CASE arch = "x86_64"  -> fxsave
    [] arch = "i386"    -> Array(u32, 27)
    [] arch = "arm"     -> Struct(<<Array(u32, 3 * 8), u32, u32, Array(u8, 8), u32>>)
    [] arch = "aarch64" -> Struct(<<Array(u128, 32), u32, u32>>)
    [] arch = "mips"    -> Struct(<<Array(u64(arch), 32), u32, u32>>)

\* Three ints, from <sys/procfs.h>.
elf_siginfo == Struct(<<u32, u32, u32>>)

elf_timeval(arch) == Struct(<<long(arch), long(arch)>>)

prstatus(arch) ==
  Struct(<<elf_siginfo, u16, long(arch), long(arch), Array(u32, 4),
           Array(elf_timeval(arch), 4), regs(arch), u32>>)

prpsinfo(arch) ==
  Struct(<<Array(u8, 4), long(arch),
           Array(IF arch \in {"x86_64", "mips"} THEN u32 ELSE u16, 2),
           Array(u32, 4), Array(u8, 16), Array(u8, 80)>>)

\* The fpregs and their pointer sit in the middle on x86, at the end on ARM.
core_user(arch) ==
  LET x86 == arch \in {"x86_64", "i386"}
      fp  == <<fpregs(arch)>>
      ptr == <<long(arch)>>
  IN IF arch = "mips" THEN Struct(<<>>)
     ELSE Struct(<<regs(arch), long(arch)>>
                 \o (IF x86 THEN fp ELSE <<>>)
                 \o <<Array(long(arch), 7), long(arch)>>
                 \o (IF x86 THEN ptr ELSE <<>>)
                 \o <<long(arch), Array(u8, 32), Array(long(arch), 8)>>
                 \o (IF x86 THEN <<long(arch), long(arch)>> ELSE fp \o ptr))

\* The ELF structures of the class of the word size, from <elf.h>.
ElfClass(arch) ==
  IF Word(arch) = 8
  THEN [Ehdr |-> 64, Phdr |-> 56, Shdr |-> 64, Nhdr |-> 12, auxv_t |-> 16]
  ELSE [Ehdr |-> 52, Phdr |-> 32, Shdr |-> 40, Nhdr |-> 12, auxv_t |-> 8]

\* e_machine.
ELF_ARCH(arch) ==
  CASE arch = "x86_64"  -> "EM_X86_64"
    [] arch = "i386"    -> "EM_386"
    [] arch = "arm"     -> "EM_ARM"
    [] arch = "aarch64" -> "EM_AARCH64"
    [] arch = "mips"    -> "EM_MIPS"
=============================================================================

------------------------------- MODULE Frame -------------------------------
(***************************************************************************)
(* The macros FRAME and SET_FRAME (coredumper/elfcore.h).  FRAME saves the *)
(* registers of the thread that calls the library, and SET_FRAME puts them *)
(* in the place of those that ptrace reads later.                          *)
(*                                                                         *)
(* A register holds the value the caller had, its low half ("cut"), the    *)
(* address of the frame, a place in the function called ("here"), 0, what  *)
(* was on the stack ("junk"), or what ptrace read.                         *)
(***************************************************************************)
EXTENDS Integers

Archs == {"x86_64", "i386", "arm", "aarch64", "mips"}

Values == {"caller", "cut", "frame", "here", "zero", "junk", "ptrace"}

\* The registers of an architecture; "gpr" and "seg" stand for those that are
\* treated alike.
RegsOf(arch) ==
  CASE arch = "x86_64"  -> {"gpr", "seg", "BP", "SP", "IP", "ax", "orig_ax", "cs", "ss",
                            "flags", "fs_base", "gs_base"}
    [] arch = "i386"    -> {"gpr", "seg", "BP", "SP", "IP", "ax", "orig_ax", "cs", "ss",
                            "flags"}
    [] arch = "arm"     -> {"gpr", "BP", "SP", "IP", "LR", "fps", "flags"}
    [] arch = "aarch64" -> {"gpr", "SP", "IP", "flags"}
    [] arch = "mips"    -> {"gpr", "SP", "hi", "lo", "IP", "badvaddr", "status", "cause"}

\* On entry ax points to the frame; bx is saved before it is used; fs_base, gs_base
\* and orig_rax are not saved.  The stack pointer is corrected for two pushes
\* by an addition in ebx.
FrameX86_64 ==
  [r \in RegsOf("x86_64") |->
     CASE r = "ax" -> "frame" [] r = "IP" -> "here" [] r = "SP" -> "cut"
       [] r \in {"orig_ax", "fs_base", "gs_base"} -> "junk"
       [] OTHER -> "caller"]

FrameI386 ==
  [r \in RegsOf("i386") |->
     CASE r = "ax" -> "frame" [] r = "IP" -> "here" [] r = "orig_ax" -> "junk"
       [] OTHER -> "caller"]

FrameArm ==
  [r \in RegsOf("arm") |->
     CASE r = "IP" -> "here" [] r = "fps" -> "zero" [] OTHER -> "caller"]

FrameAarch64 ==
  [r \in RegsOf("aarch64") |-> IF r = "IP" THEN "here" ELSE "caller"]

FrameMips ==
  [r \in RegsOf("mips") |->
     CASE r = "IP" -> "here" [] r \in {"badvaddr", "status", "cause"} -> "zero"
       [] OTHER -> "caller"]

FRAME(arch) ==
  CASE arch = "x86_64" -> FrameX86_64 [] arch = "i386" -> FrameI386
    [] arch = "arm" -> FrameArm [] arch = "aarch64" -> FrameAarch64
    [] arch = "mips" -> FrameMips

Over(f, r, kept) == [x \in DOMAIN f |-> IF x \in kept THEN r[x] ELSE f[x]]

\* x86-64 takes the segment bases from ptrace; i386 the frame as it is.
SetFrameX86_64(f, r) == Over(f, r, {"fs_base", "gs_base"})
SetFrameI386(f, r)   == f

\* The FPU status register comes from the frame.
SetFrameArm(f, r) == [f EXCEPT !["fps"] = f["fps"]]

SetFrameAarch64(f, r) == f

SetFrameMips(f, r) == Over(f, r, {"badvaddr", "status", "cause"})

SET_FRAME(arch, f, r) ==
  CASE arch = "x86_64" -> SetFrameX86_64(f, r) [] arch = "i386" -> SetFrameI386(f, r)
    [] arch = "arm" -> SetFrameArm(f, r) [] arch = "aarch64" -> SetFrameAarch64(f, r)
    [] arch = "mips" -> SetFrameMips(f, r)

\* A thread as ptrace sees it.
PtraceRegs(arch) == [r \in RegsOf(arch) |-> "ptrace"]
============================================================================

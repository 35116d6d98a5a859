-------------------------- MODULE MCSyscallSupport --------------------------
(***************************************************************************)
(* SyscallSupport with words of two bits, and identifiers on both sides    *)
(* of the 16-bit bound.                                                    *)
(***************************************************************************)
EXTENDS SyscallSupport

MCIds == {0, 1, Id16 + 3}

\* A signal of the first word and one of the second, where there is one.
MCSent == {1, W + 1}

=============================================================================

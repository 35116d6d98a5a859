--------------------------- MODULE MCCoredumper ---------------------------
(* Values for the constants of Coredumper. *)
EXTENDS Coredumper

CONSTANTS t1, t2, gz

\* The caller comes second, or is alone.
MCPidLists == {<<t2, t1>>, <<t1>>}

\* /proc/self/stat for a process whose name has one word, and two.
Line(comm, utime, pending, held) ==
  <<100>> \o comm \o <<NoNumber>> \o
  [j \in 1 .. 37 |-> LET i == j + 3 IN
     CASE i = 14 -> utime [] i \in {13, 15, 16, 17} -> 1000 * i + i
       [] i = 31 -> pending [] i = 32 -> held [] OTHER -> 0]

MCStats == {Line(<<NoNumber>>, 1999, 2, 10), Line(<<NoNumber, NoNumber>>, 1000, 0, 1)}

MCExes == {<<"/", "b", "/", "a">>, <<"a", "b", "c">>}
===========================================================================

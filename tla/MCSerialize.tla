---------------------------- MODULE MCSerialize ----------------------------
(* Address spaces for Serialize. *)
EXTENDS Serialize

\* A mapping: anonymous, writable, a file, a device.
Map(start, end, kind, offset) ==
  [start |-> start, end |-> end, readable |-> kind # "guard", writable |-> kind \in {"heap", "device", "data"},
   is_anon |-> kind \in {"heap", "guard", "rodata"}, is_device |-> kind = "device", offset |-> offset,
   name_len |-> IF kind \in {"text", "data"} THEN 2 ELSE IF kind = "device" THEN 3 ELSE 0]

Section(start, anon, dd) == [start |-> start, anon |-> anon, dd |-> dd]

Space(p, s, bad, m, smaps, threads, auxv, notes) ==
  [page |-> p, mem |-> [a \in 0 .. Len(s) - 1 |-> s[a + 1]], bad |-> bad, maps |-> m, smaps |-> smaps,
   threads |-> threads, auxv |-> auxv, notes |-> notes]

\* A heap whose first page is zero and whose third cannot be read, then a file.
HeapAndText ==
  Space(2, <<"0", "0", "0", "d", "d", "d", "d", "0", "E", "d", "d", "d">>, {4, 5},
        <<Map(0, 8, "heap", 0), Map(8, 12, "text", 0)>>,
        {{Section(0, TRUE, FALSE), Section(8, FALSE, FALSE)},
         {Section(0, TRUE, FALSE), Section(4, TRUE, TRUE), Section(8, TRUE, FALSE)}},
        2, 1, <<>>)

\* A file past whose end its mapping goes on, one that is changed, a device, and a
\* mapping not to be dumped; one that smaps has and maps has not.
FilesAndDevice ==
  Space(2, <<"d", "d", "E", "d", "d", "d", "d", "d", "d", "0", "d", "d">>, {0, 1},
        <<Map(0, 4, "text", 0), Map(4, 6, "text", 2), Map(6, 8, "device", 0), Map(8, 10, "heap", 0),
          Map(10, 12, "heap", 0)>>,
        {{Section(0, FALSE, FALSE), Section(4, TRUE, FALSE), Section(8, TRUE, FALSE)},
         {Section(0, FALSE, FALSE), Section(4, FALSE, FALSE), Section(8, TRUE, TRUE)},
         {Section(0, FALSE, FALSE), Section(6, TRUE, TRUE), Section(9, FALSE, TRUE)}},
        1, 0, <<[name |-> 2, description |-> 1]>>)

\* Larger kernel pages, of which every other one cannot be read, and no thread.
LargePages ==
  Space(4, <<"d", "d", "d", "d", "d", "d", "d", "d", "d", "0", "0", "d", "d", "d", "d", "d">>, {4, 5, 6, 7, 12, 13, 14, 15},
        <<Map(0, 16, "heap", 0)>>, {{}}, 0, 2, <<>>)

\* Three segments for the limiter and one of zeros only; a guard page and a heap; nothing.
ThreeHeaps ==
  Space(2, <<"d", "d", "d", "0", "d", "d", "d", "d", "d", "d", "d", "d", "0", "0">>, {},
        <<Map(0, 2, "heap", 0), Map(2, 8, "data", 0), Map(8, 12, "rodata", 0), Map(12, 14, "heap", 0)>>,
        {{}}, 1, 1, <<>>)

Guard == Space(2, <<"d", "d", "0", "d">>, {0, 1}, <<Map(0, 2, "guard", 0), Map(2, 4, "heap", 0)>>, {{}}, 1, 0, <<>>)

NoMaps == Space(2, <<"0">>, {}, <<>>, {{}}, 0, 0, <<>>)

MCInputs == {HeapAndText, FilesAndDevice, LargePages, ThreeHeaps, Guard, NoMaps}

\* Sizes of descriptors, of different remainders.
MCDesc == [prpsinfo |-> 3, user |-> 2, prstatus |-> 2, fpregs |-> 1, auxv |-> 1]

\* None, 0, and limits that end in every part of the files and of their segments.
MCLimits == -1 .. 85
=============================================================================

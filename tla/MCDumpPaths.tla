---------------------------- MODULE MCDumpPaths ----------------------------
(* Inputs of DumpPaths for TLC. *)
EXTENDS DumpPaths

\* bzip2 is in a directory that PATH does not name, gzip in /usr/bin and in the second
\* directory of PATH, compress nowhere.
bzip2    == Program(FALSE, FALSE, {3})
gzip     == Program(FALSE, TRUE, {2})
compress == Program(FALSE, FALSE, {})

\* The tables of the library, none, and one of a client with a single name.
MCTables ==
  {<<>>, SubSeq(gzip, 3, 3), COREDUMPER_UNCOMPRESSED,
   COREDUMPER_COMPRESSED(bzip2, gzip, compress),
   COREDUMPER_BZIP2_COMPRESSED(bzip2), COREDUMPER_GZIP_COMPRESSED(gzip),
   COREDUMPER_COMPRESS_COMPRESSED(compress), COREDUMPER_TRY_BZIP2_COMPRESSED(bzip2),
   COREDUMPER_TRY_GZIP_COMPRESSED(gzip), COREDUMPER_TRY_COMPRESS_COMPRESSED(compress)}

\* All of 0 to 2 open, one of them closed, two, and all.
MCOpenSets == {{0, 1, 2}, {1, 2, 4}, {2}, {}}
============================================================================

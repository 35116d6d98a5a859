----------------------------- MODULE MCPipeline -----------------------------
\* Two compressors, with the uncompressed fallback as in COREDUMPER_COMPRESSED
\* and without it as in COREDUMPER_GZIP_COMPRESSED.
EXTENDS Pipeline

MCTables == {<<FALSE, FALSE, TRUE>>, <<FALSE, FALSE>>}

=============================================================================

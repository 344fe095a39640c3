--------------------------- MODULE MCPersistence ----------------------------
\* Small instances of Persistence.
EXTENDS Persistence

CONSTANTS c1, v1, v2, snapshotTask, rewriteTask, bgsave
=============================================================================

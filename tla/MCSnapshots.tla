----------------------------- MODULE MCSnapshots -----------------------------
\* A small instance of Snapshots.
EXTENDS Snapshots

CONSTANTS v1, v2, v3
=============================================================================

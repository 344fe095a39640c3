-------------------------------- MODULE MCHNSW --------------------------------
EXTENDS HNSW

\* The distance of two points on a line.
MCDistance(a, b) == IF a > b THEN a - b ELSE b - a
=============================================================================

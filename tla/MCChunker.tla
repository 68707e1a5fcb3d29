----------------------------- MODULE MCChunker -----------------------------
(* Small settings and documents for TLC.                                    *)
EXTENDS Chunker

\* Overlaps below, at and above every size, none, and a negative one.
SomeSizes == 1..4
SomeOverlaps == -1..5
UpToSeven == 0..7
=============================================================================

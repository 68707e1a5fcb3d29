---------------------------- MODULE MCGrounding ----------------------------
(* A small instance of Grounding for TLC: scores 0, 1/2 and 1, a rounding in *)
(* steps of 1/15 that no other unit of the instance is a multiple of.        *)
EXTENDS Grounding

\* Confidences below and above what retrieval may compute, one of them above 1.
SomeClaims == {600, 1500}

\* With one that no float holds.
AllClaims == SomeClaims \cup {2000}
=============================================================================

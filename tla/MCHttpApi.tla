------------------------------ MODULE MCHttpApi ------------------------------
(***************************************************************************)
(* HttpApi for TLC: three rows in the list and one outside its filter,     *)
(* which has the name the client wants to give; two rows of the client, so *)
(* that a repeated request can meet its own row.                           *)
(***************************************************************************)
EXTENDS HttpApi, TLC

CONSTANTS r1, r2, r3, rival, own1, own2

MCFiltered == {r1, r2, r3}
MCOwn == {own1, own2}
MCRows == MCFiltered \cup {rival} \cup MCOwn
MCKeyOf == [r \in MCRows |-> IF r \in MCFiltered THEN r ELSE rival]

Symmetry == Permutations(MCFiltered)
=============================================================================

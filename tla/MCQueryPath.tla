---------------------------- MODULE MCQueryPath ----------------------------
(* A small instance of QueryPath for TLC: one request asks, again and again, *)
(* one knowledge base, which holds one document.                            *)
EXTENDS QueryPath, TLC

CONSTANTS u1, kb, text, q1, w1, w2

Kb1 == u1 :> kb
TextUpload == u1 :> text
AskedKb1 == q1 :> kb

WorkerSymmetry == Permutations(Workers)
=============================================================================

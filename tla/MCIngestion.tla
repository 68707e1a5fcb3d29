---------------------------- MODULE MCIngestion ----------------------------
(* Small instances of Ingestion for TLC.                                    *)
EXTENDS Ingestion, TLC

CONSTANTS u1, u2, kb, text, w1, w2

Kb1 == u1 :> kb
Kb2 == u1 :> kb @@ u2 :> kb

\* One upload of a document with text.
TextUpload == u1 :> text
\* The same file uploaded twice.
SameText == u1 :> text @@ u2 :> text

AllFaults == FaultKinds
\* Every task has at most one copy: nothing re-sends, repeats or restores it.
OneCopy == FaultKinds \ {"crash", "redeliver", "unconfirmed"}
\* Running work is re-sent but never lost: with one counted fault, a worker whose
\* task was re-delivered does not die. No session fails.
KeptTasks == {"unconfirmed", "apicrash", "crash", "redeliver", "dependency"}

WorkerSymmetry == Permutations(Workers)
=============================================================================

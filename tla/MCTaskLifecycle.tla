--------------------------- MODULE MCTaskLifecycle ---------------------------
(* Small instances of TaskLifecycle for TLC. *)
EXTENDS TaskLifecycle, TLC

\* Push handlers are interchangeable, and so are messages: no definition tells
\* them apart.
ActorSymmetry == Permutations(Push) \cup Permutations(Turn)
=============================================================================

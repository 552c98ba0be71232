--------------------------- MODULE MCWorkspacePush ---------------------------
(* Model values for WorkspacePush: b uses a, and a uses b or not.  The jobs are
   interchangeable. *)
EXTENDS WorkspacePush, TLC

CONSTANTS a, b

Layered == {[r \in Repos |-> IF r = b THEN {a} ELSE s] : s \in {{}, {b}}}

JobSymmetry == Permutations(Jobs)
=============================================================================

------------------------- MODULE MCDependencyUpdate -------------------------
(* Model values for DependencyUpdate: b uses a, c uses b.  The jobs are
   interchangeable. *)
EXTENDS DependencyUpdate, TLC

CONSTANTS a, b, c

Chain == {[r \in Repos |-> IF r = b THEN {a} ELSE IF r = c THEN {b} ELSE {}]}

(* Everything, at once; or all that the page can ask for. *)
Whole == {<<Repos, Cardinality(Repos)>>}
AnyRequest == ((SUBSET Repos) \ {{}}) \X (0 .. Cardinality(Repos))

JobSymmetry == Permutations(Jobs)
=============================================================================

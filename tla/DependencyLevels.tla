-------------------------- MODULE DependencyLevels --------------------------
(***************************************************************************)
(* The dependency graph of a workspace (WorkspaceProjectRepository, App):  *)
(* uses[r] is the set of repositories that r refers to, by its projects,   *)
(* its version files or the user's choice.  The levels order a             *)
(* synchronized push; the picker for custom dependencies leaves out what   *)
(* would close a cycle.                                                    *)
(***************************************************************************)
EXTENDS Naturals, FiniteSets

CONSTANT Repos

ASSUME ReposAssumption == IsFiniteSet(Repos) /\ Repos # {}

(* BuildRepoDependencyEdgeSetsAsync: no repository refers to itself. *)
Graph == {uses \in [Repos -> SUBSET Repos] : \A r \in Repos : r \notin uses[r]}

Unlevelled == 0      (* WorkspaceRepositoryLink.DependencyLevel is null     *)

(* The queue of PersistRepositoryDependencyLevelAndDependenciesAsync: one round
   takes every repository whose references have all been taken before. *)
Placed(uses) ==
  LET placed[n \in Nat] ==
        IF n = 0 THEN {} ELSE {r \in Repos : uses[r] \subseteq placed[n - 1]}
  IN  placed

(* The rounds stop when one takes nothing: after as many as there are
   repositories at the latest.  What is left then lies on a cycle or above one. *)
AllPlaced(uses) == Placed(uses)[Cardinality(Repos)] = Repos

(* The round in which a repository was taken: how often it was not there yet. *)
Round(uses, r) ==
  Cardinality({n \in 0 .. Cardinality(Repos) : r \notin Placed(uses)[n]})

(* Mutant: the levels are kept for the repositories that could be taken. *)
LevelsOfSome(uses) ==
  [r \in Repos |->
     IF r \in Placed(uses)[Cardinality(Repos)] THEN Round(uses, r) ELSE Unlevelled]

(* No repository has a level when one could not be taken. *)
Levels(uses) ==
  [r \in Repos |-> IF AllPlaced(uses) THEN Round(uses, r) ELSE Unlevelled]

-----------------------------------------------------------------------------
(* WouldCreateCycleOnAdd: the search from c along the references finds d. *)
Reached(uses, c) ==
  LET visited[n \in Nat] ==
        IF n = 0 THEN {c}
        ELSE visited[n - 1] \cup UNION {uses[r] : r \in visited[n - 1]}
  IN  visited[Cardinality(Repos)]

WouldCreateCycle(uses, d, c) == c \notin uses[d] /\ d \in Reached(uses, c)

(* GetCircularCustomDependencyRepoIdsAsync: what the picker leaves out. *)
Circular(uses, d) == {c \in Repos \ ({d} \cup uses[d]) : WouldCreateCycle(uses, d, c)}

-----------------------------------------------------------------------------
(* The reference: a graph has no cycle when every set of repositories has a
   member that refers to none of them. *)
Acyclic(uses) ==
  \A S \in (SUBSET Repos) \ {{}} : \E r \in S : uses[r] \cap S = {}

(* The levels exist exactly when there is no cycle, and then a repository is
   one level above the highest it refers to. *)
LevelsAreRight(uses) ==
  LET level == Levels(uses) IN
  IF Acyclic(uses)
    THEN \A r \in Repos :
           /\ \A s \in uses[r] : level[s] < level[r]
           /\ level[r] = 1 \/ \E s \in uses[r] : level[s] + 1 = level[r]
    ELSE \A r \in Repos : level[r] = Unlevelled

(* Whatever the user ticks of what the picker offers, all at once, closes no
   cycle, though each repository was tested by itself; and nothing is left out
   that could be added. *)
PickerIsRight(uses) ==
  Acyclic(uses) =>
    \A d \in Repos :
      \A picked \in SUBSET (Repos \ {d}) :
        Acyclic([uses EXCEPT ![d] = @ \cup picked]) <=> picked \cap Circular(uses, d) = {}
=============================================================================

------------------------------- MODULE Mirror -------------------------------
(***************************************************************************)
(* What a copy of something that changes promises, without scans, queues,  *)
(* workers or versions: the copy of a key is a state its source has had,   *)
(* and it never goes back to an older one.  It may be late for ever, skip  *)
(* states and be copied again: nothing here says that a copy is made.      *)
(*                                                                         *)
(* Two parts of the program implement it: the snapshots the refresh        *)
(* coordinator hands to the publisher (RefreshCoordinator), and the        *)
(* snapshots the database shows as long as nobody stages or commits        *)
(* (SnapshotPipeline).  A state is a number that only grows.               *)
(***************************************************************************)
EXTENDS Naturals

CONSTANT Keys

VARIABLES
  source,       (* the states of the sources                                *)
  copy          (* what is kept of them                                     *)

vars == <<source, copy>>

Init ==
  /\ source = [k \in Keys |-> 0]
  /\ copy = [k \in Keys |-> 0]

Change(k) ==
  /\ source' = [source EXCEPT ![k] = @ + 1]
  /\ UNCHANGED copy

(* The copy catches up, all the way or a part of it. *)
Copy(k) ==
  /\ \E v \in copy[k] .. source[k] : copy' = [copy EXCEPT ![k] = v]
  /\ UNCHANGED source

Next == \E k \in Keys : Change(k) \/ Copy(k)

Spec == Init /\ [][Next]_vars
=============================================================================

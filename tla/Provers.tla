------------------------------- MODULE Provers -------------------------------
(***************************************************************************)
(* The provers of the longer proofs.  A module names its default prover in *)
(* a USE; a step that needs another one cites it.  Solver does arithmetic, *)
(* FirstOrder is the faster one where there is none, and Temporal combines *)
(* the last steps of a theorem about behaviours.                           *)
(***************************************************************************)

Solver == TRUE (*{ by (prover:"smt3"; timeout:30) }*)
FirstOrder == TRUE (*{ by (prover:"zenon"; timeout:30) }*)
Temporal == TRUE (*{ by (prover:"ls4") }*)

=============================================================================

-------------------------- MODULE MCHermesAdapter --------------------------
(* The small instances of HermesAdapter that TLC explores. *)
EXTENDS HermesAdapter

FirstRoot == {1}
OneCount == {1}
=============================================================================

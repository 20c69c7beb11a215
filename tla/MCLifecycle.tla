---------------------------- MODULE MCLifecycle ----------------------------
(* The small instances of Lifecycle that TLC explores. *)
EXTENDS Lifecycle

NoStarts == {}
FirstStarts == {1}
LastEnds == {NumEvents}
=============================================================================

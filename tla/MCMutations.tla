---------------------------- MODULE MCMutations ----------------------------
(* The small instances of Mutations that TLC explores. *)
EXTENDS Mutations, TLC

CONSTANTS s1, s2, s3, t1, t2, t3, b1, b2

\* A caller links to nothing or to a concept that no other text links to.
MCLinkSets == {{}, {s2}}

Concept(title, links) ==
  [title |-> title, body |-> b1, links |-> links, verified |-> {}, forged |-> {}]

\* Before `memory init`, and with two concepts of which one links to the other.
EmptyVault == [p \in Paths |-> None]
SmallVault ==
  [p \in Paths |->
     CASE p = s1 -> Concept(t1, {})
       [] p = s2 -> Concept(t2, {s1})
       [] p = "index.md" -> (s1 :> t1) @@ (s2 :> t2) @@ (s3 :> None)
       [] p = "log.md" -> [entries |-> 2, links |-> {s1}]
       [] p = "note.md" -> [links |-> {s1}]
       [] OTHER -> None]
MCVaults == {EmptyVault, SmallVault}
=============================================================================

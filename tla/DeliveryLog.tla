---------------------------- MODULE DeliveryLog ----------------------------
(***************************************************************************)
(* What the lifecycle queue and its worker promise the hooks that publish: *)
(* an event is recorded in the session file once, after its publication    *)
(* has been accepted; the checkpoints of the file only ever grow at the    *)
(* end; its status only moves forward.                                     *)
(***************************************************************************)
EXTENDS Sequences

CONSTANTS Events,
          Terminals  \* those that end the session

VARIABLES accepted,   \* events whose publication succeeded
          recorded,   \* events the committed session file knows
          pages,      \* its checkpoints, oldest first
          status      \* what it says of the session

logVars == <<accepted, recorded, pages, status>>

LogInit == accepted = {} /\ recorded = {} /\ pages = <<>> /\ status = "absent"

Accept(e) ==
  /\ accepted' = accepted \cup {e}
  /\ UNCHANGED <<recorded, pages, status>>

\* A terminal event closes the session, also one that was given up; any other
\* event opens it, if there is none, and leaves it as it is otherwise.
Record(e) ==
  /\ e \in accepted \ recorded
  /\ recorded' = recorded \cup {e}
  /\ pages' \in {pages, Append(pages, e)}
  /\ status' = IF e \in Terminals THEN "closed"
               ELSE IF status = "absent" THEN "active" ELSE status
  /\ UNCHANGED accepted

\* A running session is given up for dead.
GiveUp ==
  /\ status = "active" /\ status' = "incomplete"
  /\ UNCHANGED <<accepted, recorded, pages>>

LogNext == GiveUp \/ \E e \in Events : Accept(e) \/ Record(e)

LogSpec == LogInit /\ [][LogNext]_logVars
=============================================================================

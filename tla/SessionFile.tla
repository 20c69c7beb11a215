---------------------------- MODULE SessionFile ----------------------------
(***************************************************************************)
(* What agent_memory/sessions.py makes of a session's Markdown file: the   *)
(* file before the first event, after materialising one more event, and    *)
(* after `memory session recover`.  The text is abstracted to what the     *)
(* code reads back from it: the lifecycle-event and session-start markers, *)
(* the numbered checkpoints, the access rows and the status.               *)
(*                                                                         *)
(* Events are numbered in the order in which _order sorts descriptors; an  *)
(* access event is named by its position in the audit spool, so that byte  *)
(* offset n stands for "the first n records".                              *)
(***************************************************************************)
EXTENDS Integers, Sequences, FiniteSets

CONSTANTS NumEvents,   \* number of lifecycle events of the session
          Starts,      \* those of kind session_start
          Terminals,   \* those triggered by reset, new or finalization
          MaxInterval  \* MAX_AUDIT_INTERVAL: records read at once

Events == 1..NumEvents

ASSUME EventsAssumption ==
  /\ NumEvents \in Nat /\ MaxInterval \in Nat
  /\ Starts \subseteq Events /\ Terminals \subseteq Events \ Starts

Statuses == {"absent", "active", "closed", "incomplete"}

\* No file yet: known are the events with a marker in it.
NoSession == [known |-> {}, checkpoints |-> <<>>, rows |-> <<>>, status |-> "absent"]

\* read_access_events raises on an interval that is too long.
IntervalTooLong(cursor, bound) == cursor <= bound /\ bound - cursor > MaxInterval

\* Variant: an off-by-one at the boundary.
RecordsBeforeLast(cursor, bound) == (cursor + 1)..(bound - 1)

\* read_access_events: the records of a byte interval, none when the cursor is
\* past the bound.
RecordsBetween(cursor, bound) == (cursor + 1)..bound

\* Some records in the order in which the spool holds them.
Before(S, n) == {m \in S : m < n}
Rank(S, n) == Cardinality(Before(S, n))
InSpoolOrder(S) == [i \in 1..Cardinality(S) |-> CHOOSE n \in S : Rank(S, n) = i - 1]

\* Variant: records are not looked up in the file.
UnreadRows(file, cursor, bound) == InSpoolOrder(RecordsBetween(cursor, bound))

\* The records the file has no row for yet.
Missing(file, cursor, bound) ==
  {n \in RecordsBetween(cursor, bound) : \A i \in 1..Len(file.rows) : file.rows[i] # n}

NewRows(file, cursor, bound) == InSpoolOrder(Missing(file, cursor, bound))

\* Variant: an event of a session that was marked incomplete makes it active again.
StatusReopened(file, e) ==
  IF e \in Terminals THEN "closed"
  ELSE IF file.status = "closed" THEN file.status
  ELSE "active"

\* A terminal event closes the session; nothing reopens it.
StatusAfter(file, e) ==
  IF e \in Terminals THEN "closed"
  ELSE IF file.status \in {"closed", "incomplete"} THEN file.status
  ELSE "active"

\* A start only leaves its marker in a file that exists; the file that it
\* creates has the marker already, and so the start is appended as a checkpoint.
CheckpointsAfter(file, e) ==
  IF e \in Starts /\ file.status # "absent"
  THEN file.checkpoints ELSE Append(file.checkpoints, e)

\* materialize_descriptor, as far as the session file goes.
Materialized(file, e, cursor, bound) ==
  [known |-> file.known \cup {e},
   checkpoints |-> IF e \in file.known THEN file.checkpoints ELSE CheckpointsAfter(file, e),
   rows |-> file.rows \o NewRows(file, cursor, bound),
   status |-> IF e \in file.known THEN file.status ELSE StatusAfter(file, e)]

\* recover_incomplete, for a session whose status is active.
MarkedIncomplete(file) == [file EXCEPT !.status = "incomplete"]
=============================================================================

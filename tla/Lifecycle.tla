----------------------------- MODULE Lifecycle -----------------------------
(***************************************************************************)
(* The lifecycle queue of agent_memory/lifecycle.py, the worker of         *)
(* worker.py that drains it, and the materialisation of sessions.py, for   *)
(* the events of one session.                                              *)
(*                                                                         *)
(* Hooks publish descriptors into ready/; the worker moves them to         *)
(* claimed/, writes them to the session file in one Git transaction,       *)
(* advances the audit cursor and deletes them; what it cannot write goes   *)
(* to failed/, from where `memory retry` publishes it again.  All of this  *)
(* survives a crash; pc and what follows it is the running holder of       *)
(* worker.lock.                                                            *)
(*                                                                         *)
(* The publication lock makes a publication one step, and the writer lock  *)
(* makes the commands of other processes one step between two steps of the *)
(* worker outside WriterHeld.  A transaction is what module Transaction    *)
(* shows it to be: a journal that is open until its commit, which recovery *)
(* rolls back before the commit and completes after it.  A rollback that   *)
(* fails leaves the journal open, and its output in the vault or not.      *)
(***************************************************************************)
EXTENDS SessionFile

CONSTANTS NoFile,        \* a queue directory has no file of this name
          Attempts,      \* ATTEMPTS: tries of one event in one drain
          RecoverFirst,  \* whether operators recover an open journal before each drain
          MaxAccess,     \* bound: access events appended to the spool
          MaxBuilds,     \* bound: descriptors built by hooks
          MaxFaults      \* bound: crashes and failing calls

ASSUME QueueAssumption ==
  /\ NoFile \notin Nat /\ Attempts \in Nat \ {0} /\ RecoverFirst \in BOOLEAN
  /\ MaxAccess \in Nat /\ MaxBuilds \in Nat /\ MaxFaults \in Nat

\* A descriptor file is named by its event; what two descriptors of one event
\* may differ in is the audit offset captured when they were built.
Files == Nat \cup {NoFile}

VARIABLES
  spool,                   \* records in the audit spool of the session
  outbox,                  \* descriptors built by hooks and not yet published
  accepted,                \* events whose publication has returned
  ready, claimed, failed,  \* the queue directories
  tree, head,              \* the session file in the working tree and at HEAD
  journal,                 \* the pending transaction: "none", "open" or "committed"
  cursor,                  \* the audit cursor file
  pc, job, bound, attempt, \* the drain: its event, the event's offset, its tries
  output,                  \* the session file to be written
  todo,                    \* failed files that the retry has still to look at
  misled,                  \* history: an uncommitted file was taken for a committed one
  builds, faults           \* the bounded counters

hooks == <<spool, outbox, accepted, builds>>
queue == <<ready, claimed, failed>>
vault == <<tree, head, journal, cursor>>
drain == <<job, bound, attempt, output, todo>>
vars == <<hooks, queue, vault, pc, drain, misled, faults>>

Init ==
  /\ spool = 0 /\ outbox = {} /\ accepted = {} /\ builds = 0
  /\ ready = [e \in Events |-> NoFile] /\ claimed = ready /\ failed = ready
  /\ tree = NoSession /\ head = NoSession /\ journal = "none" /\ cursor = 0
  /\ pc = "idle" /\ job = 0 /\ bound = 0 /\ attempt = 0
  /\ output = NoSession /\ todo = {}
  /\ misled = FALSE /\ faults = 0

At(label) == pc = label
Goto(label) == pc' = label
Present(directory) == {e \in Events : directory[e] # NoFile}
First(e, S) == e \in S /\ \A other \in S : e <= other

Forget ==
  /\ pc' = "idle" /\ job' = 0 /\ bound' = 0 /\ attempt' = 0
  /\ output' = NoSession /\ todo' = {}

-----------------------------------------------------------------------------
(* The hooks of the agents *)

\* append_access_event
RecordAccess ==
  /\ spool < MaxAccess /\ spool' = spool + 1
  /\ UNCHANGED <<outbox, accepted, builds, queue, vault, pc, drain, faults, misled>>

\* build_descriptor; a hook may fire again for an event it has published.
Build ==
  /\ builds < MaxBuilds /\ builds' = builds + 1
  /\ \E e \in Events : outbox' = outbox \cup {[event |-> e, offset |-> spool]}
  /\ UNCHANGED <<spool, accepted, queue, vault, pc, drain, faults, misled>>

Held(e) == {ready[e], claimed[e], failed[e]} \ {NoFile}

\* Variant: only ready/ is looked at.
PublishIfNotReady(d) ==
  /\ d \in outbox /\ outbox' = outbox \ {d}
  /\ \/ /\ ready[d.event] = NoFile
        /\ ready' = [ready EXCEPT ![d.event] = d.offset]
        /\ accepted' = accepted \cup {d.event}
     \/ ready[d.event] # NoFile /\ UNCHANGED <<ready, accepted>>
  /\ UNCHANGED <<spool, builds, claimed, failed, vault, pc, drain, faults, misled>>

\* publish_descriptor: a descriptor whose event is queued already is accepted
\* when it is the same and refused when it is not.  The publication lock is
\* held while a failed file is republished.
Publish(d) ==
  /\ ~At("unfail")
  /\ d \in outbox /\ outbox' = outbox \ {d}
  /\ \/ /\ Held(d.event) = {}
        /\ ready' = [ready EXCEPT ![d.event] = d.offset]
        /\ accepted' = accepted \cup {d.event}
     \/ Held(d.event) = {d.offset} /\ accepted' = accepted \cup {d.event} /\ UNCHANGED ready
     \/ Held(d.event) \ {d.offset} # {} /\ UNCHANGED <<ready, accepted>>
  /\ UNCHANGED <<spool, builds, claimed, failed, vault, pc, drain, faults, misled>>

\* The publication lock timed out, or the hook died before linking the file.
Lose(d) ==
  /\ d \in outbox /\ outbox' = outbox \ {d}
  /\ UNCHANGED <<spool, accepted, builds, queue, vault, pc, drain, faults, misled>>

-----------------------------------------------------------------------------
(* drain_once *)

\* The path unit starts the service while ready/ or claimed/ is not empty.
StartDrain ==
  /\ At("idle") /\ Goto("pick")
  /\ Present(ready) \cup Present(claimed) # {}
  /\ RecoverFirst => journal # "open"
  /\ UNCHANGED <<hooks, queue, vault, drain, faults, misled>>

Take(e, offset) ==
  /\ Goto("load") /\ job' = e /\ bound' = offset /\ attempt' = 1
  /\ UNCHANGED <<output, todo>>

ResumeClaimed ==
  /\ At("pick")
  /\ \E e \in Events : First(e, Present(claimed)) /\ Take(e, claimed[e])
  /\ UNCHANGED <<hooks, queue, vault, faults, misled>>

\* Variant: work a crash left claimed does not go first.
ClaimAnyway ==
  /\ At("pick")
  /\ \E e \in Events :
       /\ First(e, Present(ready)) /\ Take(e, ready[e])
       /\ claimed' = [claimed EXCEPT ![e] = ready[e]]
       /\ ready' = [ready EXCEPT ![e] = NoFile]
  /\ UNCHANGED <<hooks, failed, vault, faults, misled>>

\* claim_descriptor, when nothing is claimed.
Claim ==
  /\ At("pick") /\ Present(claimed) = {}
  /\ \E e \in Events :
       /\ First(e, Present(ready)) /\ Take(e, ready[e])
       /\ claimed' = [claimed EXCEPT ![e] = ready[e]]
       /\ ready' = [ready EXCEPT ![e] = NoFile]
  /\ UNCHANGED <<hooks, failed, vault, faults, misled>>

EndDrain ==
  /\ At("pick") /\ Present(claimed) \cup Present(ready) = {}
  /\ Forget
  /\ UNCHANGED <<hooks, queue, vault, faults, misled>>

-----------------------------------------------------------------------------
(* materialize_descriptor, from taking the writer lock to releasing it *)

Computed == Materialized(tree, job, cursor, bound)

\* Nothing to write: the event's marker and its rows are in the working tree,
\* though perhaps not in the committed file.
LoadDuplicate ==
  /\ At("load") /\ Goto("advance")
  /\ ~IntervalTooLong(cursor, bound) /\ Computed = tree
  /\ misled' = (misled \/ tree # head)
  /\ UNCHANGED <<hooks, queue, vault, drain, faults>>

LoadNew ==
  /\ At("load") /\ Goto("replace")
  /\ ~IntervalTooLong(cursor, bound) /\ Computed # tree
  /\ journal = "none" /\ journal' = "open"
  /\ output' = Computed
  /\ UNCHANGED <<hooks, queue, tree, head, cursor, job, bound, attempt, todo, faults, misled>>

\* An over-long audit interval, or another transaction pending: no retry helps.
LoadRefused ==
  /\ At("load") /\ Goto("store")
  /\ IntervalTooLong(cursor, bound) \/ (Computed # tree /\ journal # "none")
  /\ UNCHANGED <<hooks, queue, vault, drain, faults, misled>>

\* Variant: the audit records are acknowledged when the file is written.
ReplaceAndAdvance ==
  /\ At("replace") /\ Goto("commit")
  /\ tree' = output
  /\ cursor' = IF cursor <= bound THEN bound ELSE cursor
  /\ UNCHANGED <<hooks, queue, head, journal, drain, faults, misled>>

Replace ==
  /\ At("replace") /\ Goto("commit")
  /\ tree' = output
  /\ UNCHANGED <<hooks, queue, head, journal, cursor, drain, faults, misled>>

Commit ==
  /\ At("commit") /\ Goto("complete")
  /\ head' = tree /\ journal' = "committed"
  /\ UNCHANGED <<hooks, queue, tree, cursor, drain, faults, misled>>

Complete ==
  /\ At("complete") /\ Goto("advance")
  /\ journal' = "none"
  /\ UNCHANGED <<hooks, queue, tree, head, cursor, drain, faults, misled>>

\* advance_cursor, then the writer lock is released.
Advance ==
  /\ At("advance") /\ Goto("delete")
  /\ cursor' = IF cursor <= bound THEN bound ELSE cursor
  /\ UNCHANGED <<hooks, queue, tree, head, journal, drain, faults, misled>>

WriterHeld == {"replace", "commit", "complete", "advance", "recorded"}

-----------------------------------------------------------------------------
(* drain_once, after the materialisation *)

Delete ==
  /\ At("delete") /\ Goto("stale")
  /\ claimed' = [claimed EXCEPT ![job] = NoFile]
  /\ UNCHANGED <<hooks, ready, failed, vault, drain, faults, misled>>

\* _delete_matching_failed
DeleteMatchingFailed ==
  /\ At("stale") /\ Goto("pick")
  /\ failed' = IF failed[job] = bound THEN [failed EXCEPT ![job] = NoFile] ELSE failed
  /\ UNCHANGED <<hooks, ready, claimed, vault, drain, faults, misled>>

\* Variant: the descriptor is deleted, but no failure is stored.
StoreNothing ==
  /\ At("store") /\ Goto("unclaim")
  /\ UNCHANGED <<hooks, queue, vault, drain, faults, misled>>

\* _store_failed, in its two steps
StoreFailed ==
  /\ At("store") /\ Goto("unclaim")
  /\ failed' = [failed EXCEPT ![job] = bound]
  /\ UNCHANGED <<hooks, ready, claimed, vault, drain, faults, misled>>

\* Variant: a failed event stays claimed.
UnclaimNothing ==
  /\ At("unclaim") /\ Goto("record")
  /\ UNCHANGED <<hooks, queue, vault, drain, faults, misled>>

Unclaim ==
  /\ At("unclaim") /\ Goto("record")
  /\ claimed' = [claimed EXCEPT ![job] = NoFile]
  /\ UNCHANGED <<hooks, ready, failed, vault, drain, faults, misled>>

\* _record_error: a transaction on system/errors.md, and no error if it fails.
RecordError ==
  /\ At("record") /\ Goto("recorded")
  /\ journal = "none" /\ journal' = "open"
  /\ UNCHANGED <<hooks, queue, tree, head, cursor, drain, faults, misled>>

RecordErrorRefused ==
  /\ At("record") /\ Goto("pick")
  /\ journal # "none"
  /\ UNCHANGED <<hooks, queue, vault, drain, faults, misled>>

ErrorRecorded ==
  /\ At("recorded") /\ Goto("pick")
  /\ journal' = "none"
  /\ UNCHANGED <<hooks, queue, tree, head, cursor, drain, faults, misled>>

-----------------------------------------------------------------------------
(* retry_failed, under worker.lock like the drain *)

RetryAll ==
  /\ At("idle") /\ Goto("retry")
  /\ Present(failed) # {} /\ todo' = Present(failed)
  /\ UNCHANGED <<hooks, queue, vault, job, bound, attempt, output, faults, misled>>

RetryOne ==
  /\ At("idle") /\ Goto("retry")
  /\ \E e \in Present(failed) : todo' = {e}
  /\ UNCHANGED <<hooks, queue, vault, job, bound, attempt, output, faults, misled>>

\* Publish the next failed descriptor, or raise over a different ready one.
Republish ==
  /\ At("retry")
  /\ \E e \in Events :
       /\ First(e, todo)
       /\ IF ready[e] \in {NoFile, failed[e]}
          THEN Goto("unfail") /\ ready' = [ready EXCEPT ![e] = failed[e]] /\ UNCHANGED drain
          ELSE Forget /\ UNCHANGED ready
  /\ UNCHANGED <<hooks, claimed, failed, vault, faults, misled>>

Unfail ==
  /\ At("unfail") /\ Goto("retry")
  /\ \E e \in Events :
       /\ First(e, todo)
       /\ failed' = [failed EXCEPT ![e] = NoFile] /\ todo' = todo \ {e}
  /\ UNCHANGED <<hooks, ready, claimed, vault, job, bound, attempt, output, faults, misled>>

EndRetry ==
  /\ At("retry") /\ todo = {} /\ Forget
  /\ UNCHANGED <<hooks, queue, vault, faults, misled>>

-----------------------------------------------------------------------------
(* Other commands that take the writer lock *)

WriterFree == pc \notin WriterHeld

\* memory recover --apply
Recover ==
  /\ WriterFree /\ journal # "none" /\ journal' = "none"
  /\ tree' = IF journal = "open" THEN head ELSE tree
  /\ UNCHANGED <<hooks, queue, head, cursor, pc, drain, faults, misled>>

\* memory session recover: recover_incomplete
MarkIncomplete ==
  /\ WriterFree /\ journal = "none" /\ tree.status = "active"
  /\ tree' = MarkedIncomplete(tree) /\ head' = tree'
  /\ UNCHANGED <<hooks, queue, journal, cursor, pc, drain, faults, misled>>

\* ... killed before its first replacement, before its commit, or after it.
MarkIncompleteCrashes ==
  /\ faults < MaxFaults /\ faults' = faults + 1
  /\ WriterFree /\ journal = "none" /\ tree.status = "active"
  /\ \/ journal' = "open" /\ tree' \in {tree, MarkedIncomplete(tree)} /\ head' = head
     \/ journal' = "committed" /\ tree' = MarkedIncomplete(tree) /\ head' = tree'
  /\ UNCHANGED <<hooks, queue, cursor, pc, drain, misled>>

\* Any other managed write, killed before or after its commit.
OtherWriteCrashes ==
  /\ faults < MaxFaults /\ faults' = faults + 1
  /\ WriterFree /\ journal = "none" /\ journal' \in {"open", "committed"}
  /\ UNCHANGED <<hooks, queue, tree, head, cursor, pc, drain, misled>>

-----------------------------------------------------------------------------
(* Failures of the worker *)

\* The transaction has rolled back; or the rollback has failed as well, before
\* or after it restored the session file, and leaves the journal for recovery.
RolledBack ==
  \/ tree' = head /\ journal' = "none"
  \/ tree' \in {tree, head} /\ UNCHANGED journal

\* The materialisation raises.  A commit is not undone: its journal is left for
\* recovery too.
Raised ==
  /\ pc \in {"load", "replace", "commit", "complete", "advance"}
  /\ faults < MaxFaults /\ faults' = faults + 1
  /\ IF pc \in {"replace", "commit"} THEN RolledBack ELSE UNCHANGED <<tree, journal>>
  /\ UNCHANGED <<hooks, queue, head, cursor, job, bound, output, todo, misled>>

\* Variant: the tries are not counted.
RaisedUncounted == Raised /\ Goto("load") /\ attempt' = attempt + 1

\* An OSError or a lock timeout: tried again, up to ATTEMPTS times.
RaisedRetryable ==
  /\ Raised
  /\ \/ attempt < Attempts /\ attempt' = attempt + 1 /\ Goto("load")
     \/ attempt = Attempts /\ UNCHANGED attempt /\ Goto("store")

\* Any other exception.
RaisedForGood == Raised /\ UNCHANGED attempt /\ Goto("store")

Crash ==
  /\ ~At("idle") /\ faults < MaxFaults /\ faults' = faults + 1
  /\ Forget
  /\ UNCHANGED <<hooks, queue, vault, misled>>

-----------------------------------------------------------------------------
Hooks == RecordAccess \/ Build \/ \E d \in outbox : Publish(d) \/ Lose(d)

Materialize ==
  LoadDuplicate \/ LoadNew \/ LoadRefused \/ Replace \/ Commit \/ Complete \/ Advance

Drain ==
  \/ StartDrain \/ ResumeClaimed \/ Claim \/ EndDrain \/ Materialize
  \/ Delete \/ DeleteMatchingFailed \/ StoreFailed \/ Unclaim
  \/ RecordError \/ RecordErrorRefused \/ ErrorRecorded

Retry == Republish \/ Unfail \/ EndRetry

Others == Recover \/ MarkIncomplete \/ MarkIncompleteCrashes \/ OtherWriteCrashes

Next ==
  \/ Hooks \/ Drain \/ RetryAll \/ RetryOne \/ Retry \/ Others
  \/ RaisedRetryable \/ RaisedForGood \/ Crash

Spec == Init /\ [][Next]_vars

\* systemd starts the service for as long as a watched directory is not empty,
\* and a process that runs goes on.
ServiceSpec == Spec /\ WF_vars(Drain \/ Retry)

\* Operators recover pending transactions and retry failed events again and again.
Operated == SF_vars(Recover) /\ SF_vars(RetryAll)
-----------------------------------------------------------------------------
(* Properties *)

SessionFiles ==
  [known : SUBSET Events, checkpoints : Seq(Events), rows : Seq(1..MaxAccess),
   status : Statuses]

Pcs == {"idle", "pick", "load", "replace", "commit", "complete", "advance", "delete",
        "stale", "store", "unclaim", "record", "recorded", "retry", "unfail"}

\* Every variable holds a value of its kind; in particular no event is tried
\* more often in one drain than ATTEMPTS says.
TypeOK ==
  /\ spool \in 0..MaxAccess /\ builds \in 0..MaxBuilds /\ faults \in 0..MaxFaults
  /\ outbox \in SUBSET [event : Events, offset : 0..MaxAccess]
  /\ accepted \in SUBSET Events
  /\ {ready, claimed, failed} \subseteq [Events -> Files]
  /\ {tree, head, output} \subseteq SessionFiles
  /\ journal \in {"none", "open", "committed"} /\ cursor \in 0..MaxAccess
  /\ pc \in Pcs /\ job \in Events \cup {0} /\ bound \in 0..MaxAccess
  /\ attempt \in 0..Attempts /\ todo \in SUBSET Events /\ misled \in BOOLEAN

\* Files of one event in different queues hold the same descriptor: a claim
\* never meets a conflict, which would stop every later drain, and a retry
\* never publishes over newer work.
QueuesAgree ==
  \A e \in Events : Cardinality(Held(e)) <= 1

\* Whatever crashes, at most one event is claimed: the one worked on.
OneClaim == Cardinality(Present(claimed)) <= 1

\* An accepted event is in a queue until a committed session file knows it.
EventKept == \A e \in accepted : Held(e) # {} \/ e \in head.known

\* ... for as long as the worker has not taken uncommitted output, which a crash
\* or a failed rollback has left in the vault, for a committed session file.
EventKeptUnlessMisled == ~misled => EventKept

\* With the same proviso access records are written to the file once each and in
\* spool order, whichever events carry them there and however often, ...
AccessOnce == ~misled => \A i \in 1..Len(head.rows) : head.rows[i] = i

\* ... and the cursor acknowledges only what has been committed.
AccessKept == ~misled => cursor <= Len(head.rows)

Log == INSTANCE DeliveryLog
  WITH recorded <- head.known, pages <- head.checkpoints, status <- head.status

\* An event is recorded once at most and only after it was accepted, checkpoints
\* are only ever appended, a session that was closed or marked incomplete is never
\* active again, and the last word is that of a terminal event.  This does not
\* depend on what the worker takes for committed.
ImplementsDeliveryLog == Log!LogSpec

\* With operators every accepted event is recorded in the end, unless the worker
\* is misled, ...
EventDelivered == Operated => []<>(accepted \subseteq head.known \/ misled)

\* ... and access events that happened before a session ended reach its file.
AccessDelivered ==
  Operated => \A e \in Terminals, n \in 1..MaxAccess :
                ready[e] = n ~> n <= Len(head.rows) \/ misled

\* Without any operator the watched directories become empty once nothing is
\* published any more: an event is either materialised or moved to failed/,
\* never delayed in between, and none comes back by itself.
WatchedDrains == []<>(Present(ready) = {} /\ Present(claimed) = {})
=============================================================================

------------------------ MODULE LifecycleRefinement ------------------------
(***************************************************************************)
(* Lifecycle implements DeliveryLog; and it loses neither an event nor an  *)
(* access record until it takes a session file for a committed one that is *)
(* not: run lc_lost_checkpoint shows how it may.                           *)
(***************************************************************************)
EXTENDS LifecycleProofs

\* How the session file in the working tree relates to the committed one.  What
\* a crash or a failed rollback leaves there has an open journal.
VaultInv ==
  /\ journal # "open" => tree = head
  /\ pc \in {"replace", "commit", "recorded"} => journal = "open"
  /\ pc \in {"replace", "recorded"} => tree = head
  /\ pc = "replace" => output = Materialized(head, job, cursor, bound)
  /\ pc = "commit" => tree = Materialized(head, job, cursor, bound)
  /\ pc = "complete" => journal = "committed"
  /\ pc = "unclaim" => failed[job] = bound

\* What a worker that has not been misled has acknowledged is committed.
Acknowledged ==
  /\ \A i \in 1..Len(head.rows) : head.rows[i] = i
  /\ cursor <= Len(head.rows)
  /\ pc \in {"complete", "advance", "delete", "stale"} => job \in head.known
  /\ pc \in {"complete", "advance"} => bound <= Len(head.rows)

FileInv == VaultInv /\ (~misled => Acknowledged /\ EventKept)

-----------------------------------------------------------------------------
\* The committed file before the first event has no rows and acknowledges none.
LEMMA FileInit == Init => FileInv
BY EmptySeq DEF Init, NoSession, FileInv, VaultInv, Acknowledged, EventKept

\* One more event in a file whose rows are the first records of the spool:
\* they still are, up to the offset of the event at least.
LEMMA MaterializedRows ==
  ASSUME NEW file \in SessionFiles, NEW e \in Events, NEW c \in 0..MaxAccess, NEW b \in 0..MaxAccess,
         \A i \in 1..Len(file.rows) : file.rows[i] = i, c <= Len(file.rows)
  PROVE  LET after == Materialized(file, e, c, b)
         IN  /\ \A i \in 1..Len(after.rows) : after.rows[i] = i
             /\ c <= Len(after.rows) /\ b <= Len(after.rows)
             /\ after.known = file.known \cup {e}
             /\ after.rows = file.rows => b <= Len(file.rows)
<1>1. RowsUpTo(file, MaxAccess) BY DEF SessionFiles, RowsUpTo
<1>2. c \in Nat /\ b \in Nat /\ MaxAccess \in Nat /\ Len(file.rows) \in Nat
  BY QueueAssumption, LenProperties DEF SessionFiles
<1>3. QED BY <1>1, <1>2, RowsStayConsecutive DEF Materialized

\* The steps of other processes, and of the worker while it does not write.
LEMMA QuietSteps ==
  ASSUME [Next]_vars,
         ~ \/ LoadDuplicate \/ LoadNew \/ Replace \/ Commit \/ Complete \/ Advance
           \/ Delete \/ StoreFailed \/ RecordError \/ ErrorRecorded
           \/ Recover \/ MarkIncomplete \/ MarkIncompleteCrashes \/ OtherWriteCrashes
           \/ RaisedRetryable \/ RaisedForGood
  PROVE  /\ UNCHANGED vault
         /\ \/ UNCHANGED <<pc, job, bound, output, failed>>
            \/ pc' \in {"idle", "pick", "load", "store", "record", "retry", "unfail"}
<1> USE DEF At, Goto
<1>1. CASE Hooks
  BY <1>1 DEF Hooks, RecordAccess, Build, Publish, Lose, queue, drain
<1>2. CASE StartDrain \/ ResumeClaimed \/ Claim \/ EndDrain \/ LoadRefused
  BY <1>2 DEF StartDrain, ResumeClaimed, Claim, EndDrain, LoadRefused, Take, Forget
<1>3. CASE DeleteMatchingFailed \/ Unclaim \/ RecordErrorRefused
  BY <1>3 DEF DeleteMatchingFailed, Unclaim, RecordErrorRefused
<1>4. CASE RetryAll \/ RetryOne \/ Retry
  BY <1>4 DEF RetryAll, RetryOne, Retry, Republish, Unfail, EndRetry, Forget
<1>5. CASE Crash \/ UNCHANGED vars
  BY <1>5 DEF Crash, Forget, vars, queue, drain
<1>6. QED BY <1>1, <1>2, <1>3, <1>4, <1>5 DEF Next, Drain, Materialize, Others

\* What lies in the vault is committed or has an open journal, whatever fails:
\* one step of the proof per action that writes there.
LEMMA VaultNext == IInv /\ VaultInv /\ [Next]_vars => VaultInv'
<1> SUFFICES ASSUME QueueOK, VaultOK, DrainOK, WorkerInv, VaultInv, [Next]_vars
             PROVE  VaultInv'
  BY TypeParts DEF IInv, QueueInv, Parts
<1> USE DEF At, Goto, VaultInv
<1>1. CASE LoadDuplicate
  BY <1>1 DEF LoadDuplicate, vault
<1>2. CASE LoadNew
  BY <1>2 DEF LoadNew, Computed
<1>3. CASE Replace
  BY <1>3 DEF Replace, drain
<1>4. CASE Commit
  BY <1>4 DEF Commit
<1>5. CASE Complete \/ Advance \/ Delete \/ ErrorRecorded \/ RecordError
  BY <1>5 DEF Complete, Advance, Delete, ErrorRecorded, RecordError, vault
<1>6. CASE StoreFailed
  BY <1>6 DEF StoreFailed, QueueOK, WorkerInv, Working, drain, vault
<1>7. ASSUME WriterFree, UNCHANGED <<queue, cursor, pc, drain>>, journal' # "open" => tree' = head'
      PROVE  VaultInv'
  BY <1>7 DEF WriterFree, WriterHeld, queue, drain
<1>8. CASE Recover \/ OtherWriteCrashes
  BY <1>7, <1>8 DEF Recover, OtherWriteCrashes
<1>9. CASE MarkIncomplete \/ MarkIncompleteCrashes
  BY <1>7, <1>9 DEF MarkIncomplete, MarkIncompleteCrashes
<1>10. CASE RaisedRetryable \/ RaisedForGood
  <2>1. /\ pc' \in {"load", "store"} /\ UNCHANGED head
        /\ IF pc \in {"replace", "commit"} THEN RolledBack ELSE UNCHANGED <<tree, journal>>
    BY <1>10 DEF RaisedRetryable, RaisedForGood, Raised
  <2>2. QED BY <2>1 DEF RolledBack
<1>11. CASE /\ UNCHANGED vault
            /\ \/ UNCHANGED <<pc, job, bound, output, failed>>
               \/ pc' \in {"idle", "pick", "load", "store", "record", "retry", "unfail"}
  BY <1>11 DEF vault
<1>12. QED BY <1>1, <1>2, <1>3, <1>4, <1>5, <1>6, <1>8, <1>9, <1>10, <1>11, QuietSteps

\* The worker acknowledges only what is committed, unless it is misled now or was
\* before: one step of the proof per action that writes to the vault.
LEMMA AcknowledgedNext ==
  IInv /\ VaultInv /\ Acknowledged /\ [Next]_vars /\ ~misled' => Acknowledged'
<1> SUFFICES ASSUME VaultOK, DrainOK, WorkerInv, VaultInv, Acknowledged, [Next]_vars, ~misled'
             PROVE  Acknowledged'
  BY TypeParts DEF IInv, QueueInv, Parts
<1> USE DEF At, Goto, Acknowledged
<1>1. CASE LoadDuplicate
  <2>1. job \in Events /\ pc' = "advance" /\ UNCHANGED <<vault, drain>>
        /\ tree = head /\ head = Materialized(head, job, cursor, bound)
    BY <1>1 DEF LoadDuplicate, Computed, WorkerInv, Working
  <2>2. job \in head.known /\ bound <= Len(head.rows)
    BY <2>1, MaterializedRows DEF VaultOK, DrainOK
  <2>3. QED BY <2>1, <2>2 DEF vault, drain
<1>2. CASE LoadNew \/ Replace \/ StoreFailed \/ RecordError \/ ErrorRecorded
  BY <1>2 DEF LoadNew, Replace, StoreFailed, RecordError, ErrorRecorded, vault
<1>3. CASE Commit
  <2>1. /\ pc = "commit" /\ pc' = "complete" /\ head' = tree
        /\ UNCHANGED <<cursor, job, bound>> /\ job \in Events
        /\ tree = Materialized(head, job, cursor, bound)
    BY <1>3 DEF Commit, drain, WorkerInv, Working, VaultInv
  <2>2. /\ \A i \in 1..Len(tree.rows) : tree.rows[i] = i
        /\ cursor <= Len(tree.rows) /\ bound <= Len(tree.rows) /\ job \in tree.known
    BY <2>1, MaterializedRows DEF VaultOK, DrainOK
  <2>3. QED BY <2>1, <2>2
<1>4. CASE Complete \/ Advance \/ Delete
  BY <1>4 DEF Complete, Advance, Delete, vault, drain
<1>5. CASE Recover \/ OtherWriteCrashes
  BY <1>5 DEF Recover, OtherWriteCrashes, drain
<1>6. CASE MarkIncomplete \/ MarkIncompleteCrashes
  <2>1. /\ head' \in {head, MarkedIncomplete(head)} /\ head \in SessionFiles
        /\ UNCHANGED <<cursor, pc, drain>>
    BY <1>6 DEF MarkIncomplete, MarkIncompleteCrashes, VaultOK, VaultInv
  <2>2. head'.rows = head.rows /\ head'.known = head.known BY <2>1, MarkedType
  <2>3. QED BY <2>1, <2>2 DEF drain
<1>7. CASE RaisedRetryable \/ RaisedForGood
  <2>1. pc' \in {"load", "store"} /\ UNCHANGED <<head, cursor>>
    BY <1>7 DEF RaisedRetryable, RaisedForGood, Raised
  <2>2. QED BY <2>1
<1>8. CASE /\ UNCHANGED vault
           /\ \/ UNCHANGED <<pc, job, bound, output, failed>>
              \/ pc' \in {"idle", "pick", "load", "store", "record", "retry", "unfail"}
  BY <1>8 DEF vault
<1>9. QED BY <1>1, <1>2, <1>3, <1>4, <1>5, <1>6, <1>7, <1>8, QuietSteps

-----------------------------------------------------------------------------
\* The commit of the worker: the committed file gets one more event, which
\* hooks have published.
CommitsJob ==
  /\ job \in accepted /\ UNCHANGED accepted
  /\ head' = Materialized(head, job, cursor, bound)

\* A recovery command gives a running session up.
GivesUp ==
  /\ head.status = "active" /\ head'.status = "incomplete"
  /\ UNCHANGED <<head.known, head.checkpoints, accepted>>

\* Any other step leaves the committed file alone and accepts one event at most.
CommitsNothing ==
  /\ UNCHANGED head
  /\ UNCHANGED accepted \/ \E e \in Events : accepted' = accepted \cup {e}

\* HEAD moves by one commit of the running job, by one recovery, or not at all.
LEMMA HeadNext == IInv /\ VaultInv /\ [Next]_vars => CommitsJob \/ GivesUp \/ CommitsNothing
<1> SUFFICES ASSUME HooksOK, VaultOK, DrainOK, WorkerInv, HeldInv, VaultInv, [Next]_vars
             PROVE  CommitsJob \/ GivesUp \/ CommitsNothing
  BY TypeParts DEF IInv, QueueInv, Parts
<1> USE DEF At
<1>1. CASE \E d \in outbox : Publish(d)
  BY <1>1 DEF Publish, vault, HooksOK, CommitsNothing
<1>2. CASE Commit
  <2>1. job \in accepted BY <1>2, WorkedOnIsHeld DEF Commit, Working
  <2>2. QED BY <1>2, <2>1 DEF Commit, hooks, VaultInv, CommitsJob
<1>3. CASE MarkIncomplete \/ MarkIncompleteCrashes
  <2>1. tree = head /\ tree.status = "active" /\ UNCHANGED hooks
    BY <1>3 DEF MarkIncomplete, MarkIncompleteCrashes, VaultInv
  <2>2. head' \in {head, MarkedIncomplete(head)}
    BY <1>3, <2>1 DEF MarkIncomplete, MarkIncompleteCrashes
  <2>3. QED BY <2>1, <2>2, MarkedType DEF VaultOK, hooks, CommitsNothing, GivesUp
<1>4. CASE UNCHANGED <<accepted, head>>
  BY <1>4 DEF CommitsNothing
<1>5. QED
  <2>1. CASE RecordAccess \/ Build \/ \E d \in outbox : Lose(d)
    BY <1>4, <2>1 DEF RecordAccess, Build, Lose, vault
  <2>2. CASE StartDrain \/ ResumeClaimed \/ Claim \/ EndDrain \/ LoadDuplicate \/ LoadNew
             \/ LoadRefused \/ Replace \/ Complete \/ Advance
    BY <1>4, <2>2 DEF StartDrain, ResumeClaimed, Claim, EndDrain, LoadDuplicate, LoadNew,
                      LoadRefused, Replace, Complete, Advance, hooks, vault
  <2>3. CASE Delete \/ DeleteMatchingFailed \/ StoreFailed \/ Unclaim \/ RecordError
             \/ RecordErrorRefused \/ ErrorRecorded
    BY <1>4, <2>3 DEF Delete, DeleteMatchingFailed, StoreFailed, Unclaim, RecordError,
                      RecordErrorRefused, ErrorRecorded, hooks, vault
  <2>4. CASE RetryAll \/ RetryOne \/ Retry \/ Recover \/ OtherWriteCrashes \/ RaisedRetryable
             \/ RaisedForGood \/ Crash \/ UNCHANGED vars
    BY <1>4, <2>4 DEF RetryAll, RetryOne, Retry, Republish, Unfail, EndRetry, Recover,
                      OtherWriteCrashes, RaisedRetryable, RaisedForGood, Raised, Crash, vars,
                      hooks, vault
  <2>5. QED BY <1>1, <1>2, <1>3, <2>1, <2>2, <2>3, <2>4
            DEF Next, Hooks, Drain, Materialize, Others

\* A step takes the last descriptor of an event out of the queues only when the
\* committed file knows the event.
LEMMA HeldNext ==
  IInv /\ VaultInv /\ Acknowledged /\ [Next]_vars =>
    /\ \A e \in Events : Held(e) # {} => Held(e)' # {} \/ e \in head.known
    /\ \A e \in accepted' \ accepted : Held(e)' # {}
<1> SUFFICES ASSUME HooksOK, QueueOK, DrainOK, WorkerInv, HeldInv, OutboxInv,
                    VaultInv, Acknowledged, [Next]_vars
             PROVE  /\ \A e \in Events : Held(e) # {} => Held(e)' # {} \/ e \in head.known
                    /\ \A e \in accepted' \ accepted : Held(e)' # {}
  BY TypeParts DEF IInv, QueueInv, Parts
<1> DEFINE Goal == /\ \A e \in Events : Held(e) # {} => Held(e)' # {} \/ e \in head.known
                   /\ \A e \in accepted' \ accepted : Held(e)' # {}
<1> USE DEF At
<1>1. ASSUME UNCHANGED <<accepted, queue>> PROVE Goal
  BY <1>1 DEF queue, Held
<1>2. ASSUME NEW d \in outbox, Publish(d) PROVE Goal
  <2>1. d.event \in Events /\ d.offset # NoFile /\ UNCHANGED <<claimed, failed>>
        /\ accepted' \subseteq accepted \cup {d.event}
    BY <1>2, QueueAssumption DEF Publish, OutboxInv, HooksOK
  <2>2. CASE UNCHANGED ready /\ (Held(d.event) = {d.offset} \/ UNCHANGED accepted)
    BY <2>1, <2>2 DEF Held
  <2>3. CASE Held(d.event) = {} /\ ready' = [ready EXCEPT ![d.event] = d.offset]
    BY <2>1, <2>3 DEF Held, QueueOK
  <2>4. QED BY <1>2, <2>2, <2>3 DEF Publish
<1>3. CASE Claim
  <2>1. PICK e \in Events :
          /\ First(e, Present(ready))
          /\ claimed' = [claimed EXCEPT ![e] = ready[e]]
          /\ ready' = [ready EXCEPT ![e] = NoFile]
    BY <1>3 DEF Claim
  <2>2. claimed'[e] # NoFile BY <2>1 DEF First, Present, QueueOK
  <2>3. UNCHANGED <<accepted, failed>> BY <1>3 DEF Claim, hooks
  <2>4. QED BY <2>1, <2>2, <2>3 DEF Held, QueueOK
<1>4. CASE Delete
  <2>1. job \in head.known BY <1>4 DEF Delete, Acknowledged
  <2>2. QED BY <1>4, <2>1 DEF Delete, Held, QueueOK, hooks
<1>5. CASE DeleteMatchingFailed
  <2>1. job \in head.known BY <1>5 DEF DeleteMatchingFailed, Acknowledged
  <2>2. QED BY <1>5, <2>1 DEF DeleteMatchingFailed, Held, QueueOK, hooks
<1>6. CASE StoreFailed
  <2>1. bound # NoFile BY QueueAssumption DEF DrainOK
  <2>2. QED BY <1>6, <2>1 DEF StoreFailed, Held, QueueOK, hooks
<1>7. CASE Unclaim
  <2>1. failed[job] = bound /\ bound # NoFile
    BY <1>7, QueueAssumption DEF Unclaim, VaultInv, DrainOK
  <2>2. QED BY <1>7, <2>1 DEF Unclaim, Held, QueueOK, hooks
<1>8. CASE Republish
  <2>1. PICK e \in Events :
          /\ e \in todo
          /\ \/ ready' = [ready EXCEPT ![e] = failed[e]]
             \/ UNCHANGED ready
    BY <1>8 DEF Republish, First
  <2>2. failed[e] # NoFile BY <1>8, <2>1 DEF Republish, WorkerInv, Present
  <2>3. UNCHANGED <<accepted, claimed, failed>> BY <1>8 DEF Republish, hooks
  <2>4. QED BY <2>1, <2>2, <2>3 DEF Held, QueueOK
<1>9. CASE Unfail
  <2>1. PICK e \in Events :
          First(e, todo) /\ failed' = [failed EXCEPT ![e] = NoFile]
    BY <1>9 DEF Unfail
  <2>2. ready[e] = failed[e] /\ UNCHANGED <<accepted, ready, claimed>>
    BY <1>9, <2>1 DEF Unfail, WorkerInv, hooks
  <2>3. QED BY <2>1, <2>2 DEF Held, QueueOK
<1>10. QED
  <2>1. CASE RecordAccess \/ Build \/ \E d \in outbox : Lose(d)
    BY <1>1, <2>1 DEF RecordAccess, Build, Lose
  <2>2. CASE StartDrain \/ ResumeClaimed \/ EndDrain \/ Materialize
    BY <1>1, <2>2 DEF StartDrain, ResumeClaimed, EndDrain, Materialize, LoadDuplicate, LoadNew,
                      LoadRefused, Replace, Commit, Complete, Advance, hooks
  <2>3. CASE RecordError \/ RecordErrorRefused \/ ErrorRecorded
    BY <1>1, <2>3 DEF RecordError, RecordErrorRefused, ErrorRecorded, hooks
  <2>4. CASE RetryAll \/ RetryOne \/ EndRetry \/ Others \/ RaisedRetryable \/ RaisedForGood
             \/ Crash \/ UNCHANGED vars
    BY <1>1, <2>4 DEF RetryAll, RetryOne, EndRetry, Others, Recover, MarkIncomplete,
                      MarkIncompleteCrashes, OtherWriteCrashes, RaisedRetryable, RaisedForGood,
                      Raised, Crash, vars, hooks
  <2>5. QED BY <1>2, <1>3, <1>4, <1>5, <1>6, <1>7, <1>8, <1>9, <2>1, <2>2, <2>3, <2>4
            DEF Next, Hooks, Drain, Retry

\* A commit only adds to what the committed file knows.
LEMMA KnownGrows ==
  IInv /\ VaultInv /\ [Next]_vars => head.known \subseteq head'.known
BY HeadNext DEF CommitsJob, GivesUp, CommitsNothing, Materialized

\* An accepted event that leaves the queues is known by then, and stays known.
LEMMA EventNext ==
  IInv /\ VaultInv /\ Acknowledged /\ EventKept /\ [Next]_vars => EventKept'
<1> SUFFICES ASSUME IInv, VaultInv, Acknowledged, EventKept, [Next]_vars, NEW e \in accepted'
             PROVE  Held(e)' # {} \/ e \in head'.known
  BY DEF EventKept
<1>1. CASE e \in accepted
  <2>1. e \in Events BY <1>1 DEF IInv, TypeOK
  <2>2. QED BY <1>1, <2>1, HeldNext, KnownGrows DEF EventKept
<1>2. CASE e \notin accepted BY <1>2, HeldNext
<1>3. QED BY <1>1, <1>2

-----------------------------------------------------------------------------
\* The file invariant holds always: whatever crashes, whatever is rolled back or
\* is not, and whether or not anybody recovers.
THEOREM FileInvariant == Spec => []FileInv
<1>1. IInv /\ FileInv /\ [Next]_vars => FileInv'
  <2> SUFFICES ASSUME IInv, FileInv, [Next]_vars PROVE FileInv'
    OBVIOUS
  <2>1. VaultInv' BY VaultNext DEF FileInv
  <2>2. ASSUME ~misled' PROVE Acknowledged' /\ EventKept'
    <3>1. ~misled BY <2>2, MisledNext
    <3>2. QED BY <2>2, <3>1, AcknowledgedNext, EventNext DEF FileInv
  <2>3. QED BY <2>1, <2>2 DEF FileInv
<1>2. QED BY <1>1, FileInit, QueueInvariant, PTL DEF Spec

\* No accepted event is lost until the worker is misled: whatever crashes and
\* whoever retries, it stays in a queue until a committed session file knows it.
THEOREM EventAlwaysKept == Spec => []EventKeptUnlessMisled
<1>1. FileInv => EventKeptUnlessMisled BY DEF FileInv, EventKeptUnlessMisled
<1>2. QED BY <1>1, FileInvariant, PTL

\* Access records are in the committed file once each and in spool order until
\* the worker is misled, although every event carries an interval of its own and
\* may carry it again after a crash.
THEOREM AccessAlwaysOnce == Spec => []AccessOnce
<1>1. FileInv => AccessOnce BY DEF FileInv, Acknowledged, AccessOnce
<1>2. QED BY <1>1, FileInvariant, PTL

\* The audit cursor acknowledges no record that is not committed until the worker
\* is misled, so a crash before or after advance_cursor loses none.
THEOREM AccessAlwaysKept == Spec => []AccessKept
<1>1. FileInv => AccessKept BY DEF FileInv, Acknowledged, AccessKept
<1>2. QED BY <1>1, FileInvariant, PTL

-----------------------------------------------------------------------------
\* The empty log is what the queue looks like before the first event.
LEMMA LogStarts == Init => Log!LogInit
BY DEF Init, NoSession, Log!LogInit

\* The commit of the worker records the event it has in hand, once; a recovery
\* gives a session up; any other step accepts an event or is not seen in the log.
LEMMA LogStep == IInv /\ VaultInv /\ [Next]_vars => [Log!LogNext]_(Log!logVars)
<1> SUFFICES ASSUME IInv, VaultInv, [Next]_vars PROVE [Log!LogNext]_(Log!logVars)
  OBVIOUS
<1>1. accepted \subseteq Events /\ head.status \in Statuses
  BY DEF IInv, TypeOK, SessionFiles
<1>2. CASE CommitsNothing
  BY <1>2 DEF CommitsNothing, Log!LogNext, Log!Accept, Log!logVars
<1>3. CASE GivesUp
  BY <1>3 DEF GivesUp, Log!LogNext, Log!GiveUp
<1>4. CASE CommitsJob
  <2>1. /\ head'.known = head.known \cup {job} /\ UNCHANGED accepted
        /\ head'.checkpoints = IF job \in head.known THEN head.checkpoints
                               ELSE CheckpointsAfter(head, job)
        /\ head'.status = IF job \in head.known THEN head.status ELSE StatusAfter(head, job)
    BY <1>4 DEF CommitsJob, Materialized
  <2>2. CASE job \in head.known
    BY <2>1, <2>2 DEF Log!logVars
  <2>3. CASE job \notin head.known
    <3>1. head'.checkpoints \in {head.checkpoints, Append(head.checkpoints, job)}
      BY <2>1, <2>3 DEF CheckpointsAfter
    <3>2. head'.status = IF job \in Terminals THEN "closed"
                         ELSE IF head.status = "absent" THEN "active" ELSE head.status
      BY <1>1, <2>1, <2>3 DEF StatusAfter, Statuses
    <3>3. job \in accepted BY <1>4 DEF CommitsJob
    <3>4. Log!Record(job) BY <2>1, <2>3, <3>1, <3>2, <3>3 DEF Log!Record
    <3>5. QED BY <1>1, <3>3, <3>4 DEF Log!LogNext
  <2>4. QED BY <2>2, <2>3
<1>5. QED BY <1>2, <1>3, <1>4, HeadNext

\* The queue and its worker implement the log, for any number of events, crashes,
\* failed rollbacks and retries, and whether or not anybody recovers: no event is
\* recorded twice, and no status goes back.
THEOREM LifecycleImplementsLog == Spec => ImplementsDeliveryLog
<1>1. FileInv => VaultInv BY DEF FileInv
<1>2. QED BY <1>1, LogStarts, LogStep, QueueInvariant, FileInvariant, PTL
          DEF Spec, ImplementsDeliveryLog, Log!LogSpec
=============================================================================

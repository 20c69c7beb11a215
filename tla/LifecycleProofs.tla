-------------------------- MODULE LifecycleProofs ---------------------------
(***************************************************************************)
(* Proofs about Lifecycle for any number of events, access records and     *)
(* faults, whether or not operators recover before they drain.             *)
(***************************************************************************)
EXTENDS Lifecycle, SessionFileProofs

\* The points at which the worker has an event in hand that it has claimed.
Working == {"load", "replace", "commit", "complete", "advance", "delete", "store", "unclaim"}

\* What the point that the drain or the retry has reached says of the queue.
WorkerInv ==
  /\ pc \in Working => job \in Events /\ claimed[job] = bound
  /\ pc = "stale" => job \in Events
  /\ pc \in {"retry", "unfail"} => todo \subseteq Present(failed)
  /\ pc = "unfail" => \A e \in Events : First(e, todo) => ready[e] = failed[e]

\* No descriptor reaches beyond the spool, and an event that is queued has been
\* accepted.
HeldInv ==
  \A e \in Events : Held(e) \subseteq 0..spool /\ (Held(e) # {} => e \in accepted)

OutboxInv == \A d \in outbox : d.offset <= spool

\* QueuesAgree and OneClaim, without Cardinality.
Agreement == \A e \in Events : \A x, y \in Held(e) : x = y
SingleClaim == \A e, f \in Present(claimed) : e = f

QueueInv == WorkerInv /\ HeldInv /\ OutboxInv /\ Agreement /\ SingleClaim
IInv == TypeOK /\ QueueInv

-----------------------------------------------------------------------------
\* The session file after one more event is a session file.
LEMMA MaterializedType ==
  ASSUME NEW file \in SessionFiles, NEW e \in Events,
         NEW c \in 0..MaxAccess, NEW b \in 0..MaxAccess
  PROVE  Materialized(file, e, c, b) \in SessionFiles
<1> USE QueueAssumption
<1>1. /\ file.known \in SUBSET Events /\ file.checkpoints \in Seq(Events)
      /\ file.rows \in Seq(1..MaxAccess) /\ file.status \in Statuses
  BY DEF SessionFiles
<1>2. CheckpointsAfter(file, e) \in Seq(Events)
  BY <1>1, AppendProperties DEF CheckpointsAfter
<1>3. StatusAfter(file, e) \in Statuses BY DEF StatusAfter, Statuses
<1>4. file.rows \o NewRows(file, c, b) \in Seq(1..MaxAccess)
  <2>1. c \in Nat /\ b \in Nat /\ 1..b \subseteq 1..MaxAccess OBVIOUS
  <2>2. NewRows(file, c, b) \in Seq(1..b) BY <2>1, NewRowsProperties
  <2>3. NewRows(file, c, b) \in Seq(1..MaxAccess) BY <2>1, <2>2, SeqMonotonic
  <2>4. QED BY <1>1, <2>3, ConcatProperties
<1>5. QED BY <1>1, <1>2, <1>3, <1>4 DEF Materialized, SessionFiles

\* Marking a session incomplete leaves it a session file.
LEMMA MarkedType ==
  ASSUME NEW file \in SessionFiles
  PROVE  /\ MarkedIncomplete(file) \in SessionFiles
         /\ MarkedIncomplete(file).known = file.known
         /\ MarkedIncomplete(file).checkpoints = file.checkpoints
         /\ MarkedIncomplete(file).rows = file.rows
         /\ MarkedIncomplete(file).status = "incomplete"
BY DEF MarkedIncomplete, SessionFiles, Statuses

\* The file before the first event is a session file too.
LEMMA NoSessionType == NoSession \in SessionFiles
BY EmptySeq DEF NoSession, SessionFiles, Statuses

-----------------------------------------------------------------------------
\* The types of the queue, of the vault and of the drain.
QueueOK ==
  /\ ready \in [Events -> Files] /\ claimed \in [Events -> Files]
  /\ failed \in [Events -> Files]
VaultOK ==
  /\ tree \in SessionFiles /\ head \in SessionFiles
  /\ journal \in {"none", "open", "committed"} /\ cursor \in 0..MaxAccess
HooksOK ==
  /\ spool \in 0..MaxAccess /\ builds \in 0..MaxBuilds
  /\ outbox \in SUBSET [event : Events, offset : 0..MaxAccess]
  /\ accepted \in SUBSET Events
DrainOK ==
  /\ job \in Events \cup {0} /\ bound \in 0..MaxAccess
  /\ attempt \in 0..Attempts /\ output \in SessionFiles /\ todo \in SUBSET Events

Parts ==
  /\ HooksOK /\ QueueOK /\ VaultOK /\ DrainOK
  /\ pc \in Pcs /\ misled \in BOOLEAN /\ faults \in 0..MaxFaults

\* TypeOK, taken apart.
LEMMA TypeParts == (TypeOK <=> Parts) /\ (TypeOK' <=> Parts')
BY DEF Parts, TypeOK, HooksOK, QueueOK, VaultOK, DrainOK

\* Before the first event every variable has its type.
LEMMA TypeInit == Init => TypeOK
<1>1. Init => misled \in BOOLEAN BY DEF Init
<1>2. Init => HooksOK /\ QueueOK BY QueueAssumption DEF Init, HooksOK, QueueOK, Files
<1>3. Init => VaultOK /\ DrainOK BY NoSessionType, QueueAssumption DEF Init, VaultOK, DrainOK
<1>4. Init => pc \in Pcs /\ faults \in 0..MaxFaults BY QueueAssumption DEF Init, Pcs
<1>5. QED BY <1>1, <1>2, <1>3, <1>4, TypeParts DEF Parts

\* What a step does not touch keeps its type; a process that ended holds nothing.
LEMMA FrameType ==
  /\ HooksOK /\ UNCHANGED hooks => HooksOK'
  /\ QueueOK /\ UNCHANGED queue => QueueOK'
  /\ VaultOK /\ UNCHANGED vault => VaultOK'
  /\ DrainOK /\ UNCHANGED drain => DrainOK'
  /\ Forget => DrainOK' /\ pc' = "idle"
BY NoSessionType, QueueAssumption
   DEF hooks, queue, vault, drain, HooksOK, QueueOK, VaultOK, DrainOK, Forget

\* The worker is misled where it finds an event in an uncommitted file, and nowhere else.
LEMMA MisledNext ==
  [Next]_vars => UNCHANGED misled \/ (LoadDuplicate /\ misled' = (misled \/ tree # head))
<1> SUFFICES ASSUME [Next]_vars
             PROVE  UNCHANGED misled \/ (LoadDuplicate /\ misled' = (misled \/ tree # head))
  OBVIOUS
<1>1. CASE Hooks
  BY <1>1 DEF Hooks, RecordAccess, Build, Publish, Lose
<1>2. CASE StartDrain \/ ResumeClaimed \/ Claim \/ EndDrain
  BY <1>2 DEF StartDrain, ResumeClaimed, Claim, EndDrain
<1>3. CASE Materialize
  BY <1>3 DEF Materialize, LoadDuplicate, LoadNew, LoadRefused, Replace, Commit, Complete, Advance
<1>4. CASE Delete \/ DeleteMatchingFailed \/ StoreFailed \/ Unclaim
           \/ RecordError \/ RecordErrorRefused \/ ErrorRecorded
  BY <1>4 DEF Delete, DeleteMatchingFailed, StoreFailed, Unclaim, RecordError,
              RecordErrorRefused, ErrorRecorded
<1>5. CASE RetryAll \/ RetryOne \/ Retry
  BY <1>5 DEF RetryAll, RetryOne, Retry, Republish, Unfail, EndRetry
<1>6. CASE Others
  BY <1>6 DEF Others, Recover, MarkIncomplete, MarkIncompleteCrashes, OtherWriteCrashes
<1>7. CASE RaisedRetryable \/ RaisedForGood \/ Crash \/ UNCHANGED vars
  BY <1>7 DEF RaisedRetryable, RaisedForGood, Raised, Crash, vars
<1>8. QED BY <1>1, <1>2, <1>3, <1>4, <1>5, <1>6, <1>7 DEF Next, Drain

\* No step of a hook, of the worker or of another command leaves the types.
LEMMA TypeNext == TypeOK /\ QueueInv /\ [Next]_vars => TypeOK'
<1>0. Parts /\ [Next]_vars => misled' \in BOOLEAN
  BY MisledNext DEF Parts
<1> SUFFICES ASSUME HooksOK, QueueOK, VaultOK, DrainOK, pc \in Pcs, faults \in 0..MaxFaults,
                    WorkerInv, HeldInv, OutboxInv, [Next]_vars
             PROVE  /\ HooksOK' /\ QueueOK' /\ VaultOK' /\ DrainOK'
                    /\ pc' \in Pcs /\ faults' \in 0..MaxFaults
  BY <1>0, TypeParts DEF QueueInv, Parts
<1> DEFINE Goal == /\ HooksOK' /\ QueueOK' /\ VaultOK' /\ DrainOK'
                   /\ pc' \in Pcs /\ faults' \in 0..MaxFaults
<1> USE FrameType, QueueAssumption DEF At, Goto, Pcs
<1>1. CASE RecordAccess
  BY <1>1 DEF RecordAccess, HooksOK
<1>2. CASE Build
  BY <1>2 DEF Build, HooksOK
<1>3. ASSUME NEW d \in outbox, Publish(d) PROVE Goal
  <2>1. d.event \in Events /\ d.offset \in Nat /\ d.offset \in Files
    BY DEF HooksOK, Files
  <2>2. HooksOK' BY <1>3, <2>1 DEF Publish, HooksOK
  <2>3. QueueOK' BY <1>3, <2>1 DEF Publish, QueueOK
  <2>4. QED BY <1>3, <2>2, <2>3 DEF Publish
<1>4. ASSUME NEW d \in outbox, Lose(d) PROVE Goal
  BY <1>4 DEF Lose, HooksOK
<1>5. CASE StartDrain
  BY <1>5 DEF StartDrain
<1>6. ASSUME NEW e \in Events, NEW x \in 0..MaxAccess, Take(e, x) PROVE DrainOK' /\ pc' \in Pcs
  BY <1>6 DEF Take, DrainOK
<1>7. \A e \in Events : {ready[e], claimed[e], failed[e]} \ {NoFile} \subseteq 0..MaxAccess
  BY DEF HeldInv, Held, HooksOK
<1>8. CASE ResumeClaimed
  <2>1. PICK e \in Events : First(e, Present(claimed)) /\ Take(e, claimed[e])
    BY <1>8 DEF ResumeClaimed
  <2>2. claimed[e] \in 0..MaxAccess BY <1>7, <2>1 DEF First, Present
  <2>3. QED BY <1>6, <1>8, <2>1, <2>2 DEF ResumeClaimed
<1>9. CASE Claim
  <2>1. PICK e \in Events :
          /\ First(e, Present(ready)) /\ Take(e, ready[e])
          /\ claimed' = [claimed EXCEPT ![e] = ready[e]]
          /\ ready' = [ready EXCEPT ![e] = NoFile]
    BY <1>9 DEF Claim
  <2>2. ready[e] \in 0..MaxAccess BY <1>7, <2>1 DEF First, Present
  <2>3. QueueOK' BY <1>9, <2>1 DEF Claim, QueueOK, Files
  <2>4. QED BY <1>6, <1>9, <2>1, <2>2, <2>3 DEF Claim
<1>10. CASE EndDrain
  BY <1>10 DEF EndDrain
<1>11. CASE LoadDuplicate
  BY <1>11 DEF LoadDuplicate
<1>12. CASE LoadNew
  <2>1. job \in Events BY <1>12 DEF LoadNew, WorkerInv, Working
  <2>2. output' \in SessionFiles
    BY <1>12, <2>1, MaterializedType DEF LoadNew, Computed, VaultOK, DrainOK
  <2>3. DrainOK' BY <1>12, <2>2 DEF LoadNew, DrainOK
  <2>4. VaultOK' BY <1>12 DEF LoadNew, VaultOK
  <2>5. QED BY <1>12, <2>3, <2>4 DEF LoadNew
<1>13. CASE LoadRefused
  BY <1>13 DEF LoadRefused
<1>14. CASE Replace
  BY <1>14 DEF Replace, VaultOK, DrainOK
<1>15. CASE Commit
  BY <1>15 DEF Commit, VaultOK
<1>16. CASE Complete
  BY <1>16 DEF Complete, VaultOK
<1>17. CASE Advance
  BY <1>17 DEF Advance, VaultOK, DrainOK
<1>18. CASE Delete
  BY <1>18 DEF Delete, QueueOK, Files
<1>19. CASE DeleteMatchingFailed
  BY <1>19 DEF DeleteMatchingFailed, QueueOK, Files
<1>20. CASE StoreFailed
  <2>1. bound \in Files BY QueueAssumption DEF DrainOK, Files
  <2>2. QueueOK' BY <1>20, <2>1 DEF StoreFailed, QueueOK
  <2>3. QED BY <1>20, <2>2 DEF StoreFailed
<1>21. CASE Unclaim
  BY <1>21 DEF Unclaim, QueueOK, Files
<1>22. CASE RecordError
  BY <1>22 DEF RecordError, VaultOK
<1>23. CASE RecordErrorRefused
  BY <1>23 DEF RecordErrorRefused
<1>24. CASE ErrorRecorded
  BY <1>24 DEF ErrorRecorded, VaultOK
<1>25. CASE RetryAll
  BY <1>25 DEF RetryAll, DrainOK, Present
<1>26. CASE RetryOne
  BY <1>26 DEF RetryOne, DrainOK, Present
<1>27. CASE Republish
  <2>1. PICK e \in Events :
          /\ First(e, todo)
          /\ IF ready[e] \in {NoFile, failed[e]}
             THEN Goto("unfail") /\ ready' = [ready EXCEPT ![e] = failed[e]] /\ UNCHANGED drain
             ELSE Forget /\ UNCHANGED ready
    BY <1>27 DEF Republish
  <2>2. QueueOK' BY <1>27, <2>1 DEF Republish, QueueOK
  <2>3. QED BY <1>27, <2>1, <2>2 DEF Republish
<1>28. CASE Unfail
  <2>1. PICK e \in Events : failed' = [failed EXCEPT ![e] = NoFile] /\ todo' = todo \ {e}
    BY <1>28 DEF Unfail
  <2>2. QueueOK' BY <1>28, <2>1 DEF Unfail, QueueOK, Files
  <2>3. DrainOK' BY <1>28, <2>1 DEF Unfail, DrainOK
  <2>4. QED BY <1>28, <2>2, <2>3 DEF Unfail
<1>29. CASE EndRetry
  BY <1>29 DEF EndRetry
<1>30. CASE Recover
  BY <1>30 DEF Recover, VaultOK
<1>31. CASE MarkIncomplete
  BY <1>31, MarkedType DEF MarkIncomplete, VaultOK
<1>32. CASE MarkIncompleteCrashes
  BY <1>32, MarkedType DEF MarkIncompleteCrashes, VaultOK
<1>33. CASE OtherWriteCrashes
  BY <1>33 DEF OtherWriteCrashes, VaultOK
<1>34. CASE RaisedRetryable
  BY <1>34 DEF RaisedRetryable, Raised, RolledBack, VaultOK, DrainOK
<1>35. CASE RaisedForGood
  BY <1>35 DEF RaisedForGood, Raised, RolledBack, VaultOK, DrainOK
<1>36. CASE Crash
  BY <1>36 DEF Crash
<1>37. CASE UNCHANGED vars
  BY <1>37 DEF vars
<1>38. QED
  BY <1>1, <1>2, <1>3, <1>4, <1>5, <1>8, <1>9, <1>10, <1>11, <1>12, <1>13, <1>14, <1>15,
     <1>16, <1>17, <1>18, <1>19, <1>20, <1>21, <1>22, <1>23, <1>24, <1>25, <1>26, <1>27,
     <1>28, <1>29, <1>30, <1>31, <1>32, <1>33, <1>34, <1>35, <1>36, <1>37
     DEF Next, Hooks, Drain, Materialize, Retry, Others

-----------------------------------------------------------------------------
\* Before the first event the queues are empty.
LEMMA QueueInit == Init => QueueInv
BY DEF Init, QueueInv, WorkerInv, HeldInv, OutboxInv, Agreement, SingleClaim, Working, Held,
       Present

\* The queues of an event hold nothing that they did not hold before.
HeldShrinks == \A e \in Events : Held(e)' \subseteq Held(e)

\* If no queue gets a new descriptor, the queues go on agreeing.
LEMMA ShrinkingIsSafe ==
  HeldInv /\ Agreement /\ OutboxInv /\ HooksOK /\ HeldShrinks /\ UNCHANGED hooks
    => HeldInv' /\ Agreement' /\ OutboxInv'
BY DEF HeldInv, Agreement, OutboxInv, HeldShrinks, hooks

\* A step that leaves the queues alone, or only takes a claim out.
LEMMA QueueFrame ==
  /\ UNCHANGED queue => HeldShrinks
  /\ SingleClaim /\ UNCHANGED queue => SingleClaim'
  /\ SingleClaim /\ Present(claimed)' \subseteq Present(claimed) => SingleClaim'
BY DEF queue, HeldShrinks, Held, SingleClaim, Present

\* An event that is worked on has its descriptor in the queue.
LEMMA WorkedOnIsHeld ==
  ASSUME HooksOK, DrainOK, WorkerInv, HeldInv, pc \in Working
  PROVE  /\ job \in Events /\ claimed[job] = bound /\ bound # NoFile
         /\ bound \in Held(job) /\ job \in accepted /\ bound <= spool
<1>1. job \in Events /\ claimed[job] = bound BY DEF WorkerInv
<1>2. bound # NoFile BY QueueAssumption DEF DrainOK
<1>3. bound \in Held(job) BY <1>1, <1>2 DEF Held
<1>4. QED BY <1>1, <1>2, <1>3 DEF HeldInv, HooksOK

\* No step takes the queues apart: one step of the proof per action.
LEMMA QueueNext == IInv /\ [Next]_vars => QueueInv'
<1> SUFFICES ASSUME HooksOK, QueueOK, DrainOK, pc \in Pcs,
                    WorkerInv, HeldInv, OutboxInv, Agreement, SingleClaim, [Next]_vars
             PROVE  QueueInv'
  BY TypeParts DEF IInv, QueueInv, Parts
<1> USE QueueFrame DEF At, Goto, QueueInv
<1>1. ASSUME UNCHANGED hooks, HeldShrinks, WorkerInv', SingleClaim' PROVE QueueInv'
  BY <1>1, ShrinkingIsSafe
<1>2. ASSUME UNCHANGED hooks, UNCHANGED queue, WorkerInv' PROVE QueueInv'
  BY <1>1, <1>2
<1>3. CASE RecordAccess
  <2>1. spool \in Nat /\ spool' = spool + 1 /\ UNCHANGED <<queue, outbox, accepted, pc, drain>>
    BY <1>3, QueueAssumption DEF RecordAccess, HooksOK
  <2>2. WorkerInv' BY <2>1 DEF WorkerInv, queue, drain, Present, First
  <2>3. HeldInv' /\ Agreement' BY <2>1 DEF HeldInv, Agreement, Held, queue
  <2>4. OutboxInv' BY <2>1, QueueAssumption DEF OutboxInv, HooksOK
  <2>5. QED BY <2>1, <2>2, <2>3, <2>4
<1>4. CASE Build
  <2>1. WorkerInv' BY <1>4 DEF Build, WorkerInv, queue, drain, Present, First
  <2>2. UNCHANGED <<spool, accepted, queue>> BY <1>4 DEF Build
  <2>3. OutboxInv' BY <1>4, QueueAssumption DEF Build, OutboxInv, HooksOK
  <2>4. HeldInv' /\ Agreement' /\ SingleClaim' BY <2>2 DEF HeldInv, Agreement, Held, queue
  <2>5. QED BY <2>1, <2>3, <2>4
<1>5. ASSUME NEW d \in outbox, Publish(d) PROVE QueueInv'
  <2>1. /\ d.event \in Events /\ d.offset \in 0..spool /\ d.offset # NoFile
        /\ outbox' \subseteq outbox /\ accepted \subseteq accepted'
        /\ UNCHANGED <<spool, claimed, failed, pc, drain>>
    BY <1>5, QueueAssumption DEF Publish, OutboxInv, HooksOK
  <2>2. pc # "unfail" /\ WorkerInv' BY <1>5, <2>1 DEF Publish, WorkerInv, drain, Present
  <2>3. OutboxInv' /\ SingleClaim' BY <2>1 DEF OutboxInv, SingleClaim, Present
  <2>4. CASE UNCHANGED ready
    <3>1. \A e \in Events : Held(e)' = Held(e) BY <2>1, <2>4 DEF Held
    <3>2. Agreement' BY <3>1 DEF Agreement
    <3>3. HeldInv' BY <2>1, <3>1 DEF HeldInv
    <3>4. QED BY <2>2, <2>3, <3>2, <3>3
  <2>5. CASE /\ Held(d.event) = {} /\ ready' = [ready EXCEPT ![d.event] = d.offset]
             /\ accepted' = accepted \cup {d.event}
    <3>1. Held(d.event)' = {d.offset} BY <2>1, <2>5 DEF Held, QueueOK
    <3>2. \A e \in Events \ {d.event} : Held(e)' = Held(e) BY <2>1, <2>5 DEF Held, QueueOK
    <3>3. Agreement' BY <3>1, <3>2 DEF Agreement
    <3>4. HeldInv' BY <2>1, <2>5, <3>1, <3>2 DEF HeldInv
    <3>5. QED BY <2>2, <2>3, <3>3, <3>4
  <2>6. QED BY <1>5, <2>4, <2>5 DEF Publish
<1>6. ASSUME NEW d \in outbox, Lose(d) PROVE QueueInv'
  <2>1. outbox' \subseteq outbox /\ UNCHANGED <<spool, accepted, queue, pc, drain>>
    BY <1>6 DEF Lose
  <2>2. WorkerInv' BY <2>1 DEF WorkerInv, queue, drain, Present, First
  <2>3. HeldInv' /\ Agreement' BY <2>1 DEF HeldInv, Agreement, Held, queue
  <2>4. OutboxInv' BY <2>1 DEF OutboxInv
  <2>5. QED BY <2>1, <2>2, <2>3, <2>4
<1>7. CASE StartDrain
  <2>1. WorkerInv' BY <1>7 DEF StartDrain, WorkerInv, Working
  <2>2. QED BY <1>2, <1>7, <2>1 DEF StartDrain
<1>8. CASE ResumeClaimed
  <2>1. WorkerInv' BY <1>8 DEF ResumeClaimed, Take, WorkerInv, queue, First
  <2>2. QED BY <1>2, <1>8, <2>1 DEF ResumeClaimed
<1>9. CASE Claim
  <2>1. PICK e \in Events :
          /\ First(e, Present(ready)) /\ Take(e, ready[e])
          /\ claimed' = [claimed EXCEPT ![e] = ready[e]]
          /\ ready' = [ready EXCEPT ![e] = NoFile]
    BY <1>9 DEF Claim
  <2>2. WorkerInv' BY <1>9, <2>1 DEF Claim, Take, WorkerInv, QueueOK
  <2>3. \A f \in Events : f # e => Held(f)' = Held(f)
    BY <1>9, <2>1 DEF Claim, Held, QueueOK
  <2>4. Held(e)' \subseteq Held(e) BY <1>9, <2>1 DEF Claim, Held, QueueOK
  <2>5. HeldShrinks BY <2>3, <2>4 DEF HeldShrinks
  <2>6. Present(claimed)' \subseteq {e} BY <1>9, <2>1 DEF Claim, Present, QueueOK
  <2>7. SingleClaim' BY <2>6 DEF SingleClaim
  <2>8. QED BY <1>1, <1>9, <2>2, <2>5, <2>7 DEF Claim
<1>10. CASE EndDrain
  <2>1. WorkerInv' BY <1>10 DEF EndDrain, Forget, WorkerInv, Working
  <2>2. QED BY <1>2, <1>10, <2>1 DEF EndDrain
<1>11. CASE Materialize
  <2>1. /\ pc \in Working /\ pc' \in Working
        /\ UNCHANGED <<hooks, queue, job, bound>>
    BY <1>11
       DEF Materialize, LoadDuplicate, LoadNew, LoadRefused, Replace, Commit, Complete, Advance,
           drain, Working
  <2>2. WorkerInv' BY <2>1 DEF WorkerInv, queue, Working
  <2>3. QED BY <1>2, <2>1, <2>2
<1>12. CASE Delete
  <2>1. job \in Events BY <1>12 DEF Delete, WorkerInv, Working
  <2>2. WorkerInv' BY <1>12, <2>1 DEF Delete, WorkerInv, Working, drain
  <2>3. HeldShrinks /\ Present(claimed)' \subseteq Present(claimed)
    BY <1>12 DEF Delete, HeldShrinks, Held, Present, QueueOK
  <2>4. QED BY <1>1, <1>12, <2>2, <2>3 DEF Delete
<1>13. CASE DeleteMatchingFailed
  <2>1. WorkerInv' BY <1>13 DEF DeleteMatchingFailed, WorkerInv, Working
  <2>2. HeldShrinks /\ Present(claimed)' \subseteq Present(claimed)
    BY <1>13 DEF DeleteMatchingFailed, HeldShrinks, Held, Present, QueueOK
  <2>3. QED BY <1>1, <1>13, <2>1, <2>2 DEF DeleteMatchingFailed
<1>14. CASE StoreFailed
  <2>1. job \in Events /\ claimed[job] = bound /\ bound \in Held(job)
    BY <1>14, WorkedOnIsHeld DEF StoreFailed, Working
  <2>2. WorkerInv' BY <1>14, <2>1 DEF StoreFailed, WorkerInv, Working, drain
  <2>3. HeldShrinks BY <1>14, <2>1 DEF StoreFailed, HeldShrinks, Held, QueueOK
  <2>4. Present(claimed)' \subseteq Present(claimed) BY <1>14 DEF StoreFailed, Present
  <2>5. QED BY <1>1, <1>14, <2>2, <2>3, <2>4 DEF StoreFailed
<1>15. CASE Unclaim
  <2>1. WorkerInv' BY <1>15 DEF Unclaim, WorkerInv, Working
  <2>2. HeldShrinks /\ Present(claimed)' \subseteq Present(claimed)
    BY <1>15 DEF Unclaim, HeldShrinks, Held, Present, QueueOK
  <2>3. QED BY <1>1, <1>15, <2>1, <2>2 DEF Unclaim
<1>16. CASE RecordError \/ RecordErrorRefused \/ ErrorRecorded
  <2>1. WorkerInv' /\ UNCHANGED <<hooks, queue>>
    BY <1>16 DEF RecordError, RecordErrorRefused, ErrorRecorded, WorkerInv, Working
  <2>2. QED BY <1>2, <2>1
<1>17. CASE RetryAll \/ RetryOne
  <2>1. pc' = "retry" /\ todo' \subseteq Present(failed) /\ UNCHANGED <<hooks, queue>>
    BY <1>17 DEF RetryAll, RetryOne
  <2>2. WorkerInv' BY <2>1 DEF WorkerInv, Working, queue, Present
  <2>3. QED BY <1>2, <2>1, <2>2
<1>18. CASE Republish
  <2>1. PICK e \in Events :
          /\ First(e, todo)
          /\ IF ready[e] \in {NoFile, failed[e]}
             THEN Goto("unfail") /\ ready' = [ready EXCEPT ![e] = failed[e]] /\ UNCHANGED drain
             ELSE Forget /\ UNCHANGED ready
    BY <1>18 DEF Republish
  <2>2. UNCHANGED <<hooks, claimed, failed>> /\ pc = "retry" BY <1>18 DEF Republish
  <2>3. CASE Forget /\ UNCHANGED ready
    <3>1. WorkerInv' BY <2>3 DEF Forget, WorkerInv, Working
    <3>2. QED BY <1>2, <2>2, <2>3, <3>1 DEF queue
  <2>4. CASE /\ pc' = "unfail" /\ ready' = [ready EXCEPT ![e] = failed[e]] /\ UNCHANGED drain
    <3>1. todo' = todo /\ todo \subseteq Present(failed) /\ todo \subseteq Events
      BY <2>2, <2>4 DEF WorkerInv, drain, Present
    <3>2. e \in Present(failed) /\ \A f \in Events : First(f, todo) => f = e
      BY <2>1, <3>1 DEF First, Present, Events
    <3>3. WorkerInv'
      BY <2>2, <2>4, <3>1, <3>2 DEF WorkerInv, Working, QueueOK, Present, First
    <3>4. HeldShrinks BY <2>2, <2>4, <3>2 DEF HeldShrinks, Held, QueueOK, Present
    <3>5. SingleClaim' BY <2>2 DEF SingleClaim, Present
    <3>6. QED BY <1>1, <2>2, <3>3, <3>4, <3>5
  <2>5. QED BY <2>1, <2>3, <2>4
<1>19. CASE Unfail
  <2>1. PICK e \in Events :
          /\ First(e, todo)
          /\ failed' = [failed EXCEPT ![e] = NoFile] /\ todo' = todo \ {e}
    BY <1>19 DEF Unfail
  <2>2. UNCHANGED <<hooks, ready, claimed>> /\ pc = "unfail" /\ pc' = "retry"
    BY <1>19 DEF Unfail
  <2>3. WorkerInv' BY <2>1, <2>2 DEF WorkerInv, Working, Present, QueueOK
  <2>4. HeldShrinks BY <2>1, <2>2 DEF HeldShrinks, Held, QueueOK
  <2>5. SingleClaim' BY <2>2 DEF SingleClaim, Present
  <2>6. QED BY <1>1, <2>2, <2>3, <2>4, <2>5
<1>20. CASE EndRetry \/ Crash
  <2>1. WorkerInv' /\ UNCHANGED <<hooks, queue>>
    BY <1>20 DEF EndRetry, Crash, Forget, WorkerInv, Working
  <2>2. QED BY <1>2, <2>1
<1>21. CASE Others
  <2>1. UNCHANGED <<hooks, queue, pc, drain>>
    BY <1>21 DEF Others, Recover, MarkIncomplete, MarkIncompleteCrashes, OtherWriteCrashes
  <2>2. WorkerInv' BY <2>1 DEF WorkerInv, queue, drain, Present, First
  <2>3. QED BY <1>2, <2>1, <2>2
<1>22. CASE RaisedRetryable \/ RaisedForGood
  <2>1. /\ pc \in Working /\ pc' \in {"load", "store"}
        /\ UNCHANGED <<hooks, queue, job, bound>>
    BY <1>22 DEF RaisedRetryable, RaisedForGood, Raised, Working
  <2>2. WorkerInv' BY <2>1 DEF WorkerInv, queue, Working
  <2>3. QED BY <1>2, <2>1, <2>2
<1>23. CASE UNCHANGED vars
  <2>1. UNCHANGED <<hooks, queue, pc, drain>> BY <1>23 DEF vars
  <2>2. WorkerInv' BY <2>1 DEF WorkerInv, queue, drain, Present, First
  <2>3. QED BY <1>2, <2>1, <2>2
<1>24. QED
  BY <1>3, <1>4, <1>5, <1>6, <1>7, <1>8, <1>9, <1>10, <1>11, <1>12, <1>13, <1>14, <1>15,
     <1>16, <1>17, <1>18, <1>19, <1>20, <1>21, <1>22, <1>23
     DEF Next, Hooks, Drain, Retry

\* The invariant holds at the start, every step preserves it, and so it holds always.
THEOREM QueueInvariant == Spec => []IInv
<1>1. Init => IInv BY TypeInit, QueueInit DEF IInv
<1>2. IInv /\ [Next]_vars => IInv' BY TypeNext, QueueNext DEF IInv
<1>3. QED BY <1>1, <1>2, PTL DEF Spec

-----------------------------------------------------------------------------
\* Every variable keeps its type: in particular no event is tried more than
\* ATTEMPTS times in one drain, whatever fails.
THEOREM LifecycleTypeCorrect == Spec => []TypeOK
<1>1. IInv => TypeOK BY DEF IInv
<1>2. QED BY <1>1, QueueInvariant, PTL

\* A set without two different elements has at most one.
LEMMA AtMostOne ==
  ASSUME NEW S, \A x, y \in S : x = y
  PROVE  Cardinality(S) <= 1
<1>1. CASE S = {} BY <1>1, FS_EmptySet
<1>2. CASE \E x : S = {x} BY <1>2, FS_Singleton
<1>3. S = {} \/ \E x : S = {x} OBVIOUS
<1>4. QED BY <1>1, <1>2, <1>3

\* Files of one event in different queues always hold the same descriptor, in
\* every interleaving of hooks, drains, retries and crashes: neither a claim nor
\* a retry overwrites another descriptor, and _delete_matching_failed deletes
\* what the worker has materialised.
THEOREM QueuesAlwaysAgree == Spec => []QueuesAgree
<1>1. IInv => QueuesAgree BY AtMostOne DEF IInv, QueueInv, Agreement, QueuesAgree
<1>2. QED BY <1>1, QueueInvariant, PTL

\* There is never more than one file in claimed/, however often the worker
\* crashes: a drain takes up an old claim before it makes a new one.
THEOREM OneClaimAlways == Spec => []OneClaim
<1>1. IInv => OneClaim BY AtMostOne DEF IInv, QueueInv, SingleClaim, OneClaim
<1>2. QED BY <1>1, QueueInvariant, PTL
=============================================================================

------------------------- MODULE TransactionSafety -------------------------
(***************************************************************************)
(* What Transaction does to contents: which files a step may write, what a *)
(* commit holds, what a backup is good for, what happens to the edits of   *)
(* others and what a rollback leaves behind.  Unless said otherwise a git  *)
(* commit may fail after it has moved the branch (LateFailureSpec), and    *)
(* the environment is still at the points of the code that a theorem names *)
(* and nowhere else.                                                       *)
(***************************************************************************)
EXTENDS TransactionProofs

LateNext == Next \/ CommitFailsLate

Preparing == {"check", "baseline", "backup", "journal"}

\* What the point the running call has reached says of its transaction, also
\* when a commit has been made that the call does not know of.
CallInv ==
  /\ TypeOK
  /\ pc \in Preparing => phase[cur] = "none"
  /\ pc \in Preparing \ {"check"} => Pending = {}
  /\ pc \in JournalledPcs \cup CommittedPcs => Undecided(cur)
  /\ pc = "cleanup" => phase[cur] \in Terminal
  /\ OnePending
  /\ \A t \in TxnIds : phase[t] = "none" => Commits(t) = {}

-----------------------------------------------------------------------------
\* Each part of the durable state is written by a handful of steps only.
LEMMA Footprint ==
  ASSUME [LateNext]_vars
  PROVE  /\ work' = work \/ ReplaceTarget \/ RestoreTarget \/ ExternalEdit
         /\ index' = index \/ Stage \/ Commit \/ CommitFailsLate \/ Unstage \/ ExternalStage
         /\ log' = log \/ Commit \/ CommitFailsLate \/ ExternalCommit
         /\ journal' = journal \/ WriteJournal
         /\ backups' = backups \/ Backup \/ Cleanup
         /\ UNCHANGED <<made, dropped>> \/ Begin \/ ExternalEdit
<1> USE DEF durable, env, Local
<1>1. CASE Begin \/ Finalize \/ (\E t \in TxnIds : Recover(t)) \/ Fail \/ Crash
  BY <1>1 DEF Begin, Finalize, Recover, Fail, Crash
<1>2. CASE Refuse \/ Preflight \/ TakeBaseline \/ Backup \/ WriteJournal \/ GuardTarget
  BY <1>2 DEF Refuse, Preflight, TakeBaseline, Backup, WriteJournal, GuardTarget, Raise, Return
<1>3. CASE ReplaceTarget \/ RecordWritten \/ RecordReplaced \/ VerifyReplaced \/ CheckIndexFree
  BY <1>3 DEF ReplaceTarget, RecordWritten, RecordReplaced, VerifyReplaced, CheckIndexFree, Raise,
              Record
<1>4. CASE Stage \/ VerifyStaged \/ RecheckOutputs \/ RecheckStaged \/ Commit \/ ReadHead
  BY <1>4 DEF Stage, VerifyStaged, RecheckOutputs, RecheckStaged, Commit, ReadHead, Raise, Record
<1>5. CASE VerifyCommit \/ RecordCommitted \/ RecordComplete \/ Cleanup
  BY <1>5 DEF VerifyCommit, RecordCommitted, RecordComplete, Cleanup, Return, Record
<1>6. CASE RollbackOwned \/ RestorePreflight \/ InspectTarget \/ RestoreTarget
  BY <1>6 DEF RollbackOwned, RestorePreflight, InspectTarget, RestoreTarget, GiveUp
<1>7. CASE VerifyRestored \/ RecheckOwned \/ Unstage \/ RecordRolledBack
  BY <1>7 DEF VerifyRestored, RecheckOwned, Unstage, RecordRolledBack, GiveUp
<1>8. CASE External \/ CommitFailsLate \/ UNCHANGED vars
  BY <1>8 DEF External, ExternalEdit, ExternalStage, ExternalCommit, CommitFailsLate, vars
<1>9. QED
  BY <1>1, <1>2, <1>3, <1>4, <1>5, <1>6, <1>7, <1>8 DEF LateNext, Next, Execute, Rollback

\* Steps that write no journal, or none but the phase of an undecided one.
PhasesKept == UNCHANGED phase
PhaseStep == Undecided(cur) /\ \E v \in Phases \ {"none"} : phase' = [phase EXCEPT ![cur] = v]

\* No transaction is born or becomes undecided by a change of such a phase.
LEMMA PhaseFrame ==
  ASSUME TypeOK, OnePending, cur \in TxnIds, PhasesKept \/ PhaseStep
  PROVE  /\ OnePending' /\ Pending' \subseteq Pending
         /\ \A t \in TxnIds : phase'[t] = "none" <=> phase[t] = "none"
<1>1. CASE PhasesKept BY <1>1 DEF PhasesKept, OnePending, Pending
<1>2. CASE PhaseStep
  <2>1. PICK v \in Phases \ {"none"} : phase' = [phase EXCEPT ![cur] = v]
    BY <1>2 DEF PhaseStep
  <2>2. \A t \in TxnIds : phase'[t] = IF t = cur THEN v ELSE phase[t]
    BY <2>1 DEF TypeOK, DurableOK
  <2>3. phase[cur] \notin Terminal \cup {"none"} BY <1>2 DEF PhaseStep, Undecided
  <2>4. Pending' \subseteq Pending BY <2>2, <2>3 DEF Pending
  <2>5. OnePending' BY <2>4 DEF OnePending
  <2>6. QED BY <2>1, <2>2, <2>3, <2>4, <2>5
<1>3. QED BY <1>1, <1>2

\* A commit that is not of this transaction, or none at all, leaves its commits alone.
LEMMA CommitsFrame ==
  ASSUME TypeOK, [LateNext]_vars, NEW t \in TxnIds, t = cur => pc # "commit"
  PROVE  Commits(t)' = Commits(t)
<1> USE DEF TypeOK
<1>1. CASE UNCHANGED log BY <1>1, CommitsKept
<1>2. CASE ExternalCommit
  <2>1. index \in Files /\ t # 0 BY DEF DurableOK, TxnIds
  <2>2. log' = Append(log, [tree |-> index, txn |-> 0]) BY <1>2 DEF ExternalCommit
  <2>3. QED BY <2>1, <2>2, CommitsAfterAppend
<1>3. CASE pc = "commit" /\ log' = Append(log, [tree |-> CommitTree, txn |-> cur])
  <2>1. CommitTree \in Files BY HeadTreeType DEF CommitTree, DurableOK, Files
  <2>2. cur \in TxnIds /\ t # cur BY <1>3 DEF CallOK
  <2>3. QED BY <1>3, <2>1, <2>2, CommitsAfterAppend
<1>4. QED
  BY <1>1, <1>2, <1>3, Footprint DEF Commit, CommitFailsLate, Raise, durable, At

\* A git commit that fails late leaves no variable out of its type either.
LEMMA LateType == TypeOK /\ [LateNext]_vars => TypeOK'
<1> SUFFICES ASSUME TypeOK, CommitFailsLate PROVE TypeOK'
  BY TypeNext DEF LateNext
<1> USE DEF TypeOK
<1>1. CommitTree \in Files /\ IndexAfterCommit \in Files
  BY HeadTreeType DEF CommitTree, IndexAfterCommit, DurableOK, Files
<1>2. cur \in TxnIds BY DEF CommitFailsLate, At, CallOK
<1>3. log' \in Seq([tree : Files, txn : TxnIds \cup {0}])
  BY <1>1, <1>2, AppendProperties DEF CommitFailsLate, DurableOK
<1>4. DurableOK' BY <1>1, <1>3 DEF CommitFailsLate, DurableOK
<1>5. CallOK'
  BY <1>2 DEF CommitFailsLate, CallOK, control, locals, Goto, Pcs, RollbackPcs
<1>6. EnvOK' BY DEF CommitFailsLate, EnvOK
<1>7. QED BY <1>4, <1>5, <1>6

\* Before the first call nothing is undecided and nothing of ours committed.
LEMMA CallInit == Init => CallInv
BY TypeInit, InvInit
   DEF Init, IInv, JournalInv, OnePending, CallInv, Preparing, JournalledPcs, CommittedPcs,
       RollbackPcs

\* No step comes to a point of the code whose transaction is not as it should be there.
LEMMA CallNext == CallInv /\ [LateNext]_vars => CallInv'
<1> SUFFICES ASSUME CallInv, [LateNext]_vars PROVE CallInv'
  OBVIOUS
<1>1. TypeOK /\ TypeOK' BY LateType DEF CallInv
<1> DEFINE Labels ==
      /\ pc \in Preparing => phase[cur] = "none"
      /\ pc \in Preparing \ {"check"} => Pending = {}
      /\ pc \in JournalledPcs \cup CommittedPcs => Undecided(cur)
      /\ pc = "cleanup" => phase[cur] \in Terminal
<1> USE DEF At, Goto, durable, control
<1>2. ASSUME cur \in TxnIds, PhasesKept \/ PhaseStep, Labels' PROVE CallInv'
  <2>1. /\ OnePending' /\ \A t \in TxnIds : phase'[t] = "none" <=> phase[t] = "none"
    BY <1>1, <1>2, PhaseFrame DEF CallInv
  <2>2. \A t \in TxnIds : phase[t] = "none" => Commits(t)' = Commits(t)
    BY <1>1, CommitsFrame DEF CallInv, JournalledPcs, Undecided
  <2>3. QED BY <1>1, <1>2, <2>1, <2>2 DEF CallInv
<1>3. ASSUME UNCHANGED phase, Labels' PROVE CallInv'
  <2>1. \A t \in TxnIds : phase[t] = "none" => Commits(t)' = Commits(t)
    BY <1>1, CommitsFrame DEF CallInv, JournalledPcs, Undecided
  <2>2. QED BY <1>1, <1>3, <2>1 DEF CallInv, OnePending, Pending
<1>4. pc # "idle" => cur \in TxnIds BY <1>1 DEF TypeOK, CallOK
<1> DEFINE Names == Preparing \cup JournalledPcs \cup CommittedPcs \cup {"cleanup", "idle"}
<1> USE DEF Preparing, JournalledPcs, CommittedPcs, RollbackPcs
<1>5. ASSUME UNCHANGED <<phase, cur>>, pc' \in Names,
             pc' \in Preparing \ {"check"} => Pending = {},
             pc' \in Preparing => pc \in Preparing,
             pc' \in JournalledPcs \cup CommittedPcs => pc \in JournalledPcs \cup CommittedPcs,
             pc' = "cleanup" => pc = "cleanup"
      PROVE  CallInv'
  BY <1>3, <1>5 DEF CallInv, Undecided, Pending
<1>6. ASSUME UNCHANGED phase, pc' = "idle" PROVE CallInv'
  BY <1>3, <1>6
<1>7. ASSUME cur \in TxnIds, PhaseStep, UNCHANGED cur,
             pc' \in JournalledPcs \cup CommittedPcs => phase'[cur] \notin Terminal,
             pc' = "cleanup" => phase'[cur] \in Terminal,
             pc' \in JournalledPcs \cup CommittedPcs \cup {"cleanup", "idle"}
      PROVE  CallInv'
  <2>1. phase'[cur] # "none" BY <1>1, <1>7 DEF PhaseStep, TypeOK, DurableOK
  <2>2. QED BY <1>2, <1>7, <2>1 DEF Undecided
<1>8. CASE Begin
  <2>1. phase'[cur'] = "none" /\ pc' = "check" /\ UNCHANGED phase BY <1>8 DEF Begin
  <2>2. QED BY <1>3, <2>1
<1>9. CASE Refuse \/ Preflight
  BY <1>5, <1>6, <1>9 DEF Refuse, Preflight, CanStart, Local, Return, Forget
<1>10. CASE TakeBaseline \/ Backup
  BY <1>5, <1>6, <1>10 DEF TakeBaseline, Backup, Local, Return, Forget, CallInv
<1>11. CASE WriteJournal
  <2>1. /\ pc' = "guard" /\ UNCHANGED cur /\ log' = log /\ Pending = {} /\ cur \in TxnIds
        /\ phase' = [phase EXCEPT ![cur] = "prepared"]
    BY <1>4, <1>11 DEF WriteJournal, CallInv
  <2>2. \A t \in TxnIds : phase'[t] = IF t = cur THEN "prepared" ELSE phase[t]
    BY <1>1, <2>1 DEF TypeOK, DurableOK
  <2>3. OnePending' BY <2>1, <2>2 DEF OnePending, Pending
  <2>4. QED BY <1>1, <2>1, <2>2, <2>3, CommitsKept DEF CallInv, Undecided, Terminal
<1>12. CASE GuardTarget \/ ReplaceTarget \/ VerifyReplaced \/ CheckIndexFree \/ Stage
            \/ RecheckOutputs \/ Commit \/ CommitFailsLate \/ ReadHead
  BY <1>5, <1>12 DEF GuardTarget, ReplaceTarget, VerifyReplaced, CheckIndexFree, Stage,
     RecheckOutputs, Commit, CommitFailsLate, ReadHead, Raise, Local
<1>13. CASE RecordWritten \/ RecordReplaced \/ RecordComplete \/ RecordCommitted
  BY <1>1, <1>4, <1>7, <1>13
     DEF RecordWritten, RecordReplaced, RecordComplete, RecordCommitted, Record, PhaseStep,
         CallInv, Phases, Terminal, TypeOK, DurableOK
<1>14. CASE VerifyStaged \/ RecheckStaged
  <2>1. CASE Raise BY <1>5, <1>14, <2>1 DEF VerifyStaged, RecheckStaged, Raise
  <2>2. CASE ~Raise
    BY <1>1, <1>4, <1>7, <1>14, <2>2
       DEF VerifyStaged, RecheckStaged, Record, PhaseStep, CallInv, Phases, Terminal, TypeOK,
           DurableOK
  <2>3. QED BY <2>1, <2>2
<1>15. CASE VerifyCommit \/ Cleanup \/ Crash
  BY <1>5, <1>6, <1>15 DEF VerifyCommit, Cleanup, Crash, Return, Local, Forget
<1>16. ASSUME GiveUp, pc \in RollbackPcs PROVE CallInv'
  <2>1. cur \in TxnIds /\ Undecided(cur) /\ pc' = "idle" /\ phase' = [phase EXCEPT ![cur] = "manual"]
    BY <1>4, <1>16 DEF GiveUp, Forget, CallInv
  <2>2. PhaseStep BY <2>1 DEF PhaseStep, Phases
  <2>3. QED BY <1>2, <2>1, <2>2
<1>17. CASE RollbackOwned \/ RestorePreflight \/ InspectTarget \/ VerifyRestored \/ RecheckOwned
  <2>1. CASE GiveUp
    BY <1>16, <1>17, <2>1
       DEF RollbackOwned, RestorePreflight, InspectTarget, VerifyRestored, RecheckOwned
  <2>2. CASE ~GiveUp
    BY <1>5, <1>17, <2>2
       DEF RollbackOwned, RestorePreflight, InspectTarget, VerifyRestored, RecheckOwned, Local
  <2>3. QED BY <2>1, <2>2
<1>18. CASE RestoreTarget \/ Unstage
  BY <1>5, <1>18 DEF RestoreTarget, Unstage
<1>19. CASE RecordRolledBack
  <2>1. cur \in TxnIds /\ Undecided(cur) BY <1>4, <1>19 DEF RecordRolledBack, CallInv
  <2>2. PhaseStep BY <1>19, <2>1 DEF RecordRolledBack, PhaseStep, Phases
  <2>3. phase'[cur] = "rolled_back" BY <1>1, <1>19, <2>1 DEF RecordRolledBack, TypeOK, DurableOK
  <2>4. CASE mode = "recover" BY <1>7, <1>19, <2>1, <2>2, <2>3, <2>4 DEF RecordRolledBack, Terminal
  <2>5. CASE mode # "recover" BY <1>2, <1>19, <2>1, <2>2, <2>5 DEF RecordRolledBack, Forget
  <2>6. QED BY <2>4, <2>5
<1>20. ASSUME NEW t \in TxnIds, Recover(t) PROVE CallInv'
  <2>1. /\ cur' = t /\ UNCHANGED phase /\ phase[t] # "none"
        /\ pc' = CASE Plan(t) = "none" -> "cleanup" [] Plan(t) = "rollback" -> "owned"
                   [] Plan(t) = "finalize" -> "finalize"
        /\ Plan(t) # "manual"
    BY <1>20 DEF Recover
  <2>2. Plan(t) = "none" <=> phase[t] \in Terminal BY DEF Plan
  <2>3. Plan(t) \in {"none", "rollback", "finalize", "manual"} BY DEF Plan
  <2>4. QED BY <1>3, <2>1, <2>2, <2>3 DEF Undecided
<1>21. CASE Finalize
  BY <1>1, <1>4, <1>7, <1>21
     DEF Finalize, PhaseStep, CallInv, Phases, Terminal, TypeOK, DurableOK
<1>22. CASE Fail
  <2>1. CASE UNCHANGED phase BY <1>5, <1>6, <1>22, <2>1 DEF Fail, Forget
  <2>2. CASE phase' = [phase EXCEPT ![cur] = "manual"] /\ Forget /\ pc \in RollbackPcs
    <3>1. cur \in TxnIds /\ Undecided(cur) BY <1>4, <2>2 DEF CallInv
    <3>2. PhaseStep BY <2>2, <3>1 DEF PhaseStep, Phases
    <3>3. QED BY <1>2, <2>2, <3>1, <3>2 DEF Forget
  <2>3. QED BY <1>22, <2>1, <2>2 DEF Fail
<1>23. CASE External \/ UNCHANGED vars
  <2>1. UNCHANGED <<phase, volatile>>
    BY <1>23 DEF External, ExternalEdit, ExternalStage, ExternalCommit, vars
  <2>2. Labels' BY <2>1 DEF volatile, CallInv, Undecided, Pending
  <2>3. QED BY <1>3, <2>1, <2>2
<1>24. QED
  BY <1>8, <1>9, <1>10, <1>11, <1>12, <1>13, <1>14, <1>15, <1>17, <1>18, <1>19, <1>20, <1>21,
     <1>22, <1>23 DEF LateNext, Next, Execute, Rollback

\* The call invariant holds whether or not a git commit may fail late.
THEOREM CallInvariant == LateFailureSpec => []CallInv
<1>1. Init => CallInv BY CallInit
<1>2. CallInv /\ [Next \/ CommitFailsLate]_vars => CallInv' BY CallNext DEF LateNext
<1>3. QED BY <1>1, <1>2, PTL DEF LateFailureSpec

-----------------------------------------------------------------------------
\* A step of somebody else, or none.
NotOurs == External \/ UNCHANGED vars

\* The statements that lead to a point of the code.
LEMMA Entries ==
  ASSUME [LateNext]_vars
  PROVE  /\ pc' = "check" => Begin \/ NotOurs
         /\ pc' = "baseline" => Preflight \/ NotOurs
         /\ pc' = "backup" => TakeBaseline \/ NotOurs
         /\ pc' = "journal" => Backup \/ NotOurs
         /\ pc' = "replace" => GuardTarget \/ NotOurs
         /\ pc' = "recheckStaged" => RecheckOutputs \/ NotOurs
         /\ pc' = "commit" => RecheckStaged \/ NotOurs
         /\ pc' = "inspect" => RestorePreflight \/ InspectTarget \/ VerifyRestored \/ NotOurs
         /\ pc' = "restore" => InspectTarget \/ NotOurs
         /\ pc' = "verifyRestored" => RestoreTarget \/ NotOurs
         /\ pc' = "reown" => InspectTarget \/ NotOurs
         /\ pc' = "unstage" => RecheckOwned \/ NotOurs
         /\ pc' = "rolledBack" => Unstage \/ NotOurs
<1> USE DEF Goto
<1>1. CASE Finalize \/ (\E t \in TxnIds : Recover(t)) \/ Fail \/ Crash \/ CommitFailsLate
  BY <1>1 DEF Finalize, Recover, Plan, Fail, Crash, Forget, CommitFailsLate
<1>2. CASE Begin \/ Refuse \/ Preflight \/ TakeBaseline \/ Backup \/ WriteJournal \/ GuardTarget
  BY <1>2 DEF Begin, Refuse, Preflight, TakeBaseline, Backup, WriteJournal, GuardTarget, Raise,
              Return, Forget
<1>3. CASE ReplaceTarget \/ RecordWritten \/ RecordReplaced \/ VerifyReplaced \/ CheckIndexFree
  BY <1>3 DEF ReplaceTarget, RecordWritten, RecordReplaced, VerifyReplaced, CheckIndexFree, Raise,
              Record
<1>4. CASE Stage \/ VerifyStaged \/ RecheckOutputs \/ RecheckStaged \/ Commit \/ ReadHead
  BY <1>4 DEF Stage, VerifyStaged, RecheckOutputs, RecheckStaged, Commit, ReadHead, Raise, Record
<1>5. CASE VerifyCommit \/ RecordCommitted \/ RecordComplete \/ Cleanup
  BY <1>5 DEF VerifyCommit, RecordCommitted, RecordComplete, Cleanup, Return, Forget, Record
<1>6. CASE RollbackOwned \/ RestorePreflight \/ InspectTarget \/ RestoreTarget
  BY <1>6 DEF RollbackOwned, RestorePreflight, InspectTarget, RestoreTarget, GiveUp, Forget
<1>7. CASE VerifyRestored \/ RecheckOwned \/ Unstage \/ RecordRolledBack
  BY <1>7 DEF VerifyRestored, RecheckOwned, Unstage, RecordRolledBack, GiveUp, Forget
<1>8. CASE NotOurs
  BY <1>8
<1>9. QED
  BY <1>1, <1>2, <1>3, <1>4, <1>5, <1>6, <1>7, <1>8 DEF LateNext, Next, Execute, Rollback, NotOurs

\* Somebody else's step leaves the call where it is, and at a point where the
\* environment is still it is no step.
LEMMA StillHere ==
  ASSUME NotOurs
  PROVE  /\ UNCHANGED <<volatile, phase, journal, commitHash, backups>>
         /\ pc \in Quiet => UNCHANGED vars
BY DEF NotOurs, External, ExternalEdit, ExternalStage, ExternalCommit, vars, durable

-----------------------------------------------------------------------------
(* What a commit of the program holds *)

\* The outputs that were verified last are what git commit will commit.
OutputsInv == pc \in {"recheckStaged", "commit"} => OutputsInPlace(cur)

\* The outputs stay as they were verified until git commit has run.
LEMMA OutputsNext ==
  {"recheckStaged", "commit"} \subseteq Quiet /\ OutputsInv /\ [LateNext]_vars => OutputsInv'
<1> SUFFICES ASSUME {"recheckStaged", "commit"} \subseteq Quiet, OutputsInv, [LateNext]_vars,
                    pc' \in {"recheckStaged", "commit"}
             PROVE  OutputsInPlace(cur)'
  BY DEF OutputsInv
<1>1. CASE RecheckOutputs
  BY <1>1 DEF RecheckOutputs, OutputsInPlace, Local, durable, control, Raise, Goto
<1>2. CASE RecheckStaged
  BY <1>2 DEF RecheckStaged, OutputsInPlace, OutputsInv, Record, control, Raise, Goto, At
<1>3. CASE NotOurs
  BY <1>3, StillHere DEF vars, durable, volatile, OutputsInPlace, OutputsInv
<1>4. QED BY <1>1, <1>2, <1>3, Entries

\* A new commit of ours holds those outputs, and no journal of an old one changes.
LEMMA OwnNext == CallInv /\ OutputsInv /\ CommitIsOwn /\ [LateNext]_vars => CommitIsOwn'
<1> SUFFICES ASSUME CallInv, OutputsInv, CommitIsOwn, [LateNext]_vars PROVE CommitIsOwn'
  OBVIOUS
<1> DEFINE R == [tree : Files, txn : TxnIds \cup {0}]
<1>1. DurableOK /\ CallOK /\ log \in Seq(R) BY DEF CallInv, TypeOK, DurableOK
<1>2. CASE WriteJournal
  <2>1. Commits(cur) = {} /\ log' = log /\ cur \in TxnIds
        /\ \A t \in TxnIds \ {cur} : journal'[t] = journal[t]
    BY <1>1, <1>2 DEF WriteJournal, CallInv, Preparing, At, CallOK, DurableOK
  <2>2. \A t \in TxnIds : Commits(t)' = Commits(t) BY <2>1, CommitsKept
  <2>3. QED BY <2>1, <2>2 DEF CommitIsOwn
<1>3. CASE UNCHANGED <<log, journal>>
  <2>1. \A t \in TxnIds : Commits(t)' = Commits(t) BY <1>3, CommitsKept
  <2>2. QED BY <1>3, <2>1 DEF CommitIsOwn
<1>4. ASSUME NEW tree \in Files, NEW u \in TxnIds \cup {0},
             journal' = journal, log' = Append(log, [tree |-> tree, txn |-> u]),
             u # 0 => u = cur /\ tree = CommitTree /\ OutputsInPlace(cur)
      PROVE  CommitIsOwn'
  <2>1. PICK n \in Nat : n = Len(log) BY <1>1
  <2>2. /\ Len(log') = n + 1 /\ \A i \in 1..n : log'[i] = log[i]
        /\ log'[n + 1] = [tree |-> tree, txn |-> u]
    BY <1>1, <1>4, <2>1, AppendProperties
  <2>3. \A t \in TxnIds : Commits(t)' = (IF t = u THEN Commits(t) \cup {n + 1} ELSE Commits(t))
    BY <1>1, <1>4, <2>1, CommitsAfterAppend
  <2>4. HeadTree = IF n = 0 THEN NoFiles ELSE log[n].tree
    BY <1>1, <2>1, EmptySeq DEF HeadTree, Tip
  <2>5. ASSUME NEW t \in TxnIds, NEW i \in Commits(t), NEW p \in Paths
        PROVE  log'[i].tree[p] = IF p \in journal[t].changed THEN journal[t].new[p]
                                 ELSE (IF i = 1 THEN NoFiles ELSE log'[i - 1].tree)[p]
    <3>1. i \in 1..n BY <1>1, <2>1, <2>5, CommitsBounded
    <3>2. log'[i] = log[i] /\ (i # 1 => log'[i - 1] = log[i - 1]) BY <2>2, <3>1
    <3>3. QED BY <2>5, <3>2 DEF CommitIsOwn
  <2>6. ASSUME u \in TxnIds, NEW p \in Paths
        PROVE  log'[n + 1].tree[p] = IF p \in journal[u].changed THEN journal[u].new[p]
                                     ELSE (IF n + 1 = 1 THEN NoFiles ELSE log'[n].tree)[p]
    <3>1. u # 0 /\ tree = CommitTree BY <1>4, <2>6 DEF TxnIds
    <3>2. n # 0 => log'[n] = log[n] BY <2>2
    <3>3. QED BY <1>4, <2>2, <2>4, <3>1, <3>2 DEF CommitTree, OutputsInPlace
  <2>7. ASSUME NEW t \in TxnIds, NEW i \in Commits(t)', NEW p \in Paths
        PROVE  log'[i].tree[p] = IF p \in journal[t].changed THEN journal[t].new[p]
                                 ELSE (IF i = 1 THEN NoFiles ELSE log'[i - 1].tree)[p]
    <3>1. CASE i \in Commits(t) BY <2>5, <3>1
    <3>2. CASE t = u /\ i = n + 1
      <4>1. i - 1 = n BY <2>1, <3>2
      <4>2. QED BY <2>6, <3>2, <4>1
    <3>3. QED BY <2>3, <2>7, <3>1, <3>2
  <2>8. journal' = journal BY <1>4
  <2>9. QED BY <2>7, <2>8 DEF CommitIsOwn
<1>5. CASE Commit \/ CommitFailsLate
  <2>1. CASE UNCHANGED <<log, journal>> BY <1>3, <2>1
  <2>2. CASE ~UNCHANGED <<log, journal>>
    <3>1. /\ pc = "commit" /\ journal' = journal /\ cur \in TxnIds
          /\ log' = Append(log, [tree |-> CommitTree, txn |-> cur])
      BY <1>1, <1>5, <2>2 DEF Commit, CommitFailsLate, Raise, durable, At, CallOK
    <3>2. CommitTree \in Files BY <1>1, HeadTreeType DEF CommitTree, DurableOK, Files
    <3>3. QED BY <1>4, <3>1, <3>2 DEF OutputsInv
  <2>3. QED BY <2>1, <2>2
<1>6. CASE ExternalCommit
  BY <1>1, <1>4, <1>6 DEF ExternalCommit, DurableOK
<1>7. QED BY <1>2, <1>3, <1>5, <1>6, Footprint

\* A commit of the program holds its validated outputs in the paths of the
\* transaction and its parent's contents in every other path, if nobody edits
\* between the last verification and git commit, whatever is edited, staged or
\* committed at any other moment.
THEOREM CommitAlwaysOwn ==
  ASSUME {"recheckStaged", "commit"} \subseteq Quiet
  PROVE  LateFailureSpec => []CommitIsOwn
<1>1. Init => OutputsInv /\ CommitIsOwn
  BY CallInit DEF Init, CallInv, OutputsInv, CommitIsOwn
<1>2. CallInv /\ (OutputsInv /\ CommitIsOwn) /\ [Next \/ CommitFailsLate]_vars
        => (OutputsInv /\ CommitIsOwn)'
  BY OutputsNext, OwnNext DEF LateNext
<1>3. QED BY <1>1, <1>2, CallInvariant, PTL DEF LateFailureSpec

-----------------------------------------------------------------------------
(* What a backup is good for *)

\* Only a call that has its journal open moves a phase.
LEMMA PhaseFootprint ==
  ASSUME CallInv, [LateNext]_vars
  PROVE  \/ UNCHANGED phase
         \/ WriteJournal
         \/ cur \in TxnIds /\ PhaseStep
<1>1. pc \in JournalledPcs \cup CommittedPcs => Undecided(cur) /\ cur \in TxnIds
  BY DEF CallInv, TypeOK, CallOK, JournalledPcs, CommittedPcs, RollbackPcs
<1> USE DEF Goto, At, durable, Local, PhaseStep, Phases, JournalledPcs, CommittedPcs, RollbackPcs
<1>2. CASE Begin \/ Finalize \/ (\E t \in TxnIds : Recover(t)) \/ Fail \/ Crash \/ CommitFailsLate
  BY <1>1, <1>2 DEF Begin, Finalize, Recover, Fail, Crash, CommitFailsLate
<1>3. CASE Refuse \/ Preflight \/ TakeBaseline \/ Backup \/ WriteJournal \/ GuardTarget
  BY <1>3 DEF Refuse, Preflight, TakeBaseline, Backup, GuardTarget, Raise, Return
<1>4. CASE ReplaceTarget \/ RecordWritten \/ RecordReplaced \/ VerifyReplaced \/ CheckIndexFree
  BY <1>1, <1>4 DEF ReplaceTarget, RecordWritten, RecordReplaced, VerifyReplaced, CheckIndexFree,
                    Raise, Record
<1>5. CASE Stage \/ VerifyStaged \/ RecheckOutputs \/ RecheckStaged \/ Commit \/ ReadHead
  BY <1>1, <1>5 DEF Stage, VerifyStaged, RecheckOutputs, RecheckStaged, Commit, ReadHead, Raise,
                    Record
<1>6. CASE VerifyCommit \/ RecordCommitted \/ RecordComplete \/ Cleanup
  BY <1>1, <1>6 DEF VerifyCommit, RecordCommitted, RecordComplete, Cleanup, Return, Record
<1>7. CASE RollbackOwned \/ RestorePreflight \/ InspectTarget \/ RestoreTarget
  BY <1>1, <1>7 DEF RollbackOwned, RestorePreflight, InspectTarget, RestoreTarget, GiveUp
<1>8. CASE VerifyRestored \/ RecheckOwned \/ Unstage \/ RecordRolledBack
  BY <1>1, <1>8 DEF VerifyRestored, RecheckOwned, Unstage, RecordRolledBack, GiveUp
<1>9. CASE NotOurs
  BY <1>9, StillHere
<1>10. QED
  BY <1>2, <1>3, <1>4, <1>5, <1>6, <1>7, <1>8, <1>9 DEF LateNext, Next, Execute, Rollback, NotOurs

\* The undecided transactions become more only by the writing of a journal, and
\* a decided one stays decided.
LEMMA PendingFootprint ==
  ASSUME CallInv, [LateNext]_vars
  PROVE  /\ WriteJournal \/ Pending' \subseteq Pending
         /\ WriteJournal => /\ Pending = {} /\ Pending' = {cur} /\ phase[cur] = "none"
                            /\ cur \in TxnIds
         /\ \A t \in TxnIds : phase[t] \in Terminal => phase'[t] = phase[t]
         /\ \A t \in TxnIds : phase[t] # "none" => phase'[t] # "none"
<1>1. DurableOK /\ CallOK BY DEF CallInv, TypeOK
<1>2. CASE UNCHANGED phase
  <2>1. ~WriteJournal
    BY <1>1, <1>2 DEF WriteJournal, CallInv, Preparing, At, DurableOK, CallOK
  <2>2. QED BY <1>2, <2>1 DEF Pending
<1>3. CASE WriteJournal
  <2>1. /\ cur \in TxnIds /\ Pending = {} /\ phase[cur] = "none"
        /\ \A t \in TxnIds : phase'[t] = IF t = cur THEN "prepared" ELSE phase[t]
    BY <1>1, <1>3 DEF WriteJournal, CallInv, Preparing, At, DurableOK, CallOK
  <2>2. QED BY <1>3, <2>1 DEF Pending, Terminal
<1>4. ASSUME Undecided(cur), cur \in TxnIds, NEW v \in Phases \ {"none"}, phase' = [phase EXCEPT ![cur] = v]
      PROVE  /\ ~WriteJournal /\ Pending' \subseteq Pending
             /\ \A t \in TxnIds : phase[t] \in Terminal => phase'[t] = phase[t]
             /\ \A t \in TxnIds : phase[t] # "none" => phase'[t] # "none"
  <2>1. /\ \A t \in TxnIds \ {cur} : phase'[t] = phase[t]
        /\ phase'[cur] # "none"
    BY <1>1, <1>4 DEF DurableOK
  <2>2. phase[cur] \notin Terminal \cup {"none"} BY <1>4 DEF Undecided
  <2>3. ~WriteJournal BY <2>2 DEF WriteJournal, CallInv, Preparing, At
  <2>4. QED BY <2>1, <2>2, <2>3 DEF Pending
<1>5. QED BY <1>2, <1>3, <1>4, PhaseFootprint DEF PhaseStep

\* Baselines, backups and journals say the same of the old contents.
BackupInv ==
  /\ pc = "baseline" /\ job.adopted # 0 => work[job.adopted] = job.old[job.adopted]
  /\ pc = "backup" => \A p \in job.changed : work[p] = job.old[p]
  /\ pc = "journal" => \A p \in job.changed : backups[cur][p] = job.old[p]
  /\ \A t \in Pending : \A p \in journal[t].changed : backups[t][p] = journal[t].old[p]

\* From the baseline to the journal the three copies of an old content agree,
\* and neither a backup nor a journal is overwritten before the decision.
LEMMA BackupNext ==
  {"baseline", "backup"} \subseteq Quiet /\ CallInv /\ BackupInv /\ [LateNext]_vars => BackupInv'
<1> SUFFICES ASSUME {"baseline", "backup"} \subseteq Quiet, CallInv, BackupInv, [LateNext]_vars
             PROVE  BackupInv'
  OBVIOUS
<1>1. DurableOK /\ CallOK /\ DurableOK' BY LateType DEF CallInv, TypeOK
<1> USE DEF At, Goto
<1>2. ASSUME pc' = "baseline", job'.adopted # 0 PROVE (work[job.adopted] = job.old[job.adopted])'
  <2>1. CASE Preflight
    BY <1>2, <2>1 DEF Preflight, CanStart, Local, locals, durable, Return, Forget
  <2>2. CASE NotOurs
    BY <1>2, <2>2, StillHere DEF BackupInv, vars, volatile, durable
  <2>3. QED BY <1>2, <2>1, <2>2, Entries
<1>3. ASSUME pc' = "backup", NEW p \in job'.changed PROVE work'[p] = job'.old[p]
  <2>1. CASE TakeBaseline
    <3>1. p \in job.changed /\ p \in Paths /\ work' = work /\ pc = "baseline"
          /\ job'.old[p] = (IF p \in job.changed /\ p # job.adopted THEN work[p] ELSE job.old[p])
      BY <1>1, <1>3, <2>1 DEF TakeBaseline, Local, durable, CallOK
    <3>2. p = job.adopted => job.adopted # 0 /\ work[p] = job.old[p]
      BY <3>1 DEF BackupInv, Paths
    <3>3. QED BY <3>1, <3>2
  <2>2. CASE NotOurs
    BY <1>3, <2>2, StillHere DEF BackupInv, vars, volatile, durable
  <2>3. QED BY <1>3, <2>1, <2>2, Entries
<1>4. ASSUME pc' = "journal", NEW p \in job'.changed PROVE backups'[cur'][p] = job'.old[p]
  <2>1. CASE Backup
    <3>1. /\ ~Return /\ cur' = cur /\ cur \in TxnIds /\ p \in Paths /\ job' = job
          /\ backups' = [backups EXCEPT ![cur] =
               [q \in Paths |-> IF q \in job.changed THEN work[q] ELSE Absent]]
      BY <1>1, <1>4, <2>1 DEF Backup, Return, Forget, control, locals, CallOK
    <3>2. work[p] = job.old[p] BY <1>4, <2>1, <3>1 DEF Backup, BackupInv
    <3>3. QED BY <1>1, <1>4, <3>1, <3>2 DEF DurableOK
  <2>2. CASE NotOurs
    BY <1>4, <2>2, StillHere DEF BackupInv, volatile
  <2>3. QED BY <1>4, <2>1, <2>2, Entries
<1>5. ASSUME NEW t \in Pending', NEW p \in journal'[t].changed
      PROVE  backups'[t][p] = journal'[t].old[p]
  <2>1. CASE WriteJournal
    <3>1. t = cur /\ cur \in TxnIds BY <2>1, PendingFootprint
    <3>2. backups' = backups /\ journal'[t].old = job.old /\ journal'[t].changed = job.changed
      BY <1>1, <2>1, <3>1 DEF WriteJournal, DurableOK
    <3>3. QED BY <1>5, <2>1, <3>1, <3>2 DEF WriteJournal, BackupInv
  <2>2. CASE Backup \/ Cleanup
    <3>1. t \in Pending \/ WriteJournal BY <1>5, PendingFootprint
    <3>2. t \in Pending /\ journal' = journal
      BY <2>2, <3>1 DEF Backup, Cleanup, WriteJournal, Return, durable
    <3>3. t # cur BY <2>2, <3>2 DEF Backup, Cleanup, CallInv, Preparing, Pending
    <3>4. t \in TxnIds BY <3>2 DEF Pending
    <3>5. backups'[t] = backups[t]
      BY <1>1, <2>2, <3>3, <3>4 DEF Backup, Cleanup, Return, durable, DurableOK
    <3>6. QED BY <1>5, <3>2, <3>5 DEF BackupInv
  <2>3. CASE UNCHANGED <<journal, backups>> /\ ~WriteJournal
    BY <1>5, <2>3, PendingFootprint DEF BackupInv
  <2>4. QED BY <2>1, <2>2, <2>3, Footprint
<1>6. QED BY <1>2, <1>3, <1>4, <1>5 DEF BackupInv

\* An old content that the program has overwritten is in the backup for as long
\* as its transaction is undecided, if nobody edits between the baseline and the
\* backup; whoever edits, crashes or runs recovery later.
THEOREM BackupsAlwaysHeld ==
  ASSUME {"baseline", "backup"} \subseteq Quiet
  PROVE  LateFailureSpec => []BackupsHeld
<1>1. Init => BackupInv BY DEF Init, BackupInv, Pending
<1>2. CallInv /\ BackupInv /\ [Next \/ CommitFailsLate]_vars => BackupInv'
  BY BackupNext DEF LateNext
<1>3. BackupInv => BackupsHeld BY DEF BackupInv, BackupsHeld
<1>4. QED BY <1>1, <1>2, <1>3, CallInvariant, PTL DEF LateFailureSpec

-----------------------------------------------------------------------------
(* What happens to the edits of others *)

\* Somebody has committed this content, in this path or in any path.
LoggedAt(c, p) == \E i \in 1..Len(log) : log[i].tree[p] = c
Logged(c) == \E p \in Paths : LoggedAt(c, p)

\* A content that may be overwritten: nobody's edit, or one that its author
\* gave up, or one that is committed.
Settled(c) == c \in Edits => c \in dropped \/ Logged(c)

\* What HEAD holds is committed; a commit stays; so what was settled stays so.
LEMMA HeadIsLogged ==
  ASSUME DurableOK, NEW p \in Paths
  PROVE  HeadTree[p] = Absent \/ LoggedAt(HeadTree[p], p)
<1>1. CASE log = <<>> BY <1>1 DEF HeadTree, NoFiles
<1>2. CASE log # <<>>
  <2>1. Len(log) \in 1..Len(log) BY <1>2, EmptySeq DEF DurableOK
  <2>2. QED BY <1>2, <2>1 DEF HeadTree, Tip, LoggedAt
<1>3. QED BY <1>1, <1>2

\* Nothing that was committed, or settled, ceases to be.
LEMMA LoggedStays ==
  ASSUME CallInv, [LateNext]_vars
  PROVE  /\ \A p \in Paths : \A c : LoggedAt(c, p) => LoggedAt(c, p)'
         /\ \A c : Logged(c) => Logged(c)'
         /\ \A c : Settled(c) => Settled(c)'
<1> DEFINE R == [tree : Files, txn : TxnIds \cup {0}]
<1>1. log \in Seq(R) /\ DurableOK /\ CallOK BY DEF CallInv, TypeOK, DurableOK
<1>2. \A p \in Paths : \A c : LoggedAt(c, p) => LoggedAt(c, p)'
  <2>1. ASSUME NEW r \in R, log' = Append(log, r)
        PROVE  \A p \in Paths : \A c : LoggedAt(c, p) => LoggedAt(c, p)'
    <3>1. /\ Len(log') = Len(log) + 1 /\ Len(log) \in Nat
          /\ \A i \in 1..Len(log) : log'[i] = log[i]
      BY <1>1, <2>1, AppendProperties
    <3>2. QED BY <3>1 DEF LoggedAt
  <2>2. CASE UNCHANGED log BY <2>2 DEF LoggedAt
  <2>3. CASE ExternalCommit
    <3>1. log' = Append(log, [tree |-> index, txn |-> 0]) BY <2>3 DEF ExternalCommit
    <3>2. [tree |-> index, txn |-> 0] \in R BY <1>1 DEF DurableOK
    <3>3. QED BY <2>1, <3>1, <3>2
  <2>4. CASE (Commit \/ CommitFailsLate) /\ log' # log
    <3>1. cur \in TxnIds /\ log' = Append(log, [tree |-> CommitTree, txn |-> cur])
      BY <1>1, <2>4 DEF Commit, CommitFailsLate, Raise, durable, At, CallOK
    <3>2. [tree |-> CommitTree, txn |-> cur] \in R
      BY <1>1, <3>1, HeadTreeType DEF CommitTree, DurableOK, Files
    <3>3. QED BY <2>1, <3>1, <3>2
  <2>5. QED BY <2>2, <2>3, <2>4, Footprint
<1>3. dropped \subseteq dropped' BY Footprint DEF Begin, ExternalEdit
<1>4. QED BY <1>2, <1>3 DEF Logged, Settled

\* The same of a content that a variable holds before and after the step.
SettledLater(c) ==
  c \in Edits => c \in dropped' \/ \E p \in Paths : \E i \in 1..Len(log') : log'[i].tree[p] = c

\* Every content that was settled before a step is so after it.
LEMMA SettledStays ==
  ASSUME CallInv, [LateNext]_vars
  PROVE  \A c : Settled(c) => SettledLater(c)
BY LoggedStays DEF Settled, SettledLater, Logged, LoggedAt

\* The edits that nobody gave up are in the vault or committed, and whatever
\* the running call is about to overwrite is settled.
EditInv ==
  /\ \A c \in made \ dropped : Logged(c) \/ \E p \in Paths : work[p] = c
  /\ pc \in Preparing =>
       job.changed \subseteq job.requested
       /\ \A p \in Paths : Settled(job.old[p]) /\ Settled(job.new[p])
  /\ \A t \in TxnIds : \A p \in Paths : Settled(journal[t].old[p]) /\ Settled(journal[t].new[p])
  /\ pc = "baseline" => \A p \in job.changed \ {job.adopted} : work[p] = HeadTree[p]
  /\ pc = "replace" => \A p \in Paths : First(p) => work[p] = journal[cur].old[p]
  /\ pc \in {"inspect", "restore", "verifyRestored"} =>
       \A p \in todo : pre[p] \in {journal[cur].old[p], journal[cur].new[p]}
  /\ pc = "restore" => \A p \in Paths : Last(p) => work[p] = pre[p]

StillForEdits == {"baseline", "replace", "restore"}
OutputsAreNotEdits == \A t \in TxnIds : Produced[t] \cap Edits = {}

\* Nobody has edited anything yet.
LEMMA EditInit == Init => EditInv
<1> SUFFICES ASSUME Init PROVE EditInv
  OBVIOUS
<1>1. \A p \in Paths : NoFiles[p] = Absent BY DEF NoFiles
<1>2. Absent \notin Edits BY ContentsAssumption
<1>3. \A t \in TxnIds : \A p \in Paths : Settled(journal[t].old[p]) /\ Settled(journal[t].new[p])
  BY <1>1, <1>2 DEF Init, NoJournal, Settled
<1>4. QED BY <1>3 DEF Init, EditInv, Preparing

\* The edits: overwritten contents are settled.
LEMMA EditsKept ==
  CallInv /\ EditInv /\ [LateNext]_vars =>
    \A c \in made' \ dropped' : Logged(c)' \/ \E p \in Paths : work'[p] = c
<1> SUFFICES ASSUME CallInv, EditInv, [LateNext]_vars, NEW c \in made' \ dropped', ~Logged(c)'
             PROVE  \E p \in Paths : work'[p] = c
  OBVIOUS
<1>1. DurableOK /\ CallOK /\ EnvOK BY DEF CallInv, TypeOK
<1>2. CASE ExternalEdit
  <2>1. PICK p \in Paths : \E d :
          /\ work' = [work EXCEPT ![p] = d] /\ made' = made \cup ({d} \cap Edits)
          /\ dropped' = dropped \cup ({work[p]} \cap Edits)
    BY <1>2 DEF ExternalEdit
  <2> PICK d :
        /\ work' = [work EXCEPT ![p] = d] /\ made' = made \cup ({d} \cap Edits)
        /\ dropped' = dropped \cup ({work[p]} \cap Edits)
    BY <2>1
  <2>2. CASE c = d BY <1>1, <2>1, <2>2 DEF DurableOK, Files
  <2>3. CASE c # d
    <3>1. c \in made \ dropped /\ c \in Edits /\ ~Logged(c)
      BY <1>1, <2>1, <2>3, LoggedStays DEF EnvOK
    <3>2. PICK q \in Paths : work[q] = c BY <3>1 DEF EditInv
    <3>3. q # p BY <2>1, <3>1, <3>2
    <3>4. QED BY <1>1, <2>1, <3>2, <3>3 DEF DurableOK, Files
  <2>4. QED BY <2>2, <2>3
<1>3. CASE ~ExternalEdit
  <2>1. c \in made \ dropped /\ c \in Edits /\ ~Logged(c) /\ ~Settled(c)
    BY <1>1, <1>3, Footprint, LoggedStays DEF Begin, EnvOK, Settled
  <2>2. PICK q \in Paths : work[q] = c BY <2>1 DEF EditInv
  <2>3. CASE ReplaceTarget
    <3>1. PICK p \in Paths : First(p) /\ work' = [work EXCEPT ![p] = journal[cur].new[p]]
      BY <2>3 DEF ReplaceTarget
    <3>2. cur \in TxnIds /\ work[p] = journal[cur].old[p]
      BY <1>1, <2>3, <3>1 DEF ReplaceTarget, EditInv, At, CallOK
    <3>3. p # q BY <2>1, <2>2, <3>2 DEF EditInv
    <3>4. QED BY <1>1, <2>2, <3>1, <3>3 DEF DurableOK, Files
  <2>4. CASE RestoreTarget
    <3>1. PICK p \in Paths : Last(p) /\ work' = [work EXCEPT ![p] = journal[cur].old[p]]
      BY <2>4 DEF RestoreTarget
    <3>2. cur \in TxnIds /\ work[p] \in {journal[cur].old[p], journal[cur].new[p]}
      BY <1>1, <2>4, <3>1 DEF RestoreTarget, EditInv, At, CallOK, Last
    <3>3. p # q BY <2>1, <2>2, <3>2 DEF EditInv
    <3>4. QED BY <1>1, <2>2, <3>1, <3>3 DEF DurableOK, Files
  <2>5. QED BY <1>3, <2>2, <2>3, <2>4, Footprint
<1>4. QED BY <1>2, <1>3

\* What a call takes over from the vault is settled: it is clean, and so
\* committed, or its author handed it to a reconciliation.
LEMMA JobsSettled ==
  CallInv /\ EditInv /\ StillForEdits \subseteq Quiet /\ OutputsAreNotEdits /\ [LateNext]_vars =>
    /\ pc' \in Preparing =>
         job'.changed \subseteq job'.requested
         /\ \A p \in Paths : Settled(job.old[p])' /\ Settled(job.new[p])'
    /\ pc' = "baseline" => \A p \in job'.changed \ {job'.adopted} : work'[p] = HeadTree'[p]
<1> SUFFICES ASSUME CallInv, EditInv, StillForEdits \subseteq Quiet, OutputsAreNotEdits,
                    [LateNext]_vars
             PROVE  /\ pc' \in Preparing =>
                         job'.changed \subseteq job'.requested
                         /\ \A p \in Paths : Settled(job.old[p])' /\ Settled(job.new[p])'
                    /\ pc' = "baseline" =>
                         \A p \in job'.changed \ {job'.adopted} : work'[p] = HeadTree'[p]
  OBVIOUS
<1>1. DurableOK /\ CallOK BY DEF CallInv, TypeOK
<1> USE DEF At, Goto
<1>2. ASSUME pc \in Preparing, UNCHANGED job
      PROVE  /\ job'.changed \subseteq job'.requested
             /\ \A p \in Paths : Settled(job.old[p])' /\ Settled(job.new[p])'
  <2>1. /\ job.changed \subseteq job.requested
        /\ \A p \in Paths : SettledLater(job.old[p]) /\ SettledLater(job.new[p])
    BY <1>2, SettledStays DEF EditInv
  <2>2. QED BY <1>2, <2>1 DEF Settled, SettledLater, Logged, LoggedAt
<1>3. CASE Begin
  <2>1. PICK t \in TxnIds, requested \in SUBSET Paths, new \in Files, adopted \in Paths \cup {0} :
          /\ \A p \in requested : new[p] \in Produced[t] \/ (p = adopted /\ new[p] = work[p])
          /\ job' = NewJob(requested, new, adopted)
          /\ dropped' = dropped \cup ({work[p] : p \in Paths \cap {adopted}} \cap Edits)
    BY <1>3 DEF Begin
  <2>2. /\ job'.changed = Changed(requested, new, adopted) /\ job'.requested = requested
        /\ job'.old = [p \in Paths |-> IF p = adopted THEN work[p] ELSE Absent]
        /\ job'.new = [p \in Paths |-> IF p \in Changed(requested, new, adopted) THEN new[p]
                                       ELSE Absent]
        /\ Changed(requested, new, adopted) \subseteq requested
    BY <2>1 DEF NewJob, Changed
  <2>3. \A p \in Paths : p = adopted /\ work[p] \in Edits => work[p] \in dropped' BY <2>1
  <2>4. Absent \notin Edits BY ContentsAssumption
  <2>5. \A p \in Paths : Settled(job.old[p])' BY <2>2, <2>3, <2>4 DEF Settled
  <2>6. \A p \in Paths : Settled(job.new[p])'
    BY <2>1, <2>2, <2>3, <2>4 DEF Settled, OutputsAreNotEdits
  <2>7. pc' = "check" BY <1>3 DEF Begin
  <2>8. QED BY <2>2, <2>5, <2>6, <2>7
<1>4. CASE Preflight
  <2>1. CASE Return BY <2>1 DEF Return, Forget, Preparing
  <2>2. CASE ~Return
    <3>1. /\ pc \in Preparing /\ pc' = "baseline" /\ UNCHANGED <<job, durable>>
          /\ (job.requested \ {job.adopted}) \cap Dirty = {}
      BY <1>4, <2>2 DEF Preflight, CanStart, Local, locals, Preparing
    <3>2. job.changed \subseteq job.requested /\ job.changed \subseteq Paths
      BY <1>1, <3>1 DEF EditInv, CallOK
    <3>3. \A p \in job.changed \ {job.adopted} : work[p] = HeadTree[p]
      BY <3>1, <3>2 DEF Dirty, Staged
    <3>4. HeadTree' = HeadTree BY <3>1 DEF HeadTree, Tip, durable
    <3>5. QED BY <1>2, <3>1, <3>3, <3>4 DEF durable, Preparing
  <2>3. QED BY <2>1, <2>2
<1>5. CASE TakeBaseline
  <2>1. /\ pc = "baseline" /\ pc' = "backup" /\ UNCHANGED dropped /\ UNCHANGED log
        /\ job'.changed = job.changed /\ job'.requested = job.requested /\ job'.new = job.new
        /\ job'.old = [p \in Paths |-> IF p \in job.changed /\ p # job.adopted THEN work[p]
                                       ELSE job.old[p]]
    BY <1>1, <1>5 DEF TakeBaseline, Local, durable, env, CallOK
  <2>2. \A p \in Paths : Settled(HeadTree[p])
    BY <1>1, HeadIsLogged, ContentsAssumption DEF Settled, Logged
  <2>3. \A p \in Paths : Settled(job'.old[p]) /\ Settled(job'.new[p])
    BY <2>1, <2>2 DEF EditInv, Preparing
  <2>4. job'.changed \subseteq job'.requested BY <2>1 DEF EditInv, Preparing
  <2>5. QED BY <2>1, <2>3, <2>4, LoggedStays DEF Settled, Logged, LoggedAt
<1>6. CASE Backup
  BY <1>2, <1>6 DEF Backup, Return, Forget, locals, Preparing
<1>7. CASE NotOurs
  <2>1. UNCHANGED <<pc, job>> /\ (pc = "baseline" => UNCHANGED vars)
    BY <1>7, StillHere DEF volatile, StillForEdits
  <2>2. pc = "baseline" => UNCHANGED <<work, HeadTree>>
    BY <2>1 DEF vars, durable, HeadTree, Tip
  <2>3. QED BY <1>2, <2>1, <2>2 DEF EditInv
<1>8. QED
  BY <1>3, <1>4, <1>5, <1>6, <1>7, Entries DEF Preparing

\* The checks right before a replacement and a restoration still hold when it happens.
LEMMA ChecksHold ==
  CallInv /\ EditInv /\ StillForEdits \subseteq Quiet /\ [LateNext]_vars =>
    /\ pc' = "replace" => \A p \in Paths : First(p)' => work'[p] = journal'[cur'].old[p]
    /\ pc' \in {"inspect", "restore", "verifyRestored"} =>
         \A p \in todo' : pre'[p] \in {journal'[cur'].old[p], journal'[cur'].new[p]}
    /\ pc' = "restore" => \A p \in Paths : Last(p)' => work'[p] = pre'[p]
<1> SUFFICES ASSUME CallInv, EditInv, StillForEdits \subseteq Quiet, [LateNext]_vars
             PROVE  /\ pc' = "replace" =>
                         \A p \in Paths : First(p)' => work'[p] = journal'[cur'].old[p]
                    /\ pc' \in {"inspect", "restore", "verifyRestored"} =>
                         \A p \in todo' : pre'[p] \in {journal'[cur'].old[p], journal'[cur'].new[p]}
                    /\ pc' = "restore" => \A p \in Paths : Last(p)' => work'[p] = pre'[p]
  OBVIOUS
<1>1. DurableOK /\ CallOK BY DEF CallInv, TypeOK
<1>2. \A p, q \in Paths : (First(p) /\ First(q) => p = q) /\ (Last(p) /\ Last(q) => p = q)
  BY DEF First, Last, Paths
<1> USE DEF At, Goto
<1>3. CASE GuardTarget
  <2>1. CASE Raise BY <2>1 DEF Raise
  <2>2. CASE ~Raise
    <3>1. pc' = "replace" /\ UNCHANGED <<work, journal, cur, todo>>
          /\ \E p \in Paths : First(p) /\ work[p] = journal[cur].old[p]
      BY <1>3, <2>2 DEF GuardTarget, Local, locals, durable, control
    <3>2. QED BY <1>2, <3>1 DEF First
  <2>3. QED BY <2>1, <2>2
<1>4. CASE RestorePreflight
  <2>1. CASE GiveUp BY <2>1 DEF GiveUp, Forget
  <2>2. CASE ~GiveUp
    <3>1. /\ Restorable(cur) /\ todo' = journal[cur].changed /\ UNCHANGED <<journal, cur>>
          /\ pre' = [p \in Paths |-> IF p \in journal[cur].changed THEN work[p] ELSE Absent]
          /\ pc' = "inspect"
      BY <1>4, <2>2 DEF RestorePreflight, Local, durable, control
    <3>2. cur \in TxnIds /\ journal[cur].changed \subseteq Paths
      BY <1>1, <1>4 DEF RestorePreflight, CallOK, DurableOK
    <3>3. QED BY <3>1, <3>2 DEF Restorable
  <2>3. QED BY <2>1, <2>2
<1>5. CASE InspectTarget
  <2>1. CASE GiveUp BY <2>1 DEF GiveUp, Forget
  <2>2. CASE pc' \in {"inspect", "reown"} /\ ~GiveUp
    BY <1>5, <2>2 DEF InspectTarget, EditInv, Local, durable, control, locals
  <2>3. CASE pc' = "restore" /\ ~GiveUp
    <3>1. UNCHANGED <<work, journal, cur, todo, pre>> /\ pc = "inspect"
          /\ \E p \in Paths : Last(p) /\ work[p] = pre[p]
      BY <1>5, <2>3 DEF InspectTarget, Local, durable, control, locals
    <3>2. QED BY <1>2, <2>3, <3>1 DEF Last, EditInv
  <2>4. QED BY <1>5, <2>1, <2>2, <2>3 DEF InspectTarget
<1>6. CASE RestoreTarget
  BY <1>6 DEF RestoreTarget, EditInv, control, locals
<1>7. CASE VerifyRestored
  BY <1>7 DEF VerifyRestored, EditInv, GiveUp, Forget, Local, durable, control, locals
<1>8. CASE NotOurs
  <2>1. UNCHANGED <<pc, cur, todo, pre, journal>>
        /\ (pc \in {"replace", "restore"} => UNCHANGED work)
    BY <1>8, StillHere DEF volatile, StillForEdits, vars, durable
  <2>2. QED BY <2>1 DEF EditInv, First, Last
<1>9. QED BY <1>3, <1>4, <1>5, <1>6, <1>7, <1>8, Entries

\* No step loses an edit, or comes to a point where it might.
LEMMA EditNext ==
  CallInv /\ EditInv /\ StillForEdits \subseteq Quiet /\ OutputsAreNotEdits /\ [LateNext]_vars
    => EditInv'
<1> SUFFICES ASSUME CallInv, EditInv, StillForEdits \subseteq Quiet, OutputsAreNotEdits,
                    [LateNext]_vars
             PROVE  EditInv'
  OBVIOUS
<1>1. DurableOK /\ CallOK BY DEF CallInv, TypeOK
<1>2. \A t \in TxnIds : \A p \in Paths : Settled(journal[t].old[p])' /\ Settled(journal[t].new[p])'
  <2>1. CASE WriteJournal
    <3>1. /\ cur \in TxnIds /\ journal'[cur].old = job.old /\ journal'[cur].new = job.new
          /\ pc \in Preparing /\ \A t \in TxnIds \ {cur} : journal'[t] = journal[t]
      BY <1>1, <2>1 DEF WriteJournal, At, Preparing, CallOK, DurableOK
    <3>2. \A p \in Paths : SettledLater(job.old[p]) /\ SettledLater(job.new[p])
      BY <3>1, SettledStays DEF EditInv
    <3>3. \A t \in TxnIds \ {cur} : \A p \in Paths :
            SettledLater(journal[t].old[p]) /\ SettledLater(journal[t].new[p])
      BY SettledStays DEF EditInv
    <3>4. QED BY <3>1, <3>2, <3>3 DEF Settled, SettledLater, Logged, LoggedAt
  <2>2. CASE journal' = journal
    BY <2>2, LoggedStays DEF EditInv, Settled, Logged, LoggedAt
  <2>3. QED BY <2>1, <2>2, Footprint
<1>3. QED BY <1>2, EditsKept, JobsSettled, ChecksHold DEF EditInv, Logged, LoggedAt, Settled

\* Nothing that Obsidian, Syncthing or the user writes is destroyed by the
\* program, in any number of transactions, crashes, rollbacks and recoveries, if
\* nobody edits between a check and the statement that relies on it: between
\* the preflight and the baseline, the hash check and the replacement, and the
\* inspection and the restoration.  Neither staging nor committing matters.
THEOREM NoEditEverLost ==
  ASSUME StillForEdits \subseteq Quiet, OutputsAreNotEdits
  PROVE  LateFailureSpec => []NoEditLost
<1>1. Init => EditInv BY EditInit
<1>2. CallInv /\ EditInv /\ [Next \/ CommitFailsLate]_vars => EditInv'
  BY EditNext DEF LateNext
<1>3. EditInv => NoEditLost
  BY DEF EditInv, NoEditLost, Kept, Logged, LoggedAt
<1>4. QED BY <1>1, <1>2, <1>3, CallInvariant, PTL DEF LateFailureSpec

-----------------------------------------------------------------------------
(* What a rollback leaves behind *)

\* A content that the path of a transaction may hold although the transaction
\* is rolled back: not its output, or one that somebody has committed there.
Fine(t, p, x) ==
  x # Absent /\ x # journal[t].old[p] /\ x = journal[t].new[p] => LoggedAt(x, p)

RolledBack == {t \in TxnIds : phase[t] = "rolled_back"}
Restoring == {"inspect", "restore", "verifyRestored", "reown", "unstage", "rolledBack"}

\* A transaction writes what it renders, or what a reconciliation adopts.
OutputInv ==
  /\ pc \in Preparing => \A p \in Paths :
       job.new[p] \in Produced[cur] \cup {Absent} \/ (p = job.adopted /\ job.new[p] = job.old[p])
  /\ \A t \in TxnIds : \A p \in Paths :
       journal[t].new[p] \in Produced[t] \cup {Absent, journal[t].old[p]}

\* No output of a transaction that is rolled back is in the vault or staged,
\* nor will a later transaction put it there by restoring or adopting it.
LeftInv ==
  \A t \in RolledBack : \A p \in journal[t].changed :
    /\ Fine(t, p, work[p]) /\ Fine(t, p, index[p])
    /\ \A u \in Pending : Fine(t, p, journal[u].old[p]) /\ Fine(t, p, journal[u].new[p])
    /\ pc \in Preparing => Fine(t, p, job.old[p]) /\ Fine(t, p, job.new[p])

\* What the running rollback has done so far.
UndoneInv ==
  /\ pc \in Restoring => \A p \in journal[cur].changed \ todo : Fine(cur, p, work[p])
  /\ pc \in {"reown", "unstage", "rolledBack"} => todo = {}
  /\ pc = "unstage" => \A p \in journal[cur].changed \ owned : Fine(cur, p, index[p])
  /\ pc = "rolledBack" => \A p \in journal[cur].changed : Fine(cur, p, index[p])

\* Contents tell whose they are: two transactions render nothing alike.
OutputsDiffer ==
  \A t, u \in TxnIds : t # u => Produced[t] \cap Produced[u] \subseteq {Absent}

\* A journal asks for what its transaction may render, or what it adopted.
LEMMA OutputNext == CallInv /\ OutputInv /\ [LateNext]_vars => OutputInv'
<1> SUFFICES ASSUME CallInv, OutputInv, [LateNext]_vars PROVE OutputInv'
  OBVIOUS
<1>1. DurableOK /\ CallOK BY DEF CallInv, TypeOK
<1> USE DEF At, Goto
<1>2. ASSUME pc' \in Preparing, NEW p \in Paths
      PROVE  \/ job'.new[p] \in Produced[cur'] \cup {Absent}
             \/ p = job'.adopted /\ job'.new[p] = job'.old[p]
  <2>1. CASE Begin
    <3>1. PICK t \in TxnIds, requested \in SUBSET Paths, new \in Files, adopted \in Paths \cup {0} :
            /\ \A q \in requested : new[q] \in Produced[t] \/ (q = adopted /\ new[q] = work[q])
            /\ job' = NewJob(requested, new, adopted) /\ cur' = t
      BY <2>1 DEF Begin
    <3>2. /\ job'.old[p] = (IF p = adopted THEN work[p] ELSE Absent) /\ job'.adopted = adopted
          /\ job'.new[p] = (IF p \in Changed(requested, new, adopted) THEN new[p] ELSE Absent)
          /\ Changed(requested, new, adopted) \subseteq requested
      BY <3>1 DEF NewJob, Changed
    <3>3. QED BY <3>1, <3>2
  <2>2. CASE TakeBaseline
    <3>1. /\ cur' = cur /\ job'.new = job.new /\ job'.adopted = job.adopted /\ pc \in Preparing
          /\ job'.old[p] = IF p \in job.changed /\ p # job.adopted THEN work[p] ELSE job.old[p]
      BY <1>1, <2>2 DEF TakeBaseline, Local, control, CallOK, Preparing
    <3>2. QED BY <3>1 DEF OutputInv
  <2>3. CASE Preflight \/ Backup
    BY <1>2, <2>3 DEF Preflight, Backup, Local, locals, control, Return, Forget, OutputInv, Preparing
  <2>4. CASE NotOurs
    BY <1>2, <2>4, StillHere DEF volatile, OutputInv
  <2>5. QED BY <1>2, <2>1, <2>2, <2>3, <2>4, Entries DEF Preparing
<1>3. ASSUME NEW t \in TxnIds, NEW p \in Paths
      PROVE  journal'[t].new[p] \in Produced[t] \cup {Absent, journal'[t].old[p]}
  <2>1. CASE WriteJournal
    <3>1. /\ cur \in TxnIds /\ journal'[cur].old = job.old /\ journal'[cur].new = job.new
          /\ pc \in Preparing /\ \A u \in TxnIds \ {cur} : journal'[u] = journal[u]
      BY <1>1, <2>1 DEF WriteJournal, Preparing, CallOK, DurableOK
    <3>2. QED BY <3>1 DEF OutputInv
  <2>2. CASE journal' = journal BY <2>2 DEF OutputInv
  <2>3. QED BY <2>1, <2>2, Footprint
<1>4. QED BY <1>2, <1>3 DEF OutputInv

\* The same of a content that a variable holds before and after the step.
FineLater(t, p, x) ==
  x # Absent /\ x # journal'[t].old[p] /\ x = journal'[t].new[p] =>
    \E i \in 1..Len(log') : log'[i].tree[p] = x

\* What is fine stays fine once the journal of the transaction is written.
LEMMA FineStays ==
  ASSUME CallInv, [LateNext]_vars, NEW t \in TxnIds, phase[t] # "none"
  PROVE  /\ journal'[t] = journal[t]
         /\ \A p \in Paths : \A x : Fine(t, p, x) => FineLater(t, p, x)
<1>1. journal'[t] = journal[t]
  BY Footprint DEF WriteJournal, CallInv, TypeOK, DurableOK, At, Preparing
<1>2. QED BY <1>1, LoggedStays DEF Fine, FineLater, LoggedAt

\* Nobody but the transaction itself writes an output of it that is not committed.
LEMMA EditsAreFine ==
  ASSUME DurableOK, OutputInv, OutputsAreNotEdits,
         NEW t \in TxnIds, NEW p \in Paths, NEW x \in Edits \cup {Absent, HeadTree[p]}
  PROVE  Fine(t, p, x)
<1>1. CASE x \in Edits
  <2>1. x \notin Produced[t] BY <1>1 DEF OutputsAreNotEdits
  <2>2. QED BY <2>1 DEF OutputInv, Fine
<1>2. CASE x = Absent BY <1>2 DEF Fine
<1>3. CASE x = HeadTree[p] BY <1>3, HeadIsLogged DEF Fine
<1>4. QED BY <1>1, <1>2, <1>3

\* What another transaction renders is no output of this one.
LEMMA OthersOutputsAreFine ==
  ASSUME OutputInv, OutputsDiffer, NEW t \in TxnIds, NEW u \in TxnIds, t # u, NEW p \in Paths,
         NEW x \in Produced[u]
  PROVE  Fine(t, p, x)
BY DEF OutputInv, OutputsDiffer, Fine

\* A step that writes only what is fine in a path leaves the path fine.
LEMMA ContentsStayFine ==
  ASSUME CallInv, OutputInv, OutputsAreNotEdits, [LateNext]_vars,
         NEW t \in TxnIds, phase[t] # "none", NEW p \in Paths,
         Fine(t, p, work[p]),
         ReplaceTarget => Fine(t, p, journal[cur].new[p]),
         RestoreTarget => Fine(t, p, journal[cur].old[p])
  PROVE  /\ Fine(t, p, work'[p])
         /\ Fine(t, p, index[p]) => Fine(t, p, index'[p])
<1>1. DurableOK /\ CallOK /\ EnvOK BY DEF CallInv, TypeOK
<1>2. Fine(t, p, work'[p])
  <2>1. CASE work' = work BY <2>1
  <2>2. CASE ReplaceTarget
    <3>1. \E q \in Paths : work' = [work EXCEPT ![q] = journal[cur].new[q]]
      BY <2>2 DEF ReplaceTarget
    <3>2. work'[p] \in {work[p], journal[cur].new[p]} BY <1>1, <3>1 DEF DurableOK, Files
    <3>3. QED BY <2>2, <3>2
  <2>3. CASE RestoreTarget
    <3>1. \E q \in Paths : work' = [work EXCEPT ![q] = journal[cur].old[q]]
      BY <2>3 DEF RestoreTarget
    <3>2. work'[p] \in {work[p], journal[cur].old[p]} BY <1>1, <3>1 DEF DurableOK, Files
    <3>3. QED BY <2>3, <3>2
  <2>4. CASE ExternalEdit
    <3>1. PICK q \in Paths : \E c \in Edits \cup {Absent, HeadTree[q]} : work' = [work EXCEPT ![q] = c]
      BY <2>4 DEF ExternalEdit
    <3>2. work'[p] = work[p] \/ work'[p] \in Edits \cup {Absent, HeadTree[p]}
      BY <1>1, <3>1 DEF DurableOK, Files
    <3>3. QED BY <1>1, <3>2, EditsAreFine
  <2>5. QED BY <2>1, <2>2, <2>3, <2>4, Footprint
<1>3. ASSUME Fine(t, p, index[p]) PROVE Fine(t, p, index'[p])
  <2>1. index'[p] \in {index[p], work[p], HeadTree[p]}
    <3>1. CASE Stage \/ Unstage
      BY <3>1 DEF Stage, Unstage, Raise, durable
    <3>2. CASE Commit \/ CommitFailsLate
      BY <3>2 DEF Commit, CommitFailsLate, IndexAfterCommit, Raise, durable
    <3>3. CASE ExternalStage
      BY <1>1, <3>3 DEF ExternalStage, DurableOK, Files
    <3>4. QED BY <3>1, <3>2, <3>3, Footprint
  <2>2. QED BY <1>1, <1>3, <2>1, EditsAreFine
<1>4. QED BY <1>2, <1>3

\* The one step that ends a rollback.
LEMMA RolledBackFootprint ==
  ASSUME CallInv, [LateNext]_vars, NEW t \in TxnIds, phase'[t] = "rolled_back",
         phase[t] # "rolled_back"
  PROVE  RecordRolledBack /\ t = cur
<1> DurableOK /\ CallOK BY DEF CallInv, TypeOK
<1> USE DEF durable, Local, DurableOK
<1>1. CASE Begin \/ Finalize \/ (\E u \in TxnIds : Recover(u)) \/ Fail \/ Crash \/ CommitFailsLate
  BY <1>1 DEF Begin, Finalize, Recover, Fail, Crash, CommitFailsLate
<1>2. CASE Refuse \/ Preflight \/ TakeBaseline \/ Backup \/ WriteJournal \/ GuardTarget
  BY <1>2 DEF Refuse, Preflight, TakeBaseline, Backup, WriteJournal, GuardTarget, Raise, Return
<1>3. CASE ReplaceTarget \/ RecordWritten \/ RecordReplaced \/ VerifyReplaced \/ CheckIndexFree
  BY <1>3 DEF ReplaceTarget, RecordWritten, RecordReplaced, VerifyReplaced, CheckIndexFree, Raise,
              Record
<1>4. CASE Stage \/ VerifyStaged \/ RecheckOutputs \/ RecheckStaged \/ Commit \/ ReadHead
  BY <1>4 DEF Stage, VerifyStaged, RecheckOutputs, RecheckStaged, Commit, ReadHead, Raise, Record
<1>5. CASE VerifyCommit \/ RecordCommitted \/ RecordComplete \/ Cleanup
  BY <1>5 DEF VerifyCommit, RecordCommitted, RecordComplete, Cleanup, Return, Record
<1>6. CASE RollbackOwned \/ RestorePreflight \/ InspectTarget \/ RestoreTarget
  BY <1>6 DEF RollbackOwned, RestorePreflight, InspectTarget, RestoreTarget, GiveUp
<1>7. CASE VerifyRestored \/ RecheckOwned \/ Unstage \/ RecordRolledBack
  BY <1>7 DEF VerifyRestored, RecheckOwned, Unstage, RecordRolledBack, GiveUp
<1>8. CASE NotOurs
  BY <1>8, StillHere
<1>9. QED
  BY <1>1, <1>2, <1>3, <1>4, <1>5, <1>6, <1>7, <1>8 DEF LateNext, Next, Execute, Rollback, NotOurs

\* What was rolled back stays so, and what is rolled back now was undone before.
LEMMA LeftNext ==
  /\ CallInv /\ OutputInv /\ LeftInv /\ UndoneInv /\ [LateNext]_vars
  /\ OutputsAreNotEdits /\ OutputsDiffer
  => LeftInv'
<1> SUFFICES ASSUME CallInv, OutputInv, LeftInv, UndoneInv, [LateNext]_vars,
                    OutputsAreNotEdits, OutputsDiffer, NEW t \in RolledBack',
                    NEW p \in journal'[t].changed
             PROVE  /\ FineLater(t, p, work'[p]) /\ FineLater(t, p, index'[p])
                    /\ \A u \in Pending' : FineLater(t, p, journal'[u].old[p])
                                           /\ FineLater(t, p, journal'[u].new[p])
                    /\ pc' \in Preparing => FineLater(t, p, job'.old[p])
                                            /\ FineLater(t, p, job'.new[p])
  BY DEF LeftInv, FineLater, Fine, LoggedAt
<1>1. DurableOK /\ CallOK /\ t \in TxnIds /\ phase'[t] = "rolled_back"
  BY DEF CallInv, TypeOK, RolledBack
<1>2. phase[t] # "none"
  <2>1. CASE WriteJournal
    BY <1>1, <2>1, PendingFootprint DEF WriteJournal, DurableOK
  <2>2. CASE ~WriteJournal
    BY <1>1, <2>2, PhaseFootprint DEF PhaseStep, Undecided, DurableOK
  <2>3. QED BY <2>1, <2>2
<1>3. journal'[t] = journal[t] /\ p \in Paths
      /\ \A x : Fine(t, p, x) => FineLater(t, p, x)
  BY <1>1, <1>2, FineStays DEF DurableOK
<1>4. CASE t \notin RolledBack
  <2>1. RecordRolledBack /\ t = cur
    BY <1>1, <1>4, RolledBackFootprint DEF RolledBack
  <2>2. /\ pc = "rolledBack" /\ UNCHANGED <<work, index>> /\ pc' \notin Preparing
        /\ phase[cur] \notin Terminal \cup {"none"}
    BY <2>1 DEF RecordRolledBack, At, Goto, Forget, Preparing, CallInv, JournalledPcs, RollbackPcs,
                Undecided
  <2>3. Fine(t, p, work[p]) /\ Fine(t, p, index[p])
    BY <1>3, <2>1, <2>2 DEF UndoneInv, Restoring
  <2>4. Pending' = {}
    <3>1. cur \in Pending /\ cur \notin Pending' BY <1>1, <2>1, <2>2 DEF Pending, Terminal
    <3>2. Pending' \subseteq Pending
      BY <2>1, PendingFootprint, <2>2 DEF WriteJournal, At
    <3>3. QED BY <3>1, <3>2 DEF CallInv, OnePending
  <2>5. QED BY <1>3, <2>2, <2>3, <2>4
<1>5. CASE t \in RolledBack
  <2>1. /\ Fine(t, p, work[p]) /\ Fine(t, p, index[p])
        /\ \A u \in Pending : Fine(t, p, journal[u].old[p]) /\ Fine(t, p, journal[u].new[p])
        /\ pc \in Preparing => Fine(t, p, job.old[p]) /\ Fine(t, p, job.new[p])
    BY <1>3, <1>5 DEF LeftInv
  <2>2. ReplaceTarget \/ RestoreTarget => cur \in Pending
    BY <1>1 DEF ReplaceTarget, RestoreTarget, At, CallInv, JournalledPcs, RollbackPcs, Undecided,
                Pending, CallOK
  <2>3. Fine(t, p, work'[p]) /\ Fine(t, p, index'[p])
    BY <1>1, <1>2, <1>3, <2>1, <2>2, ContentsStayFine
  <2>4. ASSUME NEW u \in Pending'
        PROVE  Fine(t, p, journal'[u].old[p]) /\ Fine(t, p, journal'[u].new[p])
    <3>1. CASE WriteJournal
      <4>1. u = cur /\ cur \in TxnIds BY <2>4, <3>1, PendingFootprint
      <4>2. pc \in Preparing /\ journal'[cur].old = job.old /\ journal'[cur].new = job.new
        BY <1>1, <3>1, <4>1 DEF WriteJournal, At, Preparing, DurableOK
      <4>3. QED BY <2>1, <4>1, <4>2
    <3>2. CASE ~WriteJournal
      <4>1. u \in Pending /\ journal' = journal BY <2>4, <3>2, PendingFootprint, Footprint
      <4>2. QED BY <2>1, <4>1
    <3>3. QED BY <3>1, <3>2
  <2>5. ASSUME pc' \in Preparing PROVE Fine(t, p, job'.old[p]) /\ Fine(t, p, job'.new[p])
    <3>1. CASE Begin
      <4>1. PICK u \in TxnIds, requested \in SUBSET Paths, new \in Files, adopted \in Paths \cup {0} :
              /\ phase[u] = "none"
              /\ \A q \in requested : new[q] \in Produced[u] \/ (q = adopted /\ new[q] = work[q])
              /\ job' = NewJob(requested, new, adopted)
        BY <3>1 DEF Begin
      <4>2. /\ job'.old[p] \in {work[p], Absent}
            /\ job'.new[p] \in Produced[u] \cup {work[p], Absent}
        BY <1>3, <4>1 DEF NewJob, Changed
      <4>3. Fine(t, p, Absent) BY DEF Fine
      <4>4. t # u BY <1>2, <4>1
      <4>5. QED BY <1>1, <1>3, <2>1, <4>1, <4>2, <4>3, <4>4, OthersOutputsAreFine
    <3>2. CASE TakeBaseline
      <4>1. /\ job'.new = job.new /\ job'.old[p] \in {work[p], job.old[p]} /\ pc \in Preparing
        BY <1>1, <1>3, <3>2 DEF TakeBaseline, CallOK, At, Preparing
      <4>2. QED BY <2>1, <4>1
    <3>3. CASE Preflight \/ Backup
      BY <2>1, <2>5, <3>3 DEF Preflight, Backup, At, Goto, locals, Return, Forget, Preparing
    <3>4. CASE NotOurs
      BY <2>1, <2>5, <3>4, StillHere DEF volatile
    <3>5. QED BY <2>5, <3>1, <3>2, <3>3, <3>4, Entries DEF Preparing
  <2>6. QED BY <1>3, <2>3, <2>4, <2>5
<1>6. QED BY <1>4, <1>5

\* A running rollback leaves the paths it has visited fine, and then the index.
LEMMA UndoneNext ==
  CallInv /\ OutputInv /\ UndoneInv /\ [LateNext]_vars /\ OutputsAreNotEdits => UndoneInv'
<1> SUFFICES ASSUME CallInv, OutputInv, UndoneInv, [LateNext]_vars, OutputsAreNotEdits,
                    pc' \in Restoring
             PROVE  UndoneInv'
  BY DEF UndoneInv, Restoring
<1>1. DurableOK /\ CallOK BY DEF CallInv, TypeOK
<1> USE DEF At, Goto
<1>2. /\ cur' = cur /\ cur \in TxnIds /\ phase[cur] # "none"
      /\ pc \in Restoring \cup {"preflight"}
      /\ pc = "preflight" => pc' = "inspect" /\ todo' = journal[cur].changed
      /\ ~ReplaceTarget /\ ~WriteJournal
  <2>1. /\ cur' = cur /\ pc \in Restoring \cup {"preflight"}
        /\ pc = "preflight" => pc' = "inspect" /\ todo' = journal[cur].changed
    <3>1. CASE RestorePreflight \/ InspectTarget \/ VerifyRestored
      BY <3>1 DEF RestorePreflight, InspectTarget, VerifyRestored, GiveUp, Forget, control, Local,
                  Restoring
    <3>2. CASE RestoreTarget \/ RecheckOwned \/ Unstage
      BY <3>2 DEF RestoreTarget, RecheckOwned, Unstage, GiveUp, Forget, control, Local, Restoring
    <3>3. CASE NotOurs BY <3>3, StillHere DEF volatile, Restoring
    <3>4. QED BY <3>1, <3>2, <3>3, Entries DEF Restoring
  <2>2. cur \in TxnIds /\ Undecided(cur)
    BY <1>1, <2>1 DEF CallInv, CallOK, JournalledPcs, RollbackPcs, Restoring
  <2>3. QED BY <2>1, <2>2 DEF Undecided, ReplaceTarget, WriteJournal, Restoring
<1>3. journal'[cur] = journal[cur] /\ journal[cur].changed \subseteq Paths
      /\ \A p \in Paths : \A x : Fine(cur, p, x) => FineLater(cur, p, x)
  BY <1>1, <1>2, FineStays DEF DurableOK
<1>4. \A p \in Paths : Fine(cur, p, journal[cur].old[p]) BY DEF Fine
<1>5. ASSUME NEW p \in journal[cur].changed, Fine(cur, p, work[p])
      PROVE  /\ Fine(cur, p, work'[p])
             /\ Fine(cur, p, index[p]) => Fine(cur, p, index'[p])
  BY <1>2, <1>3, <1>4, <1>5, ContentsStayFine
<1>6. ASSUME NEW p \in journal[cur].changed \ todo' PROVE Fine(cur, p, work'[p])
  <2>1. CASE p \in todo
    <3>1. pc # "preflight" BY <1>2, <1>6
    <3>2. (InspectTarget \/ VerifyRestored) /\ work' = work /\ work[p] = journal[cur].old[p]
      <4>1. CASE InspectTarget
        BY <1>2, <1>6, <2>1, <4>1 DEF InspectTarget, GiveUp, Forget, Local, durable, locals, Restoring
      <4>2. CASE VerifyRestored
        BY <1>2, <1>6, <2>1, <4>2 DEF VerifyRestored, GiveUp, Forget, Local, durable, Restoring
      <4>3. CASE RestoreTarget \/ RecheckOwned \/ Unstage \/ NotOurs
        BY <1>6, <2>1, <4>3, StillHere
           DEF RestoreTarget, RecheckOwned, Unstage, locals, volatile, GiveUp, Forget, Restoring
      <4>4. QED BY <3>1, <4>1, <4>2, <4>3, Entries DEF Restoring, RestorePreflight
    <3>3. QED BY <1>3, <1>4, <3>2
  <2>2. CASE p \notin todo /\ pc \in Restoring
    BY <1>5, <2>2 DEF UndoneInv
  <2>3. QED BY <1>2, <1>6, <2>1, <2>2
<1>7. pc' \in {"reown", "unstage", "rolledBack"} => todo' = {}
  <2>1. CASE InspectTarget
    BY <2>1 DEF InspectTarget, GiveUp, Forget, locals, Restoring
  <2>2. CASE RecheckOwned \/ Unstage
    BY <2>2 DEF RecheckOwned, Unstage, GiveUp, Forget, locals, Restoring, UndoneInv
  <2>3. CASE NotOurs BY <2>3, StillHere DEF volatile, UndoneInv
  <2>4. QED BY <2>1, <2>2, <2>3, Entries
<1>8. ASSUME pc' = "unstage", NEW p \in journal[cur].changed \ owned'
      PROVE  Fine(cur, p, index'[p])
  <2>1. CASE RecheckOwned
    <3>1. Staged = owned /\ UNCHANGED <<index, owned>>
      BY <1>8, <2>1 DEF RecheckOwned, GiveUp, Forget, Local, durable, locals
    <3>2. p \in Paths /\ index[p] = HeadTree[p] BY <1>3, <1>8, <3>1 DEF Staged
    <3>3. QED BY <1>1, <1>2, <3>1, <3>2, EditsAreFine
  <2>2. CASE NotOurs
    <3>1. pc = "unstage" /\ todo = {} /\ owned' = owned
      BY <1>8, <2>2, StillHere DEF volatile, UndoneInv
    <3>2. QED BY <1>5, <1>8, <3>1 DEF UndoneInv, Restoring
  <2>3. QED BY <1>8, <2>1, <2>2, Entries
<1>9. ASSUME pc' = "rolledBack", NEW p \in journal[cur].changed PROVE Fine(cur, p, index'[p])
  <2>1. CASE Unstage
    <3>1. index'[p] = (IF p \in owned THEN HeadTree[p] ELSE index[p]) /\ p \in Paths
          /\ pc = "unstage"
      BY <1>3, <1>9, <2>1 DEF Unstage
    <3>2. QED BY <1>1, <1>2, <1>9, <3>1, EditsAreFine DEF UndoneInv
  <2>2. CASE NotOurs
    <3>1. pc = "rolledBack" /\ todo = {} BY <1>9, <2>2, StillHere DEF volatile, UndoneInv
    <3>2. QED BY <1>5, <1>9, <3>1 DEF UndoneInv, Restoring
  <2>3. QED BY <1>9, <2>1, <2>2, Entries
<1>10. QED
  BY <1>2, <1>3, <1>6, <1>7, <1>8, <1>9 DEF UndoneInv, Fine, FineLater, LoggedAt

\* A rolled back transaction leaves no output behind, in the vault or staged,
\* that somebody has not committed, whoever stages, commits or edits meanwhile
\* and whatever runs later; no point of the code has to be undisturbed.
THEOREM RollbackAlwaysTotal ==
  ASSUME OutputsAreNotEdits, OutputsDiffer
  PROVE  LateFailureSpec => []RollbackIsTotal
<1> DEFINE RollInv == OutputInv /\ LeftInv /\ UndoneInv
<1>1. Init => RollInv
  BY DEF Init, OutputInv, LeftInv, UndoneInv, Restoring, Preparing, RolledBack, NoJournal, NoFiles
<1>2. CallInv /\ RollInv /\ [Next \/ CommitFailsLate]_vars => RollInv'
  BY OutputNext, LeftNext, UndoneNext DEF LateNext
<1>3. CallInv /\ RollInv => RollbackIsTotal
  BY DEF RollbackIsTotal, LeftInv, RolledBack, Fine, LoggedAt
<1>4. QED BY <1>1, <1>2, <1>3, CallInvariant, PTL DEF LateFailureSpec

-----------------------------------------------------------------------------
(* What crashes and failures alone can do: nobody else edits, stages or commits *)

Alone == MaxEdits = 0 /\ MaxGitOps = 0

CleanTree == \A p \in Paths : work[p] = HeadTree[p] /\ index[p] = HeadTree[p]

\* Without its commit, an undecided transaction can be undone path by path ...
Undoable(t) ==
  /\ Tip = journal[t].head
  /\ \A p \in journal[t].changed :
       /\ HeadTree[p] = journal[t].old[p]
       /\ work[p] \in {journal[t].old[p], journal[t].new[p]}
       /\ index[p] \in {journal[t].old[p], journal[t].new[p]}
  /\ \A p \in Paths \ journal[t].changed : work[p] = HeadTree[p] /\ index[p] = HeadTree[p]

\* ... and with it, the commit is at HEAD and nothing is left to do.
Shape(t) ==
  /\ \A p \in journal[t].changed : backups[t][p] = journal[t].old[p]
  /\ Commits(t) = {} => Undoable(t)
  /\ Commits(t) # {} => DetectedCommit(t) /\ CleanTree

VaultInv ==
  /\ Pending = {} => CleanTree
  /\ \A t \in Pending : Shape(t)

\* What the running call relies on at each point of the code.
PointInv ==
  /\ pc \in {"baseline", "backup", "journal"} => job.adopted = 0
  /\ pc \in {"backup", "journal"} => \A p \in job.changed : job.old[p] = work[p]
  /\ pc = "journal" => \A p \in job.changed : backups[cur][p] = job.old[p]
  /\ pc \in {"guard", "replace", "written"} \cup Restoring => todo \subseteq journal[cur].changed
  /\ pc \in Restoring => \A p \in journal[cur].changed \ todo : work[p] = journal[cur].old[p]
  /\ pc \in {"reown", "unstage", "rolledBack"} => todo = {}
  /\ pc \in ({"preflight"} \cup Restoring) \ {"rolledBack"} => owned = Staged
  /\ pc = "rolledBack" => \A p \in Paths : index[p] = HeadTree[p]

SoloInv == VaultInv /\ PointInv

\* Alone, a step that is not of the program's own is no step, and a git commit
\* that fails has not moved the branch.
LEMMA OursAlone ==
  ASSUME Alone, IInv, [Next]_vars
  PROVE  /\ [LateNext]_vars /\ CallInv
         /\ NotOurs => UNCHANGED vars
         /\ ~External
         /\ \A t \in Pending : pc \in JournalledPcs \cup CommittedPcs => t = cur
<1>1. edits \in Nat /\ gitOps \in Nat BY DEF IInv, TypeOK, EnvOK
<1>2. ~External
  BY <1>1 DEF Alone, External, ExternalEdit, ExternalStage, ExternalCommit
<1>3. CallInv
  BY DEF IInv, CallInv, ControlInv, JournalInv, Preparing
<1>4. cur \in TxnIds /\ Undecided(cur) => cur \in Pending BY DEF Undecided, Pending
<1>5. pc \in JournalledPcs \cup CommittedPcs => cur \in Pending
  BY <1>3, <1>4 DEF CallInv, TypeOK, CallOK, JournalledPcs, CommittedPcs, RollbackPcs
<1>6. QED BY <1>2, <1>3, <1>5 DEF NotOurs, LateNext, CallInv, OnePending

\* The branch moves only when git commit says so, or somebody else commits.
LEMMA BranchAlone == [Next]_vars => log' = log \/ Commit \/ External
<1> SUFFICES ASSUME [Next]_vars PROVE log' = log \/ Commit \/ External
  OBVIOUS
<1> USE DEF durable, Local
<1>1. CASE Begin \/ Finalize \/ (\E t \in TxnIds : Recover(t)) \/ Fail \/ Crash \/ UNCHANGED vars
  BY <1>1 DEF Begin, Finalize, Recover, Fail, Crash, vars
<1>2. CASE Refuse \/ Preflight \/ TakeBaseline \/ Backup \/ WriteJournal \/ GuardTarget
  BY <1>2 DEF Refuse, Preflight, TakeBaseline, Backup, WriteJournal, GuardTarget, Raise, Return
<1>3. CASE ReplaceTarget \/ RecordWritten \/ RecordReplaced \/ VerifyReplaced \/ CheckIndexFree
  BY <1>3 DEF ReplaceTarget, RecordWritten, RecordReplaced, VerifyReplaced, CheckIndexFree, Raise,
              Record
<1>4. CASE Stage \/ VerifyStaged \/ RecheckOutputs \/ RecheckStaged \/ ReadHead
  BY <1>4 DEF Stage, VerifyStaged, RecheckOutputs, RecheckStaged, ReadHead, Raise, Record
<1>5. CASE VerifyCommit \/ RecordCommitted \/ RecordComplete \/ Cleanup
  BY <1>5 DEF VerifyCommit, RecordCommitted, RecordComplete, Cleanup, Return, Record
<1>6. CASE RollbackOwned \/ RestorePreflight \/ InspectTarget \/ RestoreTarget
  BY <1>6 DEF RollbackOwned, RestorePreflight, InspectTarget, RestoreTarget, GiveUp
<1>7. CASE VerifyRestored \/ RecheckOwned \/ Unstage \/ RecordRolledBack
  BY <1>7 DEF VerifyRestored, RecheckOwned, Unstage, RecordRolledBack, GiveUp
<1>8. QED
  BY <1>1, <1>2, <1>3, <1>4, <1>5, <1>6, <1>7 DEF Next, Execute, Rollback

\* The shape of a transaction is a matter of the vault, its journal and its backup.
LEMMA ShapeFrame ==
  ASSUME UNCHANGED <<work, index, log>>, NEW t \in TxnIds,
         journal'[t] = journal[t], backups'[t] = backups[t], Shape(t)
  PROVE  Shape(t)'
<1>1. UNCHANGED <<HeadTree, Tip, Commits(t)>> BY DEF HeadTree, Tip, Commits
<1>2. UNCHANGED <<DetectedCommit(t), CleanTree, Undoable(t)>>
  BY <1>1 DEF DetectedCommit, CleanTree, Undoable
<1>3. QED BY <1>1, <1>2 DEF Shape

\* What is recorded as decided has left the vault clean.
LEMMA DecidedClean ==
  ASSUME Alone, IInv, SoloInv, [Next]_vars, IInv', UNCHANGED <<work, index, log, journal>>,
         Pending # {}, Pending' = {}
  PROVE  CleanTree
<1> /\ [LateNext]_vars /\ CallInv /\ DurableOK /\ CallOK
  BY OursAlone DEF CallInv, TypeOK
<1>1. PICK t \in Pending : Shape(t) BY DEF SoloInv, VaultInv
<1>2. /\ t \in TxnIds /\ phase[t] \notin Terminal \cup {"none"}
      /\ phase'[t] \in Terminal \cup {"none"}
  BY DEF Pending
<1>3. phase'[t] \in Terminal BY <1>2, PendingFootprint
<1>4. Commits(t)' = Commits(t) BY <1>2, CommitsKept
<1>5. CASE phase'[t] = "complete"
  <2>1. Commits(t) # {} BY <1>2, <1>4, <1>5 DEF IInv, CommitDecides
  <2>2. QED BY <1>1, <2>1 DEF Shape
<1>6. CASE phase'[t] = "rolled_back"
  <2>1. RecordRolledBack /\ t = cur
    BY <1>2, <1>6, RolledBackFootprint DEF Terminal
  <2>2. pc = "rolledBack" BY <2>1 DEF RecordRolledBack, At
  <2>3. /\ Commits(t) = {} /\ todo = {}
        /\ \A p \in Paths : index[p] = HeadTree[p]
        /\ \A p \in journal[t].changed \ todo : work[p] = journal[t].old[p]
    BY <2>1, <2>2 DEF IInv, ControlInv, JournalledPcs, RollbackPcs, SoloInv, PointInv, Restoring
  <2>4. Undoable(t) BY <1>1, <2>3 DEF Shape
  <2>5. QED BY <2>3, <2>4 DEF Undoable, CleanTree
<1>7. QED BY <1>3, <1>5, <1>6 DEF Terminal

\* Where the vault, the branch, the journals and the backups of undecided
\* transactions stay, the vault stays in shape.
LEMMA VaultFrame ==
  ASSUME Alone, IInv, SoloInv, [Next]_vars, IInv', UNCHANGED <<work, index, log, journal>>,
         \A t \in Pending : backups'[t] = backups[t], ~WriteJournal
  PROVE  VaultInv'
<1>1. Pending' \subseteq Pending BY OursAlone, PendingFootprint
<1>2. \A t \in Pending' : Shape(t)'
  BY <1>1, ShapeFrame DEF SoloInv, VaultInv, Pending
<1>3. Pending' = {} => CleanTree
  BY DecidedClean DEF SoloInv, VaultInv
<1>4. Pending' = {} => CleanTree' BY <1>3 DEF CleanTree, HeadTree, Tip
<1>5. QED BY <1>2, <1>4 DEF VaultInv

\* Every write of the program keeps the vault in shape.
LEMMA VaultNext == Alone /\ IInv /\ SoloInv /\ [Next]_vars /\ IInv' => VaultInv'
<1> SUFFICES ASSUME Alone, IInv, SoloInv, [Next]_vars, IInv' PROVE VaultInv'
  OBVIOUS
<1> /\ [LateNext]_vars /\ CallInv /\ DurableOK /\ CallOK
  BY OursAlone DEF CallInv, TypeOK
<1> PICK t \in TxnIds \cup {0} : t = cur
  BY DEF CallOK
<1> USE DEF At, Goto, durable, control
<1>1. ASSUME cur \in Pending, UNCHANGED <<cur, phase, log, journal, backups>>, Commits(cur) = {},
             Undoable(t)'
      PROVE  VaultInv'
  <2>1. Pending' = {t} /\ cur \in TxnIds BY <1>1 DEF CallInv, OnePending, Pending
  <2>2. Commits(t)' = {} BY <1>1, <2>1, CommitsKept
  <2>3. Shape(cur) BY <1>1 DEF SoloInv, VaultInv
  <2>4. Shape(t)' BY <1>1, <2>2, <2>3 DEF Shape
  <2>5. QED BY <2>1, <2>4 DEF VaultInv
<1>2. ASSUME pc \in JournalledPcs
      PROVE  /\ cur \in Pending /\ cur \in TxnIds /\ Commits(cur) = {} /\ Undoable(cur)
             /\ journal[cur].changed \subseteq Paths
  BY <1>2 DEF IInv, ControlInv, Undecided, Pending, SoloInv, VaultInv, Shape, CallOK, DurableOK,
              JournalledPcs, RollbackPcs
<1>3. CASE WriteJournal
  <2>1. /\ cur \in TxnIds /\ Pending = {} /\ Pending' = {t} /\ phase[cur] = "none"
    BY <1>3, PendingFootprint
  <2>2. /\ UNCHANGED <<cur, work, index, log, backups>>
        /\ journal'[cur] = [head |-> Tip, changed |-> job.changed, old |-> job.old, new |-> job.new]
        /\ pc = "journal"
    BY <1>3, <2>1 DEF WriteJournal, DurableOK
  <2>3. Commits(t)' = {} BY <2>1, <2>2, CommitsKept DEF CallInv
  <2>4. CleanTree /\ job.changed \subseteq Paths BY <2>1 DEF SoloInv, VaultInv, CallOK
  <2>5. \A p \in job.changed : job.old[p] = work[p] /\ backups[cur][p] = job.old[p]
    BY <2>2 DEF SoloInv, PointInv
  <2>6. UNCHANGED <<HeadTree, Tip>> BY <2>2 DEF HeadTree, Tip
  <2>7. Undoable(t)' BY <2>2, <2>4, <2>5, <2>6 DEF Undoable, CleanTree
  <2>8. Shape(t)' BY <2>2, <2>3, <2>5, <2>7 DEF Shape
  <2>9. QED BY <2>1, <2>8 DEF VaultInv
<1>4. CASE ReplaceTarget \/ RestoreTarget
  <2>1. PICK p \in Paths : p \in todo /\ work' \in {[work EXCEPT ![p] = journal[cur].new[p]],
                                                    [work EXCEPT ![p] = journal[cur].old[p]]}
    BY <1>4 DEF ReplaceTarget, RestoreTarget, First, Last
  <2>2. /\ pc \in JournalledPcs /\ p \in journal[cur].changed
        /\ UNCHANGED <<cur, index, log, phase, journal, backups>>
    BY <1>4, <2>1 DEF ReplaceTarget, RestoreTarget, JournalledPcs, RollbackPcs, SoloInv, PointInv,
                      Restoring
  <2>3. \A q \in Paths :
          \/ work'[q] = work[q]
          \/ q \in journal[cur].changed /\ work'[q] \in {journal[cur].old[q], journal[cur].new[q]}
    BY <2>1, <2>2 DEF DurableOK, Files
  <2>4. UNCHANGED <<HeadTree, Tip>> BY <2>2 DEF HeadTree, Tip
  <2>5. Undoable(t)' BY <1>2, <2>2, <2>3, <2>4 DEF Undoable
  <2>6. QED BY <1>1, <1>2, <2>2, <2>5
<1>5. CASE (Stage \/ Unstage) /\ index' # index
  <2>1. /\ pc \in JournalledPcs /\ UNCHANGED <<cur, work, log, phase, journal, backups>>
    BY <1>5 DEF Stage, Unstage, Raise, JournalledPcs, RollbackPcs
  <2>2. \A q \in Paths :
          \/ index'[q] \in {index[q], HeadTree[q]}
          \/ q \in journal[cur].changed /\ index'[q] = work[q]
    BY <1>5 DEF Stage, Unstage, Raise
  <2>3. UNCHANGED <<HeadTree, Tip>> BY <2>1 DEF HeadTree, Tip
  <2>4. Undoable(t)' BY <1>2, <2>1, <2>2, <2>3 DEF Undoable
  <2>5. QED BY <1>1, <1>2, <2>1, <2>4
<1>6. CASE Commit /\ log' # log
  <2>1. /\ pc \in JournalledPcs /\ UNCHANGED <<cur, work, phase, journal, backups>>
        /\ log' = Append(log, [tree |-> CommitTree, txn |-> cur])
        /\ index' = IndexAfterCommit
    BY <1>6 DEF Commit, Raise, JournalledPcs
  <2>2. /\ Len(log') = Len(log) + 1 /\ Len(log) \in Nat
        /\ log'[Len(log) + 1] = [tree |-> CommitTree, txn |-> cur]
    <3>1. CommitTree \in Files BY HeadTreeType DEF CommitTree, DurableOK, Files
    <3>2. QED BY <1>2, <2>1, <3>1, AppendProperties DEF DurableOK
  <2>3. Tip' = Tip + 1 /\ HeadTree' = CommitTree
    <3>1. log' # <<>> BY <2>2
    <3>2. QED BY <2>2, <3>1 DEF Tip, HeadTree
  <2>4. CleanTree' BY <1>2, <2>1, <2>3 DEF CleanTree, CommitTree, IndexAfterCommit, Undoable
  <2>5. DetectedCommit(t)' BY <1>2, <2>1, <2>2, <2>3 DEF DetectedCommit, Undoable, Tip
  <2>6. Commits(t)' # {}
    <3>1. Len(log') \in 1..Len(log') /\ log'[Len(log')].txn = t BY <2>2
    <3>2. QED BY <3>1 DEF Commits
  <2>7. Pending' = {t} BY <1>2, <2>1 DEF CallInv, OnePending, Pending
  <2>8. Shape(cur) BY <1>2, <2>1 DEF SoloInv, VaultInv
  <2>9. Shape(t)' BY <2>1, <2>4, <2>5, <2>6, <2>8 DEF Shape
  <2>10. QED BY <2>7, <2>9 DEF VaultInv
<1>7. CASE (Backup \/ Cleanup) /\ UNCHANGED <<work, index, log, journal>>
  <2>1. \A u \in Pending : u # cur
    BY <1>7 DEF Backup, Cleanup, CallInv, Preparing, Pending
  <2>2. \A u \in Pending : backups'[u] = backups[u]
    BY <1>7, <2>1 DEF Backup, Cleanup, Return, DurableOK, Pending
  <2>3. ~WriteJournal BY <1>7 DEF Backup, Cleanup, WriteJournal
  <2>4. QED BY <1>7, <2>2, <2>3, VaultFrame
<1>8. CASE UNCHANGED <<work, index, log, journal, backups>> /\ ~WriteJournal
  BY <1>8, VaultFrame
<1>9. QED
  <2>1. work' = work \/ ReplaceTarget \/ RestoreTarget
    BY OursAlone, Footprint DEF External
  <2>2. CommitFailsLate => log' # log
    <3>1. ASSUME NEW x PROVE log # Append(log, x)
      <4>1. Len(log) \in Nat BY DEF DurableOK
      <4>2. QED BY <4>1 DEF DurableOK
    <3>2. QED BY <3>1 DEF CommitFailsLate
  <2>3. log' = log \/ (Commit /\ log' # log)
    BY OursAlone, BranchAlone
  <2>4. index' = index \/ ((Stage \/ Unstage) /\ index' # index) \/ log' # log \/ Commit
    BY <2>2, OursAlone, Footprint DEF External
  <2>5. Commit /\ log' = log => index' = index
    <3>1. Commit /\ log' = log => Raise
      <4>1. ASSUME NEW x PROVE log # Append(log, x)
        <5>1. Len(log) \in Nat BY DEF DurableOK
        <5>2. QED BY <5>1 DEF DurableOK
      <4>2. QED BY <4>1 DEF Commit
    <3>2. QED BY <3>1 DEF Raise
  <2>6. backups' = backups \/ Backup \/ Cleanup BY OursAlone, Footprint
  <2>7. journal' = journal \/ WriteJournal BY OursAlone, Footprint
  <2>8. Backup \/ Cleanup => UNCHANGED <<work, index, log, journal>>
    BY DEF Backup, Cleanup, Return
  <2>9. QED
    BY <1>3, <1>4, <1>5, <1>6, <1>7, <1>8, <2>1, <2>3, <2>4, <2>5, <2>6, <2>7, <2>8

\* At every point of the code what the call relies on is so.
LEMMA PointNext == Alone /\ IInv /\ SoloInv /\ [Next]_vars => PointInv'
<1> SUFFICES ASSUME Alone, IInv, SoloInv, [Next]_vars PROVE PointInv'
  OBVIOUS
<1> /\ [LateNext]_vars /\ CallInv /\ DurableOK /\ CallOK /\ (NotOurs => UNCHANGED vars)
  BY OursAlone DEF CallInv, TypeOK
<1> USE DEF At, Goto
<1>1. PointInv BY DEF SoloInv
<1>2. CASE UNCHANGED vars
  <2>1. UNCHANGED <<HeadTree, Staged>> BY <1>2 DEF vars, durable, HeadTree, Tip, Staged
  <2>2. QED BY <1>1, <1>2, <2>1 DEF PointInv, vars, durable, volatile
<1>3. CASE Preflight
  <2>1. CASE Return BY <2>1 DEF Return, Forget, PointInv, Restoring
  <2>2. CASE ~Return
    <3>1. CanStart /\ pc' = "baseline" /\ job' = job BY <1>3, <2>2 DEF Preflight, locals
    <3>2. Dirty = {}
      BY <3>1 DEF CanStart, SoloInv, VaultInv, CleanTree, Dirty, Staged
    <3>3. job'.adopted = 0 BY <3>1, <3>2 DEF CanStart
    <3>4. QED BY <3>1, <3>3 DEF PointInv, Restoring
  <2>3. QED BY <2>1, <2>2
<1>4. CASE TakeBaseline
  <2>1. /\ pc' = "backup" /\ job'.adopted = job.adopted /\ job'.changed = job.changed
        /\ job.adopted = 0 /\ UNCHANGED work
        /\ \A p \in Paths : job'.old[p] = IF p \in job.changed /\ p # job.adopted THEN work[p]
                                          ELSE job.old[p]
    BY <1>4 DEF TakeBaseline, CallOK, Local, durable, SoloInv, PointInv
  <2>2. \A p \in job.changed : job'.old[p] = work[p] BY <2>1 DEF CallOK, Paths
  <2>3. QED BY <2>1, <2>2 DEF PointInv, Restoring
<1>5. CASE Backup
  <2>1. CASE Return BY <2>1 DEF Return, Forget, PointInv, Restoring
  <2>2. CASE ~Return
    <3>1. /\ pc = "backup" /\ pc' = "journal" /\ UNCHANGED <<job, work, cur>>
          /\ backups' = [backups EXCEPT ![cur] =
               [p \in Paths |-> IF p \in job.changed THEN work[p] ELSE Absent]]
      BY <1>5, <2>2 DEF Backup, control, locals
    <3>2. cur \in TxnIds /\ job.changed \subseteq Paths BY <3>1 DEF CallOK
    <3>3. \A p \in job.changed : backups'[cur][p] = work[p] BY <3>1, <3>2 DEF DurableOK
    <3>4. QED BY <1>1, <3>1, <3>3 DEF PointInv, Restoring
  <2>3. QED BY <2>1, <2>2
<1>6. CASE WriteJournal
  <2>1. cur' = cur /\ cur \in TxnIds /\ pc' = "guard" /\ todo' = job.changed
    BY <1>6 DEF WriteJournal, control, CallOK
  <2>2. journal'[cur].changed = job.changed BY <1>6, <2>1 DEF WriteJournal, DurableOK
  <2>3. QED BY <2>1, <2>2 DEF PointInv, Restoring
<1>7. CASE GuardTarget \/ ReplaceTarget \/ RecordWritten
  <2>1. /\ pc \in {"guard", "replace", "written"}
        /\ pc' \in {"guard", "replace", "written", "replaced", "owned"}
        /\ todo' \subseteq todo /\ UNCHANGED <<cur, journal>>
    BY <1>7 DEF GuardTarget, ReplaceTarget, RecordWritten, Raise, Record, Local, control, locals,
                durable
  <2>2. QED BY <1>1, <2>1 DEF PointInv, Restoring
<1>8. CASE RollbackOwned
  BY <1>8 DEF RollbackOwned, GiveUp, Forget, Local, durable, PointInv, Restoring, Staged, HeadTree,
              Tip
<1>9. CASE RestorePreflight \/ InspectTarget \/ VerifyRestored \/ RecheckOwned
  <2>1. CASE GiveUp BY <2>1 DEF GiveUp, Forget, PointInv, Restoring
  <2>2. CASE ~GiveUp
    <3>1. /\ UNCHANGED <<durable, cur, owned>>
          /\ pc \in ({"preflight"} \cup Restoring) \ {"rolledBack"}
          /\ pc' \in Restoring \ {"rolledBack"}
      BY <1>9, <2>2
         DEF RestorePreflight, InspectTarget, VerifyRestored, RecheckOwned, Local, control, locals,
             Restoring
    <3>2. UNCHANGED <<Staged, journal, work>> BY <3>1 DEF durable, Staged, HeadTree, Tip
    <3>3. owned' = Staged'
      BY <1>1, <3>1, <3>2 DEF PointInv, Restoring
    <3>4. /\ todo' \subseteq journal[cur].changed
          /\ \A p \in journal[cur].changed \ todo' : work[p] = journal[cur].old[p]
      <4>1. CASE RestorePreflight BY <2>2, <4>1 DEF RestorePreflight
      <4>2. CASE InspectTarget \/ VerifyRestored
        BY <1>1, <2>2, <4>2 DEF InspectTarget, VerifyRestored, PointInv, Restoring, locals
      <4>3. CASE RecheckOwned BY <1>1, <2>2, <4>3 DEF RecheckOwned, PointInv, Restoring, locals
      <4>4. QED BY <1>9, <4>1, <4>2, <4>3
    <3>5. pc' \in {"reown", "unstage"} => todo' = {}
      BY <1>1, <1>9, <2>2
         DEF RestorePreflight, InspectTarget, VerifyRestored, RecheckOwned, PointInv, locals
    <3>6. QED BY <3>1, <3>2, <3>3, <3>4, <3>5 DEF PointInv, Restoring
  <2>3. QED BY <2>1, <2>2
<1>10. CASE RestoreTarget
  <2>1. PICK p \in Paths : Last(p) /\ work' = [work EXCEPT ![p] = journal[cur].old[p]]
    BY <1>10 DEF RestoreTarget
  <2>2. /\ pc = "restore" /\ pc' = "verifyRestored" /\ p \in todo
        /\ UNCHANGED <<cur, todo, owned, index, log, journal>>
    BY <1>10, <2>1 DEF RestoreTarget, Last, control, locals
  <2>3. UNCHANGED Staged BY <2>2 DEF Staged, HeadTree, Tip
  <2>4. \A q \in Paths : q # p => work'[q] = work[q] BY <2>1 DEF DurableOK, Files
  <2>5. cur \in TxnIds /\ journal[cur].changed \subseteq Paths
    BY <2>2 DEF CallOK, DurableOK
  <2>6. \A q \in journal[cur].changed \ todo : work'[q] = journal[cur].old[q]
    BY <1>1, <2>2, <2>4, <2>5 DEF PointInv, Restoring
  <2>7. QED BY <1>1, <2>2, <2>3, <2>6 DEF PointInv, Restoring
<1>11. CASE Unstage
  <2>1. /\ pc = "unstage" /\ pc' = "rolledBack" /\ UNCHANGED <<cur, todo, work, log, journal>>
        /\ index' = [p \in Paths |-> IF p \in owned THEN HeadTree[p] ELSE index[p]]
    BY <1>11 DEF Unstage, control, locals
  <2>2. UNCHANGED HeadTree BY <2>1 DEF HeadTree, Tip
  <2>3. owned = Staged BY <1>1, <2>1 DEF PointInv, Restoring
  <2>4. \A p \in Paths : index'[p] = HeadTree[p] BY <2>1, <2>3 DEF Staged
  <2>5. QED BY <1>1, <2>1, <2>2, <2>4 DEF PointInv, Restoring
<1>12. CASE Begin \/ Refuse \/ Finalize \/ (\E t \in TxnIds : Recover(t)) \/ Fail \/ Crash
  BY <1>12 DEF Begin, Refuse, Return, Finalize, Recover, Plan, Fail, Crash, Forget, PointInv,
               Restoring
<1>13. CASE RecordReplaced \/ VerifyReplaced \/ CheckIndexFree \/ Stage \/ VerifyStaged
            \/ RecheckOutputs \/ RecheckStaged
  BY <1>13 DEF RecordReplaced, VerifyReplaced, CheckIndexFree, Stage, VerifyStaged, RecheckOutputs,
               RecheckStaged, Record, Raise, PointInv, Restoring
<1>14. CASE Commit \/ ReadHead \/ VerifyCommit \/ RecordCommitted \/ RecordComplete \/ Cleanup
            \/ RecordRolledBack
  BY <1>14 DEF Commit, ReadHead, VerifyCommit, RecordCommitted, RecordComplete, Cleanup, Return,
               RecordRolledBack, Record, Raise, Forget, PointInv, Restoring
<1>15. QED
  BY <1>2, <1>3, <1>4, <1>5, <1>6, <1>7, <1>8, <1>9, <1>10, <1>11, <1>12, <1>13, <1>14
     DEF Next, Execute, Rollback, NotOurs

\* Nothing has happened yet: the vault is clean and no call runs.
LEMMA SoloInit == Init => SoloInv
BY DEF Init, SoloInv, VaultInv, PointInv, Restoring, Pending, CleanTree

\* Alone, whatever has crashed or failed and however often, the vault, the
\* journals and the backups stay in shape.
THEOREM ShapeInvariant ==
  ASSUME Alone
  PROVE  Spec => [](IInv /\ SoloInv)
<1>1. Init => IInv /\ SoloInv BY InvInit, SoloInit
<1>2. IInv /\ SoloInv /\ [Next]_vars => (IInv /\ SoloInv)'
  BY InvNext, VaultNext, PointNext DEF SoloInv
<1>3. QED BY <1>1, <1>2, PTL DEF Spec

\* Crashes and failures alone never leave a journal that recovery calls
\* ambiguous.
THEOREM AlwaysRecoverableAlone ==
  ASSUME Alone
  PROVE  Spec => []AlwaysRecoverable
<1>1. IInv /\ SoloInv => AlwaysRecoverable
  <2> SUFFICES ASSUME IInv, SoloInv, NEW t \in Pending PROVE Plan(t) # "manual"
    BY DEF AlwaysRecoverable
  <2>1. Shape(t) /\ phase[t] \notin Terminal /\ t \in TxnIds /\ DurableOK
    BY DEF SoloInv, VaultInv, Pending, IInv, TypeOK
  <2>2. CASE Commits(t) # {} BY <2>1, <2>2 DEF Shape, Plan
  <2>3. CASE Commits(t) = {}
    <3>1. Undoable(t) /\ \A p \in journal[t].changed : backups[t][p] = journal[t].old[p]
      BY <2>1, <2>3 DEF Shape
    <3>2. Restorable(t) /\ Tip = journal[t].head BY <3>1 DEF Restorable, Undoable
    <3>3. StagedOutputsAreOwned(t) BY <3>1 DEF StagedOutputsAreOwned, Undoable, Staged
    <3>4. QED BY <2>1, <3>2, <3>3 DEF Plan
  <2>4. QED BY <2>2, <2>3
<1>2. QED BY <1>1, ShapeInvariant, PTL

\* Crashes and failures alone never leave anything uncommitted behind a decided
\* transaction: the next call finds a clean vault.
THEOREM DecidedAlwaysClean ==
  ASSUME Alone
  PROVE  Spec => []DecidedIsClean
<1>1. SoloInv => DecidedIsClean
  BY DEF SoloInv, VaultInv, CleanTree, DecidedIsClean, Dirty, Staged
<1>2. QED BY <1>1, ShapeInvariant, PTL
=============================================================================

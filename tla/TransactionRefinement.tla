----------------------- MODULE TransactionRefinement -----------------------
(***************************************************************************)
(* Transaction implements AtomicUpdate: the journals and the branch, read  *)
(* through Status, move only as an update that is decided once may move.   *)
(***************************************************************************)
EXTENDS TransactionProofs

AbstractStatus == [t \in TxnIds |-> Status(t)]
AbstractHistory == [i \in 1..Len(log) |-> log[i].txn]

\* The steps that another reader of the journals and the branch can see.
JournalAppears ==
  /\ cur \in TxnIds /\ phase[cur] = "none" /\ Pending = {}
  /\ phase' = [phase EXCEPT ![cur] = "prepared"] /\ log' = log

PhaseMoves ==
  /\ cur \in TxnIds /\ Undecided(cur) /\ log' = log
  /\ \E v \in Phases \ {"none", "rolled_back"} : phase' = [phase EXCEPT ![cur] = v]

JournalRolledBack ==
  /\ cur \in TxnIds /\ Undecided(cur) /\ Commits(cur) = {} /\ log' = log
  /\ phase' = [phase EXCEPT ![cur] = "rolled_back"]

CommitAppears ==
  /\ cur \in TxnIds /\ Undecided(cur) /\ Commits(cur) = {} /\ phase' = phase
  /\ \E tree \in Files : log' = Append(log, [tree |-> tree, txn |-> cur])

OtherCommitAppears ==
  /\ phase' = phase
  /\ \E tree \in Files : log' = Append(log, [tree |-> tree, txn |-> 0])

NothingAppears == UNCHANGED <<phase, log>>

\* Every step of the program, of recovery and of the environment is one of these.
LEMMA VisibleSteps ==
  ASSUME IInv, [Next]_vars
  PROVE  \/ JournalAppears \/ PhaseMoves \/ JournalRolledBack
         \/ CommitAppears \/ OtherCommitAppears \/ NothingAppears
<1> DurableOK /\ CallOK /\ ControlInv BY DEF IInv, TypeOK
<1> USE DEF At, Goto, Local, Forget, durable, control, volatile
<1>1. CASE WriteJournal
  BY <1>1 DEF WriteJournal, ControlInv, JournalAppears
<1>2. CASE RecordRolledBack
  BY <1>2 DEF RecordRolledBack, ControlInv, JournalledPcs, RollbackPcs, JournalRolledBack
<1>3. CASE Commit
  <2>1. CASE Raise BY <2>1 DEF Raise, NothingAppears
  <2>2. CASE ~Raise
    <3>1. pc = "commit" /\ phase' = phase
          /\ log' = Append(log, [tree |-> CommitTree, txn |-> cur])
      BY <1>3, <2>2 DEF Commit
    <3>2. CommitTree \in Files BY HeadTreeType DEF CommitTree, DurableOK, Files
    <3>3. QED BY <3>1, <3>2 DEF ControlInv, JournalledPcs, CommitAppears
  <2>3. QED BY <2>1, <2>2
<1>4. CASE ExternalCommit
  BY <1>4 DEF ExternalCommit, DurableOK, OtherCommitAppears
<1>5. CASE RecordWritten \/ RecordReplaced \/ RecordComplete \/ RecordCommitted \/ Finalize
  BY <1>5 DEF RecordWritten, RecordReplaced, RecordComplete, RecordCommitted, Finalize, Record,
              ControlInv, JournalledPcs, CommittedPcs, PhaseMoves, Phases
<1>6. CASE VerifyStaged \/ RecheckStaged
  BY <1>6 DEF VerifyStaged, RecheckStaged, Raise, Record, ControlInv, JournalledPcs,
              PhaseMoves, Phases, NothingAppears
<1>7. CASE RollbackOwned \/ RestorePreflight \/ InspectTarget \/ VerifyRestored \/ RecheckOwned
  <2>1. CASE GiveUp
    BY <1>7, <2>1 DEF RollbackOwned, RestorePreflight, InspectTarget, VerifyRestored, RecheckOwned,
       GiveUp, ControlInv, JournalledPcs, RollbackPcs, PhaseMoves, Phases
  <2>2. CASE ~GiveUp
    BY <1>7, <2>2 DEF RollbackOwned, RestorePreflight, InspectTarget, VerifyRestored, RecheckOwned,
       NothingAppears
  <2>3. QED BY <2>1, <2>2
<1>8. CASE Fail
  BY <1>8 DEF Fail, ControlInv, JournalledPcs, RollbackPcs, PhaseMoves, Phases, NothingAppears
<1>9. CASE Begin \/ Refuse \/ Preflight \/ TakeBaseline \/ Backup
  BY <1>9 DEF Begin, Refuse, Preflight, TakeBaseline, Backup, Return, NothingAppears
<1>10. CASE GuardTarget \/ ReplaceTarget \/ VerifyReplaced \/ CheckIndexFree \/ Stage \/ RecheckOutputs
  BY <1>10 DEF GuardTarget, ReplaceTarget, VerifyReplaced, CheckIndexFree, Stage, RecheckOutputs,
               Raise, NothingAppears
<1>11. CASE ReadHead \/ VerifyCommit \/ Cleanup \/ RestoreTarget \/ Unstage \/ Crash
  BY <1>11 DEF ReadHead, VerifyCommit, Cleanup, RestoreTarget, Unstage, Crash, Return, NothingAppears
<1>12. CASE ExternalEdit \/ ExternalStage \/ (\E t \in TxnIds : Recover(t)) \/ UNCHANGED vars
  BY <1>12 DEF ExternalEdit, ExternalStage, Recover, vars, NothingAppears
<1>13. QED
  BY <1>1, <1>2, <1>3, <1>4, <1>5, <1>6, <1>7, <1>8, <1>9, <1>10, <1>11, <1>12
     DEF Next, Execute, Rollback, External

\* The history of a branch that grew by one commit grew by that commit's transaction.
LEMMA HistoryGrows ==
  ASSUME DurableOK, NEW tree \in Files, NEW u \in TxnIds \cup {0},
         log' = Append(log, [tree |-> tree, txn |-> u])
  PROVE  AbstractHistory' = Append(AbstractHistory, u)
<1> DEFINE R == [tree : Files, txn : TxnIds \cup {0}]
           c == [tree |-> tree, txn |-> u]
<1>1. log \in Seq(R) /\ c \in R BY DEF DurableOK
<1>2. /\ Len(log') = Len(log) + 1 /\ Len(log) \in Nat
      /\ \A i \in 1..Len(log) : log'[i] = log[i]
      /\ log'[Len(log) + 1] = c
  BY <1>1, AppendProperties
<1>3. AbstractHistory \in Seq(TxnIds \cup {0}) /\ Len(AbstractHistory) = Len(log)
  <2>1. \A i \in 1..Len(log) : log[i] \in R
    <3> HIDE DEF R
    <3>1. QED BY <1>1, ElementOfSeq
  <2>2. \A i \in 1..Len(log) : log[i].txn \in TxnIds \cup {0} BY <2>1
  <2>3. QED BY <1>2, <2>2 DEF AbstractHistory
<1>4. /\ Len(Append(AbstractHistory, u)) = Len(log) + 1
      /\ Append(AbstractHistory, u) \in Seq(TxnIds \cup {0})
      /\ \A i \in 1..Len(log) : Append(AbstractHistory, u)[i] = AbstractHistory[i]
      /\ Append(AbstractHistory, u)[Len(log) + 1] = u
  BY <1>3, AppendProperties
<1>5. Append(AbstractHistory, u) = [i \in 1..(Len(log) + 1) |-> Append(AbstractHistory, u)[i]]
  BY <1>4, LenProperties
<1>6. \A i \in 1..(Len(log) + 1) : Append(AbstractHistory, u)[i] = log'[i].txn
  BY <1>2, <1>4 DEF AbstractHistory
<1>7. AbstractHistory' = [i \in 1..(Len(log) + 1) |-> log'[i].txn] BY <1>2 DEF AbstractHistory
<1>8. QED BY <1>5, <1>6, <1>7

\* The initial vault is the abstract one: no update exists yet.
LEMMA RefinesInit == Init => Abstract!AInit
<1> SUFFICES ASSUME Init PROVE Abstract!AInit
  OBVIOUS
<1>1. \A t \in TxnIds : Status(t) = "unborn"
  <2>1. \A t \in TxnIds : Commits(t) = {} /\ phase[t] = "none"
    BY InvInit DEF IInv, JournalInv, Init
  <2>2. QED BY <2>1 DEF Status
<1>2. AbstractHistory \in {<<>>, <<0>>}
  <2>1. CASE log = <<>> BY <2>1 DEF AbstractHistory
  <2>2. ASSUME NEW f \in [Paths -> Base], log = <<[tree |-> f, txn |-> 0]>>
        PROVE  AbstractHistory = <<0>>
    BY <2>2 DEF AbstractHistory
  <2>3. QED BY <2>1, <2>2 DEF Init
<1>3. QED BY <1>1, <1>2 DEF Abstract!AInit, AbstractHistory

\* Every step is a step of the abstract update, or invisible to it.
LEMMA RefinesNext == IInv /\ [Next]_vars => [Abstract!ANext]_(Abstract!avars)
<1> SUFFICES ASSUME IInv, [Next]_vars PROVE [Abstract!ANext]_(Abstract!avars)
  OBVIOUS
<1> DurableOK /\ ControlInv /\ JournalInv /\ OnePending /\ CommitDecides BY DEF IInv, TypeOK
<1>1. CASE NothingAppears
  <2>1. \A t \in TxnIds : Status(t)' = Status(t)
    BY <1>1, CommitsKept DEF NothingAppears, Status
  <2>2. AbstractStatus' = AbstractStatus /\ AbstractHistory' = AbstractHistory
    BY <1>1, <2>1 DEF NothingAppears, AbstractStatus, AbstractHistory
  <2>3. QED BY <2>2 DEF Abstract!avars, AbstractStatus, AbstractHistory
<1>2. CASE PhaseMoves
  <2>1. \A t \in TxnIds : Commits(t)' = Commits(t) BY <1>2, CommitsKept DEF PhaseMoves
  <2>2. \A t \in TxnIds : Status(t)' = Status(t)
    BY <1>2, <2>1 DEF PhaseMoves, Status, Undecided, Terminal, DurableOK
  <2>3. AbstractStatus' = AbstractStatus /\ AbstractHistory' = AbstractHistory
    BY <1>2, <2>2 DEF PhaseMoves, AbstractStatus, AbstractHistory
  <2>4. QED BY <2>3 DEF Abstract!avars, AbstractStatus, AbstractHistory
<1>3. CASE JournalAppears
  <2> PICK u \in TxnIds : u = cur BY <1>3 DEF JournalAppears
  <2>1. \A t \in TxnIds : Commits(t)' = Commits(t) BY <1>3, CommitsKept DEF JournalAppears
  <2>2. Commits(u) = {} BY <1>3 DEF JournalAppears, JournalInv
  <2>3. Status(u) = "unborn" /\ Status(u)' = "open"
    BY <1>3, <2>1, <2>2 DEF JournalAppears, Status, DurableOK
  <2>4. \A t \in TxnIds \ {u} : Status(t)' = Status(t)
    BY <1>3, <2>1 DEF JournalAppears, Status, DurableOK
  <2>5. \A t \in TxnIds : Status(t) # "open"
    BY <1>3 DEF JournalAppears, Status, Pending, Terminal, CommitDecides
  <2>6. AbstractHistory' = AbstractHistory BY <1>3 DEF JournalAppears, AbstractHistory
  <2>7. AbstractStatus' = [AbstractStatus EXCEPT ![u] = "open"]
    BY <2>3, <2>4 DEF AbstractStatus
  <2>8. Abstract!Open(u)
    BY <1>3, <2>3, <2>5, <2>6, <2>7 DEF Abstract!Open, AbstractStatus, AbstractHistory, JournalAppears
  <2>9. QED BY <1>3, <2>8 DEF Abstract!ANext, JournalAppears
<1>4. CASE JournalRolledBack
  <2> PICK u \in TxnIds : u = cur BY <1>4 DEF JournalRolledBack
  <2>1. \A t \in TxnIds : Commits(t)' = Commits(t) BY <1>4, CommitsKept DEF JournalRolledBack
  <2>2. Status(u) = "open" /\ Status(u)' = "abandoned"
    BY <1>4, <2>1 DEF JournalRolledBack, Status, Undecided, Terminal, DurableOK
  <2>3. \A t \in TxnIds \ {u} : Status(t)' = Status(t)
    BY <1>4, <2>1 DEF JournalRolledBack, Status, DurableOK
  <2>4. AbstractHistory' = AbstractHistory BY <1>4 DEF JournalRolledBack, AbstractHistory
  <2>5. AbstractStatus' = [AbstractStatus EXCEPT ![u] = "abandoned"]
    BY <2>2, <2>3 DEF AbstractStatus
  <2>6. Abstract!Abandon(u)
    BY <1>4, <2>2, <2>4, <2>5 DEF Abstract!Abandon, AbstractStatus, AbstractHistory, JournalRolledBack
  <2>7. QED BY <1>4, <2>6 DEF Abstract!ANext, JournalRolledBack
<1>5. CASE CommitAppears
  <2> PICK u \in TxnIds : u = cur BY <1>5 DEF CommitAppears
  <2>1. PICK tree \in Files : log' = Append(log, [tree |-> tree, txn |-> u])
    BY <1>5 DEF CommitAppears
  <2>2. u \in TxnIds /\ Undecided(u) /\ Commits(u) = {} /\ phase' = phase
    BY <1>5 DEF CommitAppears
  <2>3. \A t \in TxnIds :
          Commits(t)' = IF t = u THEN Commits(t) \cup {Len(log) + 1} ELSE Commits(t)
    BY <2>1, <2>2, CommitsAfterAppend
  <2>4. Status(u) = "open" /\ Status(u)' = "committed"
    BY <2>2, <2>3 DEF Status, Undecided, Terminal
  <2>5. \A t \in TxnIds \ {u} : Status(t)' = Status(t) BY <2>2, <2>3 DEF Status
  <2>6. AbstractHistory' = Append(AbstractHistory, u) BY <2>1, <2>2, HistoryGrows
  <2>7. AbstractStatus' = [AbstractStatus EXCEPT ![u] = "committed"]
    BY <2>4, <2>5 DEF AbstractStatus
  <2>8. Abstract!CommitUpdate(u)
    BY <2>2, <2>4, <2>6, <2>7 DEF Abstract!CommitUpdate, AbstractStatus, AbstractHistory
  <2>9. QED BY <2>2, <2>8 DEF Abstract!ANext
<1>6. CASE OtherCommitAppears
  <2>1. PICK tree \in Files : log' = Append(log, [tree |-> tree, txn |-> 0])
    BY <1>6 DEF OtherCommitAppears
  <2>2. \A t \in TxnIds : t # 0 BY DEF TxnIds
  <2>3. \A t \in TxnIds : Commits(t)' = Commits(t) BY <2>1, <2>2, CommitsAfterAppend
  <2>4. \A t \in TxnIds : Status(t)' = Status(t) BY <1>6, <2>3 DEF OtherCommitAppears, Status
  <2>5. AbstractStatus' = AbstractStatus /\ AbstractHistory' = Append(AbstractHistory, 0)
    BY <2>1, <2>4, HistoryGrows DEF AbstractStatus
  <2>6. Abstract!OtherCommit BY <2>5 DEF Abstract!OtherCommit, AbstractStatus, AbstractHistory
  <2>7. QED BY <2>6 DEF Abstract!ANext
<1>7. QED BY <1>1, <1>2, <1>3, <1>4, <1>5, <1>6, VisibleSteps

\* Every multi-file write is decided once, by one commit or by being abandoned,
\* whatever crashes, fails or interferes: the engine implements AtomicUpdate.
THEOREM Refinement == Spec => ImplementsAtomicUpdate
<1>1. Spec => []IInv BY InvCorrect
<1>2. QED BY <1>1, RefinesInit, RefinesNext, PTL DEF Spec, ImplementsAtomicUpdate, Abstract!ASpec
=============================================================================

------------------------- MODULE TransactionProofs -------------------------
(***************************************************************************)
(* Proofs about Transaction for any number of paths, transactions, edits,  *)
(* Git commands and faults, and with the environment acting at any moment: *)
(* nothing here depends on the value of Quiet.                             *)
(***************************************************************************)
EXTENDS Transaction, SequenceTheorems, TLAPS

JournalledPcs == RollbackPcs \cup
  {"guard", "replace", "written", "replaced", "verify", "indexFree", "stage",
   "verifyStaged", "recheck", "recheckStaged", "commit"}
CommittedPcs == {"readHead", "verifyCommit", "committed", "complete", "finalize"}

Undecided(t) == phase[t] \notin Terminal \cup {"none"}

\* What the point the running call has reached says of its transaction.
ControlInv ==
  /\ pc # "idle" => cur \in TxnIds
  /\ pc \in {"check", "baseline", "backup", "journal"} => phase[cur] = "none"
  /\ pc \in {"baseline", "backup", "journal"} => Pending = {}
  /\ pc \in JournalledPcs => Undecided(cur) /\ Commits(cur) = {}
  /\ pc \in CommittedPcs => Undecided(cur) /\ Commits(cur) # {}
  /\ pc = "cleanup" => phase[cur] \in Terminal

\* What the journals say of the branch: it still holds the HEAD a journal
\* expects, a commit comes after that one, and a recorded commit hash means
\* there is a commit.
JournalInv ==
  \A t \in TxnIds :
    /\ journal[t].head <= Len(log)
    /\ \A i \in Commits(t) : phase[t] # "none" /\ journal[t].head < i
    /\ commitHash[t] # 0 => Commits(t) # {}

IInv == TypeOK /\ ControlInv /\ JournalInv /\ OnePending /\ CommitDecides

-----------------------------------------------------------------------------

\* HEAD is a commit or nothing, and its tree assigns a content to every path.
LEMMA HeadTreeType ==
  ASSUME DurableOK
  PROVE  HeadTree \in Files /\ Tip \in Nat /\ NoFiles \in Files /\ Staged \subseteq Paths
<1>1. NoFiles \in Files BY ContentsAssumption DEF NoFiles, Files
<1>2. Tip \in Nat BY DEF Tip, DurableOK
<1>3. ASSUME log # <<>> PROVE log[Tip] \in [tree : Files, txn : TxnIds \cup {0}]
  <2>1. Len(log) # 0 BY <1>3, EmptySeq DEF DurableOK
  <2>2. Len(log) \in 1..Len(log) BY <2>1 DEF DurableOK
  <2>3. QED BY <2>2, ElementOfSeq DEF Tip, DurableOK
<1>4. QED BY <1>1, <1>2, <1>3 DEF HeadTree, Staged

\* A call that ended left no local state behind.
LEMMA ForgetType == Forget => CallOK'
<1>1. NoFiles \in Files BY ContentsAssumption DEF NoFiles, Files
<1>2. QED BY <1>1 DEF Forget, CallOK, NoJob, Pcs

\* What a step does not touch keeps its type.
LEMMA FrameType ==
  /\ DurableOK /\ UNCHANGED durable => DurableOK'
  /\ EnvOK /\ UNCHANGED env => EnvOK'
  /\ CallOK /\ pc # "idle" /\ pc' \in Pcs /\ UNCHANGED <<control, locals>> => CallOK'
BY DEF durable, env, control, locals, DurableOK, EnvOK, CallOK

\* A clean vault under Git, and no journal yet, has every variable in its type.
LEMMA TypeInit == Init => TypeOK
<1> SUFFICES ASSUME Init PROVE TypeOK
  OBVIOUS
<1>1. NoFiles \in Files BY ContentsAssumption DEF NoFiles, Files
<1>2. log \in Seq([tree : Files, txn : TxnIds \cup {0}]) /\ HeadTree \in Files
  <2>1. CASE log = <<>> BY <2>1, <1>1 DEF HeadTree
  <2>2. ASSUME NEW f \in [Paths -> Base], log = <<[tree |-> f, txn |-> 0]>>
        PROVE  log \in Seq([tree : Files, txn : TxnIds \cup {0}]) /\ HeadTree \in Files
    <3>1. f \in Files BY ContentsAssumption DEF Files
    <3>2. QED BY <2>2, <3>1 DEF HeadTree, Tip
  <2>3. QED BY <2>1, <2>2 DEF Init
<1>3. DurableOK BY <1>1, <1>2 DEF Init, DurableOK, NoJournal, Phases
<1>4. CallOK BY <1>1 DEF Init, CallOK, NoJob, Pcs
<1>5. EnvOK BY DEF Init, EnvOK
<1>6. QED BY <1>3, <1>4, <1>5 DEF TypeOK

\* No step of a call, of recovery or of the environment leaves the types.
LEMMA TypeNext == TypeOK /\ [Next]_vars => TypeOK'
<1> SUFFICES ASSUME DurableOK, CallOK, EnvOK, [Next]_vars
             PROVE  DurableOK' /\ CallOK' /\ EnvOK'
  BY DEF TypeOK
<1> USE HeadTreeType, ForgetType, FrameType DEF At, Goto, Local, Phases, Pcs, ExecutePcs, RollbackPcs
<1>1. CASE Begin
  <2>1. DurableOK'
    <3>1. UNCHANGED durable BY <1>1 DEF Begin, durable
    <3>2. QED BY <3>1
  <2>2. EnvOK' BY <1>1 DEF Begin, EnvOK
  <2>3. PICK t \in TxnIds, requested \in SUBSET Paths, new \in Files, adopted \in Paths \cup {0} :
          cur' = t /\ job' = NewJob(requested, new, adopted)
    BY <1>1 DEF Begin
  <2>4. NewJob(requested, new, adopted)
          \in [requested : SUBSET Paths, changed : SUBSET Paths,
               adopted : Paths \cup {0}, old : Files, new : Files]
    BY ContentsAssumption DEF NewJob, Changed, Files, DurableOK
  <2>5. CallOK' BY <1>1, <2>3, <2>4 DEF Begin, CallOK
  <2>6. QED BY <2>1, <2>2, <2>5
<1>2. CASE Refuse
  BY <1>2 DEF Refuse, Return, DurableOK, CallOK, durable, control, locals
<1>3. CASE Preflight
  BY <1>3 DEF Preflight, Return, DurableOK, CallOK, durable, control, locals
<1>4. CASE TakeBaseline
  <2>1. job'.old \in Files BY <1>4 DEF TakeBaseline, CallOK, DurableOK, Files
  <2>2. job' \in [requested : SUBSET Paths, changed : SUBSET Paths,
                  adopted : Paths \cup {0}, old : Files, new : Files]
    BY <1>4, <2>1 DEF TakeBaseline, CallOK
  <2>3. CallOK' BY <1>4, <2>2 DEF TakeBaseline, control, CallOK
  <2>4. QED BY <1>4, <2>3 DEF TakeBaseline
<1>5. CASE Backup
  <2>1. CASE Return BY <2>1 DEF Return
  <2>2. CASE ~Return
    <3>1. [p \in Paths |-> IF p \in job.changed THEN work[p] ELSE Absent] \in Files
      BY ContentsAssumption DEF DurableOK, Files
    <3>2. DurableOK' BY <1>5, <2>2, <3>1 DEF Backup, DurableOK
    <3>3. pc' \in Pcs BY <1>5, <2>2 DEF Backup
    <3>4. QED BY <1>5, <2>2, <3>2, <3>3 DEF Backup
  <2>3. QED BY <2>1, <2>2
<1>6. CASE WriteJournal
  <2>1. [head |-> Tip, changed |-> job.changed, old |-> job.old, new |-> job.new]
          \in [head : Nat, changed : SUBSET Paths, old : Files, new : Files]
    BY DEF CallOK
  <2>2. DurableOK' BY <1>6, <2>1 DEF WriteJournal, DurableOK
  <2>3. CallOK' BY <1>6 DEF WriteJournal, control, CallOK, NoJob
  <2>4. QED BY <1>6, <2>2, <2>3 DEF WriteJournal
<1>7. CASE GuardTarget
  BY <1>7 DEF GuardTarget, Raise, DurableOK, CallOK, durable, control, locals
<1>8. CASE ReplaceTarget
  <2>1. work' \in Files
    BY <1>8 DEF ReplaceTarget, First, Last, DurableOK, CallOK, Files
  <2>2. DurableOK' BY <1>8, <2>1 DEF ReplaceTarget, DurableOK
  <2>3. QED BY <1>8, <2>2 DEF ReplaceTarget
<1>9. CASE RecordWritten
  BY <1>9 DEF RecordWritten, Record, DurableOK, CallOK, durable, control, locals
<1>10. CASE RecordReplaced
  BY <1>10 DEF RecordReplaced, Record, DurableOK, CallOK, durable, control, locals
<1>11. CASE VerifyReplaced
  BY <1>11 DEF VerifyReplaced, Raise, DurableOK, CallOK, durable, control, locals
<1>12. CASE CheckIndexFree
  BY <1>12 DEF CheckIndexFree, Raise, DurableOK, CallOK, durable, control, locals
<1>13. CASE Stage
  <2>1. [p \in Paths |-> IF p \in journal[cur].changed THEN work[p] ELSE index[p]] \in Files
    BY DEF DurableOK, Files
  <2>2. DurableOK' BY <1>13, <2>1 DEF Stage, Raise, DurableOK, durable
  <2>3. QED BY <1>13, <2>2 DEF Stage, Raise
<1>14. CASE VerifyStaged
  BY <1>14 DEF VerifyStaged, Raise, Record, DurableOK, CallOK, durable, control, locals
<1>15. CASE RecheckOutputs
  BY <1>15 DEF RecheckOutputs, Raise, DurableOK, CallOK, durable, control, locals
<1>16. CASE RecheckStaged
  BY <1>16 DEF RecheckStaged, Raise, Record, DurableOK, CallOK, durable, control, locals
<1>17. CASE Commit
  <2>1. IndexAfterCommit \in Files BY DEF IndexAfterCommit, DurableOK, Files
  <2>2. CommitTree \in Files BY DEF CommitTree, DurableOK, Files
  <2>3. pc' \in Pcs BY <1>17 DEF Commit, Raise
  <2>4. CASE Raise BY <1>17, <2>4, <2>3 DEF Commit, Raise
  <2>5. CASE ~Raise
    <3>1. [tree |-> CommitTree, txn |-> cur] \in [tree : Files, txn : TxnIds \cup {0}]
      BY <2>2 DEF CallOK
    <3>2. log' \in Seq([tree : Files, txn : TxnIds \cup {0}])
      <4>1. log' = Append(log, [tree |-> CommitTree, txn |-> cur]) BY <1>17, <2>5 DEF Commit
      <4>2. QED BY <4>1, <3>1, AppendProperties DEF DurableOK
    <3>3. DurableOK' BY <1>17, <2>5, <2>1, <3>2 DEF Commit, DurableOK
    <3>4. QED BY <1>17, <2>5, <2>3, <3>3 DEF Commit
  <2>6. QED BY <2>4, <2>5
<1>18. CASE ReadHead
  BY <1>18 DEF ReadHead, DurableOK, CallOK, durable, control, locals
<1>19. CASE VerifyCommit
  BY <1>19 DEF VerifyCommit, Return, DurableOK, CallOK, durable, control, locals
<1>20. CASE RecordCommitted
  BY <1>20 DEF RecordCommitted, DurableOK, CallOK, durable, control, locals
<1>21. CASE RecordComplete
  BY <1>21 DEF RecordComplete, Record, DurableOK, CallOK, durable, control, locals
<1>22. CASE Cleanup
  BY <1>22 DEF Cleanup, DurableOK, CallOK, durable, control, locals
<1>23. CASE RollbackOwned
  BY <1>23 DEF RollbackOwned, GiveUp, DurableOK, CallOK, durable, control, locals
<1>24. CASE RestorePreflight
  <2>1. CASE GiveUp BY <2>1 DEF GiveUp, DurableOK
  <2>2. CASE ~GiveUp
    <3>1. [p \in Paths |-> IF p \in journal[cur].changed THEN work[p] ELSE Absent] \in Files
      BY ContentsAssumption DEF DurableOK, Files
    <3>2. journal'[cur'].changed \subseteq Paths /\ todo' \subseteq Paths
      BY <1>24, <2>2 DEF RestorePreflight, durable, control, DurableOK, CallOK
    <3>3. CallOK' BY <1>24, <2>2, <3>1, <3>2 DEF RestorePreflight, control, CallOK
    <3>4. QED BY <1>24, <2>2, <3>3 DEF RestorePreflight
  <2>3. QED BY <2>1, <2>2
<1>25. CASE InspectTarget
  <2>1. CASE GiveUp BY <2>1 DEF GiveUp, DurableOK
  <2>2. CASE ~GiveUp
    <3>1. Local BY <1>25, <2>2 DEF InspectTarget
    <3>2. CallOK' BY <1>25, <2>2 DEF InspectTarget, control, locals, CallOK
    <3>3. QED BY <3>1, <3>2
  <2>3. QED BY <2>1, <2>2
<1>26. CASE RestoreTarget
  <2>1. work' \in Files
    BY <1>26 DEF RestoreTarget, First, Last, DurableOK, CallOK, Files
  <2>2. DurableOK' BY <1>26, <2>1 DEF RestoreTarget, DurableOK
  <2>3. QED BY <1>26, <2>2 DEF RestoreTarget
<1>27. CASE VerifyRestored
  <2>1. CASE GiveUp BY <2>1 DEF GiveUp, DurableOK
  <2>2. CASE ~GiveUp
    <3>1. Local BY <1>27, <2>2 DEF VerifyRestored
    <3>2. CallOK' BY <1>27, <2>2 DEF VerifyRestored, control, CallOK
    <3>3. QED BY <3>1, <3>2
  <2>3. QED BY <2>1, <2>2
<1>28. CASE RecheckOwned
  BY <1>28 DEF RecheckOwned, GiveUp, DurableOK, CallOK, durable, control, locals
<1>29. CASE Unstage
  <2>1. [p \in Paths |-> IF p \in owned THEN HeadTree[p] ELSE index[p]] \in Files
    BY DEF DurableOK, Files
  <2>2. DurableOK' BY <1>29, <2>1 DEF Unstage, DurableOK
  <2>3. QED BY <1>29, <2>2 DEF Unstage
<1>30. CASE RecordRolledBack
  BY <1>30 DEF RecordRolledBack, DurableOK, CallOK, durable, control, locals
<1>31. CASE Finalize
  BY <1>31 DEF Finalize, DurableOK, CallOK, durable, control, locals
<1>32. CASE Fail
  <2>1. DurableOK' BY <1>32 DEF Fail, durable, DurableOK
  <2>2. CallOK' BY <1>32 DEF Fail
  <2>3. EnvOK' BY <1>32 DEF Fail, EnvOK
  <2>4. QED BY <2>1, <2>2, <2>3
<1>33. CASE Crash
  <2>1. EnvOK' BY <1>33 DEF Crash, EnvOK
  <2>2. QED BY <1>33, <2>1 DEF Crash
<1>34. CASE ExternalEdit
  <2>1. EnvOK' BY <1>34 DEF ExternalEdit, EnvOK
  <2>2. work' \in Files BY <1>34, ContentsAssumption DEF ExternalEdit, DurableOK, Files
  <2>3. DurableOK' BY <1>34, <2>2 DEF ExternalEdit, DurableOK
  <2>4. CallOK' BY <1>34 DEF ExternalEdit, volatile, CallOK
  <2>5. QED BY <2>1, <2>3, <2>4
<1>35. CASE ExternalStage
  <2>1. EnvOK' BY <1>35 DEF ExternalStage, EnvOK
  <2>2. index' \in Files BY <1>35 DEF ExternalStage, DurableOK, Files
  <2>3. DurableOK' BY <1>35, <2>2 DEF ExternalStage, DurableOK
  <2>4. CallOK' BY <1>35 DEF ExternalStage, volatile, CallOK
  <2>5. QED BY <2>1, <2>3, <2>4
<1>36. CASE ExternalCommit
  <2>1. EnvOK' BY <1>36 DEF ExternalCommit, EnvOK
  <2>2. [tree |-> index, txn |-> 0] \in [tree : Files, txn : TxnIds \cup {0}]
    BY DEF DurableOK
  <2>3. DurableOK' BY <1>36, <2>2 DEF ExternalCommit, DurableOK
  <2>4. CallOK' BY <1>36 DEF ExternalCommit, volatile, CallOK
  <2>5. QED BY <2>1, <2>3, <2>4
<1>37. ASSUME NEW t \in TxnIds, Recover(t) PROVE DurableOK' /\ CallOK' /\ EnvOK'
  BY <1>37 DEF Recover, Plan, DurableOK, CallOK
<1>38. CASE UNCHANGED vars
  BY <1>38 DEF vars, volatile, control, locals, CallOK
<1> QED BY <1>1, <1>2, <1>3, <1>4, <1>5, <1>6, <1>7, <1>8, <1>9, <1>10, <1>11, <1>12, <1>13, <1>14, <1>15, <1>16, <1>17, <1>18, <1>19, <1>20, <1>21, <1>22, <1>23, <1>24, <1>25, <1>26, <1>27, <1>28, <1>29, <1>30, <1>31, <1>32, <1>33, <1>34, <1>35, <1>36, <1>37, <1>38 DEF Next, Execute, Rollback, External

\* Whatever the environment, the crashes and the number of transactions, every
\* variable keeps its type.
THEOREM TypeCorrect == Spec => []TypeOK
<1>1. QED BY TypeInit, TypeNext, PTL DEF Spec

-----------------------------------------------------------------------------
\* A step that leaves the branch alone leaves every transaction's commits alone.
LEMMA CommitsKept ==
  ASSUME log' = log
  PROVE  \A t \in TxnIds : Commits(t)' = Commits(t)
BY DEF Commits

\* A commit on top of the branch adds itself to its own transaction's commits only.
LEMMA CommitsAfterAppend ==
  ASSUME DurableOK, NEW tree \in Files, NEW u \in TxnIds \cup {0},
         log' = Append(log, [tree |-> tree, txn |-> u])
  PROVE  \A t \in TxnIds :
           Commits(t)' = IF t = u THEN Commits(t) \cup {Len(log) + 1} ELSE Commits(t)
<1> DEFINE R == [tree : Files, txn : TxnIds \cup {0}]
           c == [tree |-> tree, txn |-> u]
<1>1. log \in Seq(R) /\ c \in R BY DEF DurableOK
<1>2. /\ Len(log') = Len(log) + 1 /\ Len(log) \in Nat
      /\ \A i \in 1..Len(log) : log'[i] = log[i]
      /\ log'[Len(log) + 1] = c
  BY <1>1, AppendProperties
<1>3. QED BY <1>2 DEF Commits

\* The commits of a transaction are positions of the branch.
LEMMA CommitsBounded ==
  ASSUME DurableOK
  PROVE  Len(log) \in Nat /\ \A t \in TxnIds : Commits(t) \subseteq 1..Len(log)
BY DEF DurableOK, Commits

\* Steps that leave journals and branch alone.
LEMMA JournalsKept ==
  ASSUME JournalInv, OnePending, CommitDecides, UNCHANGED <<phase, journal, commitHash, log>>
  PROVE  /\ JournalInv' /\ OnePending' /\ CommitDecides' /\ Pending' = Pending
         /\ \A t \in TxnIds : Commits(t)' = Commits(t)
BY CommitsKept DEF JournalInv, OnePending, CommitDecides, Pending

\* Steps that move an undecided journal to another phase.
LEMMA PhaseMoved ==
  ASSUME DurableOK, JournalInv, OnePending, CommitDecides,
         cur \in TxnIds, Undecided(cur), NEW v,
         v # "none", v = "complete" => Commits(cur) # {}, v = "rolled_back" => Commits(cur) = {},
         phase' = [phase EXCEPT ![cur] = v], UNCHANGED <<journal, log>>,
         \A t \in TxnIds : commitHash'[t] = commitHash[t] \/ (t = cur /\ Commits(cur) # {})
  PROVE  /\ JournalInv' /\ OnePending' /\ CommitDecides' /\ Pending' \subseteq Pending
         /\ phase'[cur] = v
         /\ \A t \in TxnIds : Commits(t)' = Commits(t)
<1>1. phase'[cur] = v /\ \A t \in TxnIds \ {cur} : phase'[t] = phase[t]
  BY DEF DurableOK
<1>2. \A t \in TxnIds : Commits(t)' = Commits(t) BY CommitsKept
<1>3. Pending' \subseteq Pending BY <1>1 DEF Pending, Undecided
<1>4. OnePending' BY <1>3 DEF OnePending
<1>5. JournalInv' BY <1>1, <1>2 DEF JournalInv
<1>6. CommitDecides' BY <1>1, <1>2 DEF CommitDecides, Undecided, Terminal
<1>7. QED BY <1>1, <1>2, <1>3, <1>4, <1>5, <1>6

\* The inductive invariant holds before the first transaction.
LEMMA InvInit == Init => IInv
<1> SUFFICES ASSUME Init PROVE ControlInv /\ JournalInv /\ OnePending /\ CommitDecides
  BY TypeInit DEF IInv
<1>1. \A t \in TxnIds : Commits(t) = {}
  <2>1. CASE log = <<>> BY <2>1 DEF Commits
  <2>2. CASE \E f \in [Paths -> Base] : log = <<[tree |-> f, txn |-> 0]>>
    BY <2>2 DEF Commits, TxnIds
  <2>3. QED BY <2>1, <2>2 DEF Init
<1>2. ControlInv
  <2>1. pc = "idle" BY DEF Init
  <2>2. QED BY <2>1 DEF ControlInv, JournalledPcs, RollbackPcs, CommittedPcs
<1>3. Pending = {} BY DEF Init, Pending
<1>4. OnePending /\ CommitDecides
  BY <1>1, <1>3 DEF Init, OnePending, CommitDecides
<1>5. JournalInv
  <2>1. Len(log) \in Nat BY TypeInit, CommitsBounded DEF TypeOK
  <2>2. \A t \in TxnIds : journal[t].head = 0 /\ commitHash[t] = 0 BY DEF Init, NoJournal
  <2>3. QED BY <1>1, <2>1, <2>2 DEF JournalInv
<1>6. QED BY <1>2, <1>4, <1>5

\* The inductive invariant is kept by every step, of whoever it is.
LEMMA InvNext == IInv /\ [Next]_vars => IInv'
<1> SUFFICES ASSUME IInv, [Next]_vars
             PROVE  ControlInv' /\ JournalInv' /\ OnePending' /\ CommitDecides'
  BY TypeNext DEF IInv
<1> DurableOK /\ CallOK /\ ControlInv /\ JournalInv /\ OnePending /\ CommitDecides
  BY DEF IInv, TypeOK
<1> cur \in TxnIds \cup {0} /\ (pc # "idle" => cur \in TxnIds) BY DEF CallOK
<1> DEFINE Goal == ControlInv' /\ JournalInv' /\ OnePending' /\ CommitDecides'
<1> USE DEF At, Goto, Local, Forget, durable, control, locals, volatile, env, JournalledPcs, RollbackPcs, CommittedPcs, Undecided
<1>1. CASE Begin
  <2>1. PICK t \in TxnIds : cur' = t /\ phase[t] = "none" BY <1>1 DEF Begin
  <2>2. pc' = "check" /\ UNCHANGED <<phase, journal, commitHash, log>>
    BY <1>1 DEF Begin
  <2>3. QED BY <2>1, <2>2, JournalsKept DEF ControlInv
<1>2. CASE Refuse
  <2>1. UNCHANGED <<phase, journal, commitHash, log>> BY <1>2 DEF Refuse, Return
  <2>2. QED BY <1>2, <2>1, JournalsKept DEF Refuse, Return, ControlInv
<1>3. CASE Preflight
  <2>1. UNCHANGED <<phase, journal, commitHash, log>> BY <1>3 DEF Preflight, Return, CanStart
  <2>2. QED BY <1>3, <2>1, JournalsKept DEF Preflight, Return, CanStart, ControlInv
<1>4. CASE TakeBaseline
  <2>1. UNCHANGED <<phase, journal, commitHash, log>> BY <1>4 DEF TakeBaseline
  <2>2. QED BY <1>4, <2>1, JournalsKept DEF TakeBaseline, ControlInv
<1>5. CASE Backup
  <2>1. UNCHANGED <<phase, journal, commitHash, log>> BY <1>5 DEF Backup, Return
  <2>2. QED BY <1>5, <2>1, JournalsKept DEF Backup, Return, ControlInv
<1>6. CASE GuardTarget
  <2>1. UNCHANGED <<phase, journal, commitHash, log>> BY <1>6 DEF GuardTarget, Raise
  <2>2. QED BY <1>6, <2>1, JournalsKept DEF GuardTarget, Raise, ControlInv
<1>7. CASE ReplaceTarget
  <2>1. UNCHANGED <<phase, journal, commitHash, log>> BY <1>7 DEF ReplaceTarget
  <2>2. QED BY <1>7, <2>1, JournalsKept DEF ReplaceTarget, ControlInv
<1>8. CASE VerifyReplaced
  <2>1. UNCHANGED <<phase, journal, commitHash, log>> BY <1>8 DEF VerifyReplaced, Raise
  <2>2. QED BY <1>8, <2>1, JournalsKept DEF VerifyReplaced, Raise, ControlInv
<1>9. CASE CheckIndexFree
  <2>1. UNCHANGED <<phase, journal, commitHash, log>> BY <1>9 DEF CheckIndexFree, Raise
  <2>2. QED BY <1>9, <2>1, JournalsKept DEF CheckIndexFree, Raise, ControlInv
<1>10. CASE Stage
  <2>1. UNCHANGED <<phase, journal, commitHash, log>> BY <1>10 DEF Stage, Raise
  <2>2. QED BY <1>10, <2>1, JournalsKept DEF Stage, Raise, ControlInv
<1>11. CASE RecheckOutputs
  <2>1. UNCHANGED <<phase, journal, commitHash, log>> BY <1>11 DEF RecheckOutputs, Raise
  <2>2. QED BY <1>11, <2>1, JournalsKept DEF RecheckOutputs, Raise, ControlInv
<1>12. CASE ReadHead
  <2>1. UNCHANGED <<phase, journal, commitHash, log>> BY <1>12 DEF ReadHead
  <2>2. QED BY <1>12, <2>1, JournalsKept DEF ReadHead, ControlInv
<1>13. CASE VerifyCommit
  <2>1. UNCHANGED <<phase, journal, commitHash, log>> BY <1>13 DEF VerifyCommit, Return
  <2>2. QED BY <1>13, <2>1, JournalsKept DEF VerifyCommit, Return, ControlInv
<1>14. CASE Cleanup
  <2>1. UNCHANGED <<phase, journal, commitHash, log>> BY <1>14 DEF Cleanup
  <2>2. QED BY <1>14, <2>1, JournalsKept DEF Cleanup, ControlInv
<1>15. CASE RestoreTarget
  <2>1. UNCHANGED <<phase, journal, commitHash, log>> BY <1>15 DEF RestoreTarget
  <2>2. QED BY <1>15, <2>1, JournalsKept DEF RestoreTarget, ControlInv
<1>16. CASE Unstage
  <2>1. UNCHANGED <<phase, journal, commitHash, log>> BY <1>16 DEF Unstage
  <2>2. QED BY <1>16, <2>1, JournalsKept DEF Unstage, ControlInv
<1>17. CASE Crash
  <2>1. UNCHANGED <<phase, journal, commitHash, log>> BY <1>17 DEF Crash
  <2>2. QED BY <1>17, <2>1, JournalsKept DEF Crash, ControlInv
<1>18. CASE ExternalEdit
  <2>1. UNCHANGED <<phase, journal, commitHash, log>> BY <1>18 DEF ExternalEdit
  <2>2. QED BY <1>18, <2>1, JournalsKept DEF ExternalEdit, ControlInv
<1>19. CASE ExternalStage
  <2>1. UNCHANGED <<phase, journal, commitHash, log>> BY <1>19 DEF ExternalStage
  <2>2. QED BY <1>19, <2>1, JournalsKept DEF ExternalStage, ControlInv
<1>20. CASE WriteJournal
  <2>1. /\ pc = "journal" /\ pc' = "guard" /\ cur' = cur /\ log' = log /\ commitHash' = commitHash
        /\ phase' = [phase EXCEPT ![cur] = "prepared"]
        /\ journal'[cur].head = Len(log)
        /\ \A t \in TxnIds \ {cur} : journal'[t] = journal[t]
    BY <1>20 DEF WriteJournal, Tip, DurableOK
  <2>2. cur \in TxnIds /\ phase[cur] = "none" /\ Pending = {} BY <2>1 DEF ControlInv
  <2>3. Commits(cur) = {} BY <2>2 DEF JournalInv
  <2>4. \A t \in TxnIds : Commits(t)' = Commits(t) BY <2>1, CommitsKept
  <2>5. phase'[cur] = "prepared" /\ \A t \in TxnIds \ {cur} : phase'[t] = phase[t]
    BY <2>1, <2>2 DEF DurableOK
  <2>6. Pending' = {cur} BY <2>2, <2>5 DEF Pending, Terminal
  <2>7. OnePending' BY <2>6 DEF OnePending
  <2>8. JournalInv' BY <2>1, <2>3, <2>4, <2>5, CommitsBounded DEF JournalInv
  <2>9. CommitDecides' BY <2>4, <2>5 DEF CommitDecides
  <2>10. ControlInv' BY <2>1, <2>2, <2>3, <2>4, <2>5 DEF ControlInv, Terminal
  <2>11. QED BY <2>7, <2>8, <2>9, <2>10
<1>21. CASE RecordWritten
  <2>1. /\ pc \in JournalledPcs \cup CommittedPcs /\ cur' = cur
        /\ phase' = [phase EXCEPT ![cur] = "replacing"] /\ UNCHANGED <<journal, commitHash, log>>
    BY <1>21 DEF RecordWritten, Record
  <2>2. QED BY <1>21, <2>1, PhaseMoved DEF RecordWritten, Record, ControlInv, Terminal
<1>22. CASE RecordReplaced
  <2>1. /\ pc \in JournalledPcs \cup CommittedPcs /\ cur' = cur
        /\ phase' = [phase EXCEPT ![cur] = "replaced"] /\ UNCHANGED <<journal, commitHash, log>>
    BY <1>22 DEF RecordReplaced, Record
  <2>2. QED BY <1>22, <2>1, PhaseMoved DEF RecordReplaced, Record, ControlInv, Terminal
<1>23. CASE RecordComplete
  <2>1. /\ pc \in JournalledPcs \cup CommittedPcs /\ cur' = cur
        /\ phase' = [phase EXCEPT ![cur] = "complete"] /\ UNCHANGED <<journal, commitHash, log>>
    BY <1>23 DEF RecordComplete, Record
  <2>2. QED BY <1>23, <2>1, PhaseMoved DEF RecordComplete, Record, ControlInv, Terminal
<1>24. CASE VerifyStaged
  <2>1. CASE Raise
    BY <1>24, <2>1, JournalsKept DEF VerifyStaged, Raise, ControlInv
  <2>2. CASE ~Raise
    <3>1. /\ pc \in JournalledPcs /\ cur' = cur /\ pc' \in JournalledPcs
          /\ phase' = [phase EXCEPT ![cur] = "staged"] /\ UNCHANGED <<journal, commitHash, log>>
      BY <1>24, <2>2 DEF VerifyStaged, Record
    <3>2. QED BY <3>1, PhaseMoved DEF ControlInv, Terminal
  <2>3. QED BY <2>1, <2>2
<1>25. CASE RecheckStaged
  <2>1. CASE Raise
    BY <1>25, <2>1, JournalsKept DEF RecheckStaged, Raise, ControlInv
  <2>2. CASE ~Raise
    <3>1. /\ pc \in JournalledPcs /\ cur' = cur /\ pc' \in JournalledPcs
          /\ phase' = [phase EXCEPT ![cur] = "committing"] /\ UNCHANGED <<journal, commitHash, log>>
      BY <1>25, <2>2 DEF RecheckStaged, Record
    <3>2. QED BY <3>1, PhaseMoved DEF ControlInv, Terminal
  <2>3. QED BY <2>1, <2>2
<1>26. CASE RecordCommitted
  <2>1. /\ pc \in CommittedPcs /\ cur' = cur
        /\ phase' = [phase EXCEPT ![cur] = "committed"] /\ UNCHANGED <<journal, log>>
        /\ \A t \in TxnIds \ {cur} : commitHash'[t] = commitHash[t]
    BY <1>26 DEF RecordCommitted, DurableOK
  <2>2. cur \in TxnIds /\ Undecided(cur) /\ Commits(cur) # {}
    BY <2>1 DEF ControlInv
  <2>3. QED BY <1>26, <2>1, <2>2, PhaseMoved DEF RecordCommitted, ControlInv, Terminal
<1>27. CASE Finalize
  <2>1. /\ pc \in CommittedPcs /\ cur' = cur
        /\ phase' = [phase EXCEPT ![cur] = "complete"] /\ UNCHANGED <<journal, log>>
        /\ \A t \in TxnIds \ {cur} : commitHash'[t] = commitHash[t]
    BY <1>27 DEF Finalize, DurableOK
  <2>2. cur \in TxnIds /\ Undecided(cur) /\ Commits(cur) # {}
    BY <2>1 DEF ControlInv
  <2>3. QED BY <1>27, <2>1, <2>2, PhaseMoved DEF Finalize, ControlInv, Terminal
<1>28. CASE Commit
  <2>1. CASE Raise
    BY <1>28, <2>1, JournalsKept DEF Commit, Raise, ControlInv
  <2>2. CASE ~Raise
    <3>1. /\ pc = "commit" /\ pc' = "readHead" /\ cur' = cur
          /\ log' = Append(log, [tree |-> CommitTree, txn |-> cur])
          /\ UNCHANGED <<phase, journal, commitHash>>
      BY <1>28, <2>2 DEF Commit
    <3>2. cur \in TxnIds /\ Undecided(cur) /\ Commits(cur) = {}
      BY <3>1 DEF ControlInv
    <3>3. CommitTree \in Files BY HeadTreeType DEF CommitTree, DurableOK, Files
    <3>4. \A t \in TxnIds :
            Commits(t)' = IF t = cur THEN Commits(t) \cup {Len(log) + 1} ELSE Commits(t)
      BY <3>1, <3>2, <3>3, CommitsAfterAppend
    <3>5. Len(log) \in Nat /\ Len(log') = Len(log) + 1 /\ Commits(cur)' = {Len(log) + 1}
          /\ \A t \in TxnIds : journal[t].head \in Nat
      <4>1. [tree |-> CommitTree, txn |-> cur] \in [tree : Files, txn : TxnIds \cup {0}]
        BY <3>2, <3>3
      <4>2. QED BY <3>1, <3>2, <3>4, <4>1, AppendProperties DEF DurableOK
    <3>6. JournalInv' BY <3>1, <3>2, <3>4, <3>5 DEF JournalInv
    <3>7. OnePending' BY <3>1 DEF OnePending, Pending
    <3>8. CommitDecides' BY <3>1, <3>2, <3>4, <3>5 DEF CommitDecides, Terminal
    <3>9. ControlInv' BY <3>1, <3>2, <3>5 DEF ControlInv
    <3>10. QED BY <3>6, <3>7, <3>8, <3>9
  <2>3. QED BY <2>1, <2>2
<1>29. CASE RollbackOwned
  <2>1. CASE GiveUp
    <3>1. pc \in JournalledPcs /\ phase' = [phase EXCEPT ![cur] = "manual"]
          /\ UNCHANGED <<journal, commitHash, log>> /\ pc' = "idle"
      BY <1>29, <2>1 DEF RollbackOwned, GiveUp
    <3>2. QED BY <3>1, PhaseMoved DEF ControlInv, Terminal
  <2>2. CASE ~GiveUp
    <3>1. /\ UNCHANGED <<phase, journal, commitHash, log, cur>>
          /\ pc \in JournalledPcs /\ pc' \in JournalledPcs
      BY <1>29, <2>2 DEF RollbackOwned
    <3>2. QED BY <3>1, JournalsKept DEF ControlInv
  <2>3. QED BY <2>1, <2>2
<1>30. CASE RestorePreflight
  <2>1. CASE GiveUp
    <3>1. pc \in JournalledPcs /\ phase' = [phase EXCEPT ![cur] = "manual"]
          /\ UNCHANGED <<journal, commitHash, log>> /\ pc' = "idle"
      BY <1>30, <2>1 DEF RestorePreflight, GiveUp
    <3>2. QED BY <3>1, PhaseMoved DEF ControlInv, Terminal
  <2>2. CASE ~GiveUp
    <3>1. /\ UNCHANGED <<phase, journal, commitHash, log, cur>>
          /\ pc \in JournalledPcs /\ pc' \in JournalledPcs
      BY <1>30, <2>2 DEF RestorePreflight
    <3>2. QED BY <3>1, JournalsKept DEF ControlInv
  <2>3. QED BY <2>1, <2>2
<1>31. CASE InspectTarget
  <2>1. CASE GiveUp
    <3>1. pc \in JournalledPcs /\ phase' = [phase EXCEPT ![cur] = "manual"]
          /\ UNCHANGED <<journal, commitHash, log>> /\ pc' = "idle"
      BY <1>31, <2>1 DEF InspectTarget, GiveUp
    <3>2. QED BY <3>1, PhaseMoved DEF ControlInv, Terminal
  <2>2. CASE ~GiveUp
    <3>1. /\ UNCHANGED <<phase, journal, commitHash, log, cur>>
          /\ pc \in JournalledPcs /\ pc' \in JournalledPcs
      BY <1>31, <2>2 DEF InspectTarget
    <3>2. QED BY <3>1, JournalsKept DEF ControlInv
  <2>3. QED BY <2>1, <2>2
<1>32. CASE VerifyRestored
  <2>1. CASE GiveUp
    <3>1. pc \in JournalledPcs /\ phase' = [phase EXCEPT ![cur] = "manual"]
          /\ UNCHANGED <<journal, commitHash, log>> /\ pc' = "idle"
      BY <1>32, <2>1 DEF VerifyRestored, GiveUp
    <3>2. QED BY <3>1, PhaseMoved DEF ControlInv, Terminal
  <2>2. CASE ~GiveUp
    <3>1. /\ UNCHANGED <<phase, journal, commitHash, log, cur>>
          /\ pc \in JournalledPcs /\ pc' \in JournalledPcs
      BY <1>32, <2>2 DEF VerifyRestored
    <3>2. QED BY <3>1, JournalsKept DEF ControlInv
  <2>3. QED BY <2>1, <2>2
<1>33. CASE RecheckOwned
  <2>1. CASE GiveUp
    <3>1. pc \in JournalledPcs /\ phase' = [phase EXCEPT ![cur] = "manual"]
          /\ UNCHANGED <<journal, commitHash, log>> /\ pc' = "idle"
      BY <1>33, <2>1 DEF RecheckOwned, GiveUp
    <3>2. QED BY <3>1, PhaseMoved DEF ControlInv, Terminal
  <2>2. CASE ~GiveUp
    <3>1. /\ UNCHANGED <<phase, journal, commitHash, log, cur>>
          /\ pc \in JournalledPcs /\ pc' \in JournalledPcs
      BY <1>33, <2>2 DEF RecheckOwned
    <3>2. QED BY <3>1, JournalsKept DEF ControlInv
  <2>3. QED BY <2>1, <2>2
<1>34. CASE RecordRolledBack
  <2>1. /\ pc \in JournalledPcs /\ (pc' = "idle" \/ (pc' = "cleanup" /\ cur' = cur))
        /\ phase' = [phase EXCEPT ![cur] = "rolled_back"] /\ UNCHANGED <<journal, commitHash, log>>
    BY <1>34 DEF RecordRolledBack
  <2>2. cur \in TxnIds /\ Undecided(cur) /\ Commits(cur) = {}
    BY <2>1 DEF ControlInv
  <2>3. QED BY <2>1, <2>2, PhaseMoved DEF ControlInv, Terminal
<1>35. CASE Fail
  <2>1. pc \in JournalledPcs /\ UNCHANGED <<journal, commitHash, log>>
    BY <1>35 DEF Fail
  <2>2. CASE UNCHANGED phase
    <3>1. pc' = "idle" \/ (pc' = "owned" /\ cur' = cur)
      BY <1>35 DEF Fail
    <3>2. QED BY <2>1, <2>2, <3>1, JournalsKept DEF ControlInv
  <2>3. CASE ~UNCHANGED phase
    <3>1. pc' = "idle" /\ phase' = [phase EXCEPT ![cur] = "manual"]
      BY <1>35, <2>3 DEF Fail
    <3>2. QED BY <2>1, <3>1, PhaseMoved DEF ControlInv, Terminal
  <2>4. QED BY <2>2, <2>3
<1>36. CASE ExternalCommit
  <2>1. /\ log' = Append(log, [tree |-> index, txn |-> 0])
        /\ UNCHANGED <<phase, journal, commitHash, pc, cur>>
    BY <1>36 DEF ExternalCommit
  <2>2. index \in Files /\ \A t \in TxnIds : t # 0 /\ journal[t].head \in Nat
    BY DEF DurableOK, TxnIds
  <2>3. \A t \in TxnIds : Commits(t)' = Commits(t)
    BY <2>1, <2>2, CommitsAfterAppend
  <2>4. Len(log) \in Nat /\ Len(log') = Len(log) + 1
    <3>1. [tree |-> index, txn |-> 0] \in [tree : Files, txn : TxnIds \cup {0}] BY <2>2
    <3>2. QED BY <2>1, <3>1, AppendProperties DEF DurableOK
  <2>5. JournalInv' BY <2>1, <2>2, <2>3, <2>4 DEF JournalInv
  <2>6. OnePending' /\ CommitDecides' BY <2>1, <2>3 DEF OnePending, Pending, CommitDecides
  <2>7. ControlInv' BY <2>1, <2>3 DEF ControlInv, Pending
  <2>8. QED BY <2>5, <2>6, <2>7
<1>37. ASSUME NEW t \in TxnIds, Recover(t) PROVE Goal
  <2>1. UNCHANGED <<phase, journal, commitHash, log>> /\ cur' = t /\ phase[t] # "none"
    BY <1>37 DEF Recover
  <2>2. ASSUME Plan(t) = "rollback" PROVE Undecided(t) /\ Commits(t) = {} /\ pc' = "owned"
    <3>1. Undecided(t) /\ Len(log) = journal[t].head /\ pc' = "owned"
      BY <1>37, <2>2 DEF Plan, Recover, Tip
    <3>2. QED BY <3>1, CommitsBounded DEF JournalInv, DurableOK
  <2>3. ASSUME Plan(t) = "finalize" PROVE Undecided(t) /\ Commits(t) # {} /\ pc' = "finalize"
    <3>1. Undecided(t) /\ pc' = "finalize" /\ (commitHash[t] # 0 \/ DetectedCommit(t))
      BY <1>37, <2>3 DEF Plan, Recover
    <3>2. ASSUME DetectedCommit(t) PROVE Commits(t) # {}
      <4>1. Len(log) = journal[t].head + 1 /\ log[Len(log)].txn = t
        BY <3>2 DEF DetectedCommit, Tip
      <4>2. Len(log) \in 1..Len(log) BY <4>1, CommitsBounded DEF DurableOK
      <4>3. QED BY <4>1, <4>2 DEF Commits
    <3>3. QED BY <3>1, <3>2 DEF JournalInv
  <2>4. ASSUME Plan(t) = "none" PROVE phase[t] \in Terminal /\ pc' = "cleanup"
    BY <1>37, <2>4 DEF Plan, Recover
  <2>5. Plan(t) \in {"none", "rollback", "finalize"}
    BY <1>37 DEF Recover, Plan
  <2>6. QED BY <2>1, <2>2, <2>3, <2>4, <2>5, JournalsKept DEF ControlInv
<1>38. CASE UNCHANGED vars
  BY <1>38, JournalsKept DEF vars, ControlInv
<1> QED BY <1>1, <1>2, <1>3, <1>4, <1>5, <1>6, <1>7, <1>8, <1>9, <1>10, <1>11, <1>12, <1>13, <1>14, <1>15, <1>16, <1>17, <1>18, <1>19, <1>20, <1>21, <1>22, <1>23, <1>24, <1>25, <1>26, <1>27, <1>28, <1>29, <1>30, <1>31, <1>32, <1>33, <1>34, <1>35, <1>36, <1>37, <1>38 DEF Next, Execute, Rollback, External

\* IInv is inductive and holds initially.
THEOREM InvCorrect == Spec => []IInv
BY InvInit, InvNext, PTL DEF Spec

\* Whatever crashes, fails or interferes, no second transaction is ever
\* undecided: a pending journal blocks every later transaction.
THEOREM OnlyOnePending == Spec => []OnePending
<1>1. IInv => OnePending BY DEF IInv
<1>2. QED BY <1>1, InvCorrect, PTL

\* A journal that says "complete" has its commit on the branch, one that says
\* "rolled_back" has none and never gets one, and no transaction commits twice.
THEOREM CommitIsDecisive == Spec => []CommitDecides
<1>1. IInv => CommitDecides BY DEF IInv
<1>2. QED BY <1>1, InvCorrect, PTL
=============================================================================

---------------------------- MODULE Transaction ----------------------------
(***************************************************************************)
(* The multi-file write engine of agent_memory/transactions.py: one        *)
(* transaction replaces a set of vault files, stages them, commits them    *)
(* with Git and journals every phase outside the vault, so that `memory    *)
(* recover` can finish or undo it after a crash.                           *)
(*                                                                         *)
(* Durable state is what survives the process: the working tree, the Git   *)
(* index and history, the journals and the backups.  Volatile state is one *)
(* running call of execute_transaction or apply_recovery; every caller of  *)
(* both holds the writer lock, so at most one call runs at a time and a    *)
(* crash, which releases the lock, forgets it.  The environment is         *)
(* everybody who does not take that lock: Obsidian, Syncthing and a user   *)
(* with a shell, who edit files, stage and commit at any moment.           *)
(*                                                                         *)
(* A SHA-256 hash stands for the content it is taken of.  Reading several  *)
(* files one after the other is one step (an edit of one path commutes     *)
(* with a read of another); every write is a step of its own.              *)
(***************************************************************************)
EXTENDS Naturals, Sequences, FiniteSets

CONSTANTS NumPaths,    \* number of managed paths; 1..NumPaths is their sorted order
          Contents,    \* file contents, as far as a hash tells them apart
          Absent,      \* the content of a path with no file (hash None)
          Produced,    \* [TxnIds -> SUBSET Contents]: what a transaction may render
          Edits,       \* what Obsidian, Syncthing or the user may write
          Base,        \* what the vault may hold when the model starts
          MaxTxn,      \* bound: journals written
          MaxEdits,    \* bound: external changes of the working tree
          MaxGitOps,   \* bound: external git add and git commit commands
          MaxFaults,   \* bound: crashes and failing system or Git calls
          Quiet        \* points of the code at which the environment is assumed still

Paths == 1..NumPaths
TxnIds == 1..MaxTxn
Files == [Paths -> Contents]
NoFiles == [p \in Paths |-> Absent]

ASSUME BoundsAssumption ==
  /\ NumPaths \in Nat /\ MaxTxn \in Nat
  /\ MaxEdits \in Nat /\ MaxGitOps \in Nat /\ MaxFaults \in Nat

ASSUME ContentsAssumption ==
  /\ Absent \in Contents /\ Base \subseteq Contents
  /\ Edits \subseteq Contents \ {Absent}
  /\ Produced \in [TxnIds -> SUBSET Contents]

VARIABLES
  work,         \* the vault's working tree
  index,        \* the Git index
  log,          \* the first-parent history of the branch; its length names HEAD
  phase,        \* journal.json "phase" of each transaction, "none" before it exists
  journal,      \* the rest of journal.json, fixed when it is first written
  commitHash,   \* journal.json "commit_hash", 0 for null
  backups,      \* the backups/ directory of each transaction
  pc, mode,     \* where the running call is; which of the two functions it is
  cur,          \* its transaction
  job,          \* what execute_transaction computed before the journal exists
  todo,         \* targets its current loop has still to visit
  pre,          \* current_hashes of _restore
  owned,        \* owned of _rollback
  seen,         \* the commit hash it read back
  made,         \* contents external edits have written so far
  dropped,      \* those their own authors replaced, deleted or handed to reconcile
  edits, gitOps, faults   \* the bounded counters

durable == <<work, index, log, phase, journal, commitHash, backups>>
control == <<mode, cur>>
volatile == <<pc, mode, cur, job, todo, pre, owned, seen>>
locals == <<job, todo, pre, owned, seen>>
env == <<made, dropped, edits, gitOps, faults>>
vars == <<durable, volatile, env>>

-----------------------------------------------------------------------------
(* Git and the journal directory, as the code reads them *)

Tip == Len(log)
HeadTree == IF log = <<>> THEN NoFiles ELSE log[Tip].tree
Staged == {p \in Paths : index[p] # HeadTree[p]}
Dirty == Staged \cup {p \in Paths : work[p] # index[p]}

Terminal == {"complete", "rolled_back"}
Pending == {t \in TxnIds : phase[t] \notin Terminal \cup {"none"}}

Commits(t) == {i \in 1..Len(log) : log[i].txn = t}

\* _staged_outputs_match and _staged_outputs_are_owned
StagedOutputsMatch(t) ==
  /\ Staged = journal[t].changed
  /\ \A p \in Staged : index[p] = journal[t].new[p]

StagedOutputsAreOwned(t) ==
  /\ Staged \subseteq journal[t].changed
  /\ \A p \in Staged : index[p] = journal[t].new[p]

OutputsInPlace(t) == \A p \in journal[t].changed : work[p] = journal[t].new[p]

\* Variant: only targets already replaced count as recognised.
RestorableIfReplaced(t) ==
  \A p \in journal[t].changed :
    /\ work[p] = journal[t].new[p]
    /\ journal[t].old[p] # Absent => backups[t][p] = journal[t].old[p]

\* _restore_preflight: every target holds its old or its new content and
\* every old content that was a file has its backup.
Restorable(t) ==
  \A p \in journal[t].changed :
    /\ work[p] \in {journal[t].old[p], journal[t].new[p]}
    /\ journal[t].old[p] # Absent => backups[t][p] = journal[t].old[p]

\* Variants: any child of the expected parent counts; nothing is looked for.
DetectedByParent(t) == Tip = journal[t].head + 1 /\ log[Tip].txn \in {t, 0}
DetectedNever(t) == FALSE

\* recovery_plan: what `memory recover` would do now.
DetectedCommit(t) == Tip = journal[t].head + 1 /\ log[Tip].txn = t

Plan(t) ==
  CASE phase[t] \in Terminal -> "none"
    [] /\ phase[t] \notin Terminal
       /\ (commitHash[t] # 0 /\ Tip = commitHash[t]) \/ DetectedCommit(t) -> "finalize"
    [] OTHER -> IF StagedOutputsAreOwned(t) /\ Restorable(t) /\ Tip = journal[t].head
                THEN "rollback" ELSE "manual"

-----------------------------------------------------------------------------
NoJob == [requested |-> {}, changed |-> {}, adopted |-> 0,
          old |-> NoFiles, new |-> NoFiles]
NoJournal == [head |-> 0, changed |-> {}, old |-> NoFiles, new |-> NoFiles]

Forget ==
  /\ pc' = "idle" /\ mode' = "execute" /\ cur' = 0 /\ job' = NoJob
  /\ todo' = {} /\ pre' = NoFiles /\ owned' = {} /\ seen' = 0

\* A vault under Git: any committed tree, or no commit at all, and nothing dirty.
Init ==
  /\ log \in {<<>>} \cup {<<[tree |-> f, txn |-> 0]>> :
                            f \in [Paths -> Base]}
  /\ work = HeadTree /\ index = HeadTree
  /\ phase = [t \in TxnIds |-> "none"]
  /\ journal = [t \in TxnIds |-> NoJournal]
  /\ commitHash = [t \in TxnIds |-> 0]
  /\ backups = [t \in TxnIds |-> NoFiles]
  /\ pc = "idle" /\ mode = "execute" /\ cur = 0 /\ job = NoJob
  /\ todo = {} /\ pre = NoFiles /\ owned = {} /\ seen = 0
  /\ made = {} /\ dropped = {} /\ edits = 0 /\ gitOps = 0 /\ faults = 0

At(label) == pc = label
Goto(label) == pc' = label

Return == Forget /\ UNCHANGED <<durable, env>>

\* Nothing but the program counter and the local variables moves.
Local == UNCHANGED <<durable, control, env>>

\* An exception before the commit: `except Exception` starts _rollback.
Raise == Goto("owned") /\ UNCHANGED <<durable, control, locals, env>>

\* Variant: giving up also removes the backups.
GiveUpAndCleanup ==
  /\ Forget
  /\ phase' = [phase EXCEPT ![cur] = "manual"]
  /\ backups' = [backups EXCEPT ![cur] = NoFiles]
  /\ UNCHANGED <<work, index, log, journal, commitHash, env>>

\* Where _rollback returns False: the phase becomes "manual", the call raises.
GiveUp ==
  /\ Forget
  /\ phase' = [phase EXCEPT ![cur] = "manual"]
  /\ UNCHANGED <<work, index, log, journal, commitHash, backups, env>>

\* _write_json of a new phase, and on to the next statement.
Record(value, label) ==
  /\ Goto(label)
  /\ phase' = [phase EXCEPT ![cur] = value]
  /\ UNCHANGED <<work, index, log, journal, commitHash, backups, control, env>>

-----------------------------------------------------------------------------
(* execute_transaction, up to the journal *)

\* The call: outputs for the requested paths, of which those that change
\* something are kept; a reconciliation also names the edited path it adopts
\* and the content it was rendered from.
Changed(requested, new, adopted) == {p \in requested : work[p] # new[p] \/ p = adopted}

NewJob(requested, new, adopted) ==
  [requested |-> requested, adopted |-> adopted,
   changed |-> Changed(requested, new, adopted),
   old |-> [p \in Paths |-> IF p = adopted THEN work[p] ELSE Absent],
   new |-> [p \in Paths |-> IF p \in Changed(requested, new, adopted) THEN new[p] ELSE Absent]]

Begin ==
  /\ At("idle") /\ Goto("check")
  /\ \E t \in TxnIds, requested \in SUBSET Paths, new \in Files, adopted \in Paths \cup {0} :
       /\ phase[t] = "none" /\ \A u \in TxnIds : u < t => phase[u] # "none"
       /\ requested # {} /\ \A p \in Paths \ requested : new[p] = Absent
       /\ \A p \in requested : new[p] \in Produced[t] \/ (p = adopted /\ new[p] = work[p])
       /\ adopted # 0 => adopted \in requested /\ work[adopted] # Absent
       /\ cur' = t
       /\ job' = NewJob(requested, new, adopted)
       /\ dropped' = dropped \cup ({work[p] : p \in Paths \cap {adopted}} \cap Edits)
  /\ UNCHANGED <<durable, mode, todo, pre, owned, seen, made, edits, gitOps, faults>>

\* The preflight that decides nothing here: output validation, the branch,
\* the state directory, Syncthing conflict files, and a dry run.
Refuse == At("check") /\ Return

\* Variant: pending journals are not looked for.
CanStartDespitePending ==
  /\ Staged = {} /\ job.changed # {}
  /\ job.adopted # 0 => job.adopted \in Dirty /\ work[job.adopted] = job.old[job.adopted]
  /\ (job.requested \ {job.adopted}) \cap Dirty = {}

\* The preflight on journals, index and working tree.
CanStart ==
  /\ Pending = {} /\ Staged = {} /\ job.changed # {}
  /\ job.adopted # 0 => job.adopted \in Dirty /\ work[job.adopted] = job.old[job.adopted]
  /\ (job.requested \ {job.adopted}) \cap Dirty = {}

Preflight ==
  /\ At("check")
  /\ IF CanStart THEN Goto("baseline") /\ Local /\ UNCHANGED locals ELSE Return

TakeBaseline ==
  /\ At("baseline") /\ Goto("backup") /\ Local
  /\ job' = [job EXCEPT !.old = [p \in Paths |->
               IF p \in job.changed /\ p # job.adopted THEN work[p] ELSE job.old[p]]]
  /\ UNCHANGED <<todo, pre, owned, seen>>

\* A target that exists is copied and the copy compared with its baseline; a
\* target that does not exist is not compared.
Backup ==
  /\ At("backup")
  /\ IF \E p \in job.changed : work[p] \notin {Absent, job.old[p]}
     THEN Return
     ELSE /\ Goto("journal")
          /\ backups' = [backups EXCEPT ![cur] =
               [p \in Paths |-> IF p \in job.changed THEN work[p] ELSE Absent]]
          /\ UNCHANGED <<work, index, log, phase, journal, commitHash, control, locals, env>>

WriteJournal ==
  /\ At("journal") /\ Goto("guard")
  /\ phase' = [phase EXCEPT ![cur] = "prepared"]
  /\ journal' = [journal EXCEPT ![cur] =
       [head |-> Tip, changed |-> job.changed, old |-> job.old, new |-> job.new]]
  /\ todo' = job.changed /\ job' = NoJob
  /\ UNCHANGED <<work, index, log, commitHash, backups, control, pre, owned, seen, env>>

-----------------------------------------------------------------------------
(* execute_transaction, from the first replacement to the commit *)

First(p) == p \in todo /\ \A q \in todo : p <= q
Last(p) == p \in todo /\ \A q \in todo : p >= q

\* Variant: no hash recheck before the replacement.
GuardNothing == At("guard") /\ Goto("replace") /\ Local /\ UNCHANGED locals

GuardTarget ==
  /\ At("guard")
  /\ \E p \in Paths : First(p) /\ IF work[p] = journal[cur].old[p]
                                  THEN Goto("replace") /\ Local /\ UNCHANGED locals
                                  ELSE Raise

ReplaceTarget ==
  /\ At("replace") /\ Goto("written")
  /\ \E p \in Paths : First(p) /\ work' = [work EXCEPT ![p] = journal[cur].new[p]]
  /\ UNCHANGED <<index, log, phase, journal, commitHash, backups, control, locals, env>>

RecordWritten ==
  /\ At("written")
  /\ \E p \in Paths : First(p) /\ todo' = todo \ {p}
  /\ Record("replacing", IF Cardinality(todo) = 1 THEN "replaced" ELSE "guard")
  /\ UNCHANGED <<job, pre, owned, seen>>

RecordReplaced == At("replaced") /\ Record("replaced", "verify") /\ UNCHANGED locals

VerifyReplaced ==
  /\ At("verify")
  /\ IF OutputsInPlace(cur) THEN Goto("indexFree") /\ Local /\ UNCHANGED locals ELSE Raise

CheckIndexFree ==
  /\ At("indexFree")
  /\ IF Staged = {} THEN Goto("stage") /\ Local /\ UNCHANGED locals ELSE Raise

\* git add -A -- paths: refused when a path is neither a file nor tracked.
Stage ==
  /\ At("stage")
  /\ IF \E p \in journal[cur].changed : work[p] = Absent /\ index[p] = Absent
     THEN Raise
     ELSE /\ Goto("verifyStaged")
          /\ index' = [p \in Paths |-> IF p \in journal[cur].changed THEN work[p] ELSE index[p]]
          /\ UNCHANGED <<work, log, phase, journal, commitHash, backups, control, locals, env>>

VerifyStaged ==
  /\ At("verifyStaged")
  /\ IF StagedOutputsMatch(cur) THEN Record("staged", "recheck") /\ UNCHANGED locals ELSE Raise

\* Variant: the working tree is not looked at again after staging.
RecheckNothing == At("recheck") /\ Goto("recheckStaged") /\ Local /\ UNCHANGED locals

RecheckOutputs ==
  /\ At("recheck")
  /\ IF OutputsInPlace(cur) THEN Goto("recheckStaged") /\ Local /\ UNCHANGED locals ELSE Raise

RecheckStaged ==
  /\ At("recheckStaged")
  /\ IF StagedOutputsMatch(cur) THEN Record("committing", "commit") /\ UNCHANGED locals ELSE Raise

\* git commit --only -- paths: the tree of HEAD with these paths as the working
\* tree has them now; refused when that changes nothing or a path is unknown.
CommitTree == [p \in Paths |-> IF p \in journal[cur].changed THEN work[p] ELSE HeadTree[p]]

CommitRefused ==
  \/ CommitTree = HeadTree
  \/ \E p \in journal[cur].changed : {work[p], index[p], HeadTree[p]} = {Absent}

IndexAfterCommit == [p \in Paths |-> IF p \in journal[cur].changed THEN work[p] ELSE index[p]]

Commit ==
  /\ At("commit")
  /\ IF CommitRefused
     THEN Raise
     ELSE /\ Goto("readHead")
          /\ log' = Append(log, [tree |-> CommitTree, txn |-> cur])
          /\ index' = IndexAfterCommit
          /\ UNCHANGED <<work, phase, journal, commitHash, backups, control, locals, env>>

\* git rev-parse HEAD, after the commit command has returned.
ReadHead ==
  /\ At("readHead") /\ Goto("verifyCommit") /\ Local
  /\ seen' = Tip
  /\ UNCHANGED <<job, todo, pre, owned>>

CommittedPaths(i) ==
  {p \in Paths : log[i].tree[p] # (IF i = 1 THEN NoFiles ELSE log[i - 1].tree)[p]}

\* Variant: the exception handler forgets that the commit was made.
VerifyCommitOrRollBack ==
  /\ At("verifyCommit")
  /\ IF CommittedPaths(seen) = journal[cur].changed
     THEN Goto("committed") /\ Local /\ UNCHANGED locals
     ELSE Raise

\* A commit of other paths raises with the journal left at "committing".
VerifyCommit ==
  /\ At("verifyCommit")
  /\ IF CommittedPaths(seen) = journal[cur].changed
     THEN Goto("committed") /\ Local /\ UNCHANGED locals
     ELSE Return

RecordCommitted ==
  /\ At("committed") /\ Goto("complete")
  /\ phase' = [phase EXCEPT ![cur] = "committed"]
  /\ commitHash' = [commitHash EXCEPT ![cur] = seen]
  /\ UNCHANGED <<work, index, log, journal, backups, control, locals, env>>

RecordComplete == At("complete") /\ Record("complete", "cleanup") /\ UNCHANGED locals

Cleanup ==
  /\ At("cleanup") /\ Forget
  /\ backups' = [backups EXCEPT ![cur] = NoFiles]
  /\ UNCHANGED <<work, index, log, phase, journal, commitHash, env>>

-----------------------------------------------------------------------------
(* _rollback and _restore, called by both functions *)

RollbackOwned ==
  /\ At("owned")
  /\ IF StagedOutputsAreOwned(cur)
     THEN Goto("preflight") /\ Local /\ owned' = Staged /\ UNCHANGED <<job, todo, pre, seen>>
     ELSE GiveUp

RestorePreflight ==
  /\ At("preflight")
  /\ IF Restorable(cur)
     THEN /\ Goto("inspect") /\ Local
          /\ todo' = journal[cur].changed
          /\ pre' = [p \in Paths |-> IF p \in journal[cur].changed THEN work[p] ELSE Absent]
          /\ UNCHANGED <<job, owned, seen>>
     ELSE GiveUp

\* The next target, in reverse order: stop if it moved since the preflight,
\* skip it if it is already old.
InspectTarget ==
  /\ At("inspect")
  /\ \/ todo = {} /\ Goto("reown") /\ Local /\ UNCHANGED locals
     \/ \E p \in Paths :
          /\ Last(p)
          /\ CASE work[p] # pre[p] -> GiveUp
               [] work[p] = pre[p] /\ work[p] = journal[cur].old[p] ->
                    /\ Goto("inspect") /\ Local
                    /\ todo' = todo \ {p} /\ UNCHANGED <<job, pre, owned, seen>>
               [] OTHER -> Goto("restore") /\ Local /\ UNCHANGED locals

\* unlink, or os.replace with a verified copy of the backup.
RestoreTarget ==
  /\ At("restore") /\ Goto("verifyRestored")
  /\ \E p \in Paths : Last(p) /\ work' = [work EXCEPT ![p] = journal[cur].old[p]]
  /\ UNCHANGED <<index, log, phase, journal, commitHash, backups, control, locals, env>>

VerifyRestored ==
  /\ At("verifyRestored")
  /\ \E p \in Paths :
       /\ Last(p)
       /\ IF work[p] = journal[cur].old[p]
          THEN /\ Goto("inspect") /\ Local
               /\ todo' = todo \ {p} /\ UNCHANGED <<job, pre, owned, seen>>
          ELSE GiveUp

RecheckOwned ==
  /\ At("reown")
  /\ IF StagedOutputsAreOwned(cur) /\ Staged = owned
     THEN Goto("unstage") /\ Local /\ UNCHANGED locals
     ELSE GiveUp

\* Variant: the files are restored, the index is not.
UnstageNothing == At("unstage") /\ Goto("rolledBack") /\ Local /\ UNCHANGED locals

\* git restore --staged, or git rm --cached before the first commit.
Unstage ==
  /\ At("unstage") /\ Goto("rolledBack")
  /\ index' = [p \in Paths |-> IF p \in owned THEN HeadTree[p] ELSE index[p]]
  /\ UNCHANGED <<work, log, phase, journal, commitHash, backups, control, locals, env>>

\* Variant: a phase no reader of the journal knows.
RecordRolledBackMisspelt ==
  /\ At("rolledBack") /\ Forget
  /\ phase' = [phase EXCEPT ![cur] = "rolled-back"]
  /\ UNCHANGED <<work, index, log, journal, commitHash, backups, env>>

\* apply_recovery removes the backups, execute_transaction re-raises.
RecordRolledBack ==
  /\ At("rolledBack")
  /\ phase' = [phase EXCEPT ![cur] = "rolled_back"]
  /\ IF mode = "recover" THEN Goto("cleanup") /\ UNCHANGED <<control, locals>> ELSE Forget
  /\ UNCHANGED <<work, index, log, journal, commitHash, backups, env>>

-----------------------------------------------------------------------------
(* apply_recovery; a plan of "manual" only raises and is no step here *)

Recover(t) ==
  /\ At("idle") /\ phase[t] # "none" /\ Plan(t) # "manual"
  /\ mode' = "recover" /\ cur' = t
  /\ Goto(CASE Plan(t) = "none" -> "cleanup" [] Plan(t) = "rollback" -> "owned"
            [] Plan(t) = "finalize" -> "finalize")
  /\ seen' = IF commitHash[t] # 0 THEN commitHash[t] ELSE IF DetectedCommit(t) THEN Tip ELSE 0
  /\ UNCHANGED <<durable, job, todo, pre, owned, env>>

Finalize ==
  /\ At("finalize") /\ Goto("cleanup")
  /\ phase' = [phase EXCEPT ![cur] = "complete"]
  /\ commitHash' = [commitHash EXCEPT ![cur] = seen]
  /\ UNCHANGED <<work, index, log, journal, backups, control, locals, env>>

-----------------------------------------------------------------------------
(* Failures and the environment *)

\* A disk or Git error: before the commit it starts the rollback; inside the
\* rollback execute_transaction records "manual" and apply_recovery just raises.
Fail ==
  /\ faults < MaxFaults /\ faults' = faults + 1
  /\ \/ /\ pc \in {"replace", "stage", "commit"} /\ Goto("owned")
        /\ UNCHANGED <<durable, control, locals>>
     \/ /\ pc \in {"owned", "restore", "reown", "unstage"} /\ Forget
        /\ phase' = IF mode = "execute" THEN [phase EXCEPT ![cur] = "manual"] ELSE phase
        /\ UNCHANGED <<work, index, log, journal, commitHash, backups>>
  /\ UNCHANGED <<made, dropped, edits, gitOps>>

\* git commit, or the rev-parse after it, that reports an error although the
\* branch has moved: the new index could not be written, or git was killed.
CommitFailsLate ==
  /\ At("commit") /\ ~CommitRefused
  /\ faults < MaxFaults /\ faults' = faults + 1
  /\ Goto("owned")
  /\ log' = Append(log, [tree |-> CommitTree, txn |-> cur])
  /\ index' \in {index, IndexAfterCommit}
  /\ UNCHANGED <<work, phase, journal, commitHash, backups, control, locals, made, dropped, edits, gitOps>>

Crash ==
  /\ ~At("idle") /\ faults < MaxFaults /\ faults' = faults + 1
  /\ Forget
  /\ UNCHANGED <<durable, made, dropped, edits, gitOps>>

\* A new content, a deletion, or the committed content put back.
ExternalEdit ==
  /\ edits < MaxEdits /\ pc \notin Quiet
  /\ \E p \in Paths : \E c \in (Edits \ made) \cup {Absent, HeadTree[p]} :
       /\ work[p] # c
       /\ work' = [work EXCEPT ![p] = c]
       /\ made' = made \cup ({c} \cap Edits)
       /\ dropped' = dropped \cup ({work[p]} \cap Edits)
  /\ edits' = edits + 1
  /\ UNCHANGED <<index, log, phase, journal, commitHash, backups, volatile, gitOps, faults>>

ExternalStage ==
  /\ gitOps < MaxGitOps /\ pc \notin Quiet
  /\ \E p \in Paths : index[p] # work[p] /\ index' = [index EXCEPT ![p] = work[p]]
  /\ gitOps' = gitOps + 1
  /\ UNCHANGED <<work, log, phase, journal, commitHash, backups, volatile, made, dropped, edits, faults>>

ExternalCommit ==
  /\ gitOps < MaxGitOps /\ pc \notin Quiet
  /\ Staged # {}
  /\ log' = Append(log, [tree |-> index, txn |-> 0])
  /\ gitOps' = gitOps + 1
  /\ UNCHANGED <<work, index, phase, journal, commitHash, backups, volatile, made, dropped, edits, faults>>

-----------------------------------------------------------------------------
Execute ==
  \/ Refuse \/ Preflight \/ TakeBaseline \/ Backup \/ WriteJournal
  \/ GuardTarget \/ ReplaceTarget \/ RecordWritten \/ RecordReplaced
  \/ VerifyReplaced \/ CheckIndexFree \/ Stage \/ VerifyStaged
  \/ RecheckOutputs \/ RecheckStaged \/ Commit \/ ReadHead \/ VerifyCommit
  \/ RecordCommitted \/ RecordComplete \/ Cleanup

Rollback ==
  \/ RollbackOwned \/ RestorePreflight \/ InspectTarget \/ RestoreTarget
  \/ VerifyRestored \/ RecheckOwned \/ Unstage \/ RecordRolledBack

External == ExternalEdit \/ ExternalStage \/ ExternalCommit

Next ==
  \/ Begin \/ Execute \/ Rollback \/ Finalize
  \/ \E t \in TxnIds : Recover(t)
  \/ Fail \/ Crash \/ External

\* A git commit that fails has not moved the branch ...
Spec == Init /\ [][Next]_vars

\* ... or may have.
LateFailureSpec == Init /\ [][Next \/ CommitFailsLate]_vars

\* A running call goes on until it returns, and whoever is told that a journal
\* is pending keeps running `memory recover --apply` until the lock is theirs.
RecoverPending == \E t \in Pending : Recover(t)
FairSpec == Spec /\ WF_vars(Execute \/ Rollback \/ Finalize) /\ SF_vars(RecoverPending)
-----------------------------------------------------------------------------
(* Properties *)

Phases == {"none", "prepared", "replacing", "replaced", "staged", "committing",
           "committed", "complete", "rolled_back", "manual"}
ExecutePcs == {"check", "baseline", "backup", "journal", "guard", "replace", "written",
               "replaced", "verify", "indexFree", "stage", "verifyStaged", "recheck",
               "recheckStaged", "commit", "readHead", "verifyCommit", "committed", "complete"}
RollbackPcs == {"owned", "preflight", "inspect", "restore", "verifyRestored", "reown",
                "unstage", "rolledBack"}
Pcs == {"idle", "finalize", "cleanup"} \cup ExecutePcs \cup RollbackPcs

DurableOK ==
  /\ work \in Files /\ index \in Files
  /\ log \in Seq([tree : Files, txn : TxnIds \cup {0}])
  /\ phase \in [TxnIds -> Phases]
  /\ journal \in [TxnIds -> [head : Nat, changed : SUBSET Paths, old : Files, new : Files]]
  /\ commitHash \in [TxnIds -> Nat]
  /\ backups \in [TxnIds -> Files]

CallOK ==
  /\ pc \in Pcs /\ mode \in {"execute", "recover"} /\ cur \in TxnIds \cup {0}
  /\ pc # "idle" => cur \in TxnIds
  /\ job \in [requested : SUBSET Paths, changed : SUBSET Paths, adopted : Paths \cup {0},
              old : Files, new : Files]
  /\ todo \in SUBSET Paths /\ pre \in Files /\ owned \in SUBSET Paths /\ seen \in Nat

EnvOK ==
  /\ made \in SUBSET Edits /\ dropped \in SUBSET Edits
  /\ edits \in Nat /\ gitOps \in Nat /\ faults \in Nat

\* Every variable holds a value of its kind: a hash, a set of managed paths, a
\* phase that readers of the journal know.
TypeOK == DurableOK /\ CallOK /\ EnvOK

\* At most one journal is ever undecided: a transaction that crashed or needs
\* manual resolution blocks every later one, whatever crashes come between.
OnePending == \A t, u \in Pending : t = u

\* The journal's verdict is the branch's: "complete" means committed,
\* "rolled_back" means never committed, and nothing is committed twice; recovery
\* does not undo a commit it finds, nor finish one that was not made.
CommitDecides ==
  \A t \in TxnIds :
    /\ phase[t] = "complete" => Commits(t) # {}
    /\ phase[t] = "rolled_back" => Commits(t) = {}
    /\ \A i, j \in Commits(t) : i = j

\* Every update is decided once, by its commit or by being abandoned.
Status(t) ==
  IF phase[t] = "rolled_back" THEN "abandoned"
  ELSE IF Commits(t) # {} THEN "committed"
  ELSE IF phase[t] = "none" THEN "unborn" ELSE "open"

Abstract == INSTANCE AtomicUpdate
  WITH Updates <- TxnIds,
       status <- [t \in TxnIds |-> Status(t)],
       history <- [i \in 1..Len(log) |-> log[i].txn]

ImplementsAtomicUpdate == Abstract!ASpec

\* An old content the program has overwritten can be put back for as long as
\* the transaction is undecided: its backup is neither missing nor removed.
BackupsHeld ==
  \A t \in Pending : \A p \in journal[t].changed :
    /\ work[p] = journal[t].new[p] /\ journal[t].new[p] # Absent
    /\ journal[t].old[p] \notin {Absent, journal[t].new[p]}
    => backups[t][p] = journal[t].old[p]

\* Nothing the user or a sync wrote is destroyed by the program: unless they
\* replaced it or handed it over themselves, it is in the vault, staged,
\* committed, or in a backup.
Kept(c) ==
  \E p \in Paths :
    \/ c \in {work[p], index[p]}
    \/ \E i \in 1..Len(log) : log[i].tree[p] = c
    \/ \E t \in TxnIds : backups[t][p] = c
NoEditLost == \A c \in made \ dropped : Kept(c)

\* A commit of the program holds its validated outputs in the transaction's
\* paths and its parent's content in every other path.
CommitIsOwn ==
  \A t \in TxnIds : \A i \in Commits(t) : \A p \in Paths :
    log[i].tree[p] = IF p \in journal[t].changed THEN journal[t].new[p]
                     ELSE (IF i = 1 THEN NoFiles ELSE log[i - 1].tree)[p]

\* A rolled back transaction leaves no output behind, in the vault or staged,
\* unless somebody else committed it meanwhile.
RollbackIsTotal ==
  \A t \in TxnIds : phase[t] = "rolled_back" =>
    \A p \in journal[t].changed :
      LET c == journal[t].new[p]
      IN  c \in {work[p], index[p]} \ {Absent, journal[t].old[p]}
            => \E i \in 1..Len(log) : log[i].tree[p] = c

\* With nobody else at work no crash or failure leaves a journal that recovery
\* calls ambiguous ...
AlwaysRecoverable == At("idle") => \A t \in Pending : Plan(t) # "manual"

\* ... and a decided transaction leaves a clean vault: the next one can start.
DecidedIsClean == At("idle") /\ Pending = {} => Dirty = {}

\* ... and, if recovery is run, every journal is decided in the end.
RecoveryConverges ==
  \A t \in TxnIds : phase[t] # "none" ~> phase[t] \in Terminal
=============================================================================

# agent-memory in TLA+

A verification project for `agent_memory`: a command-line program that keeps a
shared Markdown vault for several coding agents. The vault is a Git repository
that people edit in Obsidian and that Syncthing synchronises, at any moment and
without asking; the program's own writes must live with that, with crashes and
with each other.

Paths below are relative to `src/agent_memory/` unless they start with `docs/`
or `tests/`.

## 1. Inventory

| Component | State it keeps | Operations | What must be true of it |
|---|---|---|---|
| **Transaction engine** (`transactions.py`, `git.py`) | working tree, Git index and branch; `journal.json` and `backups/` of each transaction, outside the vault | `execute_transaction`, its `_rollback`, `recovery_plan`, `apply_recovery` | an update is committed once as a whole or not at all; nothing of the user is overwritten or committed; every crash is recoverable |
| **Lifecycle queue** (`lifecycle.py`) | `ready/`, `claimed/`, `failed/` | `build_descriptor`, `publish_descriptor`, `claim_descriptor`, `delete_fsynced` | an accepted event is never lost and the directories never disagree about it |
| **Worker** (`worker.py`, `systemd.py`) | `worker.lock`, `failed/` records, notifications | `drain_once`, `retry_failed` | exactly-once materialisation in spite of crashes and retries; the drain ends |
| **Session materialisation** (`sessions.py`) | `sessions/**.md`, `system/status.md` | `materialize_descriptor`, `recover_incomplete` | idempotent per event; checkpoints are appended; a closed session stays closed |
| **Access audit** (`audit.py`) | a spool and a cursor per session | `append_access_event`, `capture_offset`, `read_access_events`, `advance_cursor` | every access record reaches the session file once; the cursor acknowledges only committed rows |
| **Writer lock** (`locking.py`) | `writer.lock` with its holder's metadata | `writer_lock` | one managed writer at a time; a dead holder blocks nobody |
| **Hermes adapter** (`hermes_adapter.py`, `hermes.py`, `adapters/hermes`) | `adapter-state/` file: session records, pending compression and finalisations | `bind_session`, `publish_compression`, `finalize_session`, `_complete_pending` | one injection and one start per session; each committed compression is published once, with consecutive boundaries |
| **Concept mutations** (`mutations.py`) | `memory/concepts`, the indexes, `log.md` | `apply_operations`, `reconcile_concept`, `rebuild_index` | identities and titles stay unique, links stay resolved, indexes agree with the concepts |
| **Initialisation** (`initialization.py`) | a new vault | `initialize_vault` | nothing existing is replaced |
| **Pi adapter** (`pi_adapter.py`, `adapters/pi`) | none that lasts | builds and publishes descriptors | as for the queue |
| **CLI** (`cli.py`, `config.py`) | configuration | dispatch under the locks | every managed write holds the writer lock |
| **Reading** (`vault.py`, `validation.py`, `markdown.py`, `models.py`, `search.py`, `secrets.py`) | none | pure functions | - |

How they interact. Hooks of the agents append access records to the spool and
publish descriptors into `ready/` under the publication lock. A systemd path
unit starts `memory worker --once` while `ready/` or `claimed/` is not empty;
the worker, under `worker.lock`, claims one descriptor at a time and
materialises it under `writer.lock` through the transaction engine, then moves
the cursor and deletes the descriptor, or moves it to `failed/`. The CLI's
mutations, `memory session recover`, `memory recover --apply` and the worker's
error log take the same writer lock. Obsidian, Syncthing and the user's own Git
commands take no lock.

What is hard here: checks of files and of the index that may be stale one
statement later; a commit made of several files, an index, a branch and a
journal with a crash possible between any two writes; a recovery that must
infer what happened and may crash itself; at-least-once delivery made
exactly-once by markers inside the very file that a rollback may take back;
events out of order; retries while newer work is queued. Each such place is a
hazard in `PROJECT.json` with the properties that watch it.

## 2. Modules

| Module | What it is |
|---|---|
| `AtomicUpdate` | abstract: an update is opened, then decided once, by one commit or by being abandoned |
| `Transaction` | the engine: one step per write of a file, the index, the branch, a journal or the backups |
| `MCTransaction` | constants for TLC |
| `TransactionProofs`, `TransactionRefinement` | proofs: journals, commits and the refinement of `AtomicUpdate` |
| `TransactionSafety` | proofs: contents, that is commits, backups, edits of others, rollbacks, recoverability |
| `SessionFile` | operators: what materialising one event makes of a session file (no state) |
| `DeliveryLog` | abstract: an accepted event is recorded once at most, checkpoints only grow, the status only moves forward |
| `Lifecycle` | hooks, queue, worker, materialisation, cursor, retry, recovery and other writers; uses `SessionFile` |
| `MCLifecycle` | constants for TLC |
| `SessionFileProofs` | proofs: laws of `SessionFile` |
| `LifecycleProofs` | proofs: types and the queue directories, whether or not anybody recovers |
| `LifecycleRefinement` | proofs: the refinement of `DeliveryLog`, and that nothing is lost until the worker is misled |
| `HermesAdapter` | session bindings, compressions and finalisations of the Hermes plugin and gateway hook |
| `MCHermesAdapter` | constants for TLC |
| `HermesProofs` | proofs about `HermesAdapter` |
| `Mutations` | batches of concept operations, reconciliation, index rebuilds and the creation of a vault, among a user's edits and commits |
| `MCMutations` | constants for TLC |
| `MutationsProofs` | proofs about `Mutations` |

### Transaction

`work`, `index` and `log` are the working tree, the Git index and the branch;
`phase`, `journal` and `commitHash` are `journal.json`; `backups` is the
directory of that name. These survive a crash. `pc` and the other volatile
variables are one running call, in the order of the statements of
`execute_transaction` (406-608), `_rollback`/`_restore` (341-392) or
`apply_recovery` (647-668); `Forget` ends it. A SHA-256 hash is identified with
the content hashed.

- *Grain.* Each write of a file, the index, the branch, a journal or the backup
  directory is a step. A loop that only reads (the dirty check, the hashes
  before the commit) is one step, at one point of time. That loses no final
  state which differs in kind: an edit of path `p` in the middle of such a loop
  comes after or before the read of `p`, and commutes with the reads of the
  other paths, so it may be moved to before or after the loop. Edits of two
  paths whose order that swaps are independent. Copying backups is one step for
  the same reason, as nobody else reads the directory.
- *Environment.* `ExternalEdit` writes a fresh content, deletes a file or puts
  the committed content back; `ExternalStage` and `ExternalCommit` are the
  user's Git. `Quiet` names the program points at which a run assumes them
  still; it is empty in `txn_races`, and a theorem names the points that it needs.
- *Failures.* `Crash` forgets the volatile variables anywhere. `Fail` is a disk
  or Git error at a step that writes. `CommitFailsLate` is a `git commit` (or
  the `rev-parse` behind it) that reports an error after the branch has moved;
  it belongs to `LateFailureSpec` only.
- *Abstracted.* Output validation, branch and state-directory checks and
  conflict files are one nondeterministic `Refuse`. `fsync` does what it says:
  power loss is a crash. Only one writer is inside the engine (the writer lock,
  taken by every caller).

### SessionFile and Lifecycle

One session. An event is its number in the order of `_order`; a descriptor
differs from another of the same event by the audit offset captured when it was
built, which is what `publish_descriptor` compares. `ready`, `claimed` and
`failed` map each event to the offset in the file of its name, or to `NoFile`.
A session file is abstracted to what the code reads back from it: `known`
(markers), `checkpoints`, `rows` (access events) and `status`; `tree` is the
file in the working tree, `head` the committed one.

`materialize_descriptor` is `LoadDuplicate`/`LoadNew`/`LoadRefused`, `Replace`,
`Commit`, `Complete`, `Advance`; the transaction inside it is used as
`Transaction` shows it to be, a journal that is "open" until its commit and
"committed" until it is complete. `drain_once` adds claiming, `Delete`,
`DeleteMatchingFailed`, and on failure `StoreFailed`, `Unclaim` (the two halves of
`_store_failed`) and `RecordError`. `retry_failed` is `RetryAll`/`RetryOne`, then
`Republish` and `Unfail` for each file. `Recover`, `MarkIncomplete` and the two
crashing writers are other processes that need the writer lock, so each is one
step at any point where the worker does not hold it (`WriterHeld`). A
publication is one step because of the publication lock.

Failures: `Raised` is an exception anywhere in the materialisation, after which
the worker tries again in the same drain (`RaisedRetryable`) or gives the event up.
Before the commit the transaction rolls back, and that may fail as well
(`RolledBack`, `transactions.py` 598-608): then the journal stays open, with the
session file restored or not, and the next try meets it. After the commit nothing
is undone. A `git commit` that fails here has not moved the branch; the other case
is `txn_late_commit` of `Transaction`. That the rollback of `_record_error`'s
transaction fails is the same as `OtherWriteCrashes`. `Recover` ends an open
journal; one that recovery calls ambiguous is a `Recover` that is never taken.

`LoadDuplicate` is where the code decides from the working tree that an event has
been written already. `misled` remembers whether it ever did so while the file in
the working tree was not the committed one: after a crash, or after a rollback that
failed. What may be lost from then on is shown by `lc_lost_checkpoint`; that nothing is
lost before, by `lc_delivery` and the proofs.
`ImplementsDeliveryLog`, `QueuesAgree` and `OneClaim` hold with and without it.
`RecoverFirst` says whether operators run `memory recover --apply` before each
drain. The code does not enforce that, and it would not be enough (see the
disagreements); only `lc_audit_limit` assumes it, to show that the limit needs no
open journal.

Abstracted: other sessions (their files and cursors are separate; what they
share is the writer lock and a pending journal, which `OtherWriteCrashes`
leaves), notifications, malformed or hand-edited files in the queue, torn spool
records, `system/status.md`, the texts.

### HermesAdapter

`records` is the state file: per native session its `logical` session, the
`boundary` (`message_row_id`), `injected`, `started`, the `last` compression and
the pending descriptors. A command runs under the state lock, so `call`, `desc`
and `pc` are the one that runs; each save, publication and spool append is a
step, and `Killed` ends the command between any two (the plugin and the hook give
it 1.5 s). `CompletePublish`/`CompleteSave` are `_complete_pending`, which a
binding and a compression run first for all records; `BindRefused` to `Deliver` are
`bind_session`, `BindBoundary` to `CompressSaved` `publish_compression`,
`BeginFinalize` and `FinalizeSaved` `finalize_session`. What the code changes in
memory and saves in the next statement is one step, because only the file
outlives the command.

`rows` is the host's message table, where a row is its session and whether it
carries a summary; `compressions` are those the host has committed, in the order
in which the gateway passes them on (`signalled`), loses them (`SignalLost`) or
passes the last one on again. `published` remembers every compression that was
queued, `queued` those still in the queue, `failed` those of them in `failed/`. The
worker takes what is ready (`Drained`) or puts it aside (`WorkerFails`), and what it
has put aside stays until an operator retries it (`Retried`). A descriptor's identity
is what `_identity` hashes; `Conflicts` is the refusal of `publish_descriptor`, which
looks at all three directories.

`BindRefused` is a binding that contradicts the host's store or the record in its
platform, sender or chat type, or has no model (`hermes_adapter.py` 340-381); it may
hit a new session and one that a deferred binding has recorded. Which values contradict
each other is left out, and so are notifications, the text of summaries and
finalisation reasons (one per session).

The host compresses any session it has opened (`HostCompress`). Nothing is asked of
the binding of that session: `pre_llm_call` lets the LLM call through when its hook
fails (`adapters/hermes/__init__.py` 114-128), so a session whose binding was killed
or refused can be compressed before it was given the index. `early` remembers the
lineages in which that happened.

`InOrder` delays one thing: the binding of a session that continues another comes
after the signal of the compression that opened it was passed on or lost
(`BeginBind`). The plugin does not enforce that; `hm_orphan` drops it.

### Mutations

`work` and `head` map each file to its content in the working tree and at HEAD:
the concepts, the index (the title of every slug), the log and one note that
stands for any other Markdown file. A concept is its normalised title, its body,
the slugs it links to, the texts it was verified for (`Wording`: title, body and
links), and which of the managed fields were written by hand (`forged`). A rename
rewrites the links of other concepts and leaves their verification in force; what
they were verified for follows it (`Relinked`). What else counts as a meaningful change
(type, description, scope, resource, sources) changes with the body.

A batch (`Begin`, `Operation`, `Render`) keeps three views, as
`apply_operations` does: `working`, the concepts of the working tree with the
operations applied; `planned`, those of HEAD; and `outputs`, the files to write.
`Create`, `Update`, `Verify`, `Delete` and `Rename` are the five branches of its
loop; `Rename` contains `_rewrite_links`, where `Current` is the text it reads
(outputs first, then the disk) and `Following` what it does to the two views.
`Reconcile`, `RebuildIndex` and `Initialize` compute their outputs in one step.
A text that a caller gives links to concepts that the batch sees (`Resolved`).
All end in `Execute` or `Refuse`: `execute_transaction` as `Transaction` shows it
to be, all or nothing, with its checks of uncommitted changes and of the adopted
edit. `committer` says which command made HEAD.

The user edits, deletes and commits files between any two steps; other commands
wait for the writer lock. `touched` are the files changed while a command runs.
`Undoing` says whether the user also commits during a command, or puts a file back
to what is committed; see the disagreements for why the run says no.

Abstracted: identities and authorisations (refusals), search candidates, dry
runs, dates of log entries, staged paths and pending journals (refusals).

## 3. Runs

All bounds are constants in guards (`MaxTxn`, `MaxEdits`, `MaxGitOps`,
`MaxFaults`; `MaxAccess`, `MaxBuilds`, `MaxFaults`; `MaxRows`,
`MaxCompressions`, `MaxAccess`, `MaxCalls`, `MaxFaults`; `MaxCommands`, `MaxOps`,
`MaxEdits`, `MaxGit`, and `MaxActs` for the last three together), never state
constraints.
`CHECK_DEADLOCK FALSE` is right everywhere: a vault on which nobody works any
more, or whose bounds are spent, stops.

| Run | Checks | States |
|---|---|---|
| `txn_races` | `TypeOK`, `OnePending`, `CommitDecides`, `RollbackIsTotal`, refinement of `AtomicUpdate`, with an environment that never waits | 2.5 M |
| `txn_quiet` | `NoEditLost`, `CommitIsOwn`, `BackupsHeld`, with late commit failures, two edits and two Git commands outside the windows | 6.5 M |
| `txn_recovery` | `AlwaysRecoverable`, `DecidedIsClean`, `RecoveryConverges`, three crashes or failures and no environment | 81 k |
| `lc_delivery` | `TypeOK`, `QueuesAgree`, `OneClaim`, `EventKeptUnlessMisled`, `AccessOnce`, `AccessKept`, refinement of `DeliveryLog`, with two crashes or failures, of the rollback too, and drains before and after a recovery; `WatchedDrains` with nobody recovering or retrying; `EventDelivered`, `AccessDelivered` if operators do | 0.5 M |
| `hm_adapter` | `TypeOK`, `IntervalsDisjoint`, `SummaryOnce`, `IndexOnce`, `NothingRebound`, `LineageKept`, with two compressions and two faults | 1.9 M |
| `hm_service` | `IndexArrives`, `UnfinishedCompletes`, with two faults | 0.5 M |
| `mut_batches` | `TypeOK`, `CandidatesAgree`, `IndexAgrees`, `DirtyUntouched`, `NoNewDuplicates`, `LinksFollow`, `NothingForged`, `VerifiedIsCurrent`, from an empty vault and from one with two linked concepts | 0.7 M |

Why the bounds are enough. Two paths: the smallest number for which a
transaction can be half done, and for which one path can be edited while
another is written; a third would be in the same position as one of these. Two
transactions: one that crashes and one that must be kept out or come after it.
The first may delete a file, the second creates or replaces. One fault in
`txn_races` interrupts execution *or* its rollback; `txn_quiet` has two, so that
a rollback fails as well; `txn_recovery` has three, so that a recovery of a
recovery is interrupted. Two edits are the smallest number for an edit that
hides another (delete and recreate). In `lc_delivery` two of
three events are published, or one of them twice with different offsets: a session
start and a checkpoint, which a session that is marked incomplete between them
survives as such, or one of these and a terminal event, in either order. Two access
records give an interval that can be split or overlap, two faults a failing try, with
or without a failing rollback, and another one or a crash. Two tries in place of the
code's `ATTEMPTS = 3` keep a first try that is repeated and a last one that is not; the
proofs hold for any number. `MAX_AUDIT_INTERVAL` is 1 MiB in the code; a bound of two
records is never exceeded, and a bound of one, in `lc_audit_limit`, is. That run and
`lc_lost_checkpoint` have a checkpoint and a terminal event.

In `HermesAdapter` two native sessions are a lineage with one rotation; two rows and
two compressions give two intervals, in place or rotated in either order, and two
commands a retry, a repeated signal, or a compression and a finalisation. There is
no search in `hm_adapter`; a single one, in `hm_service`, is enough to make a
rebuilt session start differ from the queued one. `hm_service` has one compression,
and two faults: a killed or refused command and an event that the worker puts aside,
or two of either. This reaches a session whose start is refused for ever, because
the first one it published is in `failed/`. A finalisation that is refused, as long
as an earlier one of the same session is queued, takes four calls: the signal of a
rotation, the finalisation of the session that goes on, the signal again after one
more row, which replaces that session's record, and the finalisation again.
`_complete_pending` then stops at it for every session. With four calls the faults
of `hm_service` are out of TLC's reach; with `MaxRows = 2`, `MaxAccess = 0`,
`MaxCalls = 4` and `MaxFaults = 0` (245 k states) `UnfinishedCompletes` holds as
well.

In `Mutations` three slugs and titles are a concept, another that links to it and
a place to move or a title to take. Three operations, edits and commits in all
(at most one of the last two) are a rename between two operations that it
interferes with, an edit that a command adopts or must leave alone, or two
operations over an edit; two commands are an initialisation before a batch, or an
adoption before or after it in the vault that has concepts. In that vault
everything links to one concept, and callers link to the other, to which nothing
links yet: so a batch may link to a concept that the user deletes while it runs.

*Fairness.* `FairSpec`: a running call goes on (weak fairness of its steps), and
whoever is told of a pending journal runs `memory recover --apply` again and
again until the lock is theirs (strong fairness, because other calls may hold it
between). Every managed write is refused meanwhile and says so, and `memory
doctor` names the journal. `ServiceSpec`: weak fairness of the worker's steps,
its start included, because the path unit has `DirectoryNotEmpty=` for `ready/`
and `claimed/` (`systemd.py` 76-79); systemd's start limit is not reached within
the faults of a run. `Operated` says that operators keep running `memory
recover` and `memory retry --all`; it is no part of `ServiceSpec` but the condition
under which `EventDelivered` and `AccessDelivered` promise delivery, as failed events
otherwise stay in `failed/` by design. `WatchedDrains` does not suppose it. `HostSpec`
adds for the Hermes adapter that a command under way goes on, that the worker
takes what is in `ready/` or `claimed/`, which `WatchedDrains` shows without any
operator, and that every open
session makes LLM calls again and again, each of which binds it. What the worker has
put aside in `failed/` is nobody's duty here: an operator may retry it or not. That
is why `IndexArrives` and `UnfinishedCompletes` suppose `<>[]~Stuck`: from some time
on no waiting descriptor is refused because of a different one of the same event in
`failed/`. Without that both would be false of the code: the session stays without
the index, or all bindings stay blocked, until `memory retry`. The number of killed and
refused commands is bounded, so both also suppose that refusals of a binding end.
Nothing is assumed fair of other hooks, faults or the environment.

### Disagreements found

Each of these runs is expected to end in a counterexample; each was confirmed by
running the Python code with the step in question injected.

| Run | What it shows |
|---|---|
| `txn_late_commit` | A `git commit` that fails after moving the branch is rolled back in the vault and journalled `rolled_back` while it is at HEAD. |
| `lc_lost_checkpoint` | After a crash before the commit a drain takes the uncommitted marker for a duplicate, deletes the descriptor, and recovery then rolls the checkpoint back. |
| `lc_audit_limit` | Past the audit limit every later event of the session fails for ever. |
| `hm_orphan` | A session bound before its compression is signalled stays outside the lineage if `_complete_pending`, and not `publish_compression` itself, ends the compression. |
| `hm_rotated` | After a compression has rotated a session, its searches are recorded under the native session ID while all events carry the logical one: no finalisation reaches them. |

The passing runs are stated for the circumstances in which these do not happen
(`Quiet`, `Spec` instead of `LateFailureSpec`, `~misled`, `MaxInterval`, `InOrder`,
`early`), so that they show what is right about the rest.

More disagreements were met and have no run of their own. All but the third and
fourth were confirmed by running the code.

1. *Baseline race.* An edit between the dirty check (`transactions.py:465`) and
   the reading of the baselines (474) becomes the baseline, is overwritten, and
   its backup is removed. `txn_quiet` with `Quiet <- AllButBaseline` and
   `NoEditLost` alone shows it. The narrow window the docs admit
   (`docs/technical-specification.md:811`) is a different one.
2. *Commit race.* `git commit --only` re-reads the files: an edit after the last
   check (567) is committed, unvalidated, as the program's. `txn_quiet` with
   `Quiet <- AllButCommit` and `CommitIsOwn` alone shows it.
3. With `Quiet` set to `Windows`, `BackupsHeld` of `txn_quiet` fails: a file that
   is missing only while backups are copied is replaced later with no backup to
   return to (`transactions.py:492`); this is why `txn_quiet` adds the backup
   step to the windows.
4. A session start that creates the session file becomes its first checkpoint,
   while one that comes later does not (`sessions.py:317`, `CheckpointsAfter`),
   although `docs/product-specification.md:233-239` does not count a start among
   what creates a checkpoint.
5. A Hermes session that is resumed after its finalisation is not finalised again
   (`hermes_adapter.py:641`, the key of the first one is kept), so what it searches
   then reaches no event, although access events are to be materialised "always
   on reset, `/new`, or finalization" (`docs/technical-specification.md:395`).
6. In a batch that updates or creates a concept and renames it afterwards, the log
   entry of the earlier operation links to the old name: `_rewrite_links` runs
   before the entries are in the log (`mutations.py:579`, 592), although a rename
   "updates all Markdown links inside the vault, affected indexes, the log, and
   Git in one transaction" (`docs/technical-specification.md:306`).
   `LogLinksFollow` of `Mutations` states it and fails with two operations.
7. Duplicate titles are looked for in the working tree only (`mutations.py:392`,
   472). While the title of `b` is changed and not committed, a create may take the
   title that `b` has at HEAD: HEAD and its index then hold it twice.
   `NoNewDuplicates` therefore speaks of HEAD for adoptions only.
8. A rename reads the texts of other files on disk. If a link to the old name was
   removed from one of them and the removal is not committed, HEAD keeps the link
   after the rename. `LinksFollow` therefore speaks of the working tree. It also
   leaves out what the user deletes while the batch runs (`Gone`): the batch may
   link to it, because texts are read when the command begins and only files that
   it writes are compared when it ends.
9. Texts are read when a command begins and compared with HEAD when it ends. An
   uncommitted edit of a concept that the user takes back meanwhile is committed
   with the batch without having been adopted; an edit that the user *commits*
   meanwhile is silently reverted by it. With `Undoing = TRUE`, `mut_batches`
   loses all its properties but `TypeOK` and
   `DirtyUntouched`.
10. `memory init` in a vault that has concepts but no index commits an empty one
    (`initialization.py:130`, 221); `IndexAgrees` leaves commits of `init` out.
11. *Failed rollback.* Neither a crash nor a drain over an open journal is needed to
    lose a checkpoint: a materialisation fails, its rollback fails as well
    (`transactions.py:598-608`), and the retry in the same drain (`worker.py:215-224`)
    takes the marker it has left for a duplicate, advances the cursor and deletes
    the descriptor. `lc_lost_checkpoint` with `RecoverFirst = TRUE` shows it.
12. *Second injection.* A session whose first binding was killed is continued by another
    before it was given the index, as `pre_llm_call` lets the LLM call through. The
    continuation copies `injected` as it was (`hermes_adapter.py:599`), and both sessions
    are given the index when they are bound, for one logical session, although
    "restart, resume, and rotated-session processing neither duplicate injection
    nor orphan checkpoints" (`docs/product-specification.md:414`).
    `hm_orphan` with `InOrder = TRUE` and `NoDuplicateInjection` shows it; `IndexOnce`
    leaves out the lineages to which this happens (`early`).

## 4. Proofs

Every theorem holds for all values of the constants that satisfy the named
assumptions of its module: bounds are naturals, contents are of their kinds, the
value for "absent" is none of the values it is told apart from, and a vault that
`Mutations` begins with is empty or has the index of its concepts. What a theorem
assumes beyond that is said below and in its ASSUME. All invariants of the passing
runs, and all action properties, are proved, some of them under stricter or
weaker circumstances than their run, as follows.

| Theorem | States | Assumes |
|---|---|---|
| `TypeCorrect`, `OnlyOnePending`, `CommitIsDecisive` | `TypeOK`, `OnePending`, `CommitDecides` | nothing; of `Spec` |
| `Refinement` | `ImplementsAtomicUpdate` | nothing; of `Spec` |
| `CommitAlwaysOwn` | `CommitIsOwn` | the environment is still at "recheckStaged" and "commit" |
| `BackupsAlwaysHeld` | `BackupsHeld` | still at "baseline" and "backup" |
| `NoEditEverLost` | `NoEditLost` | still at "baseline", "replace" and "restore"; no transaction renders what a user writes |
| `RollbackAlwaysTotal` | `RollbackIsTotal` | that, and no two transactions render the same |
| `AlwaysRecoverableAlone`, `DecidedAlwaysClean` | `AlwaysRecoverable`, `DecidedIsClean` | nobody else edits, stages or commits; of `Spec` |
| `MaterializeIdempotent` | materialising twice is materialising once | the file's rows are records |
| `LifecycleTypeCorrect`, `QueuesAlwaysAgree`, `OneClaimAlways` | `TypeOK`, `QueuesAgree`, `OneClaim` | nothing |
| `EventAlwaysKept`, `AccessAlwaysOnce`, `AccessAlwaysKept` | `EventKeptUnlessMisled`, `AccessOnce`, `AccessKept` | nothing; each says `~misled` itself |
| `LifecycleImplementsLog` | `ImplementsDeliveryLog` | nothing |
| `AdapterTypeCorrect`, `IntervalsAlwaysDisjoint`, `NothingEverRebound` | `TypeOK`, `IntervalsDisjoint`, `NothingRebound` | nothing |
| `IndexAlwaysOnce` | `IndexOnce` | nothing; it excepts `early` itself |
| `LineageAlwaysKept`, `SummaryAlwaysOnce` | `LineageKept`, `SummaryOnce` | `InOrder` |
| `MutationsTypeCorrect`, `DirtyAlwaysUntouched` | `TypeOK`, `DirtyUntouched` | nothing |
| `CandidatesAlwaysAgree`, `IndexAlwaysAgrees` | `CandidatesAgree`, `IndexAgrees` | `~Undoing` |
| `NeverNewDuplicates`, `LinksAlwaysFollow` | `NoNewDuplicates`, `LinksFollow` | `~Undoing` |
| `NothingEverForged`, `VerifiedAlwaysCurrent` | `NothingForged`, `VerifiedIsCurrent` | `~Undoing` |

### The transaction engine

`OnePending` and `CommitDecides` are not inductive: that a journal may become
"complete" or "rolled_back" depends on where the call is. `IInv` (`InvCorrect`)
adds `ControlInv` (from the journal to the commit the running transaction is
undecided and has no commit, from the commit to "complete" it is undecided and
has one; up to the journal it has none and nothing is pending) and `JournalInv`
(a commit lies above the HEAD its journal expects, and a recorded hash means
that there is one), which is what lets recovery trust `recovery_plan`: HEAD at
the expected parent means that nothing was committed. `InvNext` has one step per
action; `JournalsKept` and `PhaseMoved` carry the two frequent cases. For the
refinement `VisibleSteps` classifies every step by what it does to phases and
branch, and each class maps to one abstract action or to a stutter.

These, `AlwaysRecoverableAlone` and `DecidedAlwaysClean` are about `Spec`, in which
a failing `git commit` has not moved the branch; `txn_late_commit` shows that
`CommitDecides` needs this. The other theorems of `TransactionSafety` are about
`LateFailureSpec`, in which it may have. They rest on the weaker `CallInv`
(`CallInvariant`), which does not say whether there is a commit, only whether the
transaction is undecided, and keeps `OnePending`: that one needs no assumption on
`git commit`.

Each of them adds what the code knows between two of its statements:

- `CommitIsOwn`: `OutputsInv`, the outputs are in place from their verification
  to the commit. The windows are the two in which nobody looks again.
- `BackupsHeld`: `BackupInv`, from the baseline to the journal the working tree,
  the backup and the journal say the same of the old contents.
- `NoEditLost`: `EditInv`. An edit is in the vault, or committed, or given up by
  its user, and whatever the running call or a later recovery may overwrite is
  either no edit or committed (`Settled`). The run holds the environment still in
  more places than the theorem; the theorem needs only those in which the call
  overwrites by what it last read.
- `RollbackIsTotal`: `OutputInv`, `LeftInv` and `UndoneInv`. No output of a rolled
  back transaction is in the vault or staged, and no journal or running call
  would put it there: that is why two transactions must not render the same
  content, or one would rightly leave there what the other took back. Nobody is
  assumed still.
- `AlwaysRecoverable` and `DecidedIsClean`: `SoloInv` (`ShapeInvariant`) describes
  vault, index and branch at every point of execution, rollback and recovery, and
  says of every undecided transaction that it is undoable path by path, or
  committed and in place, after any number of crashes, so that a recovery of a
  recovery is included.

### Queue, worker and session file

`QueuesAgree` needs to know which files each point of the worker and of a retry
has just written or is about to remove (`WorkerInv`), and that offsets lie within
the spool (`HeldInv`, `OutboxInv`). It does not depend on recovery.

`FileInv` has two parts. `VaultInv` holds always: what lies in the working tree is
committed or has an open journal, and from the replacement to the commit it is what
materialising the event makes of the committed file. It needs nothing of recovery, and
a rollback that fails preserves it, because the journal stays open. `Acknowledged` holds
until the worker is misled: after "complete" the committed file knows the event and has
all rows up to its offset, and the cursor is within its rows. The only step that could
break it is `LoadDuplicate` over a tree that is not HEAD, which sets `misled`.
`EventKept` is inductive with these. `AccessOnce` is an induction over appended records, for
which `SessionFileProofs` proves that `InSpoolOrder` enumerates a finite set of
records in order (`RankSurjective`) and that the new rows are those after the old
ones. `MaterializeIdempotent` is why a crash between commit and deletion is
harmless. In the refinement `DeliveryLog`'s recorded events, pages and status
are the markers, checkpoints and status of the committed file: `Publish` accepts,
`Commit` records, `MarkIncomplete` gives up, and all other steps stutter. It rests on
`VaultInv` only, and so does not depend on `misled`.

### The Hermes adapter

`IInv` (`AdapterInvariant`) holds in whatever order the host calls: there is one
compression under way at most (`RecordInv`: a second one is only bound when
`_complete_pending` has ended the first), and what was published is behind the
boundary of every session of its lineage, or is the one under way
(`PublishedInv`). `IntervalsDisjoint` and `NothingRebound` follow, killed commands
and repeated signals included. `IndexInv` adds that a session without the index is
alone in its lineage, which has not been given it either, unless the lineage is in
`early`: a continuation copies `injected`, so this holds in whatever order the calls
come. Under `InOrder`, `LineageInv` adds that the session a compression continues in is
unbound or in the lineage, from which `SummaryOnce` follows across lineages.

### Concept commands

`TypeOK` and `DirtyUntouched` need only to know which command runs (`CommandInv`).
All else needs that what the user touches while a command runs becomes dirty and
stays so (`TouchedInv`), which is false with `Undoing`.

A batch may ask for anything while it has outputs that lie over uncommitted
changes, as it will be refused. `TitlesInv`, `LinksInv` and `OriginInv` are
therefore claimed of batches that can still be executed (`Clean`), and since every
operation may end that, they name witnesses: two candidates of one title stem from
two concepts of that title in the working tree, each itself or one that the batch
writes (`Behind`), and a link that leads nowhere stems from such a link there.
Without witnesses the claims are not inductive: an operation on one concept would
have to be excused by what another was before the batch. `ViewsInv` and `IndexInv`
carry `CandidatesAgree` to the commit, where `planned` is HEAD; `SingleInv` is what
`Reconcile`, `RebuildIndex` and `Initialize` computed in one step.

The attempt to prove `LinksFollow` in the form "only deletions of the batch leave a
link that leads nowhere" failed at the user who deletes, while a batch runs, what
it links to. The property now says so, and the vault of `mut_batches` lets it
happen.

### Only model-checked

Liveness, because TLAPS reasons about neither fairness nor ENABLED here:
`RecoveryConverges`, `EventDelivered`, `AccessDelivered`, `WatchedDrains`,
`UnfinishedCompletes` and `IndexArrives`. And the five disagreements,
which are counterexamples.

## 5. Not modelled, and the plan

In order:

1. `HermesAdapter` composed with the queue of `Lifecycle`, an abstract lineage
   log that it implements, and the isolation of summaries (`hermes.py`) as an
   operator.
2. Proofs: what of `CommitDecides` is left under `LateFailureSpec`; that vaults
   which commands have made satisfy `VaultsAssumption`, from the empty one.
3. Several sessions in `Lifecycle`, and notifications.

The writer lock is used as mutual exclusion that a crash releases, which is what
`flock` on a file that is never unlinked gives; the holder's metadata in it
decide nothing but the text of an error. The Pi extension keeps no state: what
it does to the queue are the actions `Build`, `Publish`, `Lose` and
`RecordAccess` of `Lifecycle`, where an event built again after a resumption is
included; that Pi keeps the message it was given is Pi's.

Left out for good: the text of the reading side (`vault.py`, `validation.py`,
`markdown.py`, `models.py`, `search.py`, `secrets.py`), pure functions without
state, of which `Mutations` has the scan and the broken links; the CLI's parsing
and configuration; the health reports.

## 6. Running

    tlc -workers 2 -config txn_races.cfg MCTransaction.tla
    tlc -workers 2 -config lc_delivery.cfg MCLifecycle.tla
    tlc -workers 2 -config hm_adapter.cfg MCHermesAdapter.tla
    tlc -workers 2 -config mut_batches.cfg MCMutations.tla
    tlapm TransactionProofs.tla
    tlapm TransactionRefinement.tla
    tlapm TransactionSafety.tla
    tlapm SessionFileProofs.tla
    tlapm LifecycleProofs.tla
    tlapm LifecycleRefinement.tla
    tlapm HermesProofs.tla
    tlapm MutationsProofs.tla

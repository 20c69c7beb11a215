--------------------------- MODULE HermesAdapter ---------------------------
(***************************************************************************)
(* The adapter state of agent_memory/hermes_adapter.py: the commands       *)
(* `memory session hermes-bind`, `hermes-compress` and `hermes-finalize`   *)
(* that the Hermes plugin and its gateway hook run, each of which may be   *)
(* killed by its timeout at any moment.                                    *)
(*                                                                         *)
(* A command holds the state lock from beginning to end, so there is one   *)
(* running call; what it writes survives it: the state file (records), the *)
(* audit spools and the lifecycle queue.  Every change of a record is      *)
(* saved in the step that makes it, so no copy in memory is modelled.      *)
(*                                                                         *)
(* The host appends rows to its message table and signals the compressions *)
(* it has committed.  Row n is the n-th row; sessions are numbered in the  *)
(* order in which the state file sorts their names.                        *)
(***************************************************************************)
EXTENDS Naturals, Sequences, FiniteSetsExt

CONSTANTS NumSessions,      \* native session IDs
          Roots,            \* those that the host opens itself; others continue one
          Counts,           \* values of compression_count, which a restart resets
          None,             \* absent
          InOrder,          \* whether continuations are bound after the signal only
          MaxRows,          \* bound: rows of the message table
          MaxCompressions,  \* bound: compressions
          MaxAccess,        \* bound: accesses recorded by searches
          MaxCalls,         \* bound: compressions, finalisations and retries asked for
          MaxFaults         \* bound: commands killed or refused, failures of the worker

Sessions == 1..NumSessions

ASSUME HermesAssumption ==
  /\ NumSessions \in Nat /\ Roots \subseteq Sessions /\ InOrder \in BOOLEAN
  /\ None \notin Nat
  /\ {MaxRows, MaxCompressions, MaxAccess, MaxCalls, MaxFaults} \subseteq Nat

VARIABLES
  rows,          \* the host's message table
  compressions,  \* compressions the host has committed
  signalled,     \* how many of them the gateway hook has passed on or dropped
  records,       \* the state file: a record per native session
  spool,         \* length of the audit spool of a logical session
  injections,    \* of those, records of an injected index
  queued,        \* descriptors in ready/, claimed/ or failed/
  failed,        \* those of them in failed/, which the worker leaves alone
  published,     \* every compression that was ever queued
  shown,         \* how often a logical session was given the index
  early,         \* history: logical sessions continued before they were given it
  pc, call,      \* the running command
  desc,          \* the descriptor it publishes
  accesses, calls, faults   \* the bounded counters

host == <<rows, compressions, signalled>>
durable == <<records, spool, injections, queued, failed, published>>
running == <<pc, call, desc>>
vars == <<host, durable, shown, early, running, accesses, calls, faults>>

\* _record
Record(logical, boundary) ==
  [logical |-> logical, boundary |-> boundary, injected |-> FALSE, started |-> FALSE,
   last |-> None, pending |-> None, finalPending |-> None, finalized |-> FALSE]

\* A descriptor: its identity (with a row standing for the hash of its text),
\* the logical session, the captured audit offset and the time of building.
StartOf(l) ==
  [kind |-> "session_start", native |-> l, hook |-> None, from |-> 0, to |-> 0,
   candidate |-> 0, logical |-> l, offset |-> spool[l], time |-> 0]

FinalOf(s, l) == [StartOf(l) EXCEPT !.kind = "finalize", !.native = s, !.time = calls]

CheckpointOf(l, hook, from, to, candidate) ==
  [StartOf(l) EXCEPT !.kind = "checkpoint", !.native = hook.session, !.hook = hook,
     !.from = from, !.to = to, !.candidate = candidate, !.time = calls]

\* _identity: for a compression, without the logical session.
Identity(d) ==
  [d EXCEPT !.offset = 0, !.time = 0,
            !.logical = IF d.kind = "checkpoint" THEN 0 ELSE d.logical]

\* publish_descriptor refuses an event that is queued with another content.
Conflicts(d) == \E q \in queued : Identity(q) = Identity(d) /\ q # d

Enqueue(d) ==
  /\ queued' = queued \cup {d}
  /\ published' = IF d.kind = "checkpoint" THEN published \cup {d} ELSE published

Bound == {s \in Sessions : records[s] # None}
Opened == Roots \cup {compressions[i].session : i \in 1..Len(compressions)}
InPlace(hook) == hook.old = hook.session

\* The rows of some native sessions, by number.
RowsOf(S) == {i \in 1..Len(rows) : rows[i].session \in S}

\* Variant: MAX of no row is not taken for 0.
HighWaterOrNull(S) == IF RowsOf(S) = {} THEN None ELSE Max(RowsOf(S))

\* _high_water
HighWater(S) == Max({0} \cup RowsOf(S))

\* Variant: rows below the interval are searched as well.
CandidatesBelow(S, from, to) == {i \in RowsOf(S) : i <= to /\ rows[i].carrier}

\* _candidates, of which publish_compression wants exactly one.
Candidates(S, from, to) == {i \in RowsOf(S) : i > from /\ i <= to /\ rows[i].carrier}
TheCandidate(S, from, to) ==
  IF Cardinality(Candidates(S, from, to)) = 1 THEN Max(Candidates(S, from, to)) ELSE 0

Init ==
  /\ rows = <<>> /\ compressions = <<>> /\ signalled = 0
  /\ records = [s \in Sessions |-> None]
  /\ spool = [s \in Sessions |-> 0] /\ injections = spool /\ shown = spool
  /\ queued = {} /\ failed = {} /\ published = {} /\ early = {}
  /\ pc = "idle" /\ call = None /\ desc = None
  /\ accesses = 0 /\ calls = 0 /\ faults = 0

At(label) == pc = label
Goto(label) == pc' = label
Return == pc' = "idle" /\ call' = None /\ desc' = None

-----------------------------------------------------------------------------
(* The host, the agent and the worker.  A call reads the message table and  *)
(* a spool at one point only, and asks for one event in the queue at one    *)
(* point only; what others do before and after that point commutes with the *)
(* rest of the call, so these steps are taken between calls.                *)

AppendRow(s, carrier) ==
  /\ At("idle") /\ Len(rows) < MaxRows
  /\ rows' = Append(rows, [session |-> s, carrier |-> carrier])

Message ==
  /\ \E s \in Opened : AppendRow(s, FALSE)
  /\ UNCHANGED <<compressions, signalled, durable, shown, early, running, accesses, calls,
                 faults>>

\* In place, or continued in a session that is new; the summary is a row of
\* the session that goes on.  Whether the session was ever bound, or given the
\* index, is not asked: the plugin lets an LLM call through when a hook fails.
HostCompress ==
  /\ Len(compressions) < MaxCompressions
  /\ \E old \in Opened, s \in Sessions, count \in Counts :
       /\ s = old \/ s \notin Opened
       /\ AppendRow(s, TRUE)
       /\ compressions' = Append(compressions, [session |-> s, old |-> old, count |-> count])
  /\ UNCHANGED <<signalled, durable, shown, early, running, accesses, calls, faults>>

\* The gateway's command never ran.
SignalLost ==
  /\ At("idle") /\ signalled < Len(compressions) /\ signalled' = signalled + 1
  /\ faults < MaxFaults /\ faults' = faults + 1
  /\ UNCHANGED <<rows, compressions, durable, shown, early, running, accesses, calls>>

\* append_access_event of a search, for the session that the host names.
Search ==
  /\ At("idle") /\ accesses < MaxAccess /\ accesses' = accesses + 1
  /\ \E s \in Opened : spool' = [spool EXCEPT ![s] = @ + 1]
  /\ UNCHANGED <<host, records, injections, queued, failed, published, shown, early,
                 running, calls, faults>>

\* The worker has materialised an event ...
Drained ==
  /\ At("idle") /\ \E d \in queued \ failed : queued' = queued \ {d}
  /\ UNCHANGED <<host, records, spool, injections, failed, published, shown, early, running,
                 accesses, calls, faults>>

\* ... or put it aside, where it stays for an operator,
WorkerFails ==
  /\ At("idle") /\ \E d \in queued \ failed : failed' = failed \cup {d}
  /\ faults < MaxFaults /\ faults' = faults + 1
  /\ UNCHANGED <<host, records, spool, injections, queued, published, shown, early, running,
                 accesses, calls>>

\* who publishes it again with `memory retry`, or does not.
Retried ==
  /\ At("idle") /\ \E d \in failed : failed' = failed \ {d}
  /\ calls < MaxCalls /\ calls' = calls + 1
  /\ UNCHANGED <<host, records, spool, injections, queued, published, shown, early, running,
                 accesses, faults>>

-----------------------------------------------------------------------------
(* _complete_pending, for every record before a binding or a compression *)

\* Finalisations come before the compression of the same record.
Due(s) ==
  IF records[s].finalPending # None THEN records[s].finalPending ELSE records[s].pending

Unfinished == {s \in Bound : Due(s) # None}

CompletePublish ==
  /\ At("complete") /\ Unfinished # {}
  /\ LET d == Due(Min(Unfinished)) IN
       IF Conflicts(d)
       THEN Return /\ UNCHANGED <<queued, published>>
       ELSE Enqueue(d) /\ Goto("completed") /\ UNCHANGED <<call, desc>>
  /\ UNCHANGED <<host, records, spool, injections, failed, shown, early, accesses, calls,
                 faults>>

\* Variant: only the record of the compressed session moves on.
AdvancedAlone(recs, s, d) ==
  [recs EXCEPT ![s].boundary = d.to, ![s].last = d.hook, ![s].pending = None]

\* The records of a lineage after a compression has been published.
Advanced(recs, s, d) ==
  [t \in Sessions |->
     IF recs[t] = None THEN None
     ELSE [recs[t] EXCEPT !.boundary = IF recs[t].logical = recs[s].logical THEN d.to ELSE @,
                          !.last = IF t = s THEN d.hook ELSE @,
                          !.pending = IF t = s THEN None ELSE @]]

\* Variant: the new record is like that of any new session.
ContinuationFresh(s, d) == [Record(records[s].logical, d.to) EXCEPT !.last = d.hook]

\* The record of the session that continues s.
Continuation(s, d) ==
  [Record(records[s].logical, d.to) EXCEPT
     !.injected = records[s].injected, !.started = records[s].started, !.last = d.hook]

\* Variant: the session that continues is left to its first binding.
SettledAlone(s) ==
  IF records[s].finalPending # None
  THEN [records EXCEPT ![s].finalPending = None, ![s].finalized = TRUE]
  ELSE Advanced(records, s, records[s].pending)

\* Variant: a finalisation that was published stays pending.
SettledUnpopped(s) ==
  LET d == Due(s) IN
  IF records[s].finalPending # None THEN [records EXCEPT ![s].finalized = TRUE]
  ELSE IF InPlace(d.hook) \/ records[d.hook.session] # None
  THEN Advanced(records, s, d)
  ELSE [Advanced(records, s, d) EXCEPT ![d.hook.session] = Continuation(s, d)]

\* The records after the due descriptor of s has been published.  A session
\* that is bound already keeps its record.
Settled(s) ==
  LET d == Due(s) IN
  IF records[s].finalPending # None
  THEN [records EXCEPT ![s].finalPending = None, ![s].finalized = TRUE]
  ELSE IF InPlace(d.hook) \/ records[d.hook.session] # None
  THEN Advanced(records, s, d)
  ELSE [Advanced(records, s, d) EXCEPT ![d.hook.session] = Continuation(s, d)]

\* The lineage of s goes on in another session, before it was given the index.
NoteEarly(s, hook) ==
  early' = early \cup (IF InPlace(hook) \/ records[s].injected THEN {} ELSE {records[s].logical})

CompleteSave ==
  /\ At("completed") /\ Goto("complete")
  /\ LET s == Min(Unfinished) IN
       /\ records' = Settled(s)
       /\ IF records[s].finalPending # None THEN early' = early
          ELSE NoteEarly(s, records[s].pending.hook)
  /\ UNCHANGED <<host, spool, injections, queued, failed, published, shown, call, desc,
                 accesses, calls, faults>>

Completed(op) == At("complete") /\ Unfinished = {} /\ call.op = op

-----------------------------------------------------------------------------
(* bind_session *)

\* pre_llm_call; or, deferred, on_session_start and on_session_reset of a new
\* session.
BeginBind(s, defer) ==
  /\ At("idle") /\ Goto("complete")
  /\ s \in Opened /\ (defer => s \notin Bound)
  /\ InOrder => \A i \in 1..Len(compressions) :
                  compressions[i].session = s /\ ~InPlace(compressions[i]) => i <= signalled
  /\ call' = [op |-> "bind", session |-> s, hook |-> None, defer |-> defer]
  /\ UNCHANGED <<host, durable, shown, early, desc, accesses, calls, faults>>

\* Variant: a session that is bound is taken to have everything.
BindNewRecord ==
  /\ Completed("bind")
  /\ LET s == call.session IN
       /\ records' = IF s \in Bound THEN records
                     ELSE [records EXCEPT ![s] = Record(s, HighWater({s}))]
       /\ IF call.defer \/ s \in Bound
          THEN Return ELSE Goto("start") /\ UNCHANGED <<call, desc>>
  /\ UNCHANGED <<host, spool, injections, queued, failed, published, shown, early,
                 accesses, calls, faults>>

\* What the hook says of the platform, the sender or the chat contradicts the
\* host's store or the record, or no model is known for an LLM call; such calls
\* are bounded like those that are killed.
BindRefused ==
  /\ Completed("bind") /\ Return
  /\ faults < MaxFaults /\ faults' = faults + 1
  /\ UNCHANGED <<host, durable, shown, early, accesses, calls>>

\* The record is created or kept, and saved.
BindRecord ==
  /\ Completed("bind")
  /\ LET s == call.session IN
       records' = IF s \in Bound THEN records
                  ELSE [records EXCEPT ![s] = Record(s, HighWater({s}))]
  /\ IF call.defer THEN Return ELSE Goto("start") /\ UNCHANGED <<call, desc>>
  /\ UNCHANGED <<host, spool, injections, queued, failed, published, shown, early,
                 accesses, calls, faults>>

Here == records[call.session]

PublishStart ==
  /\ At("start") /\ ~Here.started
  /\ LET d == StartOf(Here.logical) IN
       IF Conflicts(d)
       THEN Return /\ UNCHANGED <<queued, published>>
       ELSE Enqueue(d) /\ Goto("started") /\ UNCHANGED <<call, desc>>
  /\ UNCHANGED <<host, records, spool, injections, failed, shown, early, accesses, calls,
                 faults>>

StartSaved ==
  /\ At("started") /\ Goto("start")
  /\ records' = [records EXCEPT ![call.session].started = TRUE]
  /\ UNCHANGED <<host, spool, injections, queued, failed, published, shown, early, call,
                 desc,
                 accesses, calls, faults>>

AlreadyInjected ==
  /\ At("start") /\ Here.started /\ Here.injected /\ Return
  /\ UNCHANGED <<host, durable, shown, early, accesses, calls, faults>>

RecordInjection ==
  /\ At("start") /\ Here.started /\ ~Here.injected /\ Goto("injected")
  /\ spool' = [spool EXCEPT ![Here.logical] = @ + 1]
  /\ injections' = [injections EXCEPT ![Here.logical] = @ + 1]
  /\ UNCHANGED <<host, records, queued, failed, published, shown, early, call, desc,
                 accesses, calls, faults>>

InjectionSaved ==
  /\ At("injected") /\ Goto("deliver")
  /\ records' = [records EXCEPT ![call.session].injected = TRUE]
  /\ UNCHANGED <<host, spool, injections, queued, failed, published, shown, early, call,
                 desc,
                 accesses, calls, faults>>

\* The content reaches the plugin.
Deliver ==
  /\ At("deliver") /\ Return
  /\ shown' = [shown EXCEPT ![Here.logical] = @ + 1]
  /\ UNCHANGED <<host, durable, early, accesses, calls, faults>>

-----------------------------------------------------------------------------
(* publish_compression *)

\* The gateway passes the next compression on, or the one just published again.
BeginCompress ==
  /\ At("idle") /\ Goto("complete")
  /\ calls < MaxCalls /\ calls' = calls + 1
  /\ \E i \in 1..Len(compressions) :
       /\ \/ i = signalled + 1 /\ signalled' = i
          \/ /\ i = signalled /\ UNCHANGED signalled
             /\ \E d \in published : d.hook = compressions[i]
       /\ call' = [op |-> "compress", session |-> compressions[i].session,
                   hook |-> compressions[i], defer |-> FALSE]
  /\ UNCHANGED <<rows, compressions, durable, shown, early, desc, accesses, faults>>

Owner == call.hook.old
Lineage == {call.hook.old, call.hook.session}
Replayed ==
  /\ HighWater(Lineage) = records[Owner].boundary
  /\ records[Owner].last = call.hook

CompressRefused ==
  /\ Completed("compress")
  /\ \/ Owner \notin Bound
     \/ Owner \in Bound /\ (HighWater(Lineage) < records[Owner].boundary \/ Replayed)
  /\ Return
  /\ UNCHANGED <<host, durable, shown, early, accesses, calls, faults>>

\* Variant: the descriptor is published without having been saved.
BindBoundaryUnsaved ==
  /\ Completed("compress") /\ Goto("publish")
  /\ Owner \in Bound /\ HighWater(Lineage) >= records[Owner].boundary /\ ~Replayed
  /\ LET from == records[Owner].boundary
         to == HighWater(Lineage)
     IN desc' = CheckpointOf(records[Owner].logical, call.hook, from, to,
                             TheCandidate(Lineage, from, to))
  /\ UNCHANGED <<host, durable, shown, early, call, accesses, calls, faults>>

\* The interval and its candidate are bound, and saved before they are published.
BindBoundary ==
  /\ Completed("compress") /\ Goto("publish")
  /\ Owner \in Bound /\ HighWater(Lineage) >= records[Owner].boundary /\ ~Replayed
  /\ LET from == records[Owner].boundary
         to == HighWater(Lineage)
     IN desc' = CheckpointOf(records[Owner].logical, call.hook, from, to,
                             TheCandidate(Lineage, from, to))
  /\ records' = [records EXCEPT ![Owner].pending = desc']
  /\ UNCHANGED <<host, spool, injections, queued, failed, published, shown, early, call,
                 accesses, calls, faults>>

\* ... and then forgotten as pending; the record of the session that goes on
\* is replaced.
CompressSaved ==
  /\ At("published") /\ call.op = "compress" /\ Return
  /\ records' =
       IF InPlace(desc.hook) THEN Advanced(records, Owner, desc)
       ELSE [Advanced(records, Owner, desc) EXCEPT
               ![desc.hook.session] = Continuation(Owner, desc)]
  /\ NoteEarly(Owner, desc.hook)
  /\ UNCHANGED <<host, spool, injections, queued, failed, published, shown, accesses, calls,
                 faults>>

-----------------------------------------------------------------------------
(* finalize_session *)

\* Nothing happens for a session that is not bound, or finalised before.
BeginFinalize(s) ==
  /\ At("idle") /\ Goto("publish")
  /\ calls < MaxCalls /\ calls' = calls + 1
  /\ s \in Bound /\ ~records[s].finalized
  /\ desc' = IF records[s].finalPending # None THEN records[s].finalPending
             ELSE FinalOf(s, records[s].logical)
  /\ records' = [records EXCEPT ![s].finalPending = desc']
  /\ call' = [op |-> "finalize", session |-> s, hook |-> None, defer |-> FALSE]
  /\ UNCHANGED <<host, spool, injections, queued, failed, published, shown, early,
                 accesses, faults>>

FinalizeSaved ==
  /\ At("published") /\ call.op = "finalize" /\ Return
  /\ records' = [records EXCEPT ![call.session].finalPending = None,
                                ![call.session].finalized = TRUE]
  /\ UNCHANGED <<host, spool, injections, queued, failed, published, shown, early,
                 accesses, calls, faults>>

\* publish_descriptor, for a compression or a finalisation
Publish ==
  /\ At("publish")
  /\ IF Conflicts(desc)
     THEN Return /\ UNCHANGED <<queued, published>>
     ELSE Enqueue(desc) /\ Goto("published") /\ UNCHANGED <<call, desc>>
  /\ UNCHANGED <<host, records, spool, injections, failed, shown, early, accesses, calls,
                 faults>>

\* The command is killed by its timeout, or fails.
Killed ==
  /\ ~At("idle") /\ Return
  /\ faults < MaxFaults /\ faults' = faults + 1
  /\ UNCHANGED <<host, durable, shown, early, accesses, calls>>
-----------------------------------------------------------------------------
Host == Message \/ HostCompress \/ SignalLost \/ Search

Complete == CompletePublish \/ CompleteSave

Bind ==
  \/ BindRefused \/ BindRecord \/ PublishStart \/ StartSaved
  \/ AlreadyInjected \/ RecordInjection \/ InjectionSaved \/ Deliver

Compress == CompressRefused \/ BindBoundary \/ CompressSaved

Continue == Complete \/ Bind \/ Compress \/ Publish \/ FinalizeSaved

Begin ==
  \/ \E s \in Sessions, defer \in BOOLEAN : BeginBind(s, defer)
  \/ BeginCompress
  \/ \E s \in Sessions : BeginFinalize(s)

Worker == Drained \/ WorkerFails

Next == Host \/ Worker \/ Retried \/ Begin \/ Continue \/ Killed

Spec == Init /\ [][Next]_vars

\* A command goes on, the worker takes what is ready or claimed, and every
\* session that is open makes LLM calls again and again, whatever other
\* commands hold the lock between.  Nobody need retry what failed.
HostSpec ==
  /\ Spec /\ WF_vars(Continue) /\ SF_vars(Worker)
  /\ \A s \in Sessions : SF_vars(BeginBind(s, FALSE))
-----------------------------------------------------------------------------
(* Properties *)

Hooks == [session : Sessions, old : Sessions, count : Counts]

Descriptors ==
  [kind : {"session_start", "checkpoint", "finalize"}, native : Sessions,
   hook : Hooks \cup {None}, from : 0..MaxRows, to : 0..MaxRows,
   candidate : 0..MaxRows, logical : Sessions, offset : Nat, time : 0..MaxCalls]

Records ==
  [logical : Sessions, boundary : 0..MaxRows, injected : BOOLEAN, started : BOOLEAN,
   last : Hooks \cup {None}, pending : Descriptors \cup {None},
   finalPending : Descriptors \cup {None}, finalized : BOOLEAN]

Calls ==
  [op : {"bind", "compress", "finalize"}, session : Sessions,
   hook : Hooks \cup {None}, defer : BOOLEAN]

Pcs == {"idle", "complete", "completed", "start", "started", "injected", "deliver",
        "publish", "published"}

\* An absent record, descriptor, hook or call is none of these.
ASSUME NoneAssumption ==
  None \notin Hooks /\ None \notin Descriptors /\ None \notin Records /\ None \notin Calls

\* Every variable holds a value of its kind.
TypeOK ==
  /\ rows \in Seq([session : Sessions, carrier : BOOLEAN]) /\ Len(rows) <= MaxRows
  /\ compressions \in Seq(Hooks) /\ signalled \in 0..Len(compressions)
  /\ records \in [Sessions -> Records \cup {None}]
  /\ {spool, injections, shown} \subseteq [Sessions -> Nat]
  /\ queued \subseteq Descriptors /\ published \subseteq Descriptors
  /\ failed \subseteq queued /\ early \subseteq Sessions
  /\ pc \in Pcs /\ call \in Calls \cup {None} /\ desc \in Descriptors \cup {None}
  /\ accesses \in 0..MaxAccess /\ calls \in 0..MaxCalls /\ faults \in 0..MaxFaults

\* Compressions of one lineage cover intervals of rows that never overlap,
\* whatever is killed or repeated between.
IntervalsDisjoint ==
  \A d, e \in published :
    d.logical = e.logical /\ d # e => d.to <= e.from \/ e.to <= d.from

\* No summary is bound to two events, not even of different lineages.
SummaryOnce ==
  \A d, e \in published : d.candidate = e.candidate /\ d # e => d.candidate = 0

\* A lineage is shown the index once at most, unless it was continued before
\* that, and never without an audit record, although commands are killed between
\* the record, the save and the answer.
IndexOnce ==
  \A l \in Sessions : (shown[l] <= 1 \/ l \in early) /\ shown[l] <= injections[l]

\* Compression continues a session without a second injection of the index
\* (docs/product-specification.md:414).  No run checks this, as it fails for the
\* lineages in early: a killed first binding leaves the session without the
\* index, the one that continues it is given it, and then so is the first.
NoDuplicateInjection == \A l \in Sessions : shown[l] <= 1

\* A published compression is not forgotten: its lineage has moved beyond it,
\* unless it is still pending and will be published again as it was.
NothingRebound ==
  At("idle") =>
    \A d \in published, s \in Bound :
      records[s].logical = d.logical =>
        records[s].boundary >= d.to \/ \E t \in Bound : records[t].pending = d

\* A session that continues another belongs to its lineage as soon as the
\* compression is published, whichever call completed it.
LineageKept ==
  At("idle") =>
    \A d \in published :
      \/ InPlace(d.hook) \/ records[d.hook.old].pending = d
      \/ d.hook.session \in Bound /\ records[d.hook.session].logical = d.logical

\* When the finalisation of a session has been queued, the accesses recorded for
\* that session are within what it or another queued event captured of a spool
\* (docs/technical-specification.md:395).
AccessFlushed ==
  At("published") /\ call.op = "finalize" =>
    spool[call.session] <=
      Max({0} \cup {d.offset : d \in {e \in queued \cup published \cup {desc} :
                                      e.logical = call.session}})

\* An event that waits to be published is refused, because it was queued with
\* another content and put aside by the worker.
Stuck ==
  \E q \in failed :
    \/ \E s \in Unfinished : Identity(Due(s)) = Identity(q) /\ Due(s) # q
    \/ \E s \in Bound : LET d == StartOf(records[s].logical) IN
         ~records[s].started /\ Identity(d) = Identity(q) /\ d # q

\* What a killed command left to publish is published in the end and blocks
\* no session for ever, unless it stays refused for something that failed.
UnfinishedCompletes == <>[]~Stuck => (Unfinished # {} ~> Unfinished = {})

\* The injection of a bound session is recorded in the end, though it may be
\* refused as long as an event of it or of others is still queued otherwise.
IndexArrives ==
  <>[]~Stuck =>
    \A s \in Sessions : s \in Bound ~> s \in Bound /\ records[s].injected
=============================================================================

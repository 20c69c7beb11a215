---------------------------- MODULE HermesProofs ----------------------------
(***************************************************************************)
(* Proofs about HermesAdapter for any number of sessions, rows, calls and  *)
(* faults.                                                                 *)
(***************************************************************************)
EXTENDS HermesAdapter, SequenceTheorems, FiniteSetTheorems, WellFoundedInduction, TLAPS

\* Fewer numbers lie above a greater one.
LEMMA LaterNumbers ==
  \A m, n, top \in Nat :
    m <= n => (n + 1)..top \subseteq (m + 1)..top /\ (n + 1)..top \subseteq 1..top
OBVIOUS

\* A set of numbers that is not empty has a least element ...
LEMMA LeastNumber ==
  ASSUME NEW S \in SUBSET Nat, S # {}
  PROVE  Min(S) \in S /\ \A x \in S : Min(S) <= x
<1>1. IsWellFoundedOn(OpToRel(<, Nat), Nat) BY NatLessThanWellFounded
<1>2. PICK m \in S : \A x \in S : ~(<<x, m>> \in OpToRel(<, Nat)) BY <1>1, WFMin
<1>3. ASSUME NEW x \in S PROVE m <= x
  <2>1. x \in Nat /\ m \in Nat OBVIOUS
  <2>2. ~(<<x, m>> \in {ss \in Nat \X Nat : ss[1] < ss[2]}) BY <1>2, <1>3 DEF OpToRel
  <2>3. <<x, m>> \in Nat \X Nat BY <2>1
  <2>4. ~(x < m) BY <2>2, <2>3
  <2>5. QED BY <2>1, <2>4
<1>4. QED BY <1>3 DEF Min

\* ... and a greatest one, if it is bounded.
LEMMA GreatestNumber ==
  ASSUME NEW n \in Nat, NEW S \in SUBSET (0..n), S # {}
  PROVE  Max(S) \in S /\ \A x \in S : x <= Max(S)
<1> DEFINE T == {k \in 0..n : n - k \in S}
<1>1. PICK s : s \in S OBVIOUS
<1>2. n - s \in T
  <2>1. s \in 0..n BY <1>1
  <2>2. n - s \in 0..n /\ n - (n - s) = s BY <2>1
  <2>3. QED BY <1>1, <2>2
<1>3. T \in SUBSET Nat /\ T # {} BY <1>2
<1>4. PICK y \in T : \A x \in T : y <= x BY <1>3, LeastNumber
<1>5. ASSUME NEW x \in S PROVE n - y >= x
  <2>1. x \in 0..n OBVIOUS
  <2>2. n - x \in 0..n /\ n - (n - x) = x BY <2>1
  <2>3. y <= n - x BY <1>4, <2>2
  <2>4. y \in 0..n BY <1>4
  <2>5. QED BY <2>1, <2>3, <2>4
<1>6. n - y \in S BY <1>4
<1>7. QED BY <1>5, <1>6 DEF Max

-----------------------------------------------------------------------------
\* The compressions that the gateway hook has passed on or dropped.
Signalled == {compressions[i] : i \in 1..signalled}

Binding == {"start", "started", "injected", "deliver"}
Publishing == {"publish", "published"}

\* What the running command holds at each point.
CommandInv ==
  /\ pc # "idle" => call # None
  /\ pc \in {"complete", "completed"} => call.op \in {"bind", "compress"}
  /\ pc = "completed" => Unfinished # {}
  /\ pc \in Binding => call.op = "bind" /\ call.session \in Bound
  /\ pc \in Publishing =>
       /\ desc # None
       /\ call.op \in {"compress", "finalize"}
       /\ call.op = "compress" =>
            Owner \in Bound /\ records[Owner].pending = desc /\ desc.hook = call.hook
       /\ call.op = "finalize" =>
            call.session \in Bound /\ records[call.session].finalPending = desc
  /\ pc # "idle" /\ call.op = "bind" => call.session \in Opened
  /\ pc # "idle" /\ call.op = "compress" => call.hook \in Signalled

\* The row of a candidate is in the interval and of one of the two sessions.
CandidateOK(d) ==
  d.candidate # 0 =>
    /\ d.from < d.candidate /\ d.candidate <= d.to
    /\ d.candidate \in 1..Len(rows)
    /\ rows[d.candidate].session \in {d.hook.old, d.hook.session}

\* A compression that a record holds is the next one of its lineage.
PendingOK(s, d) ==
  /\ d.kind = "checkpoint" /\ d.hook \in Signalled /\ d.hook.old = s
  /\ d.logical = records[s].logical
  /\ d.from = records[s].boundary /\ d.from <= d.to
  /\ CandidateOK(d)

\* The lineages, and that there is one compression under way at most.
RecordInv ==
  /\ Bound \subseteq Opened
  /\ \A s \in Bound : records[s].logical \in Bound
  /\ \A s \in Bound : records[s].finalPending # None => records[s].finalPending.kind = "finalize"
  /\ \A s \in Bound : records[s].pending # None => PendingOK(s, records[s].pending)
  /\ \A s, t \in Bound : records[s].pending # None /\ records[t].pending # None => s = t

\* What is published is behind its lineage, or still the one under way.
PublishedInv ==
  \A d \in published :
    /\ d.kind = "checkpoint" /\ d.hook \in Signalled /\ CandidateOK(d)
    /\ d.hook.old \in Bound /\ d.logical \in Bound /\ d.from <= d.to
    /\ records[d.hook.old].pending = d
         \/ \A s \in Bound : records[s].logical = d.logical => d.to <= records[s].boundary

IInv == TypeOK /\ CommandInv /\ RecordInv /\ PublishedInv /\ IntervalsDisjoint

\* A session that continues another was opened by one compression only.
OpenedOnce ==
  \A i, j \in 1..Len(compressions) :
    i < j /\ ~InPlace(compressions[j]) => compressions[i].session # compressions[j].session

\* The session that a compression continues in is not bound, or in the lineage.
Follows(hook, l) ==
  InPlace(hook) \/ hook.session \notin Bound \/ records[hook.session].logical = l

\* ... so that it is in the lineage of the session that was compressed.
Together(hook) ==
  \/ InPlace(hook) \/ hook.session \notin Bound
  \/ hook.old \in Bound /\ records[hook.session].logical = records[hook.old].logical

\* If calls arrive in the order of the host's work, a session is bound to one
\* lineage for ever: that of the compression that opened it, if that was
\* published, and its own otherwise.
OpeningInv ==
  /\ OpenedOnce
  /\ \A i \in (signalled + 1)..Len(compressions) :
       ~InPlace(compressions[i]) =>
         /\ compressions[i].session \notin Bound
         /\ pc \in {"complete", "completed"} /\ call.op = "bind" =>
              compressions[i].session # call.session

LineageInv ==
  /\ OpeningInv
  /\ pc \in {"complete", "completed"} /\ call.op = "compress" => Together(call.hook)
  /\ \A s \in Bound : records[s].pending # None =>
       Follows(records[s].pending.hook, records[s].logical)
  /\ \A d \in published :
       /\ records[d.hook.old].logical = d.logical
       /\ Follows(d.hook, d.logical)
       /\ records[d.hook.old].pending = d \/ d.hook.session \in Bound

\* A session that has not been given the index is alone in its lineage, which
\* has not been given it either, unless the lineage was continued early.
IndexInv ==
  /\ \A s \in Bound : ~records[s].injected /\ records[s].logical \notin early =>
       /\ records[s].logical = s /\ shown[s] = 0
       /\ \A t \in Bound : records[t].logical = s => t = s
  /\ \A s \in Sessions : s \notin Bound => shown[s] = 0
  /\ pc = "injected" => ~Here.injected
  /\ pc = "deliver" => Here.injected /\ (Here.logical \in early \/ shown[Here.logical] = 0)
  /\ pc \in {"injected", "deliver"} => shown[Here.logical] < injections[Here.logical]
  /\ IndexOnce

-----------------------------------------------------------------------------
\* The last row of some sessions is a row, or there is none.
LEMMA HighWaterType ==
  ASSUME TypeOK, NEW S
  PROVE  HighWater(S) \in 0..Len(rows) /\ HighWater(S) \in 0..MaxRows
<1>1. Len(rows) \in Nat /\ Len(rows) <= MaxRows BY DEF TypeOK
<1>2. {0} \cup RowsOf(S) \in SUBSET (0..Len(rows)) BY <1>1 DEF RowsOf
<1>3. HighWater(S) \in 0..Len(rows) BY <1>1, <1>2, GreatestNumber DEF HighWater
<1>4. QED BY <1>1, <1>3, HermesAssumption

\* The one candidate of an interval is a row of it.
LEMMA TheCandidateIs ==
  ASSUME TypeOK, NEW S, NEW from \in 0..MaxRows, NEW to \in 0..MaxRows
  PROVE  LET c == TheCandidate(S, from, to)
         IN  /\ c \in 0..MaxRows
             /\ c # 0 => /\ from < c /\ c <= to /\ c \in 1..Len(rows)
                         /\ rows[c].session \in S
<1> DEFINE C == Candidates(S, from, to)
<1>1. Len(rows) \in Nat /\ Len(rows) <= MaxRows /\ MaxRows \in Nat
  BY HermesAssumption DEF TypeOK
<1>2. C \in SUBSET (0..Len(rows)) BY <1>1 DEF Candidates, RowsOf
<1>3. Cardinality(C) = 1 => C # {} BY FS_EmptySet
<1>4. Cardinality(C) = 1 => Max(C) \in C BY <1>1, <1>2, <1>3, GreatestNumber
<1>5. QED BY <1>1, <1>4 DEF TheCandidate, Candidates, RowsOf

\* The descriptors that are built are descriptors.
LEMMA DescriptorTypes ==
  ASSUME TypeOK, NEW l \in Sessions, NEW s \in Sessions, NEW hook \in Hooks,
         NEW from \in 0..MaxRows, NEW to \in 0..MaxRows, NEW c \in 0..MaxRows
  PROVE  /\ StartOf(l) \in Descriptors
         /\ FinalOf(s, l) \in Descriptors /\ FinalOf(s, l).kind = "finalize"
         /\ LET d == CheckpointOf(l, hook, from, to, c)
            IN  /\ d \in Descriptors /\ d.kind = "checkpoint" /\ d.logical = l
                /\ d.hook = hook /\ d.from = from /\ d.to = to /\ d.candidate = c
<1>1. spool[l] \in Nat /\ calls \in 0..MaxCalls /\ 0 \in 0..MaxCalls /\ 0 \in 0..MaxRows
  BY HermesAssumption DEF TypeOK
<1>2. StartOf(l) \in Descriptors BY <1>1 DEF StartOf, Descriptors
<1>3. FinalOf(s, l) \in Descriptors /\ FinalOf(s, l).kind = "finalize"
  BY <1>1, <1>2 DEF FinalOf, StartOf, Descriptors
<1> DEFINE d == CheckpointOf(l, hook, from, to, c)
<1>4. hook.session \in Sessions /\ hook \in Hooks \cup {None} BY DEF Hooks
<1>5. /\ d.kind = "checkpoint" /\ d.native = hook.session /\ d.hook = hook /\ d.from = from
      /\ d.to = to /\ d.candidate = c /\ d.time = calls
  BY DEF CheckpointOf, StartOf
<1>6. d.logical = l /\ d.offset = spool[l] BY DEF CheckpointOf, StartOf
<1>7. d \in Descriptors
  <2>1. PICK r \in Descriptors : r = StartOf(l) BY <1>2
  <2>2. d = [r EXCEPT !.kind = "checkpoint", !.native = hook.session, !.hook = hook,
               !.from = from, !.to = to, !.candidate = c, !.time = calls]
    BY <2>1 DEF CheckpointOf
  <2> HIDE DEF d
  <2>3. QED BY <1>1, <1>4, <2>2 DEF Descriptors
<1>8. QED BY <1>2, <1>3, <1>5, <1>6, <1>7

\* The records of the sessions that are bound.
LEMMA BoundType ==
  ASSUME TypeOK, NEW s \in Bound
  PROVE  /\ s \in Sessions /\ records[s] \in Records
         /\ records[s].pending # None => records[s].pending \in Descriptors
         /\ records[s].finalPending # None => records[s].finalPending \in Descriptors
BY DEF TypeOK, Bound, Records

\* A fresh record is a record.
LEMMA RecordType ==
  ASSUME NEW l \in Sessions, NEW b \in 0..MaxRows
  PROVE  Record(l, b) \in Records
BY DEF Record, Records

\* What the running command and the hook signals refer to.
LEMMA CommandType ==
  ASSUME TypeOK, CommandInv
  PROVE  /\ Signalled \subseteq Hooks
         /\ pc # "idle" => call \in Calls /\ call.session \in Sessions
         /\ pc # "idle" /\ call.op = "compress" =>
              call.hook \in Hooks /\ Owner \in Sessions /\ call.hook.session \in Sessions
         /\ pc \in Publishing => desc \in Descriptors
         /\ pc = "completed" => Min(Unfinished) \in Unfinished /\ Unfinished \subseteq Bound
         /\ Bound \subseteq Sessions /\ Unfinished \subseteq Bound
<1>1. Signalled \subseteq Hooks BY DEF Signalled, TypeOK
<1>2. pc # "idle" => call \in Calls /\ call.session \in Sessions
  BY DEF TypeOK, CommandInv, Calls
<1>3. pc # "idle" /\ call.op = "compress" =>
        call.hook \in Hooks /\ Owner \in Sessions /\ call.hook.session \in Sessions
  BY <1>1 DEF CommandInv, Owner, Hooks
<1>4. pc \in Publishing => desc \in Descriptors BY DEF TypeOK, CommandInv
<1>5. Unfinished \subseteq Bound /\ Bound \subseteq Sessions BY DEF Unfinished, Bound
<1>6. Unfinished \in SUBSET Nat BY <1>5 DEF Sessions
<1>7. Unfinished # {} => Min(Unfinished) \in Unfinished BY <1>6, LeastNumber
<1>8. QED BY <1>1, <1>2, <1>3, <1>4, <1>5, <1>7 DEF CommandInv

-----------------------------------------------------------------------------
(* How a step changes the records *)

\* Flags of records, and pending finalisations; or nothing.
Flags ==
  \A t \in Sessions :
    IF t \notin Bound THEN records'[t] = None
    ELSE /\ records'[t] \in Records
         /\ records'[t].logical = records[t].logical
         /\ records'[t].boundary = records[t].boundary
         /\ records'[t].pending = records[t].pending
         /\ \/ records'[t].injected = records[t].injected
            \/ InjectionSaved /\ t = call.session /\ records'[t].injected
         /\ records'[t].finalPending # None =>
              records'[t].finalPending.kind = "finalize"

\* A session of its own.
Fresh ==
  /\ BindRecord /\ call.session \notin Bound
  /\ \A t \in Sessions : records'[t] = IF t = call.session THEN Record(t, HighWater({t}))
                                       ELSE records[t]

\* The next compression of a lineage.
Binds ==
  /\ BindBoundary /\ desc' \in Descriptors
  /\ \A t \in Sessions :
       IF t \notin Bound THEN records'[t] = None
       ELSE /\ records'[t] \in Records
            /\ records'[t].logical = records[t].logical
            /\ records'[t].boundary = records[t].boundary
            /\ records'[t].injected = records[t].injected
            /\ records'[t].finalPending = records[t].finalPending
            /\ records'[t].pending = IF t = Owner THEN desc' ELSE records[t].pending

\* The end of a compression: the lineage moves on, and the session that goes on
\* is taken into it, unless it is bound and the call completes another's work.
Moved(o, t) ==
  LET d == records[o].pending IN
  /\ records'[t] \in Records
  /\ records'[t].logical = records[t].logical
  /\ records'[t].boundary = IF records[t].logical = records[o].logical THEN d.to
                            ELSE records[t].boundary
  /\ records'[t].pending = IF t = o THEN None ELSE records[t].pending
  /\ records'[t].injected = records[t].injected
  /\ records'[t].finalPending = records[t].finalPending

Joined(o, t) ==
  LET d == records[o].pending IN
  /\ records'[t] \in Records
  /\ records'[t].logical = records[o].logical
  /\ records'[t].boundary = d.to
  /\ records'[t].pending = None
  /\ records'[t].injected = records[o].injected
  /\ records'[t].finalPending = None

FinishAs(o, join) ==
  LET d == records[o].pending IN
  /\ d # None
  /\ CompleteSave \/ CompressSaved
  /\ NoteEarly(o, d.hook)
  /\ IF join THEN ~InPlace(d.hook) ELSE InPlace(d.hook) \/ d.hook.session \in Bound
  /\ \A t \in Sessions :
       IF join /\ t = d.hook.session THEN Joined(o, t)
       ELSE IF t \in Bound THEN Moved(o, t) ELSE records'[t] = None

Finishes == \E o \in Bound, join \in BOOLEAN : FinishAs(o, join)

\* What Advanced computes for one session.
LEMMA AdvancedRecord ==
  ASSUME TypeOK, NEW o \in Bound, NEW d \in Descriptors, d.hook \in Hooks, NEW t \in Sessions
  PROVE  LET r == Advanced(records, o, d)[t] IN
         /\ t \notin Bound => r = None
         /\ t \in Bound =>
              /\ r \in Records /\ r.logical = records[t].logical
              /\ r.boundary = IF records[t].logical = records[o].logical THEN d.to
                              ELSE records[t].boundary
              /\ r.pending = IF t = o THEN None ELSE records[t].pending
              /\ r.injected = records[t].injected
              /\ r.finalPending = records[t].finalPending
<1> DEFINE b == IF records[t].logical = records[o].logical THEN d.to ELSE records[t].boundary
           l == IF t = o THEN d.hook ELSE records[t].last
           p == IF t = o THEN None ELSE records[t].pending
           r == Advanced(records, o, d)[t]
<1>1. CASE t \notin Bound BY <1>1 DEF Advanced, Bound
<1>2. CASE t \in Bound
  <2>1. records[t] \in Records BY <1>2, BoundType
  <2>2. r = [records[t] EXCEPT !.boundary = b, !.last = l, !.pending = p]
    BY <1>2 DEF Advanced, Bound
  <2>3. d.to \in 0..MaxRows BY DEF Descriptors
  <2>4. b \in 0..MaxRows BY <2>1, <2>3 DEF Records
  <2>5. l \in Hooks \cup {None} /\ p \in Descriptors \cup {None} BY <2>1 DEF Records
  <2> HIDE DEF b, l, p, r
  <2>6. /\ r \in Records /\ r.logical = records[t].logical /\ r.boundary = b /\ r.pending = p
        /\ r.injected = records[t].injected /\ r.finalPending = records[t].finalPending
    BY <2>1, <2>2, <2>4, <2>5 DEF Records
  <2>7. QED BY <1>2, <2>6 DEF b, p, r
<1>3. QED BY <1>1, <1>2

\* What a finished compression makes of the records.
LEMMA FinishedRecords ==
  ASSUME TypeOK, NEW o \in Bound, NEW d \in Descriptors, d = records[o].pending, d.hook \in Hooks,
         CompleteSave \/ CompressSaved, NoteEarly(o, d.hook), NEW join \in BOOLEAN,
         IF join THEN ~InPlace(d.hook) ELSE InPlace(d.hook) \/ d.hook.session \in Bound,
         NEW A, A = Advanced(records, o, d),
         records' = IF join THEN [A EXCEPT ![d.hook.session] = Continuation(o, d)] ELSE A
  PROVE  records' \in [Sessions -> Records \cup {None}] /\ FinishAs(o, join)
<1>1. o \in Sessions /\ records[o] \in Records /\ d # None /\ d.to \in 0..MaxRows
      /\ d.hook.session \in Sessions
  BY BoundType, NoneAssumption DEF Descriptors, Hooks
<1>2. A = [t \in Sessions |-> A[t]] BY Zenon DEF Advanced
<1>3. ASSUME NEW t \in Sessions
      PROVE  /\ t \notin Bound => A[t] = None
             /\ t \in Bound =>
                  /\ A[t] \in Records /\ A[t].logical = records[t].logical
                  /\ A[t].boundary = IF records[t].logical = records[o].logical THEN d.to
                                     ELSE records[t].boundary
                  /\ A[t].pending = IF t = o THEN None ELSE records[t].pending
                  /\ A[t].injected = records[t].injected
                  /\ A[t].finalPending = records[t].finalPending
  BY AdvancedRecord
<1>4. A \in [Sessions -> Records \cup {None}]
  <2>1. \A t \in Sessions : A[t] \in Records \cup {None} BY <1>3
  <2>2. QED BY <1>2, <2>1
<1> DEFINE c == Continuation(o, d)
<1>5. /\ c \in Records /\ c.logical = records[o].logical /\ c.boundary = d.to
      /\ c.pending = None /\ c.injected = records[o].injected /\ c.finalPending = None
  <2>1. Record(records[o].logical, d.to) \in Records
        /\ records[o].injected \in BOOLEAN /\ records[o].started \in BOOLEAN
    BY <1>1, RecordType DEF Records
  <2>2. PICK r \in Records : r = Record(records[o].logical, d.to) BY <2>1
  <2>3. /\ r.logical = records[o].logical /\ r.boundary = d.to /\ r.pending = None
        /\ r.finalPending = None
    BY <2>2 DEF Record
  <2>4. c = [r EXCEPT !.injected = records[o].injected, !.started = records[o].started,
                      !.last = d.hook]
    BY <2>2 DEF Continuation
  <2> HIDE DEF c
  <2>5. QED BY <2>1, <2>3, <2>4 DEF Records
<1> HIDE DEF c
<1>6. Bound \subseteq Sessions BY DEF Bound
<1>7. CASE ~join
  <2>1. records' = A BY <1>7
  <2>2. \A t \in Bound : Moved(o, t) BY <1>3, <1>6, <2>1 DEF Moved
  <2>3. \A t \in Sessions : t \notin Bound => records'[t] = None BY <1>3, <2>1
  <2>4. QED BY <1>1, <1>4, <1>7, <2>1, <2>2, <2>3 DEF FinishAs
<1>8. CASE join
  <2>1. records' = [A EXCEPT ![d.hook.session] = c] BY <1>8 DEF c
  <2>2. records'[d.hook.session] = c
        /\ \A t \in Sessions : t # d.hook.session => records'[t] = A[t]
    BY <1>1, <1>4, <2>1
  <2>3. Joined(o, d.hook.session) BY <1>5, <2>2 DEF Joined
  <2>4. \A t \in Bound : t # d.hook.session => Moved(o, t)
    BY <1>3, <1>6, <2>2 DEF Moved
  <2>5. \A t \in Sessions : t \notin Bound /\ t # d.hook.session => records'[t] = None
    BY <1>3, <2>2
  <2>6. records' \in [Sessions -> Records \cup {None}] BY <1>4, <1>5, <2>1
  <2>7. QED BY <1>1, <1>8, <2>3, <2>4, <2>5, <2>6 DEF FinishAs
<1>9. QED BY <1>7, <1>8

\* A step that changes the flags of one record.
LEMMA OneRecord ==
  ASSUME TypeOK, RecordInv, NEW s \in Bound, NEW r \in Records,
         r.logical = records[s].logical, r.boundary = records[s].boundary,
         r.pending = records[s].pending,
         r.injected = records[s].injected \/ (InjectionSaved /\ s = call.session /\ r.injected),
         r.finalPending # None => r.finalPending.kind = "finalize",
         records' = [records EXCEPT ![s] = r]
  PROVE  records' \in [Sessions -> Records \cup {None}] /\ Flags
<1>1. records \in [Sessions -> Records \cup {None}] /\ s \in Sessions
  BY DEF TypeOK, Bound
<1>2. records'[s] = r /\ \A t \in Sessions : t # s => records'[t] = records[t] BY <1>1
<1>3. \A t \in Bound : records[t] \in Records BY BoundType
<1>4. ASSUME NEW t \in Sessions, t \notin Bound PROVE records'[t] = None
  BY <1>2, <1>4 DEF Bound
<1>5. ASSUME NEW t \in Bound, t # s
      PROVE  records'[t] = records[t]
             /\ (records[t].finalPending # None => records[t].finalPending.kind = "finalize")
  BY <1>2, <1>5 DEF RecordInv, Bound
<1>6. records' \in [Sessions -> Records \cup {None}] BY <1>1
<1>7. QED BY <1>2, <1>3, <1>4, <1>5, <1>6 DEF Flags

\* A step that leaves the records alone.
LEMMA SameRecords ==
  ASSUME TypeOK, RecordInv, UNCHANGED records
  PROVE  records' \in [Sessions -> Records \cup {None}] /\ Flags
<1>1. records \in [Sessions -> Records \cup {None}] BY DEF TypeOK
<1>2. \A t \in Bound : records[t] \in Records BY BoundType
<1>3. \A t \in Sessions : t \notin Bound => records[t] = None BY DEF Bound
<1>4. QED BY <1>1, <1>2, <1>3 DEF Flags, RecordInv

\* These are all the ways.
LEMMA RecordSteps ==
  ASSUME TypeOK, CommandInv, RecordInv, [Next]_vars
  PROVE  /\ records' \in [Sessions -> Records \cup {None}]
         /\ Flags \/ Fresh \/ Binds \/ Finishes
<1>1. records \in [Sessions -> Records \cup {None}] BY DEF TypeOK
<1>2. CASE UNCHANGED records BY <1>2, SameRecords
<1>3. CASE CompleteSave
  <2> DEFINE s == Min(Unfinished)
  <2>1. s \in Unfinished /\ s \in Bound /\ Due(s) # None
    BY <1>3, CommandType DEF CompleteSave, At, CommandInv, Unfinished
  <2>2. records[s] \in Records /\ records' = Settled(s) BY <1>3, <2>1, BoundType DEF CompleteSave
  <2> HIDE DEF s
  <2>3. CASE records[s].finalPending # None
    <3> DEFINE r == [records[s] EXCEPT !.finalPending = None, !.finalized = TRUE]
    <3>1. /\ r \in Records /\ r.logical = records[s].logical /\ r.boundary = records[s].boundary
          /\ r.pending = records[s].pending /\ r.injected = records[s].injected
          /\ r.finalPending = None
      BY <2>2 DEF Records
    <3>2. records' = [records EXCEPT ![s] = r]
      BY <1>1, <2>1, <2>2, <2>3 DEF Settled, Bound
    <3> HIDE DEF r
    <3>3. QED BY <2>1, <3>1, <3>2, OneRecord
  <2>4. CASE records[s].finalPending = None
    <3>1. PICK d : d = records[s].pending OBVIOUS
    <3>2. Due(s) = d /\ d # None BY <2>1, <2>4, <3>1 DEF Due
    <3>3. d \in Descriptors BY <2>2, <3>1, <3>2 DEF Records
    <3>4. d.hook \in Hooks BY <2>1, <3>1, <3>2, CommandType DEF RecordInv, PendingOK
    <3>5. d.hook.session \in Sessions /\ NoteEarly(s, d.hook)
      BY <1>3, <2>4, <3>1, <3>4, Zenon DEF CompleteSave, Hooks, s
    <3>6. PICK A : A = Advanced(records, s, d) OBVIOUS
    <3>7. CASE InPlace(d.hook) \/ d.hook.session \in Bound
      <4>1. records' = A BY <2>2, <2>4, <3>2, <3>5, <3>6, <3>7 DEF Settled, Bound
      <4>2. records' \in [Sessions -> Records \cup {None}] /\ FinishAs(s, FALSE)
        BY <1>3, <2>1, <3>1, <3>3, <3>4, <3>5, <3>6, <3>7, <4>1, FinishedRecords
      <4>3. QED BY <2>1, <4>2 DEF Finishes
    <3>8. CASE ~(InPlace(d.hook) \/ d.hook.session \in Bound)
      <4>1. records' = [A EXCEPT ![d.hook.session] = Continuation(s, d)]
        BY <2>2, <2>4, <3>2, <3>5, <3>6, <3>8 DEF Settled, Bound
      <4>2. records' \in [Sessions -> Records \cup {None}] /\ FinishAs(s, TRUE)
        BY <1>3, <2>1, <3>1, <3>3, <3>4, <3>5, <3>6, <3>8, <4>1, FinishedRecords
      <4>3. QED BY <2>1, <4>2 DEF Finishes
    <3>9. QED BY <3>7, <3>8
  <2>5. QED BY <2>3, <2>4
<1>4. CASE BindRecord
  <2>1. PICK s : s = call.session OBVIOUS
  <2>2. s \in Sessions /\ HighWater({s}) \in 0..MaxRows
    BY <1>4, <2>1, CommandType, HighWaterType DEF BindRecord, Completed, At
  <2>3. CASE s \in Bound BY <1>2, <1>4, <2>1, <2>3 DEF BindRecord
  <2>4. CASE s \notin Bound
    <3>1. records' = [records EXCEPT ![s] = Record(s, HighWater({s}))]
      BY <1>4, <2>1, <2>4 DEF BindRecord
    <3>2. Record(s, HighWater({s})) \in Records BY <2>2, RecordType
    <3>3. QED BY <1>1, <1>4, <2>1, <2>2, <2>4, <3>1, <3>2 DEF Fresh
  <2>5. QED BY <2>3, <2>4
<1>5. ASSUME StartSaved \/ InjectionSaved
      PROVE  records' \in [Sessions -> Records \cup {None}] /\ Flags
  <2>1. PICK s : s = call.session OBVIOUS
  <2>2. s \in Bound BY <1>5, <2>1 DEF StartSaved, InjectionSaved, At, CommandInv, Binding
  <2>3. records[s] \in Records BY <2>2, BoundType
  <2>4. CASE StartSaved
    <3>1. PICK r : r = [records[s] EXCEPT !.started = TRUE] OBVIOUS
    <3>2. /\ r \in Records /\ r.logical = records[s].logical /\ r.boundary = records[s].boundary
          /\ r.pending = records[s].pending /\ r.injected = records[s].injected
          /\ r.finalPending = records[s].finalPending
      BY <2>3, <3>1 DEF Records
    <3>3. records' = [records EXCEPT ![s] = r] BY <1>1, <2>1, <2>4, <3>1 DEF StartSaved
    <3>4. QED BY <2>2, <3>2, <3>3, OneRecord DEF RecordInv
  <2>5. CASE InjectionSaved
    <3>1. PICK r : r = [records[s] EXCEPT !.injected = TRUE] OBVIOUS
    <3>2. /\ r \in Records /\ r.logical = records[s].logical /\ r.boundary = records[s].boundary
          /\ r.pending = records[s].pending /\ r.injected
          /\ r.finalPending = records[s].finalPending
      BY <2>3, <3>1 DEF Records
    <3>3. records' = [records EXCEPT ![s] = r] BY <1>1, <2>1, <2>5, <3>1 DEF InjectionSaved
    <3>4. QED BY <2>1, <2>2, <2>5, <3>2, <3>3, OneRecord DEF RecordInv
  <2>6. QED BY <1>5, <2>4, <2>5
<1>6. CASE BindBoundary
  <2>1. PICK o : o = Owner OBVIOUS
  <2>2. /\ o \in Bound /\ records[o] \in Records /\ call.hook \in Hooks
        /\ records' = [records EXCEPT ![o].pending = desc']
    BY <1>6, <2>1, BoundType, CommandType DEF BindBoundary, Completed, At
  <2>3. desc' \in Descriptors
    <3>1. /\ records[o].logical \in Sessions /\ records[o].boundary \in 0..MaxRows
          /\ HighWater(Lineage) \in 0..MaxRows
      BY <2>2, HighWaterType DEF Records
    <3>2. TheCandidate(Lineage, records[o].boundary, HighWater(Lineage)) \in 0..MaxRows
      BY <3>1, TheCandidateIs
    <3>3. QED BY <1>6, <2>1, <2>2, <3>1, <3>2, DescriptorTypes DEF BindBoundary
  <2>4. PICK e \in Descriptors : e = desc' BY <2>3
  <2>5. PICK r : r = [records[o] EXCEPT !.pending = e] OBVIOUS
  <2>6. /\ r \in Records /\ r.logical = records[o].logical /\ r.boundary = records[o].boundary
        /\ r.pending = e /\ r.injected = records[o].injected
        /\ r.finalPending = records[o].finalPending
    BY <2>2, <2>4, <2>5 DEF Records
  <2>7. o \in Sessions /\ records' = [records EXCEPT ![o] = r]
    BY <1>1, <2>2, <2>4, <2>5 DEF Bound
  <2>8. records' \in [Sessions -> Records \cup {None}] BY <1>1, <2>6, <2>7
  <2>9. \A t \in Sessions : records'[t] = IF t = o THEN r ELSE records[t] BY <1>1, <2>7
  <2>10. \A t \in Bound : records[t] \in Records /\ t \in Sessions BY BoundType
  <2>11. \A t \in Sessions : t \notin Bound => records[t] = None BY DEF Bound
  <2>12. Binds BY <1>6, <2>1, <2>2, <2>4, <2>6, <2>9, <2>10, <2>11 DEF Binds
  <2>13. QED BY <2>8, <2>12
<1>7. CASE CompressSaved
  <2>1. PICK o, d : o = Owner /\ d = desc OBVIOUS
  <2>2. At("published") /\ call.op = "compress" BY <1>7 DEF CompressSaved
  <2>3. /\ o \in Bound /\ records[o].pending = d /\ d # None /\ d.hook = call.hook
    BY <2>1, <2>2 DEF At, CommandInv, Publishing
  <2>4. d.hook \in Hooks BY <2>2, <2>3, CommandType DEF At
  <2>5. d \in Descriptors /\ NoteEarly(o, d.hook) BY <1>7, <2>1, <2>3, BoundType DEF CompressSaved
  <2>6. PICK A : A = Advanced(records, o, d) OBVIOUS
  <2>7. CASE InPlace(d.hook)
    <3>1. records' = A BY <1>7, <2>1, <2>6, <2>7 DEF CompressSaved
    <3>2. records' \in [Sessions -> Records \cup {None}] /\ FinishAs(o, FALSE)
      BY <1>7, <2>3, <2>4, <2>5, <2>6, <2>7, <3>1, FinishedRecords
    <3>3. QED BY <2>3, <3>2 DEF Finishes
  <2>8. CASE ~InPlace(d.hook)
    <3>1. records' = [A EXCEPT ![d.hook.session] = Continuation(o, d)]
      BY <1>7, <2>1, <2>6, <2>8 DEF CompressSaved
    <3>2. records' \in [Sessions -> Records \cup {None}] /\ FinishAs(o, TRUE)
      BY <1>7, <2>3, <2>4, <2>5, <2>6, <2>8, <3>1, FinishedRecords
    <3>3. QED BY <2>3, <3>2 DEF Finishes
  <2>9. QED BY <2>7, <2>8
<1>8. ASSUME NEW s \in Sessions, BeginFinalize(s)
      PROVE  records' \in [Sessions -> Records \cup {None}] /\ Flags
  <2>1. s \in Bound /\ records[s] \in Records BY <1>8, BoundType DEF BeginFinalize
  <2>2. desc' \in Descriptors /\ desc'.kind = "finalize"
    <3>1. CASE records[s].finalPending # None
      BY <1>8, <2>1, <3>1 DEF BeginFinalize, Records, RecordInv
    <3>2. CASE records[s].finalPending = None
      <4>1. records[s].logical \in Sessions /\ 0 \in 0..MaxRows
        BY <2>1, HermesAssumption DEF Records
      <4>2. spool[records[s].logical] \in Nat /\ calls \in 0..MaxCalls /\ 0 \in 0..MaxCalls
        BY <4>1, HermesAssumption DEF TypeOK
      <4>3. StartOf(records[s].logical) \in Descriptors
        BY <4>1, <4>2 DEF StartOf, Descriptors
      <4>4. FinalOf(s, records[s].logical) \in Descriptors
            /\ FinalOf(s, records[s].logical).kind = "finalize"
        BY <4>1, <4>2, <4>3 DEF FinalOf, StartOf, Descriptors
      <4>5. QED BY <1>8, <3>2, <4>4 DEF BeginFinalize
    <3>3. QED BY <3>1, <3>2
  <2>3. PICK e \in Descriptors : e = desc' BY <2>2
  <2>4. PICK r : r = [records[s] EXCEPT !.finalPending = e] OBVIOUS
  <2>5. /\ r \in Records /\ r.logical = records[s].logical /\ r.boundary = records[s].boundary
        /\ r.pending = records[s].pending /\ r.injected = records[s].injected
        /\ r.finalPending = e
    BY <2>1, <2>3, <2>4 DEF Records
  <2>6. records' = [records EXCEPT ![s] = r] BY <1>1, <1>8, <2>3, <2>4 DEF BeginFinalize
  <2>7. QED BY <2>1, <2>2, <2>3, <2>5, <2>6, OneRecord
<1>9. CASE FinalizeSaved
  <2>1. PICK s : s = call.session OBVIOUS
  <2>2. s \in Bound BY <1>9, <2>1 DEF FinalizeSaved, At, CommandInv, Publishing
  <2>3. records[s] \in Records BY <2>2, BoundType
  <2>4. PICK r : r = [records[s] EXCEPT !.finalPending = None, !.finalized = TRUE] OBVIOUS
  <2>5. /\ r \in Records /\ r.logical = records[s].logical /\ r.boundary = records[s].boundary
        /\ r.pending = records[s].pending /\ r.injected = records[s].injected
        /\ r.finalPending = None
    BY <2>3, <2>4 DEF Records
  <2>6. records' = [records EXCEPT ![s] = r] BY <1>1, <1>9, <2>1, <2>4 DEF FinalizeSaved
  <2>7. QED BY <2>2, <2>5, <2>6, OneRecord
<1>10. QED
  <2>1. ASSUME Host \/ Worker \/ Retried \/ Killed PROVE UNCHANGED records
    BY <2>1 DEF Host, Message, HostCompress, SignalLost, Search, Worker, Drained, WorkerFails,
       Retried, Killed, durable
  <2>2. ASSUME Begin PROVE UNCHANGED records \/ \E s \in Sessions : BeginFinalize(s)
    BY <2>2 DEF Begin, BeginBind, BeginCompress, durable
  <2>3. ASSUME Continue
        PROVE  \/ UNCHANGED records \/ CompleteSave \/ BindRecord \/ StartSaved
               \/ InjectionSaved \/ BindBoundary \/ CompressSaved \/ FinalizeSaved
    BY <2>3 DEF Continue, Complete, Bind, Compress, CompletePublish, PublishStart,
       AlreadyInjected, RecordInjection, Deliver, CompressRefused, Publish, BindRefused,
       durable
  <2>4. ASSUME UNCHANGED vars PROVE UNCHANGED records BY <2>4 DEF vars, durable
  <2>5. QED
    BY <1>2, <1>3, <1>4, <1>5, <1>6, <1>7, <1>8, <1>9, <2>1, <2>2, <2>3, <2>4 DEF Next

-----------------------------------------------------------------------------
(* Type correctness *)

\* The queue and what was ever published.
LEMMA EnqueueType ==
  ASSUME queued \subseteq Descriptors, published \subseteq Descriptors,
         NEW d \in Descriptors, Enqueue(d)
  PROVE  queued' \subseteq Descriptors /\ published' \subseteq Descriptors
BY DEF Enqueue

\* The initial state is one of these.
LEMMA TypeInit == Init => TypeOK
<1> SUFFICES ASSUME Init PROVE TypeOK OBVIOUS
<1>1. rows \in Seq([session : Sessions, carrier : BOOLEAN]) /\ Len(rows) = 0
      /\ compressions \in Seq(Hooks) /\ Len(compressions) = 0
  BY DEF Init
<1>2. records \in [Sessions -> Records \cup {None}] BY DEF Init
<1>3. {spool, injections, shown} \subseteq [Sessions -> Nat] BY DEF Init
<1>4. QED BY <1>1, <1>2, <1>3, HermesAssumption DEF Init, TypeOK, Pcs

\* The rows and compressions of the host, the bounded counters.
LEMMA HostType ==
  ASSUME TypeOK, CommandInv, [Next]_vars
  PROVE  /\ rows' \in Seq([session : Sessions, carrier : BOOLEAN]) /\ Len(rows') <= MaxRows
         /\ compressions' \in Seq(Hooks) /\ signalled' \in 0..Len(compressions')
         /\ accesses' \in 0..MaxAccess /\ calls' \in 0..MaxCalls /\ faults' \in 0..MaxFaults
<1> DEFINE Goal ==
      /\ rows' \in Seq([session : Sessions, carrier : BOOLEAN]) /\ Len(rows') <= MaxRows
      /\ compressions' \in Seq(Hooks) /\ signalled' \in 0..Len(compressions')
      /\ accesses' \in 0..MaxAccess /\ calls' \in 0..MaxCalls /\ faults' \in 0..MaxFaults
<1>1. /\ rows \in Seq([session : Sessions, carrier : BOOLEAN]) /\ Len(rows) <= MaxRows
      /\ compressions \in Seq(Hooks) /\ signalled \in 0..Len(compressions)
      /\ accesses \in 0..MaxAccess /\ calls \in 0..MaxCalls /\ faults \in 0..MaxFaults
      /\ MaxRows \in Nat /\ MaxAccess \in Nat /\ MaxCalls \in Nat /\ MaxFaults \in Nat
  BY HermesAssumption DEF TypeOK
<1>2. Opened \subseteq Sessions
  <2>1. \A i \in 1..Len(compressions) : compressions[i] \in Hooks BY <1>1
  <2>2. \A i \in 1..Len(compressions) : compressions[i].session \in Sessions
    BY <2>1 DEF Hooks
  <2>3. QED BY <2>2, HermesAssumption DEF Opened
<1>3. ASSUME NEW s \in Sessions, NEW carrier \in BOOLEAN, AppendRow(s, carrier)
      PROVE  rows' \in Seq([session : Sessions, carrier : BOOLEAN]) /\ Len(rows') <= MaxRows
  BY <1>1, <1>3 DEF AppendRow
<1>4. CASE Message BY <1>1, <1>2, <1>3, <1>4 DEF Message
<1>5. CASE HostCompress
  <2>1. PICK old \in Opened, s \in Sessions, count \in Counts :
          /\ AppendRow(s, TRUE)
          /\ compressions' = Append(compressions, [session |-> s, old |-> old, count |-> count])
    BY <1>5 DEF HostCompress
  <2>2. [session |-> s, old |-> old, count |-> count] \in Hooks BY <1>2 DEF Hooks
  <2>3. compressions' \in Seq(Hooks) /\ Len(compressions') = Len(compressions) + 1
    BY <1>1, <2>1, <2>2
  <2>4. rows' \in Seq([session : Sessions, carrier : BOOLEAN]) /\ Len(rows') <= MaxRows
    BY <1>3, <2>1
  <2>5. UNCHANGED <<signalled, accesses, calls, faults>> BY <1>5 DEF HostCompress
  <2>6. signalled' \in 0..Len(compressions') BY <1>1, <2>3, <2>5
  <2>7. QED BY <1>1, <2>3, <2>4, <2>5, <2>6
<1>6. CASE SignalLost BY <1>1, <1>6 DEF SignalLost
<1>7. CASE Search BY <1>1, <1>7 DEF Search, host
<1>8. CASE BeginCompress
  <2>1. /\ UNCHANGED <<rows, compressions, accesses, faults>> /\ calls < MaxCalls
        /\ calls' = calls + 1
        /\ \E i \in 1..Len(compressions) : signalled' = i \/ signalled' = signalled
    BY <1>8 DEF BeginCompress
  <2>2. signalled' \in 0..Len(compressions') /\ calls' \in 0..MaxCalls BY <1>1, <2>1
  <2>3. QED BY <1>1, <2>1, <2>2
<1>9. ASSUME NEW s \in Sessions, BeginFinalize(s) PROVE Goal
  <2>1. /\ UNCHANGED <<rows, compressions, signalled, accesses, faults>> /\ calls < MaxCalls
        /\ calls' = calls + 1
    BY <1>9 DEF BeginFinalize, host
  <2>2. QED BY <1>1, <2>1
<1>10. CASE Killed BY <1>1, <1>10 DEF Killed, host
<1>11. ASSUME NEW s \in Sessions, NEW defer \in BOOLEAN, BeginBind(s, defer) PROVE Goal
  BY <1>1, <1>11 DEF BeginBind, host
<1>12. CASE WorkerFails \/ Retried \/ BindRefused
  BY <1>1, <1>12 DEF WorkerFails, Retried, BindRefused, host
<1>13. ASSUME Drained \/ Continue, ~BindRefused
       PROVE  UNCHANGED <<rows, compressions, signalled, accesses, calls, faults>>
  BY <1>13 DEF Drained, Continue, Complete, Bind, Compress, CompletePublish, CompleteSave,
     BindRefused, BindRecord, PublishStart, StartSaved, AlreadyInjected, RecordInjection,
     InjectionSaved, Deliver, CompressRefused, BindBoundary, CompressSaved, Publish,
     FinalizeSaved, host
<1>14. CASE UNCHANGED vars BY <1>1, <1>14 DEF vars, host
<1>15. QED
  BY <1>1, <1>4, <1>5, <1>6, <1>7, <1>8, <1>9, <1>10, <1>11, <1>12, <1>13, <1>14
     DEF Next, Worker, Host, Begin

\* A counter per session, after one more.
LEMMA CountedOnce ==
  ASSUME NEW f \in [Sessions -> Nat], NEW s
  PROVE  [f EXCEPT ![s] = @ + 1] \in [Sessions -> Nat]
<1> DEFINE g == [f EXCEPT ![s] = @ + 1]
<1>1. g = [t \in Sessions |-> IF t = s THEN f[s] + 1 ELSE f[t]] OBVIOUS
<1>2. \A t \in Sessions : f[t] \in Nat OBVIOUS
<1>3. \A t \in Sessions : (IF t = s THEN f[s] + 1 ELSE f[t]) \in Nat BY <1>2
<1> HIDE DEF g
<1>4. QED BY <1>1, <1>3

\* The spools, what was injected and shown.
LEMMA SpoolType ==
  ASSUME TypeOK, CommandInv, [Next]_vars
  PROVE  {spool', injections', shown'} \subseteq [Sessions -> Nat]
<1>1. spool \in [Sessions -> Nat] /\ injections \in [Sessions -> Nat]
      /\ shown \in [Sessions -> Nat]
  BY DEF TypeOK
<1>2. CASE Search
  <2>1. PICK s \in Opened : spool' = [spool EXCEPT ![s] = @ + 1] BY <1>2 DEF Search
  <2>2. spool' \in [Sessions -> Nat] BY <1>1, <2>1, CountedOnce
  <2>3. QED BY <1>1, <1>2, <2>2 DEF Search
<1>3. CASE RecordInjection
  <2>1. PICK l : l = Here.logical OBVIOUS
  <2>2. /\ spool' = [spool EXCEPT ![l] = @ + 1]
        /\ injections' = [injections EXCEPT ![l] = @ + 1] /\ UNCHANGED shown
    BY <1>3, <2>1 DEF RecordInjection
  <2>3. spool' \in [Sessions -> Nat] BY <1>1, <2>2, CountedOnce
  <2>4. injections' \in [Sessions -> Nat] BY <1>1, <2>2, CountedOnce
  <2>5. QED BY <1>1, <2>2, <2>3, <2>4
<1>4. CASE Deliver
  <2>1. PICK l : l = Here.logical OBVIOUS
  <2>2. shown' = [shown EXCEPT ![l] = @ + 1] /\ UNCHANGED <<spool, injections>>
    BY <1>4, <2>1 DEF Deliver, durable
  <2>3. shown' \in [Sessions -> Nat] BY <1>1, <2>2, CountedOnce
  <2>4. QED BY <1>1, <2>2, <2>3
<1>5. ASSUME ~Search, ~RecordInjection, ~Deliver
      PROVE  UNCHANGED <<spool, injections, shown>>
  BY <1>5 DEF Next, vars, Host, Message, HostCompress, SignalLost, Worker, Drained,
     WorkerFails, Retried, Begin, BeginBind, BeginCompress, BeginFinalize, Continue, Complete,
     Bind, Compress, CompletePublish, CompleteSave, BindRefused, BindRecord, PublishStart,
     StartSaved, AlreadyInjected, InjectionSaved, CompressRefused, BindBoundary, CompressSaved,
     Publish, FinalizeSaved, Killed, durable
<1>6. QED BY <1>1, <1>2, <1>3, <1>4, <1>5

\* The running command, and the events that it queues.
LEMMA RunningType ==
  ASSUME TypeOK, CommandInv, RecordInv, [Next]_vars
  PROVE  /\ queued' \subseteq Descriptors /\ published' \subseteq Descriptors
         /\ pc' \in Pcs /\ call' \in Calls \cup {None} /\ desc' \in Descriptors \cup {None}
<1> DEFINE Queues == queued' \subseteq Descriptors /\ published' \subseteq Descriptors
           Runs == /\ pc' \in Pcs /\ call' \in Calls \cup {None}
                   /\ desc' \in Descriptors \cup {None}
<1>1. /\ queued \subseteq Descriptors /\ published \subseteq Descriptors
      /\ pc \in Pcs /\ call \in Calls \cup {None} /\ desc \in Descriptors \cup {None}
  BY DEF TypeOK
<1>2. ASSUME Return PROVE Runs BY <1>2 DEF Return, Pcs
<1>3. ASSUME UNCHANGED <<queued, published>> PROVE Queues BY <1>1, <1>3
<1>4. ASSUME NEW l \in Pcs, Goto(l), UNCHANGED <<call, desc>> PROVE Runs
  BY <1>1, <1>4 DEF Goto
<1>5. CASE Host \/ Killed \/ UNCHANGED vars
  BY <1>1, <1>2, <1>3, <1>5 DEF Host, Message, HostCompress, SignalLost, Search, Killed, vars,
     durable, running
<1>6. CASE Worker \/ Retried
  BY <1>1, <1>6 DEF Worker, Drained, WorkerFails, Retried, running
<1>7. ASSUME NEW s \in Sessions, NEW defer \in BOOLEAN, BeginBind(s, defer) PROVE Queues /\ Runs
  <2>1. [op |-> "bind", session |-> s, hook |-> None, defer |-> defer] \in Calls BY DEF Calls
  <2>2. QED BY <1>1, <1>7, <2>1 DEF BeginBind, Goto, durable, Pcs
<1>8. CASE BeginCompress
  <2>1. PICK i \in 1..Len(compressions) :
          call' = [op |-> "compress", session |-> compressions[i].session,
                   hook |-> compressions[i], defer |-> FALSE]
    BY <1>8 DEF BeginCompress
  <2>2. compressions[i] \in Hooks BY DEF TypeOK
  <2>3. call' \in Calls BY <2>1, <2>2 DEF Calls, Hooks
  <2>4. QED BY <1>1, <1>8, <2>3 DEF BeginCompress, Goto, durable, Pcs
<1>9. ASSUME NEW s \in Sessions, BeginFinalize(s) PROVE Queues /\ Runs
  <2>1. s \in Bound /\ records[s] \in Records BY <1>9, BoundType DEF BeginFinalize
  <2>2. records[s].logical \in Sessions BY <2>1 DEF Records
  <2>3. 0 \in 0..MaxRows BY HermesAssumption
  <2>4. desc' \in Descriptors
    <3>1. CASE records[s].finalPending # None BY <1>9, <2>1, <3>1, BoundType DEF BeginFinalize
    <3>2. CASE records[s].finalPending = None
      <4>1. spool[records[s].logical] \in Nat /\ calls \in 0..MaxCalls /\ 0 \in 0..MaxCalls
        BY <2>2, HermesAssumption DEF TypeOK
      <4>2. StartOf(records[s].logical) \in Descriptors
        BY <2>2, <2>3, <4>1 DEF StartOf, Descriptors
      <4>3. FinalOf(s, records[s].logical) \in Descriptors
        BY <4>1, <4>2 DEF FinalOf, StartOf, Descriptors
      <4>4. QED BY <1>9, <3>2, <4>3 DEF BeginFinalize
    <3>3. QED BY <3>1, <3>2
  <2>5. [op |-> "finalize", session |-> s, hook |-> None, defer |-> FALSE] \in Calls
    BY DEF Calls
  <2>6. QED BY <1>1, <1>9, <2>4, <2>5 DEF BeginFinalize, Goto, Pcs
<1>10. CASE CompletePublish
  <2>1. PICK d : d = Due(Min(Unfinished)) OBVIOUS
  <2>2. d \in Descriptors
    <3>1. Unfinished # {} /\ Unfinished \in SUBSET Nat
      BY <1>10 DEF CompletePublish, Unfinished, Bound, Sessions
    <3>2. Min(Unfinished) \in Unfinished BY <3>1, LeastNumber
    <3>3. Min(Unfinished) \in Bound /\ d # None BY <2>1, <3>2 DEF Unfinished
    <3>4. QED BY <2>1, <3>3, BoundType DEF Due
  <2>3. \/ Return /\ UNCHANGED <<queued, published>>
        \/ Enqueue(d) /\ Goto("completed") /\ UNCHANGED <<call, desc>>
    BY <1>10, <2>1 DEF CompletePublish
  <2>4. "completed" \in Pcs BY DEF Pcs
  <2>5. QED BY <1>1, <1>2, <1>4, <2>2, <2>3, <2>4, EnqueueType
<1>11. CASE PublishStart
  <2>1. PICK d : d = StartOf(Here.logical) OBVIOUS
  <2>2. d \in Descriptors
    <3>1. call.session \in Bound BY <1>11 DEF PublishStart, At, CommandInv, Binding
    <3>2. Here.logical \in Sessions BY <3>1, BoundType DEF Here, Records
    <3>3. spool[Here.logical] \in Nat /\ 0 \in 0..MaxCalls /\ 0 \in 0..MaxRows
      BY <3>2, HermesAssumption DEF TypeOK
    <3>4. QED BY <2>1, <3>2, <3>3 DEF StartOf, Descriptors
  <2>3. \/ Return /\ UNCHANGED <<queued, published>>
        \/ Enqueue(d) /\ Goto("started") /\ UNCHANGED <<call, desc>>
    BY <1>11, <2>1 DEF PublishStart
  <2>4. "started" \in Pcs BY DEF Pcs
  <2>5. QED BY <1>1, <1>2, <1>4, <2>2, <2>3, <2>4, EnqueueType
<1>12. CASE Publish
  <2>1. desc \in Descriptors BY <1>12, CommandType DEF Publish, At, Publishing
  <2>2. \/ Return /\ UNCHANGED <<queued, published>>
        \/ Enqueue(desc) /\ Goto("published") /\ UNCHANGED <<call, desc>>
    BY <1>12 DEF Publish
  <2>3. "published" \in Pcs BY DEF Pcs
  <2>4. QED BY <1>1, <1>2, <1>4, <2>1, <2>2, <2>3, EnqueueType
<1>13. CASE BindBoundary
  <2>1. Completed("compress") BY <1>13 DEF BindBoundary
  <2>2. PICK o : o = Owner OBVIOUS
  <2>3. o \in Bound /\ records[o] \in Records /\ call.hook \in Hooks
    BY <1>13, <2>1, <2>2, BoundType, CommandType DEF BindBoundary, Completed, At
  <2>4. records[o].logical \in Sessions /\ records[o].boundary \in 0..MaxRows
        /\ HighWater(Lineage) \in 0..MaxRows
    BY <2>3, HighWaterType DEF Records
  <2>5. TheCandidate(Lineage, records[o].boundary, HighWater(Lineage)) \in 0..MaxRows
    BY <2>4, TheCandidateIs
  <2>6. desc' \in Descriptors
    BY <1>13, <2>2, <2>3, <2>4, <2>5, DescriptorTypes DEF BindBoundary
  <2>7. QED BY <1>1, <1>13, <2>6 DEF BindBoundary, Goto, Pcs
<1>14. ASSUME CompleteSave \/ StartSaved \/ RecordInjection \/ InjectionSaved
       PROVE  /\ UNCHANGED <<queued, published, call, desc>>
              /\ pc' \in {"complete", "start", "injected", "deliver"}
  BY <1>14 DEF CompleteSave, StartSaved, RecordInjection, InjectionSaved, Goto
<1>15. ASSUME BindRefused \/ BindRecord \/ AlreadyInjected \/ Deliver \/ CompressRefused \/ CompressSaved
              \/ FinalizeSaved
       PROVE  /\ UNCHANGED <<queued, published>>
              /\ Return \/ (Goto("start") /\ UNCHANGED <<call, desc>>)
  BY <1>15 DEF BindRefused, BindRecord, AlreadyInjected, Deliver, CompressRefused,
     CompressSaved, FinalizeSaved, durable
<1>16. "start" \in Pcs /\ {"complete", "start", "injected", "deliver"} \subseteq Pcs BY DEF Pcs
<1>17. ASSUME Continue PROVE Queues /\ Runs
  BY <1>1, <1>2, <1>3, <1>4, <1>10, <1>11, <1>12, <1>13, <1>14, <1>15, <1>16, <1>17
     DEF Continue, Complete, Bind, Compress
<1>18. QED
  BY <1>5, <1>6, <1>7, <1>8, <1>9, <1>17 DEF Next, Begin

\* What failed is queued, and lineages are sessions.
LEMMA FailedType ==
  ASSUME TypeOK, [Next]_vars
  PROVE  failed' \subseteq queued'
<1>1. failed \subseteq queued BY DEF TypeOK
<1>2. CASE Worker \/ Retried
  BY <1>1, <1>2 DEF Worker, Drained, WorkerFails, Retried
<1>3. ASSUME CompletePublish \/ PublishStart \/ Publish
      PROVE  failed' = failed /\ queued \subseteq queued'
  BY <1>3 DEF CompletePublish, PublishStart, Publish, Enqueue
<1>4. ASSUME ~Worker, ~Retried, ~CompletePublish, ~PublishStart, ~Publish
      PROVE  UNCHANGED <<queued, failed>>
  BY <1>4 DEF Next, vars, Host, Message, HostCompress, SignalLost, Search, Begin, BeginBind,
     BeginCompress, BeginFinalize, Continue, Complete, Bind, Compress, CompleteSave,
     BindRefused, BindRecord, StartSaved, AlreadyInjected, RecordInjection, InjectionSaved,
     Deliver, CompressRefused, BindBoundary, CompressSaved, FinalizeSaved, Killed, durable
<1>5. QED BY <1>1, <1>2, <1>3, <1>4

\* Lineages that were continued early are lineages, and stay so.
LEMMA EarlyType ==
  ASSUME TypeOK, CommandInv, RecordInv, [Next]_vars
  PROVE  early \subseteq early' /\ early' \subseteq Sessions
<1>1. early \subseteq Sessions BY DEF TypeOK
<1>2. ASSUME NEW s \in Bound, NEW hook, NoteEarly(s, hook)
      PROVE  early \subseteq early' /\ early' \subseteq Sessions
  <2>1. records[s].logical \in Sessions BY BoundType DEF Records
  <2>2. QED BY <1>1, <1>2, <2>1 DEF NoteEarly
<1>3. CASE CompleteSave
  <2>1. PICK s : s = Min(Unfinished) OBVIOUS
  <2>2. s \in Bound BY <1>3, <2>1, CommandType DEF CompleteSave, At
  <2>3. early' = early \/ NoteEarly(s, records[s].pending.hook)
    BY <1>3, <2>1, Zenon DEF CompleteSave
  <2>4. QED BY <1>1, <1>2, <2>2, <2>3
<1>4. CASE CompressSaved
  <2>1. PICK s : s = Owner OBVIOUS
  <2>2. s \in Bound BY <1>4, <2>1 DEF CompressSaved, At, CommandInv, Publishing
  <2>3. NoteEarly(s, desc.hook) BY <1>4, <2>1 DEF CompressSaved
  <2>4. QED BY <1>2, <2>2, <2>3
<1>5. ASSUME ~CompleteSave, ~CompressSaved PROVE UNCHANGED early
  BY <1>5 DEF Next, vars, Host, Message, HostCompress, SignalLost, Search, Worker, Drained,
     WorkerFails, Retried, Begin, BeginBind, BeginCompress, BeginFinalize, Continue, Complete,
     CompletePublish, Bind, Compress, BindRefused, BindRecord, PublishStart, StartSaved,
     AlreadyInjected, RecordInjection, InjectionSaved, Deliver, CompressRefused, BindBoundary,
     Publish, FinalizeSaved, Killed
<1>6. QED BY <1>1, <1>3, <1>4, <1>5

\* Every step keeps the types.
LEMMA TypeNext ==
  ASSUME TypeOK, CommandInv, RecordInv, [Next]_vars
  PROVE  TypeOK'
BY HostType, SpoolType, RunningType, RecordSteps, FailedType, EarlyType DEF TypeOK

-----------------------------------------------------------------------------
(* What only grows *)

\* Rows are appended, and keep their numbers.
LEMMA RowsGrow ==
  ASSUME TypeOK, [Next]_vars
  PROVE  /\ Len(rows) \in Nat /\ Len(rows') \in Nat /\ Len(rows) <= Len(rows')
         /\ \A i \in 1..Len(rows) : rows'[i] = rows[i]
<1>1. rows \in Seq([session : Sessions, carrier : BOOLEAN]) BY DEF TypeOK
<1>2. CASE UNCHANGED rows BY <1>1, <1>2
<1>3. ASSUME NEW s, NEW carrier, AppendRow(s, carrier)
      PROVE  /\ Len(rows) \in Nat /\ Len(rows') \in Nat /\ Len(rows) <= Len(rows')
             /\ \A i \in 1..Len(rows) : rows'[i] = rows[i]
  <2>1. PICK r : rows' = Append(rows, r) BY <1>3 DEF AppendRow
  <2>2. QED BY <1>1, <2>1, AppendProperties
<1>4. UNCHANGED rows \/ \E s, carrier : AppendRow(s, carrier)
  BY DEF Next, vars, Host, Message, HostCompress, SignalLost, Search, Worker, Drained,
     WorkerFails, Retried, Begin, BeginBind, BeginCompress, BeginFinalize, Continue, Complete,
     Bind, Compress, CompletePublish, CompleteSave, BindRefused, BindRecord, PublishStart,
     StartSaved, AlreadyInjected, RecordInjection, InjectionSaved, Deliver, CompressRefused,
     BindBoundary, CompressSaved, Publish, FinalizeSaved, Killed, host
<1>5. QED BY <1>2, <1>3, <1>4

\* So are compressions, and they are signalled in their order.
LEMMA CompressionsGrow ==
  ASSUME TypeOK, [Next]_vars
  PROVE  /\ Len(compressions) \in Nat /\ Len(compressions') \in Nat
         /\ Len(compressions) <= Len(compressions')
         /\ \A i \in 1..Len(compressions) : compressions'[i] = compressions[i]
         /\ signalled \in 0..Len(compressions) /\ signalled' \in Nat /\ signalled <= signalled'
<1>1. compressions \in Seq(Hooks) /\ signalled \in 0..Len(compressions) BY DEF TypeOK
<1>2. CASE UNCHANGED <<compressions, signalled>> BY <1>1, <1>2
<1>3. CASE HostCompress
  <2>1. PICK h : compressions' = Append(compressions, h) BY <1>3 DEF HostCompress
  <2>2. UNCHANGED signalled BY <1>3 DEF HostCompress
  <2>3. QED BY <1>1, <2>1, <2>2, AppendProperties
<1>4. ASSUME SignalLost \/ BeginCompress
      PROVE  UNCHANGED compressions /\ signalled' \in Nat /\ signalled <= signalled'
  BY <1>1, <1>4 DEF SignalLost, BeginCompress
<1>5. UNCHANGED <<compressions, signalled>> \/ HostCompress \/ SignalLost \/ BeginCompress
  BY DEF Next, vars, Host, Message, Search, Worker, Drained, WorkerFails, Retried, Begin,
     BeginBind, BeginFinalize, Continue, Complete, Bind, Compress, CompletePublish,
     CompleteSave, BindRefused, BindRecord, PublishStart, StartSaved, AlreadyInjected,
     RecordInjection, InjectionSaved, Deliver, CompressRefused, BindBoundary, CompressSaved,
     Publish, FinalizeSaved, Killed, host
<1>6. QED BY <1>1, <1>2, <1>3, <1>4, <1>5

\* Nothing but the host's work changes them.
LEMMA CompressionsStay ==
  ASSUME [Next]_vars, ~HostCompress
  PROVE  compressions' = compressions
BY DEF Next, vars, Host, Message, SignalLost, Search, Worker, Drained, WorkerFails, Retried,
   Begin, BeginBind, BeginCompress, BeginFinalize, Continue, Complete, Bind, Compress,
   CompletePublish, CompleteSave, BindRefused, BindRecord, PublishStart, StartSaved,
   AlreadyInjected, RecordInjection, InjectionSaved, Deliver, CompressRefused, BindBoundary,
   CompressSaved, Publish, FinalizeSaved, Killed, host

\* Hence sessions stay open, signals given, and candidates candidates.
LEMMA HostGrows ==
  ASSUME TypeOK, [Next]_vars
  PROVE  /\ Opened \subseteq Opened' /\ Signalled \subseteq Signalled'
         /\ \A d : CandidateOK(d) => CandidateOK(d)'
<1>1. /\ Len(compressions) \in Nat /\ Len(compressions') \in Nat
      /\ Len(compressions) <= Len(compressions')
      /\ \A i \in 1..Len(compressions) : compressions'[i] = compressions[i]
  BY CompressionsGrow
<1>2. ASSUME NEW h \in Signalled PROVE h \in Signalled'
  <2>1. PICK i \in 1..signalled : h = compressions[i] BY DEF Signalled
  <2>2. i \in 1..Len(compressions) /\ i \in 1..signalled'
    BY CompressionsGrow
  <2>3. QED BY <1>1, <2>1, <2>2 DEF Signalled
<1>3. ASSUME NEW s \in Opened PROVE s \in Opened'
  <2>1. CASE s \in Roots BY <2>1 DEF Opened
  <2>2. CASE s \notin Roots
    <3>1. PICK i \in 1..Len(compressions) : s = compressions[i].session BY <2>2 DEF Opened
    <3>2. i \in 1..Len(compressions') /\ s = compressions'[i].session BY <1>1, <3>1
    <3>3. QED BY <3>2 DEF Opened
  <2>3. QED BY <2>1, <2>2
<1>4. ASSUME NEW d, CandidateOK(d) PROVE CandidateOK(d)'
  BY <1>4, RowsGrow DEF CandidateOK
<1>5. QED BY <1>2, <1>3, <1>4

\* A session that is bound stays bound, and keeps its lineage in most steps.
LEMMA BoundGrows ==
  ASSUME TypeOK, Flags \/ Fresh \/ Binds \/ Finishes
  PROVE  Bound \subseteq Bound' /\ \A t \in Bound : records'[t] \in Records
<1>1. ASSUME NEW s \in Bound PROVE records'[s] \in Records
  <2>1. s \in Sessions /\ records[s] \in Records BY BoundType
  <2>2. CASE Flags BY <2>1, <2>2, <1>1 DEF Flags
  <2>3. CASE Fresh BY <1>1, <2>1, <2>3 DEF Fresh
  <2>4. CASE Binds BY <1>1, <2>1, <2>4 DEF Binds
  <2>5. CASE Finishes
    <3>1. PICK o \in Bound, join \in BOOLEAN : FinishAs(o, join) BY <2>5 DEF Finishes
    <3>2. QED BY <1>1, <2>1, <3>1 DEF FinishAs, Moved, Joined
  <2>6. QED BY <2>2, <2>3, <2>4, <2>5
<1>2. \A r \in Records : r # None BY NoneAssumption
<1>3. Bound \subseteq Sessions BY DEF Bound
<1>4. QED BY <1>1, <1>2, <1>3 DEF Bound

-----------------------------------------------------------------------------
(* The running command *)

\* The initial state has none.
LEMMA CommandInit == Init => CommandInv
BY DEF Init, CommandInv, Binding, Publishing

\* Every step of a command leaves what its next step relies on.
LEMMA CommandNext ==
  ASSUME TypeOK, CommandInv, RecordInv, [Next]_vars
  PROVE  CommandInv'
<1>1. /\ records' \in [Sessions -> Records \cup {None}]
      /\ Flags \/ Fresh \/ Binds \/ Finishes
  BY RecordSteps
<1>2. Bound \subseteq Bound' /\ Opened \subseteq Opened' /\ Signalled \subseteq Signalled'
  BY <1>1, BoundGrows, HostGrows
<1>3. ASSUME pc' = "idle" PROVE CommandInv'
  BY <1>3 DEF CommandInv, Binding, Publishing
<1>4. ASSUME Return PROVE CommandInv' BY <1>3, <1>4 DEF Return
<1>5. CASE Host \/ Worker \/ Retried
  BY <1>3, <1>5 DEF Host, Message, HostCompress, SignalLost, Search, Worker, Drained,
     WorkerFails, Retried, AppendRow, At, running
<1>6. CASE Killed BY <1>4, <1>6 DEF Killed
<1>7. ASSUME NEW s \in Sessions, NEW defer \in BOOLEAN, BeginBind(s, defer) PROVE CommandInv'
  <2>1. /\ pc' = "complete" /\ call'.op = "bind" /\ call'.session = s /\ s \in Opened /\ call' # None
    <3>1. [op |-> "bind", session |-> s, hook |-> None, defer |-> defer] \in Calls BY DEF Calls
    <3>2. QED BY <1>7, <3>1, NoneAssumption DEF BeginBind, Goto
  <2>2. QED BY <1>2, <2>1 DEF CommandInv, Binding, Publishing
<1>8. CASE BeginCompress
  <2>1. PICK i \in 1..Len(compressions) :
          /\ (i = signalled + 1 /\ signalled' = i) \/ (i = signalled /\ signalled' = signalled)
          /\ call' = [op |-> "compress", session |-> compressions[i].session,
                      hook |-> compressions[i], defer |-> FALSE]
    BY <1>8 DEF BeginCompress
  <2>2. compressions' = compressions /\ pc' = "complete" BY <1>8 DEF BeginCompress, Goto
  <2>3. call'.hook \in Signalled'
    <3>1. i \in 1..signalled' BY <2>1, CompressionsGrow
    <3>2. QED BY <2>1, <2>2, <3>1 DEF Signalled
  <2>4. call' \in Calls
    <3>1. compressions[i] \in Hooks BY DEF TypeOK
    <3>2. QED BY <2>1, <3>1 DEF Calls, Hooks
  <2>5. call' # None /\ call'.op = "compress" BY <2>1, <2>4, NoneAssumption
  <2>6. QED BY <2>2, <2>3, <2>5 DEF CommandInv, Binding, Publishing
<1>9. ASSUME NEW s \in Sessions, BeginFinalize(s) PROVE CommandInv'
  <2>1. s \in Bound /\ pc' = "publish" /\ records' = [records EXCEPT ![s].finalPending = desc']
    BY <1>9 DEF BeginFinalize, Goto
  <2>2. call' = [op |-> "finalize", session |-> s, hook |-> None, defer |-> FALSE]
    BY <1>9 DEF BeginFinalize
  <2>3. call' \in Calls BY <2>2 DEF Calls
  <2>4. call' # None /\ call'.op = "finalize" /\ call'.session = s
    BY <2>2, <2>3, NoneAssumption
  <2>5. records[s] \in Records /\ records \in [Sessions -> Records \cup {None}]
    BY <2>1, BoundType DEF TypeOK
  <2>6. records'[s].finalPending = desc' BY <2>1, <2>5 DEF Records
  <2>7. desc' # None
    <3>1. CASE records[s].finalPending # None BY <1>9, <3>1 DEF BeginFinalize
    <3>2. CASE records[s].finalPending = None
      <4>1. records[s].logical \in Sessions /\ 0 \in 0..MaxRows BY <2>5, HermesAssumption DEF Records
      <4>2. spool[records[s].logical] \in Nat /\ calls \in 0..MaxCalls /\ 0 \in 0..MaxCalls
        BY <4>1, HermesAssumption DEF TypeOK
      <4>3. StartOf(records[s].logical) \in Descriptors
        BY <4>1, <4>2 DEF StartOf, Descriptors
      <4>4. FinalOf(s, records[s].logical) \in Descriptors
        BY <4>1, <4>2, <4>3 DEF FinalOf, StartOf, Descriptors
      <4>5. QED BY <1>9, <3>2, <4>4, NoneAssumption DEF BeginFinalize
    <3>3. QED BY <3>1, <3>2
  <2>8. s \in Bound' BY <1>2, <2>1
  <2>9. QED BY <2>1, <2>4, <2>6, <2>7, <2>8 DEF CommandInv, Binding, Publishing
<1>10. CASE CompletePublish
  <2>1. Return \/ (pc' = "completed" /\ UNCHANGED <<call, desc>>)
    BY <1>10 DEF CompletePublish, Goto
  <2>2. pc = "complete" /\ Unfinished # {} /\ UNCHANGED records
    BY <1>10 DEF CompletePublish, At
  <2>3. Unfinished' = Unfinished BY <2>2 DEF Unfinished, Bound, Due
  <2>4. QED BY <1>2, <1>4, <2>1, <2>2, <2>3 DEF CommandInv, Binding, Publishing
<1>11. CASE CompleteSave
  BY <1>2, <1>11 DEF CompleteSave, At, Goto, CommandInv, Binding, Publishing
<1>12. CASE BindRecord
  <2>1. pc = "complete" /\ call.op = "bind" BY <1>12 DEF BindRecord, Completed, At
  <2>2. PICK s : s = call.session OBVIOUS
  <2>3. call \in Calls /\ s \in Sessions BY <2>1, <2>2, CommandType
  <2>4. Return \/ (pc' = "start" /\ UNCHANGED <<call, desc>>) BY <1>12 DEF BindRecord, Goto
  <2>5. s \in Bound'
    <3>1. CASE s \in Bound BY <1>2, <3>1
    <3>2. CASE s \notin Bound
      <4>1. records' = [records EXCEPT ![s] = Record(s, HighWater({s}))]
        BY <1>12, <2>2, <3>2 DEF BindRecord
      <4>2. Record(s, HighWater({s})) \in Records BY <2>3, HighWaterType, RecordType
      <4>3. records'[s] \in Records BY <2>3, <4>1, <4>2 DEF TypeOK
      <4>4. QED BY <2>3, <4>3, NoneAssumption DEF Bound
    <3>3. QED BY <3>1, <3>2
  <2>6. QED BY <1>2, <1>4, <2>1, <2>2, <2>4, <2>5 DEF CommandInv, Binding, Publishing
<1>13. CASE PublishStart \/ StartSaved \/ RecordInjection \/ InjectionSaved
  <2>1. pc \in Binding
        /\ (Return \/ (pc' \in Binding /\ UNCHANGED <<call, desc>>))
    BY <1>13 DEF PublishStart, StartSaved, RecordInjection, InjectionSaved, At, Goto, Binding
  <2>2. pc # "idle" /\ call.op = "bind" /\ call # None BY <2>1 DEF CommandInv, Binding
  <2>3. QED BY <1>2, <1>4, <2>1, <2>2 DEF CommandInv, Binding, Publishing
<1>14. CASE \/ BindRefused \/ AlreadyInjected \/ Deliver \/ CompressRefused \/ CompressSaved
            \/ FinalizeSaved
  BY <1>4, <1>14 DEF BindRefused, AlreadyInjected, Deliver, CompressRefused, CompressSaved,
     FinalizeSaved
<1>15. CASE BindBoundary
  <2>1. /\ pc = "complete" /\ call.op = "compress" /\ pc' = "publish" /\ UNCHANGED call
        /\ Owner \in Bound
    BY <1>15 DEF BindBoundary, Completed, At, Goto
  <2>2. PICK o : o = Owner OBVIOUS
  <2>3. Owner' = o BY <2>1, <2>2 DEF Owner
  <2>4. records' = [records EXCEPT ![o].pending = desc'] BY <1>15, <2>2 DEF BindBoundary
  <2>5. o \in Sessions /\ records[o] \in Records /\ records \in [Sessions -> Records \cup {None}]
        /\ call.hook \in Hooks
    BY <2>1, <2>2, BoundType, CommandType DEF TypeOK
  <2>6. records'[o].pending = desc' BY <2>4, <2>5 DEF Records
  <2>7. desc' \in Descriptors /\ desc'.hook = call.hook
    <3>1. records[o].logical \in Sessions /\ records[o].boundary \in 0..MaxRows
          /\ HighWater(Lineage) \in 0..MaxRows
      BY <2>5, HighWaterType DEF Records
    <3>2. TheCandidate(Lineage, records[o].boundary, HighWater(Lineage)) \in 0..MaxRows
      BY <3>1, TheCandidateIs
    <3>3. QED BY <1>15, <2>2, <2>5, <3>1, <3>2, DescriptorTypes DEF BindBoundary
  <2>8. desc' # None BY <2>7, NoneAssumption
  <2>9. call.hook \in Signalled' BY <1>2, <2>1 DEF CommandInv
  <2>10. QED
    BY <1>2, <2>1, <2>2, <2>3, <2>6, <2>7, <2>8, <2>9 DEF CommandInv, Binding, Publishing
<1>16. CASE Publish
  <2>1. pc = "publish" /\ UNCHANGED records BY <1>16 DEF Publish, At
  <2>2. Return \/ (pc' = "published" /\ UNCHANGED <<call, desc>>) BY <1>16 DEF Publish, Goto
  <2>3. call' = call => Owner' = Owner BY DEF Owner
  <2>4. QED BY <1>2, <1>4, <2>1, <2>2, <2>3 DEF CommandInv, Binding, Publishing
<1>17. CASE UNCHANGED vars
  <2>1. UNCHANGED <<pc, call, desc, records>> BY <1>17 DEF vars, running, durable
  <2>2. Unfinished' = Unfinished /\ Owner' = Owner BY <2>1 DEF Unfinished, Bound, Due, Owner
  <2>3. QED BY <1>2, <2>1, <2>2 DEF CommandInv, Binding, Publishing
<1>18. QED
  BY <1>5, <1>6, <1>7, <1>8, <1>9, <1>10, <1>11, <1>12, <1>13, <1>14, <1>15, <1>16, <1>17
     DEF Next, Begin, Continue, Complete, Bind, Compress

-----------------------------------------------------------------------------
(* The lineages *)

\* Nothing is bound in the initial state.
LEMMA RecordInit == Init => RecordInv
<1> SUFFICES ASSUME Init PROVE RecordInv OBVIOUS
<1>1. Bound = {} BY DEF Init, Bound
<1>2. QED BY <1>1 DEF RecordInv

\* A lineage is that of a session which is bound, and one compression at most
\* is under way: it is bound only when no other is.
LEMMA RecordNext ==
  ASSUME TypeOK, CommandInv, RecordInv, [Next]_vars
  PROVE  RecordInv'
<1>1. /\ records' \in [Sessions -> Records \cup {None}]
      /\ Flags \/ Fresh \/ Binds \/ Finishes
  BY RecordSteps
<1>2. /\ Bound \subseteq Bound' /\ Opened \subseteq Opened' /\ Signalled \subseteq Signalled'
      /\ \A d : CandidateOK(d) => CandidateOK(d)'
  BY <1>1, BoundGrows, HostGrows
<1>3. /\ Bound \subseteq Sessions /\ Bound' \subseteq Sessions
      /\ \A t \in Sessions : t \notin Bound => records[t] = None
  BY DEF Bound
<1>4. ASSUME NEW s \in Bound, NEW d, PendingOK(s, d), s \in Bound',
             records'[s].logical = records[s].logical, records'[s].boundary = records[s].boundary
      PROVE  PendingOK(s, d)'
  BY <1>2, <1>4 DEF PendingOK
<1>5. ASSUME Bound' \subseteq Opened',
             \A s \in Bound' : records'[s].logical \in Bound',
             \A s \in Bound' : records'[s].finalPending # None =>
                                 records'[s].finalPending.kind = "finalize",
             \A s \in Bound' : records'[s].pending = None
      PROVE  RecordInv'
  BY <1>5 DEF RecordInv
<1>6. CASE Flags
  <2>1. Bound' = Bound BY <1>2, <1>3, <1>6 DEF Flags, Bound
  <2>2. \A s \in Bound : /\ records'[s].logical = records[s].logical
                         /\ records'[s].boundary = records[s].boundary
                         /\ records'[s].pending = records[s].pending
                         /\ records'[s].finalPending # None =>
                              records'[s].finalPending.kind = "finalize"
    BY <1>3, <1>6 DEF Flags
  <2>3. ASSUME NEW s \in Bound, NEW d, d = records'[s].pending, d # None PROVE PendingOK(s, d)'
    BY <1>4, <2>1, <2>2, <2>3 DEF RecordInv
  <2>4. \A s, t \in Bound : records'[s].pending # None /\ records'[t].pending # None => s = t
    BY <2>2 DEF RecordInv
  <2>5. \A s \in Bound : records'[s].logical \in Bound' BY <2>1, <2>2 DEF RecordInv
  <2>6. Bound' \subseteq Opened' BY <1>2, <2>1 DEF RecordInv
  <2>7. QED BY <2>1, <2>2, <2>3, <2>4, <2>5, <2>6 DEF RecordInv, PendingOK, CandidateOK
<1>7. CASE Fresh
  <2>1. PICK s : s = call.session OBVIOUS
  <2>2. pc = "complete" /\ call.op = "bind" BY <1>7 DEF Fresh, BindRecord, Completed, At
  <2>3. s \in Opened /\ s \in Sessions /\ Unfinished = {}
    BY <1>7, <2>1, <2>2, CommandType DEF CommandInv, Fresh, BindRecord, Completed
  <2>4. records'[s] = Record(s, HighWater({s})) /\ \A t \in Sessions : t # s => records'[t] = records[t]
    BY <1>7, <2>1, <2>3 DEF Fresh
  <2>5. Record(s, HighWater({s})) \in Records /\ Record(s, HighWater({s})) # None
    BY <2>3, HighWaterType, RecordType, NoneAssumption
  <2>6. Bound' = Bound \cup {s} BY <1>3, <2>3, <2>4, <2>5 DEF Bound
  <2>7. records'[s].logical = s /\ records'[s].pending = None /\ records'[s].finalPending = None
    BY <2>4 DEF Record
  <2>8. \A t \in Bound : t # s /\ records'[t] = records[t]
    BY <1>3, <1>7, <2>1, <2>4 DEF Fresh
  <2>9. \A t \in Bound : records[t].pending = None
    BY <2>3, <2>8 DEF Unfinished, Due, RecordInv
  <2>10. \A t \in Bound' : records'[t].logical \in Bound' BY <2>6, <2>7, <2>8 DEF RecordInv
  <2>11. \A t \in Bound' : records'[t].finalPending # None =>
                             records'[t].finalPending.kind = "finalize"
    BY <2>6, <2>7, <2>8 DEF RecordInv
  <2>12. Bound' \subseteq Opened' BY <1>2, <2>3, <2>6 DEF RecordInv
  <2>13. QED BY <1>5, <2>6, <2>7, <2>8, <2>9, <2>10, <2>11, <2>12
<1>8. CASE Binds
  <2>1. PICK o : o = Owner OBVIOUS
  <2>2. Completed("compress") /\ o \in Bound BY <1>8, <2>1 DEF Binds, BindBoundary
  <2>3. call.hook \in Signalled /\ call.hook \in Hooks /\ call.hook.old = o /\ Unfinished = {}
    BY <2>1, <2>2, CommandType DEF Completed, At, CommandInv, Owner
  <2>4. Bound' = Bound
    <3>1. \A t \in Bound : records'[t] # None BY <1>3, <1>8, NoneAssumption DEF Binds
    <3>2. \A t \in Sessions : t \notin Bound => records'[t] = None BY <1>8 DEF Binds
    <3>3. QED BY <1>3, <3>1, <3>2 DEF Bound
  <2>5. \A t \in Bound : /\ records'[t].logical = records[t].logical
                         /\ records'[t].boundary = records[t].boundary
                         /\ records'[t].finalPending = records[t].finalPending
                         /\ records'[t].pending = IF t = o THEN desc' ELSE records[t].pending
    BY <1>3, <1>8, <2>1 DEF Binds
  <2>6. \A t \in Bound : records[t].pending = None BY <2>3 DEF Unfinished, Due
  <2>7. ASSUME NEW d, d = desc' PROVE PendingOK(o, d)'
    <3>1. PICK from, to, c : /\ from = records[o].boundary /\ to = HighWater(Lineage)
                             /\ c = TheCandidate(Lineage, from, to)
      OBVIOUS
    <3>2. d = CheckpointOf(records[o].logical, call.hook, from, to, c) /\ from <= to
          /\ UNCHANGED rows
      BY <1>8, <2>1, <2>7, <3>1 DEF Binds, BindBoundary, host
    <3>3. records[o].logical \in Sessions /\ from \in 0..MaxRows /\ to \in 0..MaxRows
      BY <2>2, <3>1, BoundType, HighWaterType DEF Records
    <3>4. /\ c \in 0..MaxRows
          /\ c # 0 => /\ from < c /\ c <= to /\ c \in 1..Len(rows)
                      /\ rows[c].session \in Lineage
      BY <3>1, <3>3, TheCandidateIs
    <3>5. /\ d.kind = "checkpoint" /\ d.logical = records[o].logical /\ d.hook = call.hook
          /\ d.from = from /\ d.to = to /\ d.candidate = c
      BY <2>3, <3>2, <3>3, <3>4, DescriptorTypes
    <3>6. CandidateOK(d)' BY <3>2, <3>4, <3>5 DEF CandidateOK, Lineage
    <3>7. records'[o].logical = records[o].logical /\ records'[o].boundary = from
      BY <2>2, <2>5, <3>1
    <3>8. QED BY <1>2, <2>3, <3>2, <3>5, <3>6, <3>7 DEF PendingOK
  <2>8. ASSUME NEW t \in Bound, records'[t].pending # None PROVE t = o BY <2>5, <2>6, <2>8
  <2>9. ASSUME NEW t \in Bound, NEW d, d = records'[t].pending, d # None PROVE PendingOK(t, d)'
    <3>1. t = o BY <2>8, <2>9
    <3>2. d = desc' BY <2>5, <2>9, <3>1
    <3>3. PendingOK(o, d)' BY <2>7, <3>2
    <3>4. QED BY <3>1, <3>3
  <2>10. \A t \in Bound : records'[t].logical \in Bound' BY <2>4, <2>5 DEF RecordInv
  <2>11. Bound' \subseteq Opened' BY <1>2, <2>4 DEF RecordInv
  <2>12. QED BY <2>4, <2>5, <2>8, <2>9, <2>10, <2>11 DEF RecordInv, PendingOK, CandidateOK
<1>9. CASE Finishes
  <2>1. PICK o \in Bound, join \in BOOLEAN : FinishAs(o, join) BY <1>9 DEF Finishes
  <2>2. PICK d : d = records[o].pending OBVIOUS
  <2>3. PICK n : n = d.hook.session OBVIOUS
  <2>4. d # None /\ d.hook \in Signalled BY <2>1, <2>2 DEF FinishAs, RecordInv, PendingOK
  <2>5. n \in Opened /\ n \in Sessions
    <3>1. d.hook \in Hooks BY <2>4, CommandType
    <3>2. PICK i \in 1..signalled : d.hook = compressions[i] BY <2>4 DEF Signalled
    <3>3. i \in 1..Len(compressions) BY CompressionsGrow
    <3>4. QED BY <2>3, <3>1, <3>2, <3>3 DEF Opened, Hooks
  <2>6. \A t \in Bound : t # o => records[t].pending = None
    BY <2>2, <2>4 DEF RecordInv
  <2>7. ASSUME NEW t \in Bound'
        PROVE  /\ t \in Bound \/ t = n
               /\ records'[t].pending = None
               /\ records'[t].logical \in {records[o].logical, records[t].logical}
               /\ t \notin Bound => records'[t].logical = records[o].logical
               /\ records'[t].finalPending \in {None, records[t].finalPending}
               /\ t \notin Bound => records'[t].finalPending = None
    <3>1. t \in Sessions /\ records'[t] # None BY DEF Bound
    <3>2. CASE join /\ t = n BY <2>1, <2>2, <2>3, <3>1, <3>2 DEF FinishAs, Joined
    <3>3. CASE ~(join /\ t = n)
      <4>1. t \in Bound /\ Moved(o, t) BY <2>1, <2>2, <2>3, <3>1, <3>3 DEF FinishAs
      <4>2. QED BY <2>6, <4>1 DEF Moved
    <3>4. QED BY <3>2, <3>3
  <2>8. \A t \in Bound' : records'[t].logical \in Bound' BY <1>2, <2>7 DEF RecordInv
  <2>9. Bound' \subseteq Opened' BY <1>2, <2>5, <2>7 DEF RecordInv
  <2>10. \A t \in Bound' : records'[t].finalPending # None =>
                             records'[t].finalPending.kind = "finalize"
    BY <2>7 DEF RecordInv
  <2>11. QED BY <1>5, <2>7, <2>8, <2>9, <2>10
<1>10. QED BY <1>1, <1>6, <1>7, <1>8, <1>9

-----------------------------------------------------------------------------
(* The compressions that are published *)

\* A compression is published when a record holds it, in a step that changes
\* no record.
PublishesOf(o) ==
  /\ records[o].pending # None
  /\ published' = published \cup {records[o].pending}
  /\ UNCHANGED <<host, records, spool, injections, shown>>

LEMMA PublishedSteps ==
  ASSUME TypeOK, CommandInv, RecordInv, [Next]_vars
  PROVE  UNCHANGED published \/ \E o \in Bound : PublishesOf(o)
<1>1. CASE CompletePublish
  <2>1. PICK s, d : s = Min(Unfinished) /\ d = Due(s) OBVIOUS
  <2>2. s \in Bound /\ d # None
    <3>1. Unfinished # {} /\ Unfinished \in SUBSET Nat
      BY <1>1 DEF CompletePublish, Unfinished, Bound, Sessions
    <3>2. s \in Unfinished BY <2>1, <3>1, LeastNumber
    <3>3. QED BY <2>1, <3>2 DEF Unfinished
  <2>3. UNCHANGED published \/ Enqueue(d) BY <1>1, <2>1 DEF CompletePublish
  <2>4. UNCHANGED <<host, records, spool, injections, shown>> BY <1>1 DEF CompletePublish
  <2>5. CASE records[s].finalPending # None
    <3>1. d.kind = "finalize" BY <2>1, <2>2, <2>5 DEF Due, RecordInv
    <3>2. QED BY <2>3, <3>1 DEF Enqueue
  <2>6. CASE records[s].finalPending = None
    <3>1. d = records[s].pending BY <2>1, <2>6 DEF Due
    <3>2. d.kind = "checkpoint" BY <2>2, <3>1 DEF RecordInv, PendingOK
    <3>3. QED BY <2>2, <2>3, <2>4, <3>1, <3>2 DEF Enqueue, PublishesOf
  <2>7. QED BY <2>5, <2>6
<1>2. CASE PublishStart
  <2>1. PICK d : d = StartOf(Here.logical) /\ (UNCHANGED published \/ Enqueue(d))
    BY <1>2 DEF PublishStart
  <2>2. d.kind = "session_start" BY <2>1 DEF StartOf
  <2>3. QED BY <2>1, <2>2 DEF Enqueue
<1>3. CASE Publish
  <2>1. pc = "publish" /\ (UNCHANGED published \/ Enqueue(desc))
        /\ UNCHANGED <<host, records, spool, injections, shown>>
    BY <1>3 DEF Publish, At
  <2>2. CASE call.op = "finalize"
    <3>1. desc.kind = "finalize" BY <2>1, <2>2 DEF CommandInv, Publishing, RecordInv
    <3>2. QED BY <2>1, <3>1 DEF Enqueue
  <2>3. CASE call.op = "compress"
    <3>1. PICK o : o = Owner OBVIOUS
    <3>2. o \in Bound /\ records[o].pending = desc /\ desc # None
      BY <2>1, <2>3, <3>1 DEF CommandInv, Publishing
    <3>3. desc.kind = "checkpoint" BY <3>2 DEF RecordInv, PendingOK
    <3>4. QED BY <2>1, <3>2, <3>3 DEF Enqueue, PublishesOf
  <2>4. QED BY <2>1, <2>2, <2>3 DEF CommandInv, Publishing
<1>4. UNCHANGED published \/ CompletePublish \/ PublishStart \/ Publish
  BY DEF Next, vars, Host, Message, HostCompress, SignalLost, Search, Worker, Drained,
     WorkerFails, Retried, Begin, BeginBind, BeginCompress, BeginFinalize, Continue, Complete,
     Bind, Compress, CompleteSave, BindRefused, BindRecord, StartSaved, AlreadyInjected,
     RecordInjection, InjectionSaved, Deliver, CompressRefused, BindBoundary, CompressSaved,
     FinalizeSaved, Killed, durable
<1>5. QED BY <1>1, <1>2, <1>3, <1>4

\* What PublishedInv says of one compression d.
Behind(d) ==
  \/ records[d.hook.old].pending = d
  \/ \A s \in Bound : records[s].logical = d.logical => d.to <= records[s].boundary

\* What is published stays behind its lineage: a binding leaves the boundary
\* where it is, and the end of a compression moves it on.
LEMMA BehindNext ==
  ASSUME TypeOK, CommandInv, RecordInv, [Next]_vars,
         NEW d \in published, d.hook.old \in Bound, d.logical \in Bound, Behind(d)
  PROVE  Behind(d)'
<1>1. /\ records' \in [Sessions -> Records \cup {None}]
      /\ Flags \/ Fresh \/ Binds \/ Finishes
  BY RecordSteps
<1>2. /\ Bound \subseteq Sessions /\ Bound' \subseteq Sessions
      /\ \A t \in Sessions : t \notin Bound' => records'[t] = None
  BY DEF Bound
<1>3. d # None /\ d \in Descriptors BY NoneAssumption DEF TypeOK
<1>4. CASE Flags
  <2>1. Bound' \subseteq Bound BY <1>2, <1>4 DEF Flags, Bound
  <2>2. \A t \in Bound : /\ records'[t].logical = records[t].logical
                         /\ records'[t].boundary = records[t].boundary
                         /\ records'[t].pending = records[t].pending
    BY <1>2, <1>4 DEF Flags
  <2>3. QED BY <2>1, <2>2 DEF Behind
<1>5. CASE Fresh
  <2>1. PICK s : s = call.session OBVIOUS
  <2>2. s \notin Bound /\ \A t \in Sessions : t # s => records'[t] = records[t]
    BY <1>5, <2>1 DEF Fresh
  <2>3. ASSUME s \in Sessions PROVE records'[s].logical = s
    <3>1. records'[s] = Record(s, HighWater({s})) BY <1>5, <2>1, <2>3 DEF Fresh
    <3>2. QED BY <3>1 DEF Record
  <2>4. \A t \in Bound' : t = s \/ t \in Bound BY <1>2, <2>2 DEF Bound
  <2>5. records'[d.hook.old] = records[d.hook.old] BY <1>2, <2>2
  <2>6. ASSUME NEW t \in Bound', records'[t].logical = d.logical
        PROVE  t \in Bound /\ records'[t] = records[t]
    BY <1>2, <2>2, <2>3, <2>4, <2>6
  <2>7. QED BY <2>5, <2>6 DEF Behind
<1>6. CASE Binds
  <2>1. PICK o : o = Owner OBVIOUS
  <2>2. Unfinished = {} BY <1>6 DEF Binds, BindBoundary, Completed
  <2>3. records[d.hook.old].pending = None BY <2>2 DEF Unfinished, Due
  <2>4. Bound' \subseteq Bound BY <1>2, <1>6 DEF Binds, Bound
  <2>5. \A t \in Bound : /\ records'[t].logical = records[t].logical
                         /\ records'[t].boundary = records[t].boundary
    BY <1>2, <1>6 DEF Binds
  <2>6. QED BY <1>3, <2>3, <2>4, <2>5 DEF Behind
<1>7. CASE Finishes
  <2>1. PICK o \in Bound, join \in BOOLEAN : FinishAs(o, join) BY <1>7 DEF Finishes
  <2>2. PICK p : p = records[o].pending OBVIOUS
  <2>3. p # None /\ p \in Descriptors /\ PendingOK(o, p)
    BY <2>1, <2>2, BoundType DEF FinishAs, RecordInv
  <2>4. p.from \in Nat /\ p.to \in Nat /\ p.from <= p.to /\ p.from = records[o].boundary
        /\ p.logical = records[o].logical /\ d.to \in Nat
    BY <1>3, <2>3, HermesAssumption DEF PendingOK, Descriptors
  <2>5. d.logical = records[o].logical => d.to <= p.to
    <3>1. CASE records[d.hook.old].pending = d
      <4>1. d.hook.old = o BY <1>3, <2>2, <2>3, <3>1 DEF RecordInv
      <4>2. QED BY <2>2, <2>4, <3>1, <4>1
    <3>2. CASE \A s \in Bound : records[s].logical = d.logical => d.to <= records[s].boundary
      BY <2>4, <3>2
    <3>3. QED BY <3>1, <3>2 DEF Behind
  <2>6. d.logical # records[o].logical =>
          \A s \in Bound : records[s].logical = d.logical => d.to <= records[s].boundary
    <3>1. CASE records[d.hook.old].pending = d
      <4>1. d.hook.old = o BY <1>3, <2>2, <2>3, <3>1 DEF RecordInv
      <4>2. QED BY <2>2, <2>4, <3>1, <4>1
    <3>2. QED BY <3>1 DEF Behind
  <2>7. ASSUME NEW t \in Bound', records'[t].logical = d.logical
        PROVE  d.to <= records'[t].boundary
    <3>1. t \in Sessions /\ records'[t] # None BY DEF Bound
    <3>2. CASE join /\ t = p.hook.session
      <4>1. Joined(o, t) BY <2>1, <2>2, <3>1, <3>2 DEF FinishAs
      <4>2. records'[t].logical = records[o].logical /\ records'[t].boundary = p.to
        BY <2>2, <4>1 DEF Joined
      <4>3. QED BY <2>5, <2>7, <4>2
    <3>3. CASE ~(join /\ t = p.hook.session)
      <4>1. t \in Bound /\ Moved(o, t) BY <2>1, <2>2, <3>1, <3>3 DEF FinishAs
      <4>2. records[t].logical = d.logical
            /\ records'[t].boundary = IF records[t].logical = records[o].logical THEN p.to
                                      ELSE records[t].boundary
        BY <2>2, <2>7, <4>1 DEF Moved
      <4>3. QED BY <2>5, <2>6, <4>1, <4>2
    <3>4. QED BY <3>2, <3>3
  <2>8. QED BY <2>7 DEF Behind
<1>8. QED BY <1>1, <1>4, <1>5, <1>6, <1>7

\* So PublishedInv is kept ...
LEMMA PublishedNext ==
  ASSUME TypeOK, CommandInv, RecordInv, PublishedInv, [Next]_vars
  PROVE  PublishedInv'
<1>1. /\ Bound \subseteq Bound' /\ Signalled \subseteq Signalled'
      /\ \A d : CandidateOK(d) => CandidateOK(d)'
  BY RecordSteps, BoundGrows, HostGrows
<1>2. ASSUME NEW d \in published
      PROVE  /\ d.kind = "checkpoint" /\ d.hook \in Signalled' /\ CandidateOK(d)'
             /\ d.hook.old \in Bound' /\ d.logical \in Bound' /\ d.from <= d.to
             /\ Behind(d)'
  BY <1>1, <1>2, BehindNext DEF PublishedInv, Behind
<1>3. ASSUME NEW o \in Bound, PublishesOf(o), NEW d, d = records[o].pending
      PROVE  /\ d.kind = "checkpoint" /\ d.hook \in Signalled' /\ CandidateOK(d)'
             /\ d.hook.old \in Bound' /\ d.logical \in Bound' /\ d.from <= d.to
             /\ Behind(d)'
  <2>1. PendingOK(o, d) /\ records' = records BY <1>3 DEF PublishesOf, RecordInv
  <2>2. d.hook.old = o /\ d.logical = records[o].logical /\ records[o].logical \in Bound
    BY <2>1 DEF PendingOK, RecordInv
  <2>3. Behind(d)' BY <1>3, <2>1, <2>2 DEF Behind
  <2>4. QED BY <1>1, <2>1, <2>2, <2>3 DEF PendingOK
<1>4. ASSUME NEW d \in published'
      PROVE  /\ d.kind = "checkpoint" /\ d.hook \in Signalled' /\ CandidateOK(d)'
             /\ d.hook.old \in Bound' /\ d.logical \in Bound' /\ d.from <= d.to
             /\ Behind(d)'
  <2>1. CASE d \in published BY <1>2, <2>1
  <2>2. CASE d \notin published
    <3>1. PICK o \in Bound : PublishesOf(o) BY <2>2, PublishedSteps
    <3>2. d = records[o].pending BY <2>2, <3>1 DEF PublishesOf
    <3>3. QED BY <1>3, <3>1, <3>2
  <2>3. QED BY <2>1, <2>2
<1>5. QED BY <1>4 DEF PublishedInv, Behind, CandidateOK

\* ... and so are the intervals disjoint: the one under way begins at the
\* boundary of its lineage, which everything published before is behind.
LEMMA DisjointNext ==
  ASSUME TypeOK, CommandInv, RecordInv, PublishedInv, IntervalsDisjoint, [Next]_vars
  PROVE  IntervalsDisjoint'
<1>1. CASE UNCHANGED published BY <1>1 DEF IntervalsDisjoint
<1>2. ASSUME NEW o \in Bound, PublishesOf(o) PROVE IntervalsDisjoint'
  <2>1. PICK p : p = records[o].pending OBVIOUS
  <2>2. p # None /\ PendingOK(o, p) /\ published' = published \cup {p}
    BY <1>2, <2>1 DEF PublishesOf, RecordInv
  <2>3. p.logical = records[o].logical /\ p.from = records[o].boundary
    BY <2>2 DEF PendingOK
  <2>4. ASSUME NEW e \in published, e.logical = p.logical, e # p PROVE e.to <= p.from
    <3>1. e.hook.old \in Bound /\ e # None /\ Behind(e)
      BY NoneAssumption DEF TypeOK, PublishedInv, Behind
    <3>2. CASE records[e.hook.old].pending = e
      <4>1. e.hook.old = o BY <2>1, <2>2, <3>1, <3>2 DEF RecordInv
      <4>2. QED BY <2>1, <2>4, <3>2, <4>1
    <3>3. QED BY <2>3, <2>4, <3>1, <3>2 DEF Behind
  <2>5. QED BY <2>2, <2>4 DEF IntervalsDisjoint
<1>3. QED BY <1>1, <1>2, PublishedSteps

-----------------------------------------------------------------------------
(* Whatever the order in which the host's calls arrive *)

\* The types, what a command relies on, the lineages and what is published
\* of them, together.
THEOREM AdapterInvariant == Spec => []IInv
<1>1. Init => IInv
  <2> SUFFICES ASSUME Init PROVE IInv OBVIOUS
  <2>1. published = {} BY DEF Init
  <2>2. PublishedInv /\ IntervalsDisjoint BY <2>1 DEF PublishedInv, IntervalsDisjoint
  <2>3. QED BY <2>2, TypeInit, CommandInit, RecordInit DEF IInv
<1>2. IInv /\ [Next]_vars => IInv'
  BY TypeNext, CommandNext, RecordNext, PublishedNext, DisjointNext DEF IInv
<1>3. QED BY <1>1, <1>2, PTL DEF Spec

\* Every variable holds a value of its kind.
THEOREM AdapterTypeCorrect == Spec => []TypeOK
<1>1. IInv => TypeOK BY DEF IInv
<1>2. QED BY <1>1, AdapterInvariant, PTL

\* Compressions of one lineage never overlap, whatever is killed or repeated
\* between their binding and their publication.
THEOREM IntervalsAlwaysDisjoint == Spec => []IntervalsDisjoint
<1>1. IInv => IntervalsDisjoint BY DEF IInv
<1>2. QED BY <1>1, AdapterInvariant, PTL

\* A published compression is not forgotten: a lineage that was not moved
\* beyond it still holds it as pending.
THEOREM NothingEverRebound == Spec => []NothingRebound
<1>1. IInv => NothingRebound
  <2> SUFFICES ASSUME IInv, NEW d \in published, NEW s \in Bound,
                      records[s].logical = d.logical
               PROVE  records[s].boundary >= d.to \/ \E t \in Bound : records[t].pending = d
    BY DEF NothingRebound
  <2>1. d.hook.old \in Bound /\ Behind(d) BY DEF IInv, PublishedInv, Behind
  <2>2. records[s] \in Records /\ d \in Descriptors BY BoundType DEF IInv, TypeOK
  <2>3. records[s].boundary \in Nat /\ d.to \in Nat
    BY <2>2, HermesAssumption DEF Records, Descriptors
  <2>4. QED BY <2>1, <2>3 DEF Behind
<1>2. QED BY <1>1, AdapterInvariant, PTL

-----------------------------------------------------------------------------
(* If the host's calls arrive in the order of its work *)

\* What a signalled compression refers to.
LEMMA SignalledHook ==
  ASSUME TypeOK, OpeningInv, NEW h \in Signalled
  PROVE  /\ h \in Hooks /\ h.session \in Sessions
         /\ \E i \in 1..signalled : i \in 1..Len(compressions) /\ h = compressions[i]
<1>1. PICK i \in 1..signalled : h = compressions[i] BY DEF Signalled
<1>2. i \in 1..Len(compressions) /\ compressions[i] \in Hooks BY <1>1 DEF TypeOK
<1>3. QED BY <1>1, <1>2 DEF OpeningInv, Hooks

\* No session changes its lineage: the one that a compression continues in
\* is in it already, if it is bound.
LEMMA LineageStays ==
  ASSUME TypeOK, CommandInv, RecordInv, LineageInv, [Next]_vars, NEW s \in Bound
  PROVE  records'[s].logical = records[s].logical
<1>1. s \in Sessions BY DEF Bound
<1>2. CASE Flags BY <1>1, <1>2 DEF Flags
<1>3. CASE Fresh
  <2>1. s # call.session BY <1>3 DEF Fresh
  <2>2. QED BY <1>1, <1>3, <2>1 DEF Fresh
<1>4. CASE Binds BY <1>1, <1>4 DEF Binds
<1>5. CASE Finishes
  <2>1. PICK o \in Bound, join \in BOOLEAN : FinishAs(o, join) BY <1>5 DEF Finishes
  <2>2. PICK d : d = records[o].pending OBVIOUS
  <2>3. CASE join /\ s = d.hook.session
    <3>1. Joined(o, s) /\ ~InPlace(d.hook) /\ d # None BY <1>1, <2>1, <2>2, <2>3 DEF FinishAs
    <3>2. Follows(d.hook, records[o].logical) BY <2>2, <3>1 DEF LineageInv
    <3>3. records[s].logical = records[o].logical BY <2>3, <3>1, <3>2 DEF Follows
    <3>4. QED BY <3>1, <3>3 DEF Joined
  <2>4. CASE ~(join /\ s = d.hook.session)
    <3>1. Moved(o, s) BY <1>1, <2>1, <2>2, <2>4 DEF FinishAs
    <3>2. QED BY <3>1 DEF Moved
  <2>5. QED BY <2>3, <2>4
<1>6. QED BY <1>2, <1>3, <1>4, <1>5, RecordSteps

\* Hence a session that is in the lineage of the one it continues stays there,
\* unless it is bound to a lineage of its own.
LEMMA TogetherNext ==
  ASSUME TypeOK, CommandInv, RecordInv, LineageInv, [Next]_vars,
         NEW h \in Signalled, Together(h), Fresh => h.session \in Bound \/ InPlace(h)
  PROVE  Together(h)'
<1>1. /\ h \in Hooks /\ h.session \in Sessions
      /\ \E i \in 1..signalled : i \in 1..Len(compressions) /\ h = compressions[i]
  BY SignalledHook DEF LineageInv
<1>2. Bound \subseteq Sessions /\ Bound \subseteq Bound'
  BY RecordSteps, BoundGrows DEF Bound
<1>3. CASE InPlace(h) BY <1>3 DEF Together, InPlace
<1>4. CASE h.session \in Bound /\ ~InPlace(h)
  <2>1. h.old \in Bound /\ records[h.session].logical = records[h.old].logical
    BY <1>4 DEF Together
  <2>2. /\ records'[h.session].logical = records[h.session].logical
        /\ records'[h.old].logical = records[h.old].logical
    BY <1>4, <2>1, LineageStays
  <2>3. QED BY <1>2, <2>1, <2>2 DEF Together, InPlace
<1>5. CASE h.session \notin Bound /\ ~InPlace(h) /\ h.session \in Bound'
  <2>1. Finishes
    <3>1. records'[h.session] # None BY <1>5 DEF Bound
    <3>2. ~Flags /\ ~Binds BY <1>1, <1>5, <3>1 DEF Flags, Binds
    <3>3. QED BY <1>5, <3>2, RecordSteps
  <2>2. PICK o \in Bound, join \in BOOLEAN : FinishAs(o, join) BY <2>1 DEF Finishes
  <2>3. PICK d : d = records[o].pending OBVIOUS
  <2>4. d # None /\ d.hook \in Signalled /\ d.hook.old = o
    BY <2>2, <2>3 DEF FinishAs, RecordInv, PendingOK
  <2>5. join /\ h.session = d.hook.session /\ ~InPlace(d.hook) /\ Joined(o, h.session)
    <3>1. records'[h.session] # None BY <1>5 DEF Bound
    <3>2. QED BY <1>1, <1>5, <2>2, <2>3, <3>1 DEF FinishAs
  <2>6. h = d.hook
    <3>1. PICK i \in 1..Len(compressions) : h = compressions[i] BY <1>1
    <3>2. PICK j \in 1..Len(compressions) : d.hook = compressions[j]
      BY <2>4, SignalledHook DEF LineageInv
    <3>3. ~(i < j) /\ ~(j < i)
      BY <1>5, <2>5, <3>1, <3>2 DEF LineageInv, OpeningInv, OpenedOnce
    <3>4. i \in Nat /\ j \in Nat BY CompressionsGrow
    <3>5. i = j BY <3>3, <3>4
    <3>6. QED BY <3>1, <3>2, <3>5
  <2>7. h.old = o /\ records'[h.session].logical = records[o].logical
    BY <2>4, <2>5, <2>6 DEF Joined
  <2>8. records'[o].logical = records[o].logical BY LineageStays
  <2>9. QED BY <1>2, <2>7, <2>8 DEF Together, InPlace
<1>6. CASE h.session \notin Bound' BY <1>6 DEF Together, InPlace
<1>7. QED BY <1>3, <1>4, <1>5, <1>6

\* So what a compression follows, it follows for ever.
LEMMA FollowsNext ==
  ASSUME TypeOK, CommandInv, RecordInv, LineageInv, [Next]_vars,
         NEW h \in Signalled, h.old \in Bound, NEW l, l = records[h.old].logical,
         Follows(h, l), Fresh => h.session \in Bound \/ InPlace(h)
  PROVE  Follows(h, l)' /\ l = records'[h.old].logical
<1>1. l = records'[h.old].logical BY LineageStays
<1>2. Together(h) BY DEF Follows, Together
<1>3. Together(h)' BY <1>2, TogetherNext
<1>4. QED BY <1>1, <1>3 DEF Follows, Together, InPlace

\* A call that completes what others left has just begun, or is the same call.
LEMMA CompletingCall ==
  ASSUME [Next]_vars, pc' \in {"complete", "completed"}
  PROVE  \/ pc \in {"complete", "completed"} /\ call' = call
         \/ \E s \in Sessions, defer \in BOOLEAN : BeginBind(s, defer)
         \/ BeginCompress
<1>1. CASE Begin BY <1>1 DEF Begin, BeginFinalize, Goto
<1>2. CASE Continue
  BY <1>2 DEF Continue, Complete, Bind, Compress, CompletePublish, CompleteSave, BindRefused,
     BindRecord, PublishStart, StartSaved, AlreadyInjected, RecordInjection, InjectionSaved,
     Deliver, CompressRefused, BindBoundary, CompressSaved, Publish, FinalizeSaved, Return,
     Goto, At
<1>3. CASE Host \/ Worker \/ Retried \/ Killed
  BY <1>3 DEF Host, Message, HostCompress, SignalLost, Search, Worker, Drained, WorkerFails,
     Retried, Killed, AppendRow, At, Return, running
<1>4. CASE UNCHANGED vars BY <1>4 DEF vars, running
<1>5. QED BY <1>1, <1>2, <1>3, <1>4 DEF Next

\* Sessions are opened once, and not bound before the signal.
LEMMA OpeningNext ==
  ASSUME InOrder, TypeOK, CommandInv, RecordInv, LineageInv, [Next]_vars
  PROVE  OpeningInv'
<1>1. /\ Len(compressions) \in Nat /\ Len(compressions') \in Nat
      /\ Len(compressions) <= Len(compressions')
      /\ \A i \in 1..Len(compressions) : compressions'[i] = compressions[i]
      /\ signalled \in 0..Len(compressions) /\ signalled' \in Nat /\ signalled <= signalled'
  BY CompressionsGrow
<1>2. OpeningInv BY DEF LineageInv
<1>3. CASE HostCompress
  <2>1. PICK old \in Opened, s \in Sessions, count \in Counts :
          /\ s = old \/ s \notin Opened
          /\ compressions' = Append(compressions, [session |-> s, old |-> old, count |-> count])
    BY <1>3 DEF HostCompress
  <2>2. PICK n, h : n = Len(compressions) + 1
                    /\ h = [session |-> s, old |-> old, count |-> count]
    OBVIOUS
  <2>3. compressions \in Seq(Hooks) BY DEF TypeOK
  <2>4. Len(compressions') = n /\ compressions'[n] = h /\ h.session = s /\ h.old = old
    BY <2>1, <2>2, <2>3, AppendProperties
  <2>5. pc' = "idle" /\ Bound' = Bound /\ signalled' = signalled
    BY <1>3 DEF HostCompress, AppendRow, At, running, durable, Bound
  <2>6. ASSUME ~InPlace(h)
        PROVE  s \notin Bound /\ \A i \in 1..Len(compressions) : compressions[i].session # s
    BY <2>1, <2>4, <2>6 DEF InPlace, RecordInv, Opened
  <2>7. \A i \in 1..Len(compressions') : i \in 1..Len(compressions) \/ i = n
    BY <1>1, <2>2, <2>4
  <2>8. OpenedOnce'
    <3> SUFFICES ASSUME NEW i \in 1..Len(compressions'), NEW j \in 1..Len(compressions'),
                        i < j, ~InPlace(compressions'[j])
                 PROVE  compressions'[i].session # compressions'[j].session
      BY DEF OpenedOnce, InPlace
    <3>1. i \in 1..Len(compressions) BY <1>1, <2>2, <2>4
    <3>2. CASE j = n BY <1>1, <2>4, <2>6, <3>1, <3>2
    <3>3. CASE j # n BY <1>1, <1>2, <2>7, <3>1, <3>3 DEF OpeningInv, OpenedOnce
    <3>4. QED BY <3>2, <3>3
  <2>9. \A i \in (signalled' + 1)..Len(compressions') :
           ~InPlace(compressions'[i]) => compressions'[i].session \notin Bound'
    <3> SUFFICES ASSUME NEW i \in (signalled' + 1)..Len(compressions'),
                        ~InPlace(compressions'[i])
                 PROVE  compressions'[i].session \notin Bound'
      OBVIOUS
    <3>1. i \in 1..Len(compressions') /\ (i # n => i \in (signalled + 1)..Len(compressions))
      BY <1>1, <2>2, <2>4, <2>5
    <3>2. CASE i = n BY <2>4, <2>5, <2>6, <3>2
    <3>3. CASE i # n BY <1>1, <1>2, <2>5, <2>7, <3>1, <3>3 DEF OpeningInv
    <3>4. QED BY <3>2, <3>3
  <2>10. QED BY <2>5, <2>8, <2>9 DEF OpeningInv, InPlace
<1>4. CASE ~HostCompress
  <2>1. compressions' = compressions BY <1>4, CompressionsStay
  <2>2. Bound \subseteq Bound' BY RecordSteps, BoundGrows
  <2>3. OpenedOnce' BY <1>2, <2>1 DEF OpeningInv, OpenedOnce, InPlace
  <2>5. ASSUME NEW i \in (signalled' + 1)..Len(compressions)
        PROVE  i \in (signalled + 1)..Len(compressions) /\ i \in 1..Len(compressions)
    <3>1. signalled \in Nat /\ signalled' \in Nat BY <1>1
    <3>2. QED BY <1>1, <3>1, LaterNumbers
  <2>6. ASSUME NEW i \in (signalled' + 1)..Len(compressions), ~InPlace(compressions[i])
        PROVE  compressions[i].session \notin Bound'
    <3>1. i \in (signalled + 1)..Len(compressions) /\ i \in 1..Len(compressions) BY <2>5
    <3>2. compressions[i].session \notin Bound BY <1>2, <2>6, <3>1 DEF OpeningInv
    <3>3. compressions[i].session \in Sessions
      <4>1. compressions[i] \in Hooks BY <3>1 DEF TypeOK
      <4>2. QED BY <4>1 DEF Hooks
    <3>4. CASE Flags BY <3>2, <3>3, <3>4 DEF Flags, Bound
    <3>5. CASE Binds BY <3>2, <3>3, <3>5 DEF Binds, Bound
    <3>6. CASE Fresh
      <4>1. pc = "complete" /\ call.op = "bind" BY <3>6 DEF Fresh, BindRecord, Completed, At
      <4>2. compressions[i].session # call.session BY <1>2, <2>6, <3>1, <4>1 DEF OpeningInv
      <4>3. QED BY <3>2, <3>3, <3>6, <4>2 DEF Fresh, Bound
    <3>7. CASE Finishes
      <4>1. PICK o \in Bound, join \in BOOLEAN : FinishAs(o, join) BY <3>7 DEF Finishes
      <4>2. PICK d : d = records[o].pending OBVIOUS
      <4>3. d # None /\ d.hook \in Signalled BY <4>1, <4>2 DEF FinishAs, RecordInv, PendingOK
      <4>4. PICK j \in 1..signalled : j \in 1..Len(compressions) /\ d.hook = compressions[j]
        BY <1>2, <4>3, SignalledHook
      <4>5. j < i BY <1>1, <3>1
      <4>6. d.hook.session # compressions[i].session
        BY <1>2, <2>6, <3>1, <4>4, <4>5 DEF OpeningInv, OpenedOnce
      <4>7. records'[compressions[i].session] = None
        BY <3>2, <3>3, <4>1, <4>2, <4>6 DEF FinishAs
      <4>8. QED BY <4>7 DEF Bound
    <3>8. QED BY <3>4, <3>5, <3>6, <3>7, RecordSteps
  <2>7. ASSUME NEW i \in (signalled' + 1)..Len(compressions), ~InPlace(compressions[i]),
               pc' \in {"complete", "completed"}, call'.op = "bind"
        PROVE  compressions[i].session # call'.session
    <3>1. i \in (signalled + 1)..Len(compressions) /\ i \in 1..Len(compressions) BY <2>5
    <3>2. CASE pc \in {"complete", "completed"} /\ call' = call
      BY <1>2, <2>7, <3>1, <3>2 DEF OpeningInv
    <3>3. ASSUME NEW s \in Sessions, NEW defer \in BOOLEAN, BeginBind(s, defer)
          PROVE  compressions[i].session # call'.session
      <4>1. call'.session = s /\ signalled' = signalled BY <3>3 DEF BeginBind, host
      <4>2. compressions[i].session = s => i <= signalled BY <2>7, <3>1, <3>3 DEF BeginBind
      <4>3. QED BY <1>1, <3>1, <4>1, <4>2
    <3>4. ASSUME BeginCompress PROVE FALSE
      BY <2>7, <3>4 DEF BeginCompress
    <3>5. QED BY <2>7, <3>2, <3>3, <3>4, CompletingCall
  <2>8. QED BY <2>1, <2>3, <2>6, <2>7 DEF OpeningInv, InPlace
<1>5. QED BY <1>3, <1>4

\* What a call is about to complete or bind follows its lineage.
LEMMA CallFollows ==
  ASSUME TypeOK, CommandInv, RecordInv, PublishedInv, LineageInv, [Next]_vars,
         pc' \in {"complete", "completed"}, call'.op = "compress"
  PROVE  Together(call.hook)'
<1>1. CASE pc \in {"complete", "completed"} /\ call' = call
  <2>1. PICK h : h = call.hook OBVIOUS
  <2>2. h \in Signalled BY <1>1, <2>1 DEF CommandInv
  <2>3. Together(h) BY <1>1, <2>1 DEF LineageInv
  <2>4. ~Fresh BY <1>1 DEF Fresh, BindRecord, Completed
  <2>5. Together(h)' BY <2>2, <2>3, <2>4, TogetherNext
  <2>6. call'.hook = h BY <1>1, <2>1
  <2>7. QED BY <2>5, <2>6 DEF Together, InPlace
<1>2. ASSUME NEW s \in Sessions, NEW defer \in BOOLEAN, BeginBind(s, defer) PROVE FALSE
  BY <1>2 DEF BeginBind
<1>3. CASE BeginCompress
  <2>1. UNCHANGED records BY <1>3 DEF BeginCompress, durable
  <2>2. PICK i \in 1..Len(compressions) :
          /\ i = signalled + 1 \/ (i = signalled /\ \E d \in published : d.hook = compressions[i])
          /\ call' = [op |-> "compress", session |-> compressions[i].session,
                      hook |-> compressions[i], defer |-> FALSE]
    BY <1>3 DEF BeginCompress
  <2>3. PICK h : h = compressions[i] OBVIOUS
  <2>4. Together(h)
    <3>1. CASE i = signalled + 1
      <4>1. i \in (signalled + 1)..Len(compressions) BY <3>1, CompressionsGrow
      <4>2. QED BY <2>3, <4>1 DEF LineageInv, OpeningInv, Together
    <3>2. CASE \E d \in published : d.hook = h
      BY <3>2 DEF PublishedInv, LineageInv, Follows, Together
    <3>3. QED BY <2>2, <2>3, <3>1, <3>2
  <2>5. call'.hook = h BY <2>2, <2>3
  <2>6. Bound' = Bound BY <2>1 DEF Bound
  <2>7. QED BY <2>1, <2>4, <2>5, <2>6 DEF Together, InPlace
<1>4. QED BY <1>1, <1>2, <1>3, CompletingCall

\* So is what a record holds: it was a call's, and is gone when it is done.
LEMMA PendingFollows ==
  ASSUME TypeOK, CommandInv, RecordInv, LineageInv, [Next]_vars,
         NEW s \in Bound', NEW d, d = records'[s].pending, d # None
  PROVE  Follows(d.hook, records[s].logical)'
<1>1. s \in Sessions /\ records'[s] # None BY DEF Bound
<1>2. CASE s \in Bound /\ d = records[s].pending /\ ~Fresh
  <2>1. PICK l : l = records[s].logical OBVIOUS
  <2>2. d.hook \in Signalled /\ d.hook.old = s /\ Follows(d.hook, l)
    BY <1>2, <2>1 DEF RecordInv, PendingOK, LineageInv
  <2>3. PICK h : h = d.hook OBVIOUS
  <2>4. Follows(h, l)' /\ l = records'[h.old].logical
    BY <1>2, <2>1, <2>2, <2>3, FollowsNext
  <2>5. QED BY <2>2, <2>3, <2>4 DEF Follows, InPlace
<1>3. CASE Flags /\ ~Fresh BY <1>1, <1>2, <1>3 DEF Flags
<1>4. CASE Fresh
  <2>1. Unfinished = {} BY <1>4 DEF Fresh, BindRecord, Completed
  <2>2. CASE s = call.session
    <3>1. records'[s] = Record(s, HighWater({s})) BY <1>1, <1>4, <2>2 DEF Fresh
    <3>2. QED BY <3>1 DEF Record
  <2>3. CASE s # call.session
    <3>1. records'[s] = records[s] BY <1>1, <1>4, <2>3 DEF Fresh
    <3>2. s \in Unfinished BY <1>1, <3>1 DEF Unfinished, Due, Bound
    <3>3. QED BY <2>1, <3>2
  <2>4. QED BY <2>2, <2>3
<1>5. CASE Binds
  <2>1. PICK o, h : o = Owner /\ h = call.hook OBVIOUS
  <2>2. Completed("compress") /\ o \in Bound /\ Unfinished = {} /\ UNCHANGED rows
    BY <1>5, <2>1 DEF Binds, BindBoundary, Completed, host
  <2>3. s \in Bound /\ records[s].pending = None
    BY <1>1, <1>5, <2>2 DEF Binds, Unfinished, Due
  <2>4. s = o /\ d = desc' BY <1>1, <1>5, <2>1, <2>3 DEF Binds
  <2>5. h \in Signalled /\ h \in Hooks
    BY <2>1, <2>2, CommandType DEF Completed, At, CommandInv
  <2>6. d.hook = h
    <3>1. records[o].logical \in Sessions /\ records[o].boundary \in 0..MaxRows
          /\ HighWater(Lineage) \in 0..MaxRows
      BY <2>2, BoundType, HighWaterType DEF Records
    <3>2. TheCandidate(Lineage, records[o].boundary, HighWater(Lineage)) \in 0..MaxRows
      BY <3>1, TheCandidateIs
    <3>3. QED BY <1>5, <2>1, <2>4, <2>5, <3>1, <3>2, DescriptorTypes DEF Binds, BindBoundary
  <2>7. PICK l : l = records[o].logical OBVIOUS
  <2>8. Follows(h, l) /\ h.old = o
    BY <2>1, <2>2, <2>7 DEF LineageInv, Completed, At, Owner, Together, Follows
  <2>9. ~Fresh BY <2>2 DEF Fresh, BindRecord, Completed
  <2>10. Follows(h, l)' /\ l = records'[h.old].logical
    BY <2>2, <2>5, <2>7, <2>8, <2>9, FollowsNext
  <2>11. QED BY <2>4, <2>6, <2>8, <2>10 DEF Follows, InPlace
<1>6. CASE Finishes
  <2>1. PICK o \in Bound, join \in BOOLEAN : FinishAs(o, join) BY <1>6 DEF Finishes
  <2>2. records[o].pending # None BY <2>1 DEF FinishAs
  <2>3. CASE join /\ s = records[o].pending.hook.session
    BY <1>1, <2>1, <2>3 DEF FinishAs, Joined
  <2>4. CASE ~(join /\ s = records[o].pending.hook.session)
    <3>1. s \in Bound /\ Moved(o, s) BY <1>1, <2>1, <2>4 DEF FinishAs
    <3>2. s # o /\ records[s].pending = d BY <3>1 DEF Moved
    <3>3. QED BY <2>2, <3>1, <3>2 DEF RecordInv
  <2>5. QED BY <2>3, <2>4
<1>7. QED BY <1>3, <1>4, <1>5, <1>6, RecordSteps

\* And so is what was published: the session that it continues in is bound
\* when it is done.
LEMMA PublishedFollows ==
  ASSUME TypeOK, CommandInv, RecordInv, PublishedInv, LineageInv, [Next]_vars,
         NEW d \in published'
  PROVE  /\ records'[d.hook.old].logical = d.logical
         /\ Follows(d.hook, d.logical)'
         /\ records'[d.hook.old].pending = d \/ d.hook.session \in Bound'
<1>1. CASE d \notin published
  <2>1. PICK o \in Bound : PublishesOf(o) BY <1>1, PublishedSteps
  <2>2. d = records[o].pending /\ d # None /\ records' = records
    BY <1>1, <2>1 DEF PublishesOf
  <2>3. d.hook.old = o /\ d.logical = records[o].logical BY <2>2 DEF RecordInv, PendingOK
  <2>4. o \in Bound' BY <2>2 DEF Bound
  <2>5. Follows(d.hook, records[o].logical)' BY <2>2, <2>4, PendingFollows
  <2>6. QED BY <2>2, <2>3, <2>5 DEF Follows, InPlace
<1>2. CASE d \in published
  <2>1. PICK h, l : h = d.hook /\ l = d.logical OBVIOUS
  <2>2. /\ h \in Signalled /\ h.old \in Bound /\ l = records[h.old].logical /\ Follows(h, l)
        /\ records[h.old].pending = d \/ h.session \in Bound
        /\ d # None
    BY <1>2, <2>1, NoneAssumption DEF PublishedInv, LineageInv, TypeOK
  <2>3. Bound \subseteq Bound' /\ Bound \subseteq Sessions
    BY RecordSteps, BoundGrows DEF Bound
  <2>4. ASSUME Unfinished = {} PROVE h.session \in Bound
    BY <2>2, <2>4 DEF Unfinished, Due
  <2>5. Fresh => h.session \in Bound BY <2>4 DEF Fresh, BindRecord, Completed
  <2>6. Follows(h, l)' /\ l = records'[h.old].logical BY <2>2, <2>5, FollowsNext
  <2>7. records'[h.old].pending = d \/ h.session \in Bound'
    <3>1. CASE h.session \in Bound BY <2>3, <3>1
    <3>2. CASE records[h.old].pending = d
      <4>1. h.old \in Sessions BY <2>2, <2>3
      <4>2. CASE Flags BY <2>2, <3>2, <4>1, <4>2 DEF Flags
      <4>3. CASE Fresh BY <2>3, <2>5, <4>3
      <4>4. CASE Binds
        <5>1. Unfinished = {} BY <4>4 DEF Binds, BindBoundary, Completed
        <5>2. QED BY <2>3, <2>4, <5>1
      <4>5. CASE Finishes
        <5>1. PICK o \in Bound, join \in BOOLEAN : FinishAs(o, join) BY <4>5 DEF Finishes
        <5>2. o = h.old BY <2>2, <3>2, <5>1 DEF FinishAs, RecordInv
        <5>3. h.session \in Sessions BY <2>2, SignalledHook DEF LineageInv
        <5>4. CASE join
          <6>1. records'[h.session] \in Records
            BY <2>1, <3>2, <5>1, <5>2, <5>3, <5>4 DEF FinishAs, Joined
          <6>2. QED BY <5>3, <6>1, NoneAssumption DEF Bound
        <5>5. CASE ~join
          <6>1. InPlace(h) \/ h.session \in Bound BY <2>1, <3>2, <5>1, <5>2, <5>5 DEF FinishAs
          <6>2. QED BY <2>2, <2>3, <6>1 DEF InPlace
        <5>6. QED BY <5>4, <5>5
      <4>6. QED BY <4>2, <4>3, <4>4, <4>5, RecordSteps
    <3>3. QED BY <2>2, <3>1, <3>2
  <2>8. QED BY <2>1, <2>6, <2>7 DEF Follows, InPlace
<1>3. QED BY <1>1, <1>2

\* Together.
LEMMA LineageNext ==
  ASSUME InOrder, TypeOK, CommandInv, RecordInv, PublishedInv, LineageInv, [Next]_vars
  PROVE  LineageInv'
<1>1. OpeningInv' BY OpeningNext
<1>2. pc' \in {"complete", "completed"} /\ call'.op = "compress" => Together(call.hook)'
  BY CallFollows
<1>3. ASSUME NEW s \in Bound', records'[s].pending # None
      PROVE  Follows(records[s].pending.hook, records[s].logical)'
  <2>1. PICK d : d = records'[s].pending OBVIOUS
  <2>2. Follows(d.hook, records[s].logical)' BY <1>3, <2>1, PendingFollows
  <2>3. QED BY <2>1, <2>2 DEF Follows, InPlace
<1>4. ASSUME NEW d \in published'
      PROVE  /\ records'[d.hook.old].logical = d.logical
             /\ Follows(d.hook, d.logical)'
             /\ records'[d.hook.old].pending = d \/ d.hook.session \in Bound'
  BY PublishedFollows
<1>5. QED BY <1>1, <1>2, <1>3, <1>4 DEF LineageInv, Together, Follows, InPlace

\* The lineages are as above in the initial state, where there are none.
LEMMA LineageInit == Init => LineageInv
<1> SUFFICES ASSUME Init PROVE LineageInv OBVIOUS
<1>1. Bound = {} /\ published = {} /\ Len(compressions) = 0 /\ pc = "idle" /\ signalled = 0
  BY DEF Init, Bound
<1>2. 1..Len(compressions) = {} /\ (signalled + 1)..Len(compressions) = {} BY <1>1
<1>3. QED BY <1>1, <1>2 DEF LineageInv, OpeningInv, OpenedOnce

\* They stay so, if the host's calls are in order.
THEOREM LineageInvariant ==
  ASSUME InOrder
  PROVE  Spec => []LineageInv
<1>1. Init => LineageInv BY LineageInit
<1>2. IInv /\ LineageInv /\ [Next]_vars => LineageInv' BY LineageNext DEF IInv
<1>3. QED BY <1>1, <1>2, AdapterInvariant, PTL DEF Spec

\* A session that continues another is in its lineage as soon as the
\* compression is done, whichever call completed it.
THEOREM LineageAlwaysKept ==
  ASSUME InOrder
  PROVE  Spec => []LineageKept
<1>1. LineageInv => LineageKept BY DEF LineageInv, LineageKept, Follows
<1>2. QED BY <1>1, LineageInvariant, PTL

\* No summary is bound to two events: its row belongs to one lineage, and
\* there to one interval.
THEOREM SummaryAlwaysOnce ==
  ASSUME InOrder
  PROVE  Spec => []SummaryOnce
<1>1. IInv /\ LineageInv => SummaryOnce
  <2> SUFFICES ASSUME IInv, LineageInv, NEW d \in published, NEW e \in published,
                      d.candidate = e.candidate, d # e, d.candidate # 0
               PROVE  FALSE
    BY DEF SummaryOnce
  <2>1. PICK c, q : c = d.candidate /\ q = rows[c].session OBVIOUS
  <2>2. /\ d.from < c /\ c <= d.to /\ q \in {d.hook.old, d.hook.session}
        /\ e.from < c /\ c <= e.to /\ q \in {e.hook.old, e.hook.session}
    BY <2>1 DEF IInv, PublishedInv, CandidateOK
  <2>3. /\ d.hook.old \in Bound /\ e.hook.old \in Bound /\ d # None /\ e # None
        /\ d.from \in Nat /\ d.to \in Nat /\ e.from \in Nat /\ e.to \in Nat /\ c \in Nat
    <3>1. d \in Descriptors /\ e \in Descriptors BY DEF IInv, TypeOK
    <3>2. \A x \in Descriptors : x.from \in Nat /\ x.to \in Nat /\ x.candidate \in Nat
      BY HermesAssumption DEF Descriptors
    <3>3. d.hook.old \in Bound /\ e.hook.old \in Bound BY DEF IInv, PublishedInv
    <3>4. QED BY <2>1, <3>1, <3>2, <3>3, NoneAssumption
  <2>4. d.logical # e.logical
    <3>1. d.logical = e.logical => d.to <= e.from \/ e.to <= d.from
      BY DEF IInv, IntervalsDisjoint
    <3>2. QED BY <2>2, <2>3, <3>1
  <2>5. q \in Bound => records[q].logical = d.logical
    BY <2>2, <2>3 DEF LineageInv, Follows, InPlace
  <2>6. q \in Bound => records[q].logical = e.logical
    BY <2>2, <2>3 DEF LineageInv, Follows, InPlace
  <2>7. CASE q \notin Bound
    <3>1. q = d.hook.session /\ q = e.hook.session BY <2>2, <2>3, <2>7
    <3>2. records[d.hook.old].pending = d /\ records[e.hook.old].pending = e
      BY <2>7, <3>1 DEF LineageInv
    <3>3. QED BY <2>3, <3>2 DEF IInv, RecordInv
  <2>8. QED BY <2>4, <2>5, <2>6, <2>7
<1>2. QED BY <1>1, AdapterInvariant, LineageInvariant, PTL

-----------------------------------------------------------------------------
(* The index *)

\* How the index is handed over: recorded, saved, and delivered.
LEMMA HandOver ==
  ASSUME [Next]_vars
  PROVE  /\ pc' = "injected" => RecordInjection \/ UNCHANGED vars
         /\ pc' = "deliver" => InjectionSaved \/ UNCHANGED vars
         /\ UNCHANGED shown \/ Deliver
         /\ UNCHANGED injections \/ RecordInjection
<1>1. ASSUME Host \/ Worker \/ Retried \/ Begin \/ Killed
      PROVE  pc' \notin {"injected", "deliver"} /\ UNCHANGED <<shown, injections>>
  BY <1>1 DEF Host, Message, HostCompress, SignalLost, Search, Worker, Drained, WorkerFails,
     Retried, Begin, BeginBind, BeginCompress, BeginFinalize, Killed, AppendRow, At, Goto,
     Return, running, durable
<1>2. ASSUME Continue
      PROVE  /\ pc' = "injected" => RecordInjection
             /\ pc' = "deliver" => InjectionSaved
             /\ UNCHANGED shown \/ Deliver
             /\ UNCHANGED injections \/ RecordInjection
  <2>1. CASE RecordInjection BY <2>1 DEF RecordInjection, Goto
  <2>2. CASE InjectionSaved BY <2>2 DEF InjectionSaved, Goto
  <2>3. CASE Deliver BY <2>3 DEF Deliver, Return, durable
  <2>4. CASE Complete BY <2>4 DEF Complete, CompletePublish, CompleteSave, At, Goto, Return
  <2>5. CASE BindRefused \/ BindRecord \/ PublishStart \/ StartSaved \/ AlreadyInjected
    BY <2>5 DEF BindRefused, BindRecord, PublishStart, StartSaved, AlreadyInjected, Completed,
       At, Goto, Return, durable
  <2>6. CASE Compress \/ Publish \/ FinalizeSaved
    BY <2>6 DEF Compress, CompressRefused, BindBoundary, CompressSaved, Publish, FinalizeSaved,
       Completed, At, Goto, Return, durable
  <2>7. QED BY <1>2, <2>1, <2>2, <2>3, <2>4, <2>5, <2>6 DEF Continue, Bind
<1>3. CASE UNCHANGED vars BY <1>3 DEF vars, durable
<1>4. QED BY <1>1, <1>2, <1>3 DEF Next

\* A step shows nothing of a lineage that waits for the index alone: it has to
\* be bound, and to be given the index first.
LEMMA ShownStays ==
  ASSUME TypeOK, CommandInv, RecordInv, IndexInv, [Next]_vars, NEW s \in Sessions,
         \/ s \notin Bound
         \/ ~records[s].injected /\ \A t \in Bound : records[t].logical = s => t = s
  PROVE  shown'[s] = shown[s]
<1>1. CASE UNCHANGED shown BY <1>1
<1>2. CASE Deliver
  <2>1. PICK l : l = Here.logical OBVIOUS
  <2>2. pc = "deliver" /\ shown' = [shown EXCEPT ![l] = @ + 1] BY <1>2, <2>1 DEF Deliver, At
  <2>3. call.session \in Bound /\ l \in Bound /\ Here.injected
    BY <2>1, <2>2 DEF CommandInv, Binding, RecordInv, IndexInv, Here
  <2>4. l # s BY <2>1, <2>3 DEF Here
  <2>5. QED BY <2>2, <2>4 DEF TypeOK
<1>3. QED BY <1>1, <1>2, HandOver

\* A session without the index stays alone in its lineage, unless that is
\* continued early.
LEMMA AloneNext ==
  ASSUME TypeOK, CommandInv, RecordInv, IndexInv, [Next]_vars,
         NEW s \in Bound', ~records'[s].injected, records'[s].logical \notin early'
  PROVE  /\ records'[s].logical = s /\ shown'[s] = 0
         /\ \A t \in Bound' : records'[t].logical = s => t = s
<1> DEFINE Waits == records[s].logical = s /\ shown[s] = 0
           Alone == \A t \in Bound : records[t].logical = s => t = s
<1>1. early \subseteq early' /\ Bound \subseteq Sessions /\ Bound' \subseteq Sessions
      /\ \A t \in Sessions : t \notin Bound' => records'[t] = None
  BY EarlyType DEF Bound
<1>2. s \in Sessions /\ records'[s] # None BY DEF Bound
<1>3. ASSUME s \in Bound, ~records[s].injected, records[s].logical = records'[s].logical
      PROVE  Waits /\ Alone /\ shown'[s] = 0
  <2>1. records[s].logical \notin early BY <1>1, <1>3
  <2>2. Waits /\ Alone BY <1>3, <2>1 DEF IndexInv
  <2>3. shown'[s] = shown[s] BY <1>2, <1>3, <2>2, ShownStays
  <2>4. QED BY <2>2, <2>3
<1>4. CASE Flags \/ Binds
  <2>1. /\ s \in Bound /\ Bound' \subseteq Bound /\ ~records[s].injected
        /\ \A t \in Bound : records'[t].logical = records[t].logical
    BY <1>1, <1>2, <1>4 DEF Flags, Binds, Bound
  <2>2. QED BY <1>3, <2>1
<1>5. CASE Fresh
  <2>1. PICK n : n = call.session OBVIOUS
  <2>2. n \notin Bound /\ \A t \in Sessions : t # n => records'[t] = records[t]
    BY <1>5, <2>1 DEF Fresh
  <2>3. n \in Sessions => records'[n].logical = n
    <3>1. n \in Sessions => records'[n] = Record(n, HighWater({n})) BY <1>5, <2>1 DEF Fresh
    <3>2. Record(n, HighWater({n})).logical = n BY DEF Record
    <3>3. QED BY <3>1, <3>2
  <2>4. \A t \in Bound' : t = n \/ (t \in Bound /\ records'[t] = records[t])
    BY <1>1, <2>2 DEF Bound
  <2>5. CASE s = n
    <3>1. shown[s] = 0 BY <1>2, <2>2, <2>5 DEF IndexInv
    <3>2. shown'[s] = shown[s] BY <1>2, <2>2, <2>5, ShownStays
    <3>3. \A t \in Bound : records[t].logical # n BY <2>2 DEF RecordInv
    <3>4. QED BY <1>2, <2>3, <2>4, <2>5, <3>1, <3>2, <3>3
  <2>6. CASE s # n
    <3>1. s \in Bound /\ records'[s] = records[s] BY <2>4, <2>6
    <3>2. Waits /\ Alone /\ shown'[s] = 0 BY <1>3, <3>1
    <3>3. ASSUME NEW t \in Bound', records'[t].logical = s PROVE t = s
      <4>1. t # n BY <1>1, <2>3, <2>6, <3>3
      <4>2. QED BY <2>4, <3>2, <3>3, <4>1
    <3>4. QED BY <3>1, <3>2, <3>3
  <2>7. QED BY <2>5, <2>6
<1>6. CASE Finishes
  <2>1. PICK o \in Bound, join \in BOOLEAN : FinishAs(o, join) BY <1>6 DEF Finishes
  <2>2. PICK d, n, l : /\ d = records[o].pending /\ n = d.hook.session
                       /\ l = records[o].logical
    OBVIOUS
  <2>3. NoteEarly(o, d.hook) /\ (join => ~InPlace(d.hook)) BY <2>1, <2>2 DEF FinishAs
  <2>4. join /\ ~records[o].injected => l \in early' BY <2>2, <2>3 DEF NoteEarly
  <2>5. ASSUME NEW t \in Bound', join, t = n
        PROVE  records'[t].logical = l /\ records'[t].injected = records[o].injected
    <3>1. Joined(o, t) BY <1>1, <2>1, <2>2, <2>5 DEF FinishAs
    <3>2. QED BY <2>2, <3>1 DEF Joined
  <2>6. ASSUME NEW t \in Bound', ~(join /\ t = n)
        PROVE  /\ t \in Bound /\ records'[t].logical = records[t].logical
               /\ records'[t].injected = records[t].injected
    <3>1. t \in Sessions /\ records'[t] # None BY DEF Bound
    <3>2. t \in Bound /\ Moved(o, t) BY <2>1, <2>2, <2>6, <3>1 DEF FinishAs
    <3>3. QED BY <3>2 DEF Moved
  <2>7. ~(join /\ s = n)
    <3>1. SUFFICES ASSUME join, s = n PROVE FALSE OBVIOUS
    <3>2. records'[s].logical = l /\ records'[s].injected = records[o].injected
      BY <2>5, <3>1
    <3>3. QED BY <2>4, <3>1, <3>2
  <2>8. /\ s \in Bound /\ records'[s].logical = records[s].logical
        /\ records'[s].injected = records[s].injected
    BY <2>6, <2>7
  <2>9. Waits /\ Alone /\ shown'[s] = 0 BY <1>3, <2>8
  <2>10. ASSUME NEW t \in Bound', records'[t].logical = s PROVE t = s
    <3>1. CASE ~(join /\ t = n) BY <2>6, <2>9, <2>10, <3>1
    <3>2. CASE join /\ t = n
      <4>1. l = s BY <2>5, <2>10, <3>2
      <4>2. o = s BY <2>2, <2>9, <4>1
      <4>3. ~records[o].injected BY <2>8, <4>2
      <4>4. l \in early' BY <2>4, <3>2, <4>3
      <4>5. QED BY <2>8, <2>9, <4>1, <4>4
    <3>3. QED BY <3>1, <3>2
  <2>11. QED BY <2>8, <2>9, <2>10
<1>7. QED BY <1>4, <1>5, <1>6, RecordSteps

\* What is shown is counted once, after it was recorded, for a lineage whose
\* sessions all have the index then.
LEMMA IndexNext ==
  ASSUME TypeOK, CommandInv, RecordInv, IndexInv, [Next]_vars
  PROVE  IndexInv'
<1>1. shown \in [Sessions -> Nat] /\ injections \in [Sessions -> Nat] BY DEF TypeOK
<1>2. Bound \subseteq Bound' /\ Bound \subseteq Sessions /\ early \subseteq early'
  BY RecordSteps, BoundGrows, EarlyType DEF Bound
<1>3. ASSUME NEW s \in Bound', ~records'[s].injected, records'[s].logical \notin early'
      PROVE  /\ records'[s].logical = s /\ shown'[s] = 0
             /\ \A t \in Bound' : records'[t].logical = s => t = s
  BY <1>3, AloneNext
<1>4. ASSUME NEW s \in Sessions, s \notin Bound' PROVE shown'[s] = 0
  <2>1. s \notin Bound /\ shown[s] = 0 BY <1>2, <1>4 DEF IndexInv
  <2>2. QED BY <2>1, ShownStays
<1>5. ASSUME pc \in Binding
      PROVE  call.session \in Bound /\ Here.logical \in Bound /\ Here.logical \in Sessions
  BY <1>2, <1>5 DEF CommandInv, RecordInv, Here
<1>6. ASSUME pc' \notin {"injected", "deliver"}, IndexOnce' PROVE IndexInv'
  BY <1>3, <1>4, <1>6 DEF IndexInv
<1>7. CASE Deliver
  <2>1. PICK l : l = Here.logical OBVIOUS
  <2>2. /\ pc = "deliver" /\ pc' = "idle" /\ shown' = [shown EXCEPT ![l] = @ + 1]
        /\ UNCHANGED <<injections, early>>
    BY <1>7, <2>1 DEF Deliver, At, Return, durable
  <2>3. l \in Sessions BY <1>5, <2>1, <2>2 DEF Binding
  <2>4. (l \in early \/ shown[l] = 0) /\ shown[l] < injections[l]
    BY <2>1, <2>2 DEF IndexInv
  <2>5. shown'[l] = shown[l] + 1 /\ \A s \in Sessions : s # l => shown'[s] = shown[s]
    BY <1>1, <2>2, <2>3
  <2>6. IndexOnce' BY <1>1, <2>2, <2>3, <2>4, <2>5 DEF IndexInv, IndexOnce
  <2>7. QED BY <1>6, <2>2, <2>6
<1>8. CASE ~Deliver
  <2>1. shown' = shown BY <1>8, HandOver
  <2>2. \A l \in Sessions : injections'[l] \in Nat /\ injections[l] <= injections'[l]
    <3>1. CASE UNCHANGED injections BY <1>1, <3>1
    <3>2. CASE RecordInjection
      <4>1. PICK l : l = Here.logical OBVIOUS
      <4>2. injections' = [injections EXCEPT ![l] = @ + 1] BY <3>2, <4>1 DEF RecordInjection
      <4>3. injections' = [t \in Sessions |-> IF t = l THEN injections[l] + 1 ELSE injections[t]]
        BY <1>1, <4>2
      <4>4. QED BY <1>1, <4>3
    <3>3. QED BY <3>1, <3>2, HandOver
  <2>3. IndexOnce'
    <3> SUFFICES ASSUME NEW l \in Sessions
                 PROVE  (shown'[l] <= 1 \/ l \in early') /\ shown'[l] <= injections'[l]
      BY DEF IndexOnce
    <3>1. shown[l] \in Nat /\ injections[l] \in Nat BY <1>1
    <3>2. (shown[l] <= 1 \/ l \in early) /\ shown[l] <= injections[l]
      BY DEF IndexInv, IndexOnce
    <3>3. QED BY <1>2, <2>1, <2>2, <3>1, <3>2
  <2>4. CASE RecordInjection
    <3>1. PICK l : l = Here.logical OBVIOUS
    <3>2. /\ pc = "start" /\ pc' = "injected" /\ UNCHANGED <<records, call>> /\ ~Here.injected
          /\ injections' = [injections EXCEPT ![l] = @ + 1]
      BY <2>4, <3>1 DEF RecordInjection, At, Goto
    <3>3. l \in Sessions BY <1>5, <3>1, <3>2 DEF Binding
    <3>4. injections'[l] = injections[l] + 1 BY <1>1, <3>2, <3>3
    <3>5. shown[l] <= injections[l] BY <3>3 DEF IndexInv, IndexOnce
    <3>6. shown'[l] < injections'[l] BY <1>1, <2>1, <3>3, <3>4, <3>5
    <3>7. Here' = Here BY <3>2 DEF Here
    <3>8. QED BY <1>3, <1>4, <2>3, <3>1, <3>2, <3>6, <3>7 DEF IndexInv
  <2>5. CASE InjectionSaved
    <3>1. PICK s, l : s = call.session /\ l = Here.logical OBVIOUS
    <3>2. /\ pc = "injected" /\ pc' = "deliver" /\ UNCHANGED <<call, injections, early>>
          /\ records' = [records EXCEPT ![s].injected = TRUE]
      BY <2>5, <3>1 DEF InjectionSaved, At, Goto
    <3>3. s \in Bound /\ s \in Sessions /\ l = records[s].logical /\ l \in Sessions
      BY <1>2, <1>5, <3>1, <3>2 DEF Here, Binding
    <3>4. ~records[s].injected /\ shown[l] < injections[l]
      BY <3>1, <3>2 DEF IndexInv, Here
    <3>5. l \in early \/ shown[l] = 0 BY <3>3, <3>4 DEF IndexInv
    <3>6. records[s] \in Records /\ records \in [Sessions -> Records \cup {None}]
      BY <3>3, BoundType DEF TypeOK
    <3>7. records'[s].injected /\ records'[s].logical = l BY <3>2, <3>3, <3>6 DEF Records
    <3>8. Here' = records'[s] BY <3>1, <3>2 DEF Here
    <3>9. QED
      BY <1>3, <1>4, <2>1, <2>3, <3>2, <3>4, <3>5, <3>7, <3>8 DEF IndexInv
  <2>6. CASE UNCHANGED vars
    <3>1. UNCHANGED <<pc, call, records, shown, injections, early>>
      BY <2>6 DEF vars, running, durable
    <3>2. Here' = Here BY <3>1 DEF Here
    <3>3. QED BY <1>3, <1>4, <2>3, <3>1, <3>2 DEF IndexInv
  <2>7. CASE ~RecordInjection /\ ~InjectionSaved /\ ~UNCHANGED vars
    <3>1. pc' \notin {"injected", "deliver"} BY <2>7, HandOver
    <3>2. QED BY <1>6, <2>3, <3>1
  <2>8. QED BY <2>4, <2>5, <2>6, <2>7
<1>9. QED BY <1>7, <1>8

\* Nobody has it in the initial state.
LEMMA IndexInit == Init => IndexInv
<1> SUFFICES ASSUME Init PROVE IndexInv OBVIOUS
<1>1. Bound = {} /\ pc = "idle" BY DEF Init, Bound
<1>2. \A l \in Sessions : shown[l] = 0 /\ injections[l] = 0 BY DEF Init
<1>3. QED BY <1>1, <1>2 DEF IndexInv, IndexOnce

\* Whatever is killed, and in whatever order calls arrive: a lineage that was
\* given the index before it was continued is shown it once at most, and what
\* any lineage was shown is in the audit spool.
THEOREM IndexAlwaysOnce == Spec => []IndexOnce
<1>1. Init => IndexInv BY IndexInit
<1>2. IInv /\ IndexInv /\ [Next]_vars => IndexInv' BY IndexNext DEF IInv
<1>3. IndexInv => IndexOnce BY DEF IndexInv
<1>4. QED BY <1>1, <1>2, <1>3, AdapterInvariant, PTL DEF Spec
=============================================================================

---------------------------- MODULE AtomicUpdate ---------------------------
(***************************************************************************)
(* What the transaction engine promises of a multi-file update, without    *)
(* files, journals or backups: an update that is opened is decided once,   *)
(* either by one commit that carries all of it or by being abandoned, and  *)
(* an abandoned update is never committed later.  Commits of others may    *)
(* come between, and the branch only grows.                                *)
(***************************************************************************)
EXTENDS Naturals, Sequences

CONSTANT Updates

VARIABLES status,   \* [Updates -> unborn, open, committed or abandoned]
          history   \* the branch: the update each commit carries, 0 for none of them

avars == <<status, history>>

AInit ==
  /\ status = [u \in Updates |-> "unborn"]
  /\ history \in {<<>>, <<0>>}

Open(u) ==
  /\ status[u] = "unborn" /\ \A v \in Updates : status[v] # "open"
  /\ status' = [status EXCEPT ![u] = "open"]
  /\ UNCHANGED history

CommitUpdate(u) ==
  /\ status[u] = "open"
  /\ status' = [status EXCEPT ![u] = "committed"]
  /\ history' = Append(history, u)

Abandon(u) ==
  /\ status[u] = "open"
  /\ status' = [status EXCEPT ![u] = "abandoned"]
  /\ UNCHANGED history

OtherCommit == history' = Append(history, 0) /\ UNCHANGED status

ANext ==
  \/ \E u \in Updates : Open(u) \/ CommitUpdate(u) \/ Abandon(u)
  \/ OtherCommit

ASpec == AInit /\ [][ANext]_avars
=============================================================================

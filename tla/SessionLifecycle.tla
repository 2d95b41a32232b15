-------------------------- MODULE SessionLifecycle --------------------------
(***************************************************************************)
(* What the runner promises of each repair session, whatever its threads,  *)
(* locks, kills and restarts do: the status it has in the journal and      *)
(* whether the runner has a Claude process working for it.  A status is    *)
(* settled or put on hold only while no process works, so a process never  *)
(* works behind a status that says nothing is running; a process starts    *)
(* only in a running status; and the one way out of a terminal status is   *)
(* the runner's own late verdict that the outcome is uncertain, or that    *)
(* the diagnosis never started.                                            *)
(*                                                                         *)
(* The moves are those of trusted-repair-contract-v1 (RepairContract),     *)
(* plus the ones the runner makes beyond the table: Expire and Restate,    *)
(* and a waiting session handed to a human.                                *)
(***************************************************************************)
EXTENDS RepairContract

CONSTANT Sessions
VARIABLES status, live

Init ==
  /\ status = [s \in Sessions |-> "NONE"]
  /\ live = [s \in Sessions |-> FALSE]

Move(s, to) ==
  /\ ~live[s]
  /\ status' = [status EXCEPT ![s] = to]
  /\ UNCHANGED live

Accept(s) == status[s] = "NONE" /\ Move(s, "DIAGNOSING")

\* A move of the contract's table.
Advance(s, to) == ContractEdge(status[s], to) /\ Move(s, to)

\* An approval or risk grant that expires after it was claimed, before the spawn.
Expire(s) == status[s] = "EXECUTING" /\ Move(s, "EXPIRED")

\* A waiting session whose records are corrupt, or that AIOps hands to a human.
HandOver(s) == status[s] = "PENDING_APPROVAL" /\ Move(s, "MANUAL_INTERVENTION")

\* A confirmed stop or kill becomes uncertain again; an uncertain stop of a
\* diagnosis that could not be spawned becomes a failed diagnosis.
Restate(s) ==
  \/ status[s] \in {"CANCELLED", "REJECTED", "EXPIRED"} /\ Move(s, "MANUAL_INTERVENTION")
  \/ status[s] = "MANUAL_INTERVENTION" /\ Move(s, "DIAGNOSIS_FAILED")

\* A stop intent may name another terminal status than CANCELLED.
StopAs(s) ==
  /\ status[s] \in {"DIAGNOSING", "EXECUTING"}
  /\ \E to \in {"REJECTED", "EXPIRED"} : Move(s, to)

Spawn(s) ==
  /\ ~live[s] /\ status[s] \in {"DIAGNOSING", "EXECUTING"}
  /\ live' = [live EXCEPT ![s] = TRUE]
  /\ UNCHANGED status

\* Processes end, are killed, or are lost to the runner, several at a time.
Leave(S) ==
  /\ live' = [s \in Sessions |-> live[s] /\ s \notin S]
  /\ UNCHANGED status

Next ==
  \/ \E s \in Sessions :
       \/ Accept(s) \/ Expire(s) \/ HandOver(s) \/ Restate(s) \/ StopAs(s) \/ Spawn(s)
       \/ \E to \in RepairSessionStatus : Advance(s, to)
  \/ \E S \in SUBSET Sessions : Leave(S)

Spec == Init /\ [][Next]_<<status, live>>
=============================================================================

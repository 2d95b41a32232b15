--------------------------- MODULE RepairContract ---------------------------
(***************************************************************************)
(* The frozen trusted-repair-contract-v1 as the runner's library states it *)
(* (trusted_repair_contract.py): the statuses of a repair session, the     *)
(* events that move it and the table of legal transitions.                 *)
(***************************************************************************)

RepairSessionStatus ==
  {"PREPARING", "DIAGNOSING", "DISPATCH_FAILED", "DIAGNOSIS_ONLY",
   "DIAGNOSIS_FAILED", "PENDING_APPROVAL", "EXECUTING",
   "AWAITING_RISK_CONFIRMATION", "SUCCEEDED", "FAILED", "REJECTED",
   "EXPIRED", "CANCELLED", "MANUAL_INTERVENTION"}

TERMINAL_STATUSES ==
  {"DISPATCH_FAILED", "DIAGNOSIS_ONLY", "DIAGNOSIS_FAILED", "SUCCEEDED",
   "FAILED", "REJECTED", "EXPIRED", "CANCELLED", "MANUAL_INTERVENTION"}

\* The table, one triple <<status, event, next status>> per row.
TRANSITIONS ==
  ({"PREPARING"} \X
     {<<"runner_accepted", "DIAGNOSING">>,
      <<"dispatch_failed_definitive", "DISPATCH_FAILED">>,
      <<"dispatch_uncertain", "MANUAL_INTERVENTION">>,
      <<"cancel_confirmed", "CANCELLED">>})
  \cup
  ({"DIAGNOSING"} \X
     {<<"diagnosis_completed_no_repair", "DIAGNOSIS_ONLY">>,
      <<"diagnosis_failed", "DIAGNOSIS_FAILED">>,
      <<"diagnosis_uncertain", "MANUAL_INTERVENTION">>,
      <<"proposal_created", "PENDING_APPROVAL">>,
      <<"cancel_confirmed", "CANCELLED">>,
      <<"cancel_uncertain", "MANUAL_INTERVENTION">>})
  \cup
  ({"PENDING_APPROVAL"} \X
     {<<"approval_granted", "EXECUTING">>,
      <<"approval_rejected", "REJECTED">>,
      <<"approval_expired", "EXPIRED">>,
      <<"cancel_confirmed", "CANCELLED">>})
  \cup
  ({"EXECUTING"} \X
     {<<"execution_succeeded", "SUCCEEDED">>,
      <<"execution_failed", "FAILED">>,
      <<"execution_uncertain", "MANUAL_INTERVENTION">>,
      <<"cancel_confirmed", "CANCELLED">>,
      <<"cancel_uncertain", "MANUAL_INTERVENTION">>,
      <<"risk_confirmation_requested", "AWAITING_RISK_CONFIRMATION">>})
  \cup
  ({"AWAITING_RISK_CONFIRMATION"} \X
     {<<"risk_confirmation_granted", "EXECUTING">>,
      <<"risk_confirmation_rejected", "REJECTED">>,
      <<"risk_confirmation_expired", "EXPIRED">>,
      <<"cancel_confirmed", "CANCELLED">>,
      <<"execution_uncertain", "MANUAL_INTERVENTION">>})

\* next_status without the event: some event of the table leads from one
\* status to the other.
ContractEdge(from, to) == \E row \in TRANSITIONS : row[1] = from /\ row[2][2] = to
=============================================================================

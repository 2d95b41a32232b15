--------------------------- MODULE ControlIntent ---------------------------
(***************************************************************************)
(* POST /trusted-sessions/{id}/stop: how a control intent of AIOps is      *)
(* claimed in the journal, judged, applied once and answered with one      *)
(* durable receipt (TrustedSessionController.cancel, trusted_api.py; the   *)
(* control results of SessionJournal, trusted_session.py).                 *)
(*                                                                         *)
(* AIOps may send an intent again at any time, so two HTTP threads may     *)
(* carry the same one, and the runner may die at any step.  What applying  *)
(* does is apply_control_action of TrustedSession: each step here that     *)
(* applies is a step of that module, seen with the outcome it returns.     *)
(***************************************************************************)
EXTENDS TrustedSession

CONSTANTS
  Fits,           \* the waiting statuses that the reason code of each intent fits
  GrantsAsked,    \* bound: the grants that AIOps gives during the session
  MaxDeliveries   \* bound: how often intents are sent to the runner

ASSUME DeliveriesAssumption ==
  /\ Fits \in [Commands -> SUBSET Waiting]
  /\ GrantsAsked \subseteq Grants /\ MaxDeliveries \in Nat

VARIABLES
  envelope,    \* control-intents/<command>.json: absent, or the intent and, once
               \* it is final, the receipt
  answered,    \* every receipt that was returned to AIOps for each command
  hpc,         \* where each HTTP thread is
  asked,       \* the command it carries
  statusRead,  \* the status of the session, read before the claim
  verdict,     \* the outcome and certainty it is about to report
  sendings

intentVars == <<envelope, answered, hpc, asked, statusRead, verdict, sendings>>
durable == <<envelope, answered>>

Outcomes == {"CLOSED", "STOPPED_CONFIRMED", "STOP_UNCERTAIN", "INVALID_INTENT"}
Certain(outcome) == outcome \in {"CLOSED", "STOPPED_CONFIRMED"}

\* A verdict carries the prior outcome when its own is ALREADY_APPLIED.
Verdict(outcome, certain) == [outcome |-> outcome, certain |-> certain, prior |-> "none"]
NoVerdict == Verdict("none", FALSE)
Invalid == Verdict("INVALID_INTENT", FALSE)
Receipts ==
  [outcome : Outcomes \cup {"ALREADY_APPLIED"}, certain : BOOLEAN,
   prior : Outcomes \cup {"none"}]

IntentTypeOK ==
  /\ envelope \in [Commands -> {"absent", "processing"} \X {NoVerdict}
                               \cup {"final"} \X Receipts]
  /\ answered \in [Commands -> SUBSET Receipts]
  /\ hpc \in [Handlers -> {"idle", "loading", "claiming", "applying", "controlling",
                           "recalling", "finalizing"}]
  /\ asked \in [Handlers -> Commands \cup {NoCommand}]
  /\ statusRead \in [Handlers -> RepairSessionStatus \cup {"NONE"}]
  /\ verdict \in [Handlers -> Receipts \cup {NoVerdict}]
  /\ sendings \in 0..MaxDeliveries

IntentInit ==
  /\ Init
  /\ envelope = [c \in Commands |-> <<"absent", NoVerdict>>]
  /\ answered = [c \in Commands |-> {}]
  /\ hpc = [h \in Handlers |-> "idle"]
  /\ asked = [h \in Handlers |-> NoCommand]
  /\ statusRead = [h \in Handlers |-> "NONE"]
  /\ verdict = [h \in Handlers |-> NoVerdict]
  /\ sendings = 0

-----------------------------------------------------------------------------
(* Validation.                                                             *)

\* _control_semantics_valid: a stop needs a running session; a close must fit
\* what the session waits for, or find it already there.
_control_semantics_valid(c, st) ==
  LET goal == Intent[c].desired_terminal IN
  CASE Intent[c].action = "STOP_ACTIVE_SESSION" -> st \in Running /\ goal = "CANCELLED"
    [] st = "PENDING_APPROVAL" -> st \in Fits[c]
    [] st = "AWAITING_RISK_CONFIRMATION" -> st \in Fits[c] /\ goal # "MANUAL_INTERVENTION"
    [] OTHER -> st = goal

\* validate_control_receipt: certainty follows from the outcome, and
\* ALREADY_APPLIED repeats the outcome and certainty it refers to.
validate_control_receipt(r) ==
  IF r.outcome = "ALREADY_APPLIED"
    THEN r.prior \in Outcomes /\ r.certain = Certain(r.prior)
    ELSE r.prior = "none" /\ r.certain = Certain(r.outcome)

-----------------------------------------------------------------------------
HandlerAt(h, at) == phase = "up" /\ hpc[h] = at
SetHandler(h, at) == hpc' = [hpc EXCEPT ![h] = at] /\ UNCHANGED asked
Conclude(h, v, at) == SetHandler(h, at) /\ verdict' = [verdict EXCEPT ![h] = v]
\* The request ends, with or without an answer.
EndRequest(h) ==
  /\ hpc' = [hpc EXCEPT ![h] = "idle"]
  /\ asked' = [asked EXCEPT ![h] = NoCommand]
  /\ statusRead' = [statusRead EXCEPT ![h] = "NONE"]
  /\ verdict' = [verdict EXCEPT ![h] = NoVerdict]
Reply(h, receipt) == answered' = [answered EXCEPT ![asked[h]] = @ \cup {receipt}]

FirstStep(c) == IF envelope[c][1] = "absent" THEN "loading" ELSE "applying"

\* A valid intent arrives; a final one is answered from the journal at once.
ReceiveIntent(h, c) ==
  /\ HandlerAt(h, "idle") /\ sendings < MaxDeliveries
  /\ status[Intent[c].session] # "NONE"
  /\ sendings' = sendings + 1
  /\ IF envelope[c][1] = "final"
       THEN /\ answered' = [answered EXCEPT ![c] = @ \cup {envelope[c][2]}]
            /\ UNCHANGED <<hpc, asked>>
       ELSE /\ hpc' = [hpc EXCEPT ![h] = FirstStep(c)]
            /\ asked' = [asked EXCEPT ![h] = c]
            /\ UNCHANGED answered
  /\ UNCHANGED <<vars, envelope, statusRead, verdict>>

\* The session is loaded and bound before the intent is claimed.
LoadSession(h) ==
  /\ HandlerAt(h, "loading")
  /\ statusRead' = [statusRead EXCEPT ![h] = status[Intent[asked[h]].session]]
  /\ SetHandler(h, "claiming")
  /\ UNCHANGED <<vars, durable, verdict, sendings>>

\* claim_control_intent: the first claim judges the time and the semantics of the
\* intent, by the status read before; a repeated one is applied without.
ClaimIsNew(h) == envelope[asked[h]][1] = "absent"

ClaimIntent(h) ==
  LET c == asked[h] IN
  /\ HandlerAt(h, "claiming")
  /\ IF envelope[c][1] = "final"
       THEN EndRequest(h) /\ Reply(h, envelope[c][2]) /\ UNCHANGED envelope
       ELSE /\ envelope' = [envelope EXCEPT ![c] = <<"processing", NoVerdict>>]
            /\ \/ /\ ClaimIsNew(h)  \* too early, expired, or not fitting the status
                  /\ Conclude(h, Invalid, "finalizing")
               \/ /\ ClaimIsNew(h) => _control_semantics_valid(c, statusRead[h])
                  /\ SetHandler(h, "applying") /\ UNCHANGED verdict
            /\ UNCHANGED <<answered, statusRead>>
  /\ UNCHANGED <<vars, sendings>>

-----------------------------------------------------------------------------
(* apply_control_action, with the outcome it returns.                      *)

ApplyIntent(h) ==
  LET s == Intent[asked[h]].session IN
  /\ HandlerAt(h, "applying")
  /\ ControlRequest(h, asked[h])
  /\ IF lastCommand[s] = asked[h] /\ lastOutcome[s] # "none"
       THEN Conclude(h, Verdict("ALREADY_APPLIED", Certain(lastOutcome[s])), "recalling")
       ELSE SetHandler(h, "controlling") /\ UNCHANGED verdict
  /\ UNCHANGED <<durable, statusRead, sendings>>

\* A lock found busy and a kill that fails raise: no verdict, the claim stays.
Raises(h) ==
  \/ CloseLock(h) /\ cpc'[h] = "idle"
  \/ StopLock(h) /\ cpc'[h] = "idle"
  \/ StopKill(h) /\ cpc'[h] = "idle"
  \/ SealLock(h) /\ cpc'[h] = "idle"

ControlRaises(h) ==
  /\ HandlerAt(h, "controlling")
  /\ Raises(h)
  /\ EndRequest(h)
  /\ UNCHANGED <<durable, sendings>>

ControlContinues(h) ==
  /\ HandlerAt(h, "controlling")
  /\ ControlStep(h) /\ cpc'[h] # "idle"
  /\ UNCHANGED intentVars

Returns(h, v) ==
  /\ Conclude(h, v, IF v.outcome = "ALREADY_APPLIED" THEN "recalling" ELSE "finalizing")
  /\ UNCHANGED <<durable, statusRead, sendings>>

CloseOutcomeUnchecked(h) ==  \* mutant: only the goal is compared
  IF status[Target(h)] = Goal(h) THEN Verdict("ALREADY_APPLIED", TRUE)
  ELSE Verdict("CLOSED", TRUE)
CloseOutcome(h) ==
  LET s == Target(h) IN
  IF status[s] = Goal(h) THEN Verdict("ALREADY_APPLIED", TRUE)
  ELSE IF status[s] \notin Waiting THEN Invalid
  ELSE IF registered[s] THEN Verdict("STOP_UNCERTAIN", FALSE)
  ELSE Verdict("CLOSED", TRUE)

CloseReturns(h) ==
  /\ HandlerAt(h, "controlling") /\ CloseSeal(h)
  /\ Returns(h, CloseOutcome(h))

\* A refused stop was applied before only if a stop was confirmed.
StopRefused(h) ==
  /\ HandlerAt(h, "controlling") /\ StopClaim(h) /\ cpc'[h] = "idle"
  /\ LET s == Target(h) IN
     Returns(h, IF status[s] = Goal(h) /\ lastOutcome[s] = "STOPPED_CONFIRMED"
                  THEN Verdict("ALREADY_APPLIED", TRUE) ELSE Invalid)

\* A stop that finds another conclusion in the journal than its own is uncertain.
SealOutcome(h) ==
  LET s == Target(h)
      intended == IF ResultCertain(h) THEN Goal(h) ELSE "MANUAL_INTERVENTION"
  IN IF (MaySeal(s) \/ status[s] = intended) /\ ResultCertain(h)
       THEN Verdict("STOPPED_CONFIRMED", TRUE) ELSE Verdict("STOP_UNCERTAIN", FALSE)

StopReturns(h) ==
  /\ HandlerAt(h, "controlling") /\ StopSeal(h)
  /\ Returns(h, SealOutcome(h))

-----------------------------------------------------------------------------
(* The receipt.                                                            *)

\* ALREADY_APPLIED reports what the session's last control was; without one the
\* intent is invalid, and where the two certainties differ validation raises.
RecallOutcome(h) ==
  LET last == lastOutcome[Intent[asked[h]].session]
      recalled == [verdict[h] EXCEPT !.prior = last]
  IN /\ HandlerAt(h, "recalling")
     /\ IF last = "none" THEN Conclude(h, Invalid, "finalizing") /\ UNCHANGED statusRead
        ELSE IF validate_control_receipt(recalled)
          THEN Conclude(h, recalled, "finalizing") /\ UNCHANGED statusRead
        ELSE EndRequest(h)
     /\ UNCHANGED <<vars, durable, sendings>>

FinalizeAgain(c) == TRUE  \* mutant: the second receipt replaces the first
MayFinalize(c) == envelope[c][1] # "final"

\* finalize_control_result: the first receipt stays.  A second one has an id of
\* its own, so it conflicts, and AIOps gets an error instead.
FinalizeReceipt(h) ==
  LET c == asked[h] IN
  /\ HandlerAt(h, "finalizing")
  /\ IF MayFinalize(c)
       THEN /\ envelope' = [envelope EXCEPT ![c] = <<"final", verdict[h]>>]
            /\ Reply(h, verdict[h])
       ELSE UNCHANGED durable
  /\ EndRequest(h)
  /\ UNCHANGED <<vars, sendings>>

\* Bound: crashes before the first intent are those of the runs of TrustedSession.
AnyIntentSent == sendings > 0

\* The runner dies; the envelopes stay, claimed ones without a receipt.
CrashIntents ==
  /\ AnyIntentSent
  /\ Crash
  /\ hpc' = [h \in Handlers |-> "idle"]
  /\ asked' = [h \in Handlers |-> NoCommand]
  /\ statusRead' = [h \in Handlers |-> "NONE"]
  /\ verdict' = [h \in Handlers |-> NoVerdict]
  /\ UNCHANGED <<durable, sendings>>

-----------------------------------------------------------------------------
HandlerStep(h) ==
  \/ LoadSession(h) \/ ClaimIntent(h) \/ ApplyIntent(h)
  \/ ControlRaises(h) \/ ControlContinues(h)
  \/ CloseReturns(h) \/ StopRefused(h) \/ StopReturns(h)
  \/ RecallOutcome(h) \/ FinalizeReceipt(h)

\* The rest of the runner.  Bound: a kill switch that was activated stays.
RunnerStep ==
  \/ \E s \in Sessions : RunStep(s) \/ ProcessStep(s) \/ CreateLock(s)
  \/ \E s \in Sessions, k \in GrantsAsked : Grant(s, k)
  \/ KillStep \/ KillArm \/ RecoverStep

IntentNext ==
  \/ RunnerStep /\ UNCHANGED intentVars
  \/ CrashIntents
  \/ \E h \in Handlers : HandlerStep(h) \/ \E c \in Commands : ReceiveIntent(h, c)

IntentSpec == IntentInit /\ [][IntentNext]_<<vars, intentVars>>

-----------------------------------------------------------------------------
\* However often an intent is sent, by whomever it is handled and whenever the
\* runner dies, AIOps is told one thing: the receipt that is in the journal.
OneReceipt ==
  \A c \in Commands :
    answered[c] \subseteq (IF envelope[c][1] = "final" THEN {envelope[c][2]} ELSE {})

\* A receipt that says the session was closed or its stop confirmed is true: it
\* has the status asked for, or, once a run thread has written over a stop,
\* MANUAL_INTERVENTION; and no process works for it.
CertainReceiptIsTrue ==
  \A c \in Commands :
    LET s == Intent[c].session r == envelope[c][2] IN
    /\ r.outcome = "CLOSED" =>
         status[s] = Intent[c].desired_terminal /\ proc[s] # "running"
    /\ r.outcome = "STOPPED_CONFIRMED" =>
         /\ status[s] \in {Intent[c].desired_terminal, "MANUAL_INTERVENTION"}
         /\ proc[s] # "running"

\* Any receipt but INVALID_INTENT leaves a settled session: nothing the runner
\* has not lost works for it, and no run can bring it back.
AppliedMeansSettled ==
  \A c \in Commands :
    LET s == Intent[c].session IN
    envelope[c][2].outcome \notin {"none", "INVALID_INTENT"} =>
      status[s] \in LOCAL_TERMINAL_STATUSES /\ ~Live(s)

\* A control whose command the session records was claimed durably before its
\* first effect: a crash leaves no effect that a repeated intent is judged for anew.
ClaimBeforeEffect ==
  \A s \in Sessions :
    lastCommand[s] # NoCommand => envelope[lastCommand[s]][1] # "absent"

\* Why these hold.  A handler at work carries a command; what is applied has been
\* claimed; apply_control_action is at work for the handler exactly while it waits
\* for it, and for its command; and only a handler with a verdict has one.
HandlersKnow ==
  \A h \in Handlers :
    /\ hpc[h] # "idle" => asked[h] \in Commands
    /\ hpc[h] \notin {"idle", "loading", "claiming"} => envelope[asked[h]][1] # "absent"
    /\ cpc[h] # "idle" <=> hpc[h] = "controlling"
    /\ cpc[h] # "idle" => command[h] = asked[h]
    /\ IF hpc[h] \in {"recalling", "finalizing"} THEN verdict[h] \in Receipts
       ELSE verdict[h] = NoVerdict

\* What an outcome says of its session, from when it is concluded on: a close is
\* recorded, and no run is left that would write another status than a human's
\* over a confirmed stop.
Closed(c) ==
  LET s == Intent[c].session IN
  /\ lastOutcome[s] = "CLOSED" /\ status[s] = Intent[c].desired_terminal
  /\ proc[s] # "running"
Confirmed(c) ==
  LET s == Intent[c].session IN
  /\ status[s] \in {Intent[c].desired_terminal, "MANUAL_INTERVENTION"}
  /\ proc[s] # "running" /\ ~Unspawned(s)
Holds(c, outcome) ==
  /\ outcome = "CLOSED" => Closed(c)
  /\ outcome = "STOPPED_CONFIRMED" => Confirmed(c)
  /\ outcome \notin {"none", "INVALID_INTENT"} =>
       status[Intent[c].session] \in LOCAL_TERMINAL_STATUSES

\* It holds of every receipt, and of every verdict on its way to one; the journal's
\* last outcome is that of a settled session; and a stop that was claimed finds the
\* session running or settled, never waiting.
OutcomesHold ==
  /\ \A c \in Commands : Holds(c, envelope[c][2].outcome)
  /\ \A h \in Handlers : hpc[h] # "idle" => Holds(asked[h], verdict[h].outcome)
  /\ \A s \in Sessions : lastOutcome[s] # "none" => status[s] \in LOCAL_TERMINAL_STATUSES
  /\ \A h \in Handlers :
       cpc[h] \in {"gating", "killing", "stopped", "sealing"} =>
         status[Target(h)] \in Running \cup LOCAL_TERMINAL_STATUSES

ReceiptInv ==
  /\ IntentTypeOK /\ OneReceipt /\ ClaimBeforeEffect /\ HandlersKnow /\ OutcomesHold
=============================================================================

--------------------------- MODULE EventDelivery ---------------------------
(***************************************************************************)
(* How AIOps hears of one trusted session: the event log of the session    *)
(* journal (trusted_session.py), the deliveries of proposal, events and    *)
(* terminal status (_deliver and TrustedCallbackClient, trusted_api.py),   *)
(* a network that loses and delays calls, and the ingest rules of AIOps.   *)
(*                                                                         *)
(* Actors.  Run 1 is the diagnosis, each later run an approved execution;  *)
(* a run appends events, ends, and then delivers.  Runs follow each other, *)
(* their deliveries may overlap.  Startup recovers and delivers a session  *)
(* that was running when the runner died.                                  *)
(*                                                                         *)
(* The journal's mutex is held from the start of an append to its end;     *)
(* load and update wait for it, read_events does not.                      *)
(***************************************************************************)
EXTENDS EventIngest, FiniteSets

CONSTANTS
  MaxRuns,     \* bound: the diagnosis and the executions of the session
  MaxEvents,   \* bound: events the runs append
  BatchSize,   \* events in one callback (100 in the code)
  MaxDeaths    \* bound: crashes of the runner process

ASSUME DeliveryAssumption ==
  /\ MaxRuns \in Nat \ {0} /\ MaxEvents \in Nat /\ BatchSize \in Nat \ {0}
  /\ MaxDeaths \in Nat

Startup == 0
Runs == 1..MaxRuns
Threads == Runs \cup {Startup}
MaxLog == MaxEvents + MaxDeaths  \* every restart may append one more

VARIABLES
  \* the journal of the session
  log,         \* events.jsonl
  torn,        \* its last line is incomplete and will stay so
  nextSeq,     \* next_event_sequence
  life,        \* status: "none", "working", "waiting", a natural terminal status
               \* ("ended") or one that AIOps or an operator decided ("controlled")
  proposed,    \* proposal_hash is set
  attempted,   \* callback_last_attempted_sequence
  tried,       \* callback_proposal_attempted and callback_terminal_attempted
  acked,       \* callback_events_last_ok
  \* the threads
  runs,        \* runs started so far
  stage,       \* where each thread is
  writing,     \* its append_event: "no", "begun", or "written" but not counted
  view,        \* what its _deliver read: is_terminal, terminal attempted, the
               \* events that remain, and events_ok
  \* the network
  post,        \* the call each thread waits for
  result,      \* how it ended
  late,        \* calls given up by the runner that AIOps may still receive
  \* AIOps
  copy,        \* the events it accepted
  closed,      \* it accepted the terminal callback
  \* history and bounds
  appends, deaths,
  sent,        \* how often each event was put into a call, up to twice
  twice,       \* the proposal or the terminal status was sent again
  overlapped   \* two deliveries of the session ran at once

logVars    == <<log, torn, nextSeq, appends>>
metaVars   == <<life, proposed, attempted, tried, acked>>
threadVars == <<runs, stage, writing, view>>
netVars    == <<post, result, late>>
remoteVars == <<copy, closed>>
histVars   == <<sent, twice, overlapped>>
deliveryVars == <<logVars, metaVars, threadVars, netVars, remoteVars, histVars, deaths>>

NoPost == [type |-> "none", events |-> <<>>, last |-> 0]
NoView == [terminal |-> FALSE, closed |-> FALSE, next |-> 0, upto |-> 0, ok |-> TRUE]
Delivering == {"loading", "proposalSent", "reading", "batching", "batchSent",
               "closing", "terminalSent"}
Stages == Delivering \cup {"idle", "granting", "claiming", "working",
                           "recovering", "marking", "dead"}
LogEvent == [sequence : Nat, id : Nat]
Call == [type : {"none", "proposal", "events", "terminal"}, events : Seq(LogEvent),
         last : 0..MaxLog]
View == [terminal : BOOLEAN, closed : BOOLEAN, next : 0..MaxLog + 1, upto : 0..MaxLog,
         ok : BOOLEAN]
LogType ==
  /\ log \in Seq(LogEvent) /\ Len(log) <= MaxLog
  /\ torn \in BOOLEAN /\ nextSeq \in 1..MaxLog + 1
  /\ appends \in 0..MaxLog /\ deaths \in 0..MaxDeaths
MetaType ==
  /\ life \in {"none", "working", "waiting", "ended", "controlled"}
  /\ proposed \in BOOLEAN /\ attempted \in 0..MaxLog
  /\ tried \subseteq {"proposal", "terminal"} /\ acked \in {"none", "ok", "failed"}
ThreadType ==
  /\ runs \in 0..MaxRuns /\ stage \in [Threads -> Stages]
  /\ writing \in [Threads -> {"no", "begun", "written"}]
  /\ view \in [Threads -> View]
CallType ==
  /\ post \in [Threads -> Call] /\ late \subseteq Call
  /\ result \in [Threads -> {"none", "ok", "failed"}]
RemoteType == copy \in Seq(LogEvent) /\ Len(copy) <= MaxLog /\ closed \in BOOLEAN
HistoryType ==
  sent \in [1..MaxLog -> 0..2] /\ twice \in BOOLEAN /\ overlapped \in BOOLEAN
DeliveryTypeOK ==
  LogType /\ MetaType /\ ThreadType /\ CallType /\ RemoteType /\ HistoryType

DeliveryInit ==
  /\ log = <<>> /\ torn = FALSE /\ nextSeq = 1 /\ appends = 0
  /\ life = "none" /\ proposed = FALSE
  /\ attempted = 0 /\ tried = {} /\ acked = "none"
  /\ runs = 0
  /\ stage = [t \in Threads |-> "idle"]
  /\ writing = [t \in Threads |-> "no"]
  /\ view = [t \in Threads |-> NoView]
  /\ post = [t \in Threads |-> NoPost]
  /\ result = [t \in Threads |-> "none"]
  /\ late = {}
  /\ copy = <<>> /\ closed = FALSE
  /\ deaths = 0
  /\ sent = [n \in 1..MaxLog |-> 0] /\ twice = FALSE /\ overlapped = FALSE

-----------------------------------------------------------------------------
(* append_event: one line and its fsync, then next_event_sequence.         *)

Up == stage[Startup] = "idle"
MutexFree == \A t \in Threads : writing[t] = "no"
Go(t, to) == stage' = [stage EXCEPT ![t] = to] /\ UNCHANGED runs
Finish(t) == Go(t, "idle") /\ view' = [view EXCEPT ![t] = NoView]

\* Where an append leads: a grant and a recovery append exactly one event.
AfterAppend(t) ==
  CASE stage[t] = "granting" -> "claiming"
    [] stage[t] = "recovering" -> "marking"
    [] OTHER -> stage[t]

AppendBegin(t) ==
  /\ stage[t] \in {"granting", "working", "recovering"} /\ MutexFree
  /\ ~torn /\ (t = Startup \/ appends < MaxEvents)
  /\ appends' = appends + 1
  /\ writing' = [writing EXCEPT ![t] = "begun"]
  /\ UNCHANGED <<log, torn, nextSeq, metaVars, runs, stage, view, netVars, remoteVars,
                 histVars, deaths>>

\* The event fsync may have succeeded where the metadata replace did not: the
\* number then comes from the file.  A gap between the two raises.
NumberFromMetadata == nextSeq  \* mutant: the file is not looked at
NextNumber == IF nextSeq <= Len(log) THEN Len(log) + 1 ELSE nextSeq

AppendLine(t) ==
  /\ writing[t] = "begun"
  /\ log' = Append(log, Event(NextNumber, appends))
  /\ writing' = [writing EXCEPT ![t] = "written"]
  /\ UNCHANGED <<torn, nextSeq, appends, metaVars, runs, stage, view, netVars, remoteVars,
                 histVars, deaths>>

AppendCount(t) ==
  /\ writing[t] = "written"
  /\ nextSeq' = log[Len(log)].sequence + 1
  /\ writing' = [writing EXCEPT ![t] = "no"]
  /\ Go(t, AfterAppend(t))
  /\ UNCHANGED <<log, torn, appends, metaVars, view, netVars, remoteVars, histVars,
                 deaths>>

\* A corrupt log makes the append raise: the run fails, and so does the runner
\* when it is about to recover the session.
AppendRaises(t) ==
  /\ torn /\ stage[t] \in {"granting", "recovering"}
  /\ Go(t, IF t = Startup THEN "dead" ELSE "idle")
  /\ UNCHANGED <<logVars, metaVars, writing, view, netVars, remoteVars, histVars,
                 deaths>>

-----------------------------------------------------------------------------
(* The session's life, as far as deliveries depend on it.                  *)

Create ==
  /\ Up /\ life = "none"
  /\ life' = "working"
  /\ runs' = 1
  /\ stage' = [stage EXCEPT ![1] = "working"]
  /\ UNCHANGED <<logVars, proposed, attempted, tried, acked, writing, view, netVars,
                 remoteVars, histVars, deaths>>

BindProposal ==
  /\ stage[1] = "working" /\ MutexFree /\ ~proposed
  /\ proposed' = TRUE
  /\ UNCHANGED <<logVars, life, attempted, tried, acked, threadVars, netVars,
                 remoteVars, histVars, deaths>>

\* approve and risk_decision claim the session and append the grant; each run
\* is granted once, and no run is active meanwhile.
Approve(r) ==
  /\ Up /\ life = "waiting" /\ MutexFree
  /\ r = runs + 1 /\ appends < MaxEvents
  /\ \A q \in Runs : stage[q] \in Delivering \cup {"idle"}
  /\ runs' = r
  /\ stage' = [stage EXCEPT ![r] = "granting"]
  /\ UNCHANGED <<logVars, metaVars, writing, view, netVars, remoteVars, histVars,
                 deaths>>

\* A delivery starts; it may find another one of the session at work.
StartDelivery(t) ==
  /\ Go(t, "loading")
  /\ overlapped' = (overlapped \/ \E q \in Threads \ {t} : stage[q] \in Delivering)
  /\ UNCHANGED <<sent, twice>>

\* resume takes the session, finds its approval expired, or fails and leaves it.
Resume(r) ==
  /\ stage[r] = "claiming" /\ MutexFree
  /\ \/ /\ life = "waiting"
        /\ life' = "working"
        /\ Go(r, "working")
        /\ UNCHANGED histVars
     \/ /\ life' \in {life} \cup IF life = "waiting" THEN {"controlled"} ELSE {}
        /\ StartDelivery(r)
  /\ UNCHANGED <<logVars, proposed, attempted, tried, acked, writing, view, netVars,
                 remoteVars, deaths>>

\* The run ends: its verdict does not replace a stop's, except for the verdict
\* "uncertain" that was decided before the stop and written after it.
EndExecution(r) ==
  /\ stage[r] = "working" /\ MutexFree
  /\ life' \in IF life = "working" /\ (proposed \/ r # 1)
               THEN {"waiting", "ended"} ELSE {life, "ended"} \ {"working"}
  /\ StartDelivery(r)
  /\ UNCHANGED <<logVars, proposed, attempted, tried, acked, writing, view, netVars,
                 remoteVars, deaths>>

\* A control intent, the kill switch or an uncertain stop settles the session.
Settle ==
  /\ Up /\ MutexFree /\ life \in {"working", "waiting"}
  /\ life' \in {"ended", "controlled"}
  /\ UNCHANGED <<logVars, proposed, attempted, tried, acked, threadVars, netVars,
                 remoteVars, histVars, deaths>>

-----------------------------------------------------------------------------
(* _deliver.                                                               *)

Look == [NoView EXCEPT !.terminal = (life = "ended"), !.closed = "terminal" \in tried,
                       !.next = attempted + 1]
Post(t, m) ==
  /\ post' = [post EXCEPT ![t] = m]
  /\ UNCHANGED <<result, late>>
Returned(t) == result[t] # "none" /\ MutexFree
Collect(t) ==
  /\ result' = [result EXCEPT ![t] = "none"]
  /\ UNCHANGED <<post, late>>
\* Every attempt is recorded before its call is made.
Try(what) == tried' = tried \cup {what} /\ twice' = (twice \/ what \in tried)

Load(t) ==
  /\ stage[t] = "loading" /\ MutexFree
  /\ view' = [view EXCEPT ![t] = Look]
  /\ IF proposed /\ "proposal" \notin tried
       THEN /\ Try("proposal")
            /\ Post(t, [NoPost EXCEPT !.type = "proposal"])
            /\ Go(t, "proposalSent")
       ELSE Go(t, "reading") /\ UNCHANGED <<tried, netVars, twice>>
  /\ UNCHANGED <<logVars, life, proposed, attempted, acked, writing, remoteVars, sent,
                 overlapped, deaths>>

\* A proposal that was not taken ends the delivery.
ProposalReturns(t) ==
  /\ stage[t] = "proposalSent" /\ Returned(t)
  /\ IF result[t] = "ok"
       THEN /\ view' = [view EXCEPT ![t] = [Look EXCEPT !.terminal = view[t].terminal]]
            /\ Go(t, "reading")
       ELSE Finish(t)
  /\ Collect(t)
  /\ UNCHANGED <<logVars, metaVars, writing, remoteVars, histVars, deaths>>

\* read_events does not wait for the mutex: it may meet half a line, and raise.
ReadEvents(t) ==
  /\ stage[t] = "reading"
  /\ \/ /\ ~torn
        /\ view' = [view EXCEPT ![t].upto = Len(log)]
        /\ Go(t, "batching")
     \/ /\ torn \/ \E q \in Threads : writing[q] = "begun"
        /\ Finish(t)
  /\ UNCHANGED <<logVars, metaVars, writing, netVars, remoteVars, histVars, deaths>>

BatchEnd(v) == IF v.next + BatchSize - 1 < v.upto THEN v.next + BatchSize - 1 ELSE v.upto
ForgetAttempt(n) == attempted  \* mutant: the attempt is not recorded
RecordAttempt(n) == n

SendBatch(t) ==
  LET v == view[t] last == BatchEnd(v) IN
  /\ stage[t] = "batching" /\ v.next <= v.upto /\ MutexFree
  /\ attempted' = RecordAttempt(last)
  /\ acked' = "none"
  /\ Post(t, [type |-> "events", events |-> SubSeq(log, v.next, last), last |-> last])
  /\ sent' = [n \in 1..MaxLog |->
                IF n \in v.next..last /\ sent[n] < 2 THEN sent[n] + 1 ELSE sent[n]]
  /\ Go(t, "batchSent")
  /\ UNCHANGED <<logVars, life, proposed, tried, writing, view, remoteVars, twice,
                 overlapped, deaths>>

BatchReturns(t) ==
  /\ stage[t] = "batchSent" /\ Returned(t)
  /\ acked' = result[t]
  /\ view' = [view EXCEPT ![t].next = BatchEnd(view[t]) + 1,
                          ![t].ok = (result[t] = "ok"),
                          ![t].closed = ("terminal" \in tried)]
  /\ Go(t, IF result[t] = "ok" THEN "batching" ELSE "closing")
  /\ Collect(t)
  /\ UNCHANGED <<logVars, life, proposed, attempted, tried, writing, remoteVars,
                 histVars, deaths>>

BatchesDone(t) ==
  /\ stage[t] = "batching" /\ view[t].next > view[t].upto
  /\ Go(t, "closing")
  /\ UNCHANGED <<logVars, metaVars, writing, view, netVars, remoteVars, histVars,
                 deaths>>

CallsTerminalAnyway(v) == TRUE  \* mutant: a failed batch does not matter
CallsTerminal(v) == v.ok
\* The terminal callback is attempted once; a failed batch spends the attempt.
SendTerminal(t) ==
  LET v == view[t] IN
  /\ stage[t] = "closing" /\ MutexFree
  /\ IF v.terminal /\ ~v.closed
       THEN /\ Try("terminal")
            /\ IF CallsTerminal(v)
                 THEN /\ Post(t, [NoPost EXCEPT !.type = "terminal", !.last = v.upto])
                      /\ Go(t, "terminalSent") /\ UNCHANGED view
                 ELSE Finish(t) /\ UNCHANGED netVars
       ELSE Finish(t) /\ UNCHANGED <<tried, twice, netVars>>
  /\ UNCHANGED <<logVars, life, proposed, attempted, acked, writing, remoteVars,
                 sent, overlapped, deaths>>

TerminalReturns(t) ==
  /\ stage[t] = "terminalSent" /\ Returned(t)
  /\ Finish(t)
  /\ Collect(t)
  /\ UNCHANGED <<logVars, metaVars, writing, remoteVars, histVars, deaths>>

-----------------------------------------------------------------------------
(* The network, and AIOps.                                                 *)

\* A terminal status is taken only at the end of the accepted events, and
\* closes the session for new ones (contract, section 7).
Takes(m) ==
  CASE m.type = "proposal" -> TRUE
    [] m.type = "events" ->
         decide_event_ingest(copy, m.events) \in
           {"idempotent"} \cup IF closed THEN {} ELSE {"new"}
    [] OTHER -> m.last = Len(copy)

Receive(m) ==
  /\ copy' = IF m.type = "events" /\ Takes(m) THEN Ingest(copy, m.events) ELSE copy
  /\ closed' = (closed \/ (m.type = "terminal" /\ Takes(m)))

\* The call is received; its answer may be lost.
Answer(t) ==
  /\ post[t] # NoPost
  /\ Receive(post[t])
  /\ result' \in {[result EXCEPT ![t] = "failed"],
                  [result EXCEPT ![t] = IF Takes(post[t]) THEN "ok" ELSE "failed"]}
  /\ post' = [post EXCEPT ![t] = NoPost]
  /\ UNCHANGED <<logVars, metaVars, threadVars, late, histVars, deaths>>

\* The call fails or times out: it is lost, or will be received later.
GiveUp(t) ==
  /\ post[t] # NoPost
  /\ result' = [result EXCEPT ![t] = "failed"]
  /\ late' \in {late, late \cup {post[t]}}
  /\ post' = [post EXCEPT ![t] = NoPost]
  /\ UNCHANGED <<logVars, metaVars, threadVars, remoteVars, histVars, deaths>>

ReceiveLate ==
  /\ \E m \in late : Receive(m) /\ late' = late \ {m}
  /\ UNCHANGED <<logVars, metaVars, threadVars, post, result, histVars, deaths>>

\* AIOps asks for the session (get): the whole log, to be ingested some time later.
Reconcile ==
  /\ Up /\ ~torn /\ Len(log) > Len(copy) /\ ~closed
  /\ late' = late \cup {[type |-> "events", events |-> log, last |-> Len(log)]}
  /\ late' # late
  /\ UNCHANGED <<logVars, metaVars, threadVars, post, result, remoteVars, histVars,
                 deaths>>

-----------------------------------------------------------------------------
(* The runner dies, and starts again.                                      *)

Die ==
  /\ deaths < MaxDeaths
  /\ deaths' = deaths + 1
  /\ torn' \in {torn} \cup IF \E t \in Threads : writing[t] = "begun" THEN {TRUE} ELSE {}
  /\ late' \in {late, late \cup {post[t] : t \in {q \in Threads : post[q] # NoPost}}}
  /\ post' = [t \in Threads |-> NoPost]
  /\ result' = [t \in Threads |-> "none"]
  /\ writing' = [t \in Threads |-> "no"]
  /\ stage' = [t \in Threads |->
                 IF t = Startup /\ life = "working" THEN "recovering" ELSE "idle"]
  /\ view' = [t \in Threads |-> NoView]
  /\ UNCHANGED <<log, nextSeq, appends, metaVars, runs, remoteVars, histVars>>

\* recover_active_as_uncertain, after its event, and the delivery that follows.
RecoverMark ==
  /\ stage[Startup] = "marking"
  /\ life' = "ended"
  /\ StartDelivery(Startup)
  /\ UNCHANGED <<logVars, proposed, attempted, tried, acked, writing, view, netVars,
                 remoteVars, deaths>>

-----------------------------------------------------------------------------
AppendStep(t) == AppendLine(t) \/ AppendCount(t) \/ AppendRaises(t)
DeliverStep(t) ==
  \/ Load(t) \/ ProposalReturns(t) \/ ReadEvents(t) \/ SendBatch(t) \/ BatchReturns(t)
  \/ BatchesDone(t) \/ SendTerminal(t) \/ TerminalReturns(t)
StartupStep == RecoverMark \/ AppendBegin(Startup)

DeliveryNext ==
  \/ \E t \in Threads :
       \/ AppendBegin(t) \/ AppendStep(t) \/ DeliverStep(t) \/ Answer(t) \/ GiveUp(t)
  \/ Create \/ BindProposal \/ Settle
  \/ \E r \in Runs : Approve(r) \/ Resume(r) \/ EndExecution(r)
  \/ ReceiveLate \/ Reconcile \/ Die \/ RecoverMark

\* Startup goes on (its calls end with their timeout), and AIOps keeps asking.
\* Nothing is asked of the other threads.
DeliveryFairness ==
  /\ WF_deliveryVars(AppendStep(Startup)) /\ WF_deliveryVars(DeliverStep(Startup))
  /\ WF_deliveryVars(GiveUp(Startup)) /\ WF_deliveryVars(StartupStep)
  /\ WF_deliveryVars(Reconcile) /\ WF_deliveryVars(ReceiveLate)

DeliverySpec == DeliveryInit /\ [][DeliveryNext]_deliveryVars
FairDeliverySpec == DeliverySpec /\ DeliveryFairness

-----------------------------------------------------------------------------
\* The log has no gap and no number twice, also after a crash between the line
\* and its count, and a reader never meets another error than a torn last line.
LogIsContiguous ==
  /\ \A n \in 1..Len(log) : log[n].sequence = n
  /\ nextSeq <= Len(log) + 1

\* Nothing is sent twice, whatever fails or crashes, while deliveries do not
\* overlap: no uncertain send becomes an automatic retry.
SentOnce == ~overlapped => ~twice /\ \A n \in 1..MaxLog : sent[n] <= 1

\* A delivery recorded as accepted has been: AIOps has every event up to the last
\* attempted one.
AckedIsAccepted == ~overlapped /\ acked = "ok" => Len(copy) >= attempted

\* The terminal status is sent after every event it covers.
TerminalIsLast ==
  ~overlapped =>
    \A t \in Threads :
      post[t].type = "terminal" => \A n \in 1..post[t].last : sent[n] = 1

\* However calls are lost, repeated, delayed or cut short, what AIOps has is a
\* prefix of the log, and neither of the two takes an event back.
Replica == INSTANCE LogReplica
ImplementsReplica == Replica!Spec

\* What was logged reaches AIOps in the end, when AIOps asks for it.
LogArrives ==
  \A n \in 1..MaxLog : Len(log) = n ~> Len(copy) >= n \/ torn \/ closed

-----------------------------------------------------------------------------
(* Why the safety properties hold: an invariant that every step keeps.     *)

\* An append is counted before its line is written, and a restart pays for its own.
WriterKnows ==
  /\ \A t, q \in Threads : writing[t] # "no" /\ writing[q] # "no" => t = q
  /\ \A t \in Threads :
       /\ writing[t] # "no" => ~torn /\ stage[t] \in {"granting", "working", "recovering"}
       /\ writing[t] = "begun" => Len(log) < appends
       /\ writing[t] = "written" => Len(log) > 0
  /\ Len(log) <= appends /\ appends <= MaxEvents + deaths
  /\ stage[Startup] = "recovering" /\ writing[Startup] = "no" =>
       appends < MaxEvents + deaths

\* While startup is at work no run is, and no run is before it has started.
StartupKnows ==
  /\ life = "none" => runs = 0
  /\ stage[Startup] \notin {"granting", "claiming", "working"}
  /\ \A r \in Runs :
       /\ stage[r] \notin {"recovering", "marking", "dead"}
       /\ ~Up \/ r > runs => stage[r] = "idle"

\* Every call carries a piece of the log, and AIOps has a prefix of it.
FromLog(m) ==
  m.type = "events" =>
    /\ m.events # <<>> /\ Len(m.events) <= m.last /\ m.last <= Len(log)
    /\ \A i \in 1..Len(m.events) : m.events[i] = log[m.last - Len(m.events) + i]
CallsKnow ==
  /\ \A t \in Threads : FromLog(post[t])
  /\ \A m \in late : FromLog(m) /\ m.type # "none"
CopyKnows ==
  /\ Len(copy) <= Len(log)
  /\ \A n \in 1..Len(copy) : copy[n] = log[n]

\* What a delivery waits for, and what it knows of its batch.
PostOf(at) ==
  CASE at = "proposalSent" -> "proposal" [] at = "batchSent" -> "events"
    [] at = "terminalSent" -> "terminal" [] OTHER -> "none"
Asks(t) ==
  /\ PostOf(stage[t]) = "none" => result[t] = "none"
  /\ post[t] # NoPost =>
       post[t].type = PostOf(stage[t]) /\ post[t].type # "none" /\ result[t] = "none"
  /\ view[t].upto <= Len(log) /\ view[t].next <= Len(log) + 1
  /\ stage[t] \in {"reading", "batching", "batchSent"} => view[t].next > 0
  /\ stage[t] = "batchSent" =>
       /\ view[t].next <= view[t].upto
       /\ post[t] # NoPost => post[t].last = BatchEnd(view[t])
       /\ result[t] = "ok" => Len(copy) >= BatchEnd(view[t])
DeliveryKnows == attempted <= Len(log) /\ \A t \in Threads : Asks(t)

\* What it knows as long as it has been the only one.
SentKnows ==
  /\ ~twice /\ \A n \in 1..MaxLog : sent[n] = IF n <= attempted THEN 1 ELSE 0
  /\ acked = "ok" => Len(copy) >= attempted
Covers(t) ==
  /\ stage[t] \in {"reading", "batching", "batchSent", "closing"} =>
       (view[t].closed <=> "terminal" \in tried)
  /\ stage[t] \in {"reading", "batching"} => view[t].next = attempted + 1
  /\ stage[t] = "batchSent" => attempted = BatchEnd(view[t])
  /\ stage[t] = "closing" /\ view[t].ok => view[t].upto <= attempted
  /\ post[t].type = "terminal" => post[t].last <= attempted
AloneKnows ==
  ~overlapped =>
    /\ \A t, q \in Threads : stage[t] \in Delivering /\ stage[q] \in Delivering => t = q
    /\ SentKnows /\ \A t \in Threads : Covers(t)

LogInv ==
  /\ DeliveryTypeOK /\ LogIsContiguous
  /\ WriterKnows /\ StartupKnows
  /\ CallsKnow /\ CopyKnows /\ DeliveryKnows /\ AloneKnows
=============================================================================

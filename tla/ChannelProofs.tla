--------------------------- MODULE ChannelProofs ---------------------------
(***************************************************************************)
(* Proofs about the two channels to AIOps, for any number of runs, events, *)
(* crashes, authors and revisions: LogInv is inductive and implies what    *)
(* EventDelivery promises of proposals, events and terminal callbacks and  *)
(* its refinement of LogReplica; PostInv is inductive and implies that the *)
(* end of an inspection batch is not forgotten.                            *)
(***************************************************************************)
EXTENDS EventDelivery, InspectionDelivery, SequenceTheorems, TLAPS

-----------------------------------------------------------------------------
(* What the ingest rules make of a piece of the log.                       *)

\* An event of a call is known to AIOps when its number is one of the copy's.
LEMMA KnownByNumber ==
  ASSUME LogType, RemoteType, LogIsContiguous, CopyKnows,
         NEW m \in Call, m.type = "events", FromLog(m), NEW i \in 1..Len(m.events)
  PROVE  Known(copy, m.events[i]) <=> m.last - Len(m.events) + i <= Len(copy)
<1> DEFINE j == m.last - Len(m.events) + i
<1>1. /\ Len(m.events) \in Nat /\ m.last \in Nat /\ Len(copy) \in Nat /\ Len(log) \in Nat
      /\ j \in 1..Len(log) /\ m.events[i] = log[j] /\ log[j].sequence = j
  BY DEF LogType, RemoteType, Call, FromLog, LogIsContiguous
<1>2. ASSUME NEW n \in 1..Len(copy), copy[n] = log[j] PROVE n = j
  BY SMTT(30), <1>1, <1>2 DEF CopyKnows, LogIsContiguous
<1>3. ASSUME j <= Len(copy) PROVE copy[j] = log[j] /\ j \in 1..Len(copy)
  BY <1>1, <1>3 DEF CopyKnows
<1> QED BY <1>1, <1>2, <1>3 DEF Known

\* So the replay of a call is as long as its overlap with the copy.
LEMMA ReplayIsOverlap ==
  ASSUME LogType, RemoteType, LogIsContiguous, CopyKnows,
         NEW m \in Call, m.type = "events", FromLog(m)
  PROVE  LET skipped == m.last - Len(m.events)
         IN  Replayed(copy, m.events) =
               IF Len(copy) <= skipped THEN 0
               ELSE IF Len(copy) >= m.last THEN Len(m.events) ELSE Len(copy) - skipped
<1> DEFINE skipped == m.last - Len(m.events)
           known == {i \in 1..Len(m.events) : Known(copy, m.events[i])}
           k == IF Len(copy) >= m.last THEN Len(m.events) ELSE Len(copy) - skipped
<1>1. /\ Len(m.events) \in Nat \ {0} /\ m.last \in Nat /\ Len(copy) \in Nat
      /\ skipped \in Nat /\ m.last = skipped + Len(m.events)
  BY DEF LogType, RemoteType, Call, FromLog
<1>2. known = {i \in 1..Len(m.events) : skipped + i <= Len(copy)}
  BY KnownByNumber
<1>3. CASE Len(copy) <= skipped
  <2>1. known = {}  BY <1>1, <1>2, <1>3
  <2> QED BY <1>3, <2>1 DEF Replayed
<1>4. CASE Len(copy) > skipped
  <2>0. /\ k \in 1..Len(m.events) /\ skipped + k <= Len(copy)
        /\ \A i \in 1..Len(m.events) : skipped + i <= Len(copy) => i <= k
    <3> HIDE DEF skipped
    <3> QED BY <1>1, <1>4
  <2>1. k \in known /\ \A i \in known : i <= k
    <3> HIDE DEF known, k, skipped
    <3> QED BY <1>2, <2>0
  <2>2. \A x \in known : (\A i \in known : i <= x) => x = k
    <3> HIDE DEF k
    <3> QED BY <1>1, <2>0, <2>1
  <2>3. (CHOOSE x \in known : \A i \in known : i <= x) = k
    <3> HIDE DEF known, k
    <3> QED BY <2>1, <2>2
  <2>4. Replayed(copy, m.events) = k
    <3>1. known # {}  BY <2>1
    <3> HIDE DEF k
    <3> QED BY <3>1, <2>3 DEF Replayed
  <2> QED BY <1>1, <1>4, <2>4
<1> QED BY <1>1, <1>3, <1>4

\* A call that is taken brings the copy up to its last event, and one that is not
\* changes nothing.
LEMMA IngestFollowsLog ==
  ASSUME LogType, RemoteType, LogIsContiguous, CopyKnows,
         NEW m \in Call, m.type = "events", FromLog(m),
         NEW c, c = Ingest(copy, m.events)
  PROVE  /\ c \in Seq(LogEvent) /\ Len(copy) <= Len(c) /\ Len(c) <= Len(log)
         /\ \A n \in 1..Len(c) : c[n] = log[n]
         /\ decide_event_ingest(copy, m.events) # "conflict" => m.last <= Len(c)
<1> DEFINE skipped == m.last - Len(m.events)
           k == Replayed(copy, m.events)
           news == SubSeq(m.events, k + 1, Len(m.events))
<1>1. /\ Len(m.events) \in Nat \ {0} /\ m.last \in Nat /\ Len(copy) \in Nat
      /\ Len(log) \in Nat /\ skipped \in Nat /\ m.last <= Len(log)
      /\ m.last = skipped + Len(m.events)
      /\ copy \in Seq(LogEvent) /\ m.events \in Seq(LogEvent)
  BY DEF LogType, RemoteType, Call, FromLog
<1>2. k = IF Len(copy) <= skipped THEN 0
          ELSE IF Len(copy) >= m.last THEN Len(m.events) ELSE Len(copy) - skipped
  BY ReplayIsOverlap
<1>3. CASE decide_event_ingest(copy, m.events) = "conflict"
  BY <1>1, <1>3 DEF Ingest, CopyKnows
<1>4. CASE decide_event_ingest(copy, m.events) # "conflict" /\ k = Len(m.events)
  <2>1. news = <<>>  BY <1>1, <1>4, SubSeqEmpty
  <2>2. c = copy  BY <1>1, <1>4, <2>1, ConcatEmptySeq DEF Ingest
  <2>3. m.last <= Len(copy)
    <3> HIDE DEF k, skipped
    <3> QED BY <1>1, <1>2, <1>4
  <2> QED BY <1>1, <2>2, <2>3 DEF CopyKnows
<1>5. CASE decide_event_ingest(copy, m.events) # "conflict" /\ k # Len(m.events)
  <2>1. k \in 0..Len(m.events) - 1 /\ k + 1 \in 1..Len(m.events)
    <3> HIDE DEF k, skipped
    <3> QED BY <1>1, <1>2, <1>5
  <2>2. m.events[k + 1].sequence = Len(copy) + 1
    <3>1. ExtendsHistory(copy, m.events)  BY <1>5 DEF decide_event_ingest
    <3>2. m.events[k + 1].sequence = Len(copy) + (k + 1) - k
      <4>1. \A i \in k + 1..Len(m.events) : m.events[i].sequence = Len(copy) + i - k
        BY <3>1 DEF ExtendsHistory
      <4> HIDE DEF k
      <4>2. k + 1 \in k + 1..Len(m.events)  BY <1>1, <2>1
      <4> QED BY <4>1, <4>2
    <3> HIDE DEF k
    <3> QED BY <1>1, <2>1, <3>2
  <2>3. skipped + k = Len(copy)
    <3>1. /\ m.events[k + 1] = log[skipped + (k + 1)]
          /\ skipped + (k + 1) \in 1..Len(log)
      <4> HIDE DEF k
      <4> QED BY <1>1, <2>1 DEF FromLog
    <3> HIDE DEF k, skipped
    <3> QED BY <1>1, <2>1, <2>2, <3>1 DEF LogIsContiguous
  <2>4. /\ news \in Seq(LogEvent) /\ Len(news) = Len(m.events) - k
        /\ \A i \in 1..Len(m.events) - k : news[i] = m.events[k + i]
    <3>1. \A i \in k + 1..Len(m.events) : m.events[i] \in LogEvent
      BY <1>1, <2>1
    <3>2. /\ news \in Seq(LogEvent)
          /\ Len(news) = IF k + 1 <= Len(m.events) THEN Len(m.events) - (k + 1) + 1 ELSE 0
          /\ \A i \in 1..Len(m.events) - (k + 1) + 1 : news[i] = m.events[(k + 1) + i - 1]
      <4> HIDE DEF k
      <4> QED BY <1>1, <2>1, <3>1, SubSeqProperties
    <3> HIDE DEF k, news
    <3> QED BY <1>1, <2>1, <3>2
  <2>5. c = copy \o news  BY <1>5 DEF Ingest
  <2> HIDE DEF news, k, skipped
  <2>6. /\ c \in Seq(LogEvent) /\ Len(c) = Len(copy) + Len(news)
        /\ \A n \in 1..Len(c) : c[n] = IF n <= Len(copy) THEN copy[n] ELSE news[n - Len(copy)]
    <3>1. copy \o news \in Seq(LogEvent) /\ Len(copy \o news) = Len(copy) + Len(news)
      BY <1>1, <2>4, ConcatProperties
    <3>2. \A n \in 1..Len(copy) + Len(news) :
            (copy \o news)[n] = IF n <= Len(copy) THEN copy[n] ELSE news[n - Len(copy)]
      BY <1>1, <2>4, ConcatProperties
    <3> QED BY <2>5, <3>1, <3>2
  <2>7. Len(c) = m.last
    <3>1. Len(c) = Len(copy) + (Len(m.events) - k)  BY <2>4, <2>6
    <3> QED BY SMTT(30), <1>1, <2>1, <2>3, <3>1
  <2>8. ASSUME NEW n \in Len(copy) + 1..Len(c) PROVE c[n] = log[n]
    <3>1. c[n] = m.events[k + (n - Len(copy))]
      <4>1. n - Len(copy) \in 1..Len(m.events) - k
        BY <1>1, <2>1, <2>3, <2>7, <2>8
      <4>2. c[n] = news[n - Len(copy)]  BY <1>1, <2>6, <2>8
      <4> QED BY <2>4, <4>1, <4>2
    <3>2. k + (n - Len(copy)) \in 1..Len(m.events) /\ skipped + (k + (n - Len(copy))) = n
      BY SMTT(30), <1>1, <2>1, <2>3, <2>7, <2>8
    <3> QED BY <3>1, <3>2 DEF FromLog, skipped
  <2> QED BY <1>1, <2>6, <2>7, <2>8 DEF CopyKnows
<1> QED BY <1>3, <1>4, <1>5

\* Receiving a call keeps the copy a prefix of the log, and what is taken is there.
LEMMA ReceiveFollowsLog ==
  ASSUME LogType, RemoteType, LogIsContiguous, CopyKnows,
         NEW m \in Call, FromLog(m), Receive(m)

  PROVE  /\ copy' \in Seq(LogEvent) /\ Len(copy) <= Len(copy') /\ Len(copy') <= Len(log)
         /\ \A n \in 1..Len(copy') : copy'[n] = log[n]
         /\ m.type = "events" /\ Takes(m) => m.last <= Len(copy')
<1>1. CASE m.type = "events" /\ Takes(m)
  <2>1. copy' = Ingest(copy, m.events)  BY <1>1 DEF Receive
  <2>2. decide_event_ingest(copy, m.events) # "conflict"  BY <1>1 DEF Takes
  <2> QED BY <1>1, <2>1, <2>2, IngestFollowsLog
<1>2. CASE ~(m.type = "events" /\ Takes(m))
  BY <1>2 DEF Receive, LogType, RemoteType, CopyKnows
<1> QED BY <1>1, <1>2

-----------------------------------------------------------------------------
(* What the steps come to.                                                 *)

\* What the steps of a delivery, of the network and of AIOps come to.
LoadEffect(t) ==
  /\ stage[t] = "loading" /\ MutexFree /\ view' = [view EXCEPT ![t] = Look]
  /\ UNCHANGED <<logVars, life, proposed, attempted, acked, writing, runs, remoteVars,
                 sent, overlapped, twice, deaths, result, late>>
  /\ \/ /\ tried' = tried \cup {"proposal"}
        /\ \E m \in Call :
             /\ m # NoPost /\ m.type = "proposal"
             /\ post' = [post EXCEPT ![t] = m]
        /\ stage' = [stage EXCEPT ![t] = "proposalSent"]
     \/ tried' = tried /\ post' = post /\ stage' = [stage EXCEPT ![t] = "reading"]

SendBatchEffect(t) ==
  /\ stage[t] = "batching" /\ MutexFree
  /\ view[t].next > 0 /\ view[t].next <= BatchEnd(view[t])
  /\ BatchEnd(view[t]) <= view[t].upto /\ BatchEnd(view[t]) \in Nat
  /\ attempted' = BatchEnd(view[t]) /\ acked' = "none"
  /\ \E m \in Call :
       /\ m # NoPost /\ m.type = "events" /\ m.last = BatchEnd(view[t])
       /\ FromLog(m)
       /\ post' = [post EXCEPT ![t] = m]
  /\ sent' = [n \in 1..MaxLog |->
       IF n \in view[t].next..BatchEnd(view[t]) /\ sent[n] < 2 THEN sent[n] + 1
       ELSE sent[n]]
  /\ stage' = [stage EXCEPT ![t] = "batchSent"]
  /\ UNCHANGED <<logVars, life, proposed, tried, writing, runs, view, remoteVars, twice,
                 overlapped, deaths, result, late>>

BatchReturnsEffect(t) ==
  /\ stage[t] = "batchSent" /\ result[t] # "none" /\ MutexFree
  /\ acked' = result[t] /\ result' = [result EXCEPT ![t] = "none"]
  /\ BatchEnd(view[t]) \in Nat /\ view[t].next <= BatchEnd(view[t])
  /\ BatchEnd(view[t]) <= view[t].upto
  /\ \E v \in View :
       /\ v.next = BatchEnd(view[t]) + 1 /\ v.upto = view[t].upto
       /\ (v.ok <=> result[t] = "ok") /\ (v.closed <=> "terminal" \in tried)
       /\ view' = [view EXCEPT ![t] = v]
  /\ stage' = [stage EXCEPT ![t] = IF result[t] = "ok" THEN "batching" ELSE "closing"]
  /\ UNCHANGED <<logVars, life, proposed, attempted, tried, writing, runs, remoteVars,
                 histVars, deaths, post, late>>

SendTerminalEffect(t) ==
  /\ stage[t] = "closing" /\ MutexFree
  /\ UNCHANGED <<logVars, life, proposed, attempted, acked, writing, runs, remoteVars,
                 sent, overlapped, deaths, result, late>>
  /\ \/ UNCHANGED <<tried, twice, post>>
     \/ /\ ~view[t].closed /\ tried' = tried \cup {"terminal"}
        /\ twice' = (twice \/ "terminal" \in tried)
  /\ \/ /\ post' = post /\ stage' = [stage EXCEPT ![t] = "idle"]
        /\ view' = [view EXCEPT ![t] = NoView]
     \/ /\ view[t].ok /\ view' = view /\ stage' = [stage EXCEPT ![t] = "terminalSent"]
        /\ \E m \in Call :
             /\ m # NoPost /\ m.type = "terminal" /\ m.last = view[t].upto
             /\ post' = [post EXCEPT ![t] = m]

AnswerEffect(t) ==
  /\ post[t] # NoPost /\ post' = [post EXCEPT ![t] = NoPost]
  /\ copy' \in Seq(LogEvent) /\ Len(copy) <= Len(copy') /\ Len(copy') <= Len(log)
  /\ \A n \in 1..Len(copy') : copy'[n] = log[n]
  /\ closed' \in BOOLEAN
  /\ \E r \in {"ok", "failed"} :
       /\ result' = [result EXCEPT ![t] = r]
       /\ r = "ok" /\ post[t].type = "events" => post[t].last <= Len(copy')
  /\ UNCHANGED <<logVars, metaVars, threadVars, late, histVars, deaths>>

ReceiveLateEffect ==
  /\ copy' \in Seq(LogEvent) /\ Len(copy) <= Len(copy') /\ Len(copy') <= Len(log)
  /\ \A n \in 1..Len(copy') : copy'[n] = log[n]
  /\ closed' \in BOOLEAN /\ late' \subseteq late
  /\ UNCHANGED <<logVars, metaVars, threadVars, post, result, histVars, deaths>>

ReconcileEffect ==
  /\ \E m \in Call : FromLog(m) /\ m.type = "events" /\ late' = late \cup {m}
  /\ UNCHANGED <<logVars, metaVars, threadVars, post, result, remoteVars, histVars, deaths>>

DieEffect ==
  /\ deaths < MaxDeaths /\ deaths' = deaths + 1 /\ torn' \in BOOLEAN
  /\ \A m \in late' : m \in late \/ \E t \in Threads : m = post[t] /\ m # NoPost
  /\ post' = [t \in Threads |-> NoPost] /\ result' = [t \in Threads |-> "none"]
  /\ writing' = [t \in Threads |-> "no"] /\ view' = [t \in Threads |-> NoView]
  /\ stage' = [t \in Threads |->
       IF t = Startup /\ life = "working" THEN "recovering" ELSE "idle"]
  /\ UNCHANGED <<log, nextSeq, appends, metaVars, runs, remoteVars, histVars>>

\* The steps of a delivery that only read.
ProposalReturnsEffect(t) ==
  /\ stage[t] = "proposalSent" /\ result[t] # "none" /\ MutexFree
  /\ result' = [result EXCEPT ![t] = "none"]
  /\ \E v \in View :
       /\ view' = [view EXCEPT ![t] = v]
       /\ v.next <= attempted + 1 /\ v.upto = 0
       /\ \/ stage' = [stage EXCEPT ![t] = "idle"]
          \/ /\ stage' = [stage EXCEPT ![t] = "reading"]
             /\ v.next = attempted + 1 /\ (v.closed <=> "terminal" \in tried)
  /\ UNCHANGED <<logVars, metaVars, writing, runs, remoteVars, histVars, deaths, post, late>>

ReadEventsEffect(t) ==
  /\ stage[t] = "reading"
  /\ \E v \in View :
       /\ view' = [view EXCEPT ![t] = v]
       /\ \/ stage' = [stage EXCEPT ![t] = "idle"] /\ v.next = 0 /\ v.upto = 0
          \/ /\ stage' = [stage EXCEPT ![t] = "batching"]
             /\ v.next = view[t].next /\ v.upto = Len(log)
             /\ (v.closed <=> view[t].closed)
  /\ UNCHANGED <<logVars, metaVars, writing, runs, netVars, remoteVars, histVars, deaths>>

\* The calls that carry no events, and the views a delivery starts from.
LEMMA PlainCalls ==
  /\ NoPost \in Call
  /\ \A k \in {"proposal", "terminal"}, n \in 0..MaxLog :
       LET m == [NoPost EXCEPT !.type = k, !.last = n]
       IN  m \in Call /\ m # NoPost /\ m.type = k /\ m.last = n
  /\ LET m == [NoPost EXCEPT !.type = "proposal"]
     IN  m \in Call /\ m # NoPost /\ m.type = "proposal"
<1>1. MaxLog \in Nat  BY DeliveryAssumption DEF MaxLog
<1>2. NoPost \in Call /\ NoPost.type = "none"
  <2>1. <<>> \in Seq(LogEvent)  BY EmptySeq
  <2> QED BY <1>1, <2>1 DEF NoPost, Call
<1>3. ASSUME NEW k \in {"proposal", "terminal"}, NEW n \in 0..MaxLog
      PROVE  LET m == [NoPost EXCEPT !.type = k, !.last = n]
             IN  m \in Call /\ m # NoPost /\ m.type = k /\ m.last = n
  BY <1>2 DEF Call
<1>4. LET m == [NoPost EXCEPT !.type = "proposal"]
      IN  m \in Call /\ m # NoPost /\ m.type = "proposal"
  BY <1>2 DEF Call
<1> QED BY <1>2, <1>3, <1>4

\* The view a delivery starts and ends with.
LEMMA PlainView == NoView \in View /\ NoView.upto = 0 /\ NoView.next = 0 /\ NoView.ok
<1>1. MaxLog \in Nat  BY DeliveryAssumption DEF MaxLog
<1> QED BY <1>1 DEF NoView, View

\* The view _deliver loads.
LEMMA LookView ==
  ASSUME LogInv
  PROVE  /\ Look \in View /\ Look.next = attempted + 1 /\ Look.upto = 0 /\ Look.ok
         /\ Look.closed <=> "terminal" \in tried
<1> DEFINE b == life = "ended"
           c == "terminal" \in tried
           n == attempted + 1
<1>1. n \in 0..MaxLog + 1 /\ b \in BOOLEAN /\ c \in BOOLEAN
  BY DeliveryAssumption DEF LogInv, DeliveryTypeOK, MetaType, MaxLog
<1>2. Look = [NoView EXCEPT !.terminal = b, !.closed = c, !.next = n]
  BY Zenon DEF Look
<1>3. /\ Look \in View /\ Look.next = n /\ Look.upto = NoView.upto
      /\ (Look.ok <=> NoView.ok) /\ (Look.closed <=> c)
  <2> HIDE DEF b, c, n
  <2> QED BY <1>1, <1>2, PlainView DEF View
<1> QED BY <1>3, PlainView

\* A delivery loads the session, and sends the proposal if it has not been.
LEMMA LoadDoes ==
  ASSUME LogInv, NEW t \in Threads, Load(t) PROVE LoadEffect(t)
<1> USE DEF LogInv, DeliveryTypeOK, HistoryType, Load, Try, Post, Go, netVars
<1>2. CASE proposed /\ "proposal" \notin tried
  <2> DEFINE m == [NoPost EXCEPT !.type = "proposal"]
  <2>1. m \in Call /\ m # NoPost /\ m.type = "proposal"
    BY PlainCalls
  <2>2. post' = [post EXCEPT ![t] = m]  BY <1>2
  <2>3. \E c \in Call : /\ c # NoPost /\ c.type = "proposal"
                        /\ post' = [post EXCEPT ![t] = c]
    <3> HIDE DEF m
    <3> QED BY <2>1, <2>2
  <2> QED BY <1>2, <2>3 DEF LoadEffect
<1>3. CASE ~(proposed /\ "proposal" \notin tried)
  BY <1>3 DEF LoadEffect
<1> QED BY <1>2, <1>3

\* A batch: a piece of the log, recorded as attempted before it is sent.
LEMMA SendBatchDoes ==
  ASSUME LogInv, NEW t \in Threads, SendBatch(t) PROVE SendBatchEffect(t)
<1> DEFINE last == BatchEnd(view[t])
           m == [type |-> "events", events |-> SubSeq(log, view[t].next, last), last |-> last]
<1> USE DEF LogInv, DeliveryTypeOK
<1>1. /\ view[t].next \in Nat /\ view[t].upto \in Nat /\ view[t].upto <= Len(log)
      /\ view[t].next <= view[t].upto /\ view[t].next > 0 /\ Len(log) \in Nat
      /\ Len(log) <= MaxLog /\ MaxLog \in Nat
  BY DeliveryAssumption
  DEF ThreadType, View, DeliveryKnows, Asks, SendBatch, LogType, MaxLog
<1>2. last \in Nat /\ view[t].next <= last /\ last <= view[t].upto
  BY <1>1, DeliveryAssumption DEF BatchEnd
<1>3. m \in Call /\ m # NoPost /\ m.type = "events" /\ m.last = last /\ FromLog(m)
  <2> DEFINE piece == SubSeq(log, view[t].next, last)
  <2>1. /\ piece \in Seq(LogEvent) /\ Len(piece) = last - view[t].next + 1
        /\ \A i \in 1..last - view[t].next + 1 : piece[i] = log[view[t].next + i - 1]
    <3>1. \A i \in view[t].next..last : log[i] \in LogEvent
      BY <1>1, <1>2 DEF LogType
    <3>2. last \in Nat /\ view[t].next <= last  BY <1>1, <1>2
    <3>6. last \in Int /\ view[t].next \in Int  BY <1>1, <1>2
    <3> HIDE DEF last, LogInv, DeliveryTypeOK
    <3>3. piece \in Seq(LogEvent)
      BY <3>1, <3>6, SubSeqProperties, SMTT(30)
    <3>5. Len(piece) = IF view[t].next <= last THEN last - view[t].next + 1 ELSE 0
      BY <3>1, <3>6, SubSeqProperties, SMTT(30)
    <3>4. \A i \in 1..last - view[t].next + 1 : piece[i] = log[view[t].next + i - 1]
      BY <3>1, <3>6, SubSeqProperties, SMTT(30)
    <3> QED BY <3>2, <3>3, <3>4, <3>5
  <2>2. m.events = piece /\ m.type = "events" /\ m.last = last  OBVIOUS
  <2> HIDE DEF piece
  <2>3. m \in Call
    <3> HIDE DEF last
    <3> QED BY <1>1, <1>2, <2>1 DEF Call, piece
  <2>4. m # NoPost  BY <2>2 DEF NoPost
  <2> HIDE DEF m, last
  <2>5. FromLog(m)
    <3>1. piece # <<>> /\ Len(piece) <= last /\ last <= Len(log)
      BY <1>1, <1>2, <2>1
    <3>2. \A i \in 1..Len(piece) : piece[i] = log[last - Len(piece) + i]
      <4> SUFFICES ASSUME NEW i \in 1..Len(piece)
      PROVE piece[i] = log[last - Len(piece) + i]
        OBVIOUS
      <4>1. view[t].next + i - 1 = last - Len(piece) + i /\ i \in 1..last - view[t].next + 1
        <5>1. Len(piece) = last - view[t].next + 1 /\ last \in Nat
          BY <1>1, <1>2, <2>1
        <5>2. i \in 1..last - view[t].next + 1  BY <5>1
        <5> QED BY SMTT(30), <1>1, <5>1, <5>2
      <4> QED BY <2>1, <4>1
    <3> QED BY <2>2, <3>1, <3>2 DEF FromLog
  <2> QED BY <2>2, <2>3, <2>4, <2>5
<1>4. post' = [post EXCEPT ![t] = m]  BY DEF SendBatch, Post
<1>5. \E c \in Call :
      /\ c # NoPost /\ c.type = "events" /\ c.last = last /\ FromLog(c)
                      /\ post' = [post EXCEPT ![t] = c]
  <2> HIDE DEF m, last
  <2> QED BY <1>3, <1>4
<1>6. /\ stage[t] = "batching" /\ MutexFree /\ attempted' = last /\ acked' = "none"
      /\ sent' = [n \in 1..MaxLog |->
              IF n \in view[t].next..last /\ sent[n] < 2 THEN sent[n] + 1 ELSE sent[n]]
      /\ stage' = [stage EXCEPT ![t] = "batchSent"]
      /\ UNCHANGED <<logVars, life, proposed, tried, writing, runs, view, remoteVars, twice,
                     overlapped, deaths, result, late>>
  BY DEF SendBatch, Post, Go, RecordAttempt
<1> QED BY <1>1, <1>2, <1>5, <1>6, Zenon DEF SendBatchEffect

\* Its result: the delivery goes on behind it, or gives up the events.
LEMMA BatchReturnsDoes ==
  ASSUME LogInv, NEW t \in Threads, BatchReturns(t) PROVE BatchReturnsEffect(t)
<1> DEFINE last == BatchEnd(view[t])
           b == result[t] = "ok"
           c == "terminal" \in tried
           n == last + 1
           v == [view[t] EXCEPT !.next = n, !.ok = b, !.closed = c]
<1> USE DEF LogInv, DeliveryTypeOK
<1>1. /\ view[t] \in View /\ view[t].next \in Nat /\ view[t].upto \in 0..MaxLog
      /\ view[t].next <= view[t].upto /\ MaxLog \in Nat
  BY DeliveryAssumption
  DEF ThreadType, View, DeliveryKnows, Asks, BatchReturns, MaxLog
<1>2. last \in Nat /\ view[t].next <= last /\ last <= view[t].upto
  BY <1>1, DeliveryAssumption DEF BatchEnd
<1>3. /\ v \in View /\ v.next = n /\ v.upto = view[t].upto
      /\ (v.ok <=> b) /\ (v.closed <=> c)
  <2>1. n \in 0..MaxLog + 1 /\ b \in BOOLEAN /\ c \in BOOLEAN  BY <1>1, <1>2
  <2> HIDE DEF b, c, n
  <2> QED BY <1>1, <2>1 DEF View
<1>4. view' = [view EXCEPT ![t] = v]
  BY DEF BatchReturns, ThreadType
<1>5. \E w \in View :
        /\ w.next = last + 1 /\ w.upto = view[t].upto
        /\ (w.ok <=> result[t] = "ok") /\ (w.closed <=> "terminal" \in tried)
        /\ view' = [view EXCEPT ![t] = w]
  <2> HIDE DEF v
  <2> QED BY <1>3, <1>4
<1>6. /\ stage[t] = "batchSent" /\ result[t] # "none" /\ MutexFree
      /\ acked' = result[t] /\ result' = [result EXCEPT ![t] = "none"]
      /\ stage' = [stage EXCEPT ![t] = IF result[t] = "ok" THEN "batching" ELSE "closing"]
      /\ UNCHANGED <<logVars, life, proposed, attempted, tried, writing, runs, remoteVars,
                     histVars, deaths, post, late>>
  BY DEF BatchReturns, Returned, Collect, Go
<1> QED BY <1>1, <1>2, <1>5, <1>6, Zenon DEF BatchReturnsEffect

\* The terminal callback, or the end of the delivery without one.
LEMMA SendTerminalDoes ==
  ASSUME LogInv, NEW t \in Threads, SendTerminal(t) PROVE SendTerminalEffect(t)
<1> DEFINE m == [NoPost EXCEPT !.type = "terminal", !.last = view[t].upto]
<1>1. m \in Call /\ m # NoPost /\ m.type = "terminal" /\ m.last = view[t].upto
  <2>1. view[t].upto \in 0..MaxLog  BY DEF LogInv, DeliveryTypeOK, ThreadType, View
  <2> QED BY <2>1, PlainCalls
<1>2. CASE view[t].terminal /\ ~view[t].closed /\ CallsTerminal(view[t])
  <2>1. post' = [post EXCEPT ![t] = m]  BY <1>2 DEF SendTerminal, Post
  <2>2. \E c \in Call :
        /\ c # NoPost /\ c.type = "terminal" /\ c.last = view[t].upto
                        /\ post' = [post EXCEPT ![t] = c]
    <3> HIDE DEF m
    <3> QED BY <1>1, <2>1
  <2> QED BY <1>2, <2>2
    DEF SendTerminal, Post, Try, Go, CallsTerminal, SendTerminalEffect
<1>3. CASE ~(view[t].terminal /\ ~view[t].closed /\ CallsTerminal(view[t]))
  BY <1>3 DEF SendTerminal, Try, Go, Finish, netVars, SendTerminalEffect
<1> QED BY <1>2, <1>3

\* AIOps receives the call: its copy stays a prefix of the log.
LEMMA AnswerDoes ==
  ASSUME LogInv, NEW t \in Threads, Answer(t) PROVE AnswerEffect(t)
<1> USE DEF LogInv, DeliveryTypeOK
<1>1. post[t] \in Call /\ FromLog(post[t]) /\ Receive(post[t])
  BY DEF CallType, CallsKnow, Answer
<1>2. /\ copy' \in Seq(LogEvent) /\ Len(copy) <= Len(copy') /\ Len(copy') <= Len(log)
      /\ \A n \in 1..Len(copy') : copy'[n] = log[n]
      /\ post[t].type = "events" /\ Takes(post[t]) => post[t].last <= Len(copy')
  BY <1>1, ReceiveFollowsLog
<1>3. closed' \in BOOLEAN  BY <1>1 DEF Receive
<1>4. \E r \in {"ok", "failed"} :
        /\ result' = [result EXCEPT ![t] = r]
        /\ r = "ok" /\ post[t].type = "events" => post[t].last <= Len(copy')
  <2>1. CASE result' = [result EXCEPT ![t] = "failed"]  BY <2>1
  <2>2. CASE result' = [result EXCEPT ![t] = IF Takes(post[t]) THEN "ok" ELSE "failed"]
    <3>1. CASE Takes(post[t])  BY <1>2, <2>2, <3>1
    <3>2. CASE ~Takes(post[t])  BY <2>2, <3>2
    <3> QED BY <3>1, <3>2
  <2> QED BY <2>1, <2>2 DEF Answer
<1> QED BY <1>1, <1>2, <1>3, <1>4 DEF Answer, AnswerEffect

\* A call that was given up is received after all.
LEMMA ReceiveLateDoes ==
  ASSUME LogInv, ReceiveLate PROVE ReceiveLateEffect
<1> USE DEF LogInv, DeliveryTypeOK
<1>1. PICK m \in late : Receive(m) /\ late' = late \ {m}
  BY DEF ReceiveLate
<1>2. m \in Call /\ FromLog(m)
  BY <1>1 DEF CallType, CallsKnow
<1>3. closed' \in BOOLEAN  BY <1>1 DEF Receive
<1> QED BY <1>1, <1>2, <1>3, ReceiveFollowsLog DEF ReceiveLate, ReceiveLateEffect

\* AIOps asks for the log.
LEMMA ReconcileDoes ==
  ASSUME LogInv, Reconcile PROVE ReconcileEffect
<1> DEFINE m == [type |-> "events", events |-> log, last |-> Len(log)]
<1> USE DEF LogInv, DeliveryTypeOK
<1>1. log \in Seq(LogEvent) /\ Len(log) \in 0..MaxLog /\ Len(log) > 0
  BY DEF LogType, RemoteType, Reconcile
<1>2. m \in Call  BY <1>1 DEF Call
<1>3. FromLog(m)
  <2>1. log # <<>> /\ \A i \in 1..Len(log) : log[i] = log[Len(log) - Len(log) + i]
    BY <1>1
  <2> QED BY <1>1, <2>1 DEF FromLog
<1>4. m.type = "events" /\ late' = late \cup {m}  BY DEF Reconcile
<1>5. \E c \in Call : FromLog(c) /\ c.type = "events" /\ late' = late \cup {c}
  <2> HIDE DEF m
  <2> QED BY <1>2, <1>3, <1>4
<1> QED BY <1>5 DEF Reconcile, ReconcileEffect

\* The runner dies: every thread and view is gone, calls may be late.
LEMMA DieDoes ==
  ASSUME LogInv, Die PROVE DieEffect
<1>1. torn \in BOOLEAN /\ torn' \in {torn, TRUE}
  BY DEF LogInv, DeliveryTypeOK, LogType, Die
<1>2. \A m \in late' : m \in late \/ \E t \in Threads : m = post[t] /\ m # NoPost
  BY DEF Die
<1> QED BY <1>1, <1>2 DEF Die, DieEffect

\* What the types say of single fields.
LEMMA FieldTypes ==
  ASSUME LogInv
  PROVE  /\ MaxLog \in Nat /\ Startup \in Threads /\ Len(log) \in Nat /\ Len(copy) \in Nat
         /\ NoPost \in Call /\ NoPost.type = "none" /\ NoPost.last = 0
         /\ \A t \in Threads :
              /\ view[t].next \in Nat /\ view[t].upto \in Nat
              /\ BatchEnd(view[t]) \in Nat
              /\ post[t].type \in {"none", "proposal", "events", "terminal"}
              /\ post[t].last \in Nat
<1>1. NoPost \in Call  BY PlainCalls
<1>2. NoPost.type = "none" /\ NoPost.last = 0  BY DEF NoPost
<1>3. MaxLog \in Nat /\ Startup \in Threads
  BY DeliveryAssumption DEF MaxLog, Threads, Startup
<1>4. Len(log) \in Nat /\ Len(copy) \in Nat
  BY DEF LogInv, DeliveryTypeOK, LogType, RemoteType
<1>5. ASSUME NEW t \in Threads

      PROVE  /\ view[t].next \in Nat /\ view[t].upto \in Nat /\ BatchEnd(view[t]) \in Nat
             /\ post[t].type \in {"none", "proposal", "events", "terminal"}
             /\ post[t].last \in Nat
  BY <1>3, DeliveryAssumption
  DEF LogInv, DeliveryTypeOK, ThreadType, CallType, View, Call, BatchEnd
<1> QED BY <1>1, <1>2, <1>3, <1>4, <1>5

\* The proposal was taken, or the delivery ends.
LEMMA ProposalReturnsDoes ==
  ASSUME LogInv, NEW t \in Threads, ProposalReturns(t)
  PROVE ProposalReturnsEffect(t)
<1>0. /\ stage[t] = "proposalSent" /\ result[t] # "none" /\ MutexFree
      /\ result' = [result EXCEPT ![t] = "none"]
      /\ UNCHANGED <<logVars, metaVars, writing, runs, remoteVars, histVars, deaths, post, late>>
  BY DEF ProposalReturns, Returned, Collect, Go, Finish
<1>1. view[t] \in View /\ attempted \in Nat
  BY DEF LogInv, DeliveryTypeOK, ThreadType, MetaType
<1>2. CASE result[t] = "ok"
  <2> DEFINE b == view[t].terminal
             v == [Look EXCEPT !.terminal = b]
  <2>1. view' = [view EXCEPT ![t] = v] /\ stage' = [stage EXCEPT ![t] = "reading"]
    BY <1>2 DEF ProposalReturns, Go
  <2>2. b \in BOOLEAN  BY <1>1 DEF View
  <2>3. /\ v \in View /\ v.next = Look.next /\ v.upto = Look.upto
        /\ (v.closed <=> Look.closed)
    <3> HIDE DEF b
    <3> QED BY <2>2, LookView DEF View
  <2>4. v \in View /\ v.next = attempted + 1 /\ v.upto = 0 /\ (v.closed <=> "terminal" \in tried)
    BY <2>3, LookView
  <2> HIDE DEF v
  <2>5. v.next <= attempted + 1  BY <1>1, <2>4
  <2> QED BY <1>0, <2>1, <2>4, <2>5, Zenon DEF ProposalReturnsEffect
<1>3. CASE result[t] # "ok"
  <2>1. view' = [view EXCEPT ![t] = NoView] /\ stage' = [stage EXCEPT ![t] = "idle"]
    BY <1>3 DEF ProposalReturns, Finish, Go
  <2>2. NoView \in View /\ NoView.next <= attempted + 1 /\ NoView.upto = 0
    BY <1>1, PlainView
  <2> QED BY <1>0, <2>1, <2>2, Zenon DEF ProposalReturnsEffect
<1> QED BY <1>2, <1>3

\* What read_events finds.
LEMMA ReadEventsDoes ==
  ASSUME LogInv, NEW t \in Threads, ReadEvents(t) PROVE ReadEventsEffect(t)
<1>0. /\ stage[t] = "reading"
      /\ UNCHANGED <<logVars, metaVars, writing, runs, netVars, remoteVars, histVars, deaths>>
  BY DEF ReadEvents, Go, Finish
<1>1. view \in [Threads -> View] /\ Len(log) \in 0..MaxLog
  BY DEF LogInv, DeliveryTypeOK, ThreadType, LogType
<1>2. CASE view' = [view EXCEPT ![t].upto = Len(log)] /\ Go(t, "batching")
  <2> DEFINE n == Len(log)
             v == [view[t] EXCEPT !.upto = n]
  <2>1. view' = [view EXCEPT ![t] = v]  BY <1>1, <1>2
  <2>2. /\ v \in View /\ v.next = view[t].next /\ v.upto = n
        /\ (v.closed <=> view[t].closed)
    <3>1. n \in 0..MaxLog /\ view[t] \in View  BY <1>1
    <3> HIDE DEF n
    <3> QED BY <3>1 DEF View
  <2> HIDE DEF v
  <2> QED BY <1>0, <1>2, <2>1, <2>2 DEF ReadEventsEffect, Go
<1>3. CASE Finish(t)
  BY <1>0, <1>3, PlainView DEF ReadEventsEffect, Finish, Go
<1> QED BY <1>2, <1>3 DEF ReadEvents

-----------------------------------------------------------------------------
(* What a step leaves as it is.                                            *)

\* The other threads, while one thread does something.
OthersStay(t) ==
  \A q \in Threads \ {t} :
    stage'[q] = stage[q] /\ view'[q] = view[q] /\ post'[q] = post[q] /\ result'[q] = result[q]

\* What a thread waits for stays true while it does nothing, and while it moves on
\* outside of a delivery.
LEMMA AsksStays ==
  ASSUME LogInv, NEW q \in Threads,
         view'[q] = view[q], post'[q] = post[q], result'[q] = result[q],
         stage'[q] = stage[q] \/ (stage[q] \notin Delivering /\ stage'[q] \notin Delivering),
         Len(log') \in Nat, Len(log) <= Len(log'), Len(copy') \in Nat, Len(copy) <= Len(copy')
  PROVE  Asks(q)'
<1>1. /\ view[q].next \in Nat /\ view[q].upto \in Nat /\ BatchEnd(view[q]) \in Nat
      /\ Len(log) \in Nat /\ Len(copy) \in Nat
  BY FieldTypes
<1>2. Asks(q)  BY DEF LogInv, DeliveryKnows
<1>3. CASE stage'[q] = stage[q]
  BY <1>1, <1>2, <1>3 DEF Asks
<1>4. CASE stage[q] \notin Delivering /\ stage'[q] \notin Delivering
  <2>1. PostOf(stage[q]) = "none" /\ PostOf(stage'[q]) = "none"
    BY <1>4 DEF PostOf, Delivering
  <2>2. stage'[q] \notin {"reading", "batching", "batchSent"}
    BY <1>4 DEF Delivering
  <2> QED BY <1>1, <1>2, <2>1, <2>2 DEF Asks
<1> QED BY <1>3, <1>4

\* Outside of a delivery a thread waits for nothing.
LEMMA IdleCovers ==
  ASSUME LogInv, NEW q \in Threads, post'[q] = post[q],
         stage[q] \notin Delivering, stage'[q] \notin Delivering
  PROVE  Covers(q)'
<1>1. Asks(q) /\ PostOf(stage[q]) = "none" /\ NoPost.type = "none"
  BY FieldTypes DEF LogInv, DeliveryKnows, PostOf, Delivering
<1>2. post[q].type # "terminal"
  BY <1>1 DEF Asks
<1>3. stage'[q] \notin {"reading", "batching", "batchSent", "closing"}
  BY DEF Delivering
<1> QED BY <1>2, <1>3 DEF Covers

\* A step of one delivery, seen from all of them.
LEMMA OneDelivers ==
  ASSUME LogInv, NEW t \in Threads, OthersStay(t), stage[t] \in Delivering,
         overlapped' = overlapped, log' = log,
         Len(copy') \in Nat, Len(copy) <= Len(copy'), attempted' <= Len(log),
         Asks(t)', ~overlapped => SentKnows' /\ Covers(t)'
  PROVE  DeliveryKnows' /\ AloneKnows'
<1>1. DeliveryKnows'
  <2>1. ASSUME NEW q \in Threads \ {t} PROVE Asks(q)'
    BY AsksStays, FieldTypes DEF OthersStay
  <2> QED BY <2>1 DEF DeliveryKnows
<1>2. AloneKnows'
  <2> SUFFICES ASSUME ~overlapped
               PROVE  /\ \A r, q \in Threads :
                           stage'[r] \in Delivering /\ stage'[q] \in Delivering => r = q
                      /\ \A q \in Threads : Covers(q)'
    BY DEF AloneKnows
  <2>1. ASSUME NEW q \in Threads \ {t}
        PROVE stage'[q] \notin Delivering /\ Covers(q)'
    <3>1. stage[q] \notin Delivering /\ stage'[q] = stage[q] /\ post'[q] = post[q]
      BY DEF LogInv, AloneKnows, OthersStay
    <3> QED BY <3>1, IdleCovers
  <2> QED BY <2>1
<1> QED BY <1>1, <1>2

\* A step outside of the deliveries.
LEMMA NoneDelivers ==
  ASSUME LogInv, UNCHANGED <<view, post, result, attempted, tried, acked, sent, twice, overlapped>>,
         \A q \in Threads :
           stage'[q] = stage[q] \/ (stage[q] \notin Delivering /\ stage'[q] \notin Delivering),
         Len(log') \in Nat, Len(log) <= Len(log'), Len(copy') \in Nat, Len(copy) <= Len(copy')
  PROVE  DeliveryKnows' /\ AloneKnows'
<1>0. attempted \in Nat /\ Len(log) \in Nat /\ Len(copy) \in Nat
  BY FieldTypes DEF LogInv, DeliveryTypeOK, MetaType
<1>1. DeliveryKnows'
  <2>1. ASSUME NEW q \in Threads PROVE Asks(q)'
    BY AsksStays
  <2>2. attempted <= Len(log)  BY DEF LogInv, DeliveryKnows
  <2> QED BY <1>0, <2>1, <2>2 DEF DeliveryKnows
<1>2. AloneKnows'
  <2> SUFFICES ASSUME ~overlapped
               PROVE  /\ \A r, q \in Threads :
                           stage'[r] \in Delivering /\ stage'[q] \in Delivering => r = q
                      /\ SentKnows' /\ \A q \in Threads : Covers(q)'
    BY DEF AloneKnows
  <2>1. ASSUME NEW q \in Threads PROVE Covers(q)'
    <3>1. CASE stage'[q] = stage[q]
      <4>1. Covers(q)  BY DEF LogInv, AloneKnows
      <4> QED BY <3>1, <4>1 DEF Covers
    <3>2. CASE stage[q] \notin Delivering /\ stage'[q] \notin Delivering
      BY <3>2, IdleCovers
    <3> QED BY <3>1, <3>2
  <2>2. SentKnows'
    <3>1. SentKnows  BY DEF LogInv, AloneKnows
    <3> QED BY <1>0, <3>1 DEF SentKnows
  <2>3. ASSUME NEW r \in Threads, NEW q \in Threads,
               stage'[r] \in Delivering, stage'[q] \in Delivering
        PROVE  r = q
    BY <2>3 DEF LogInv, AloneKnows
  <2> QED BY <2>1, <2>2, <2>3
<1> QED BY <1>1, <1>2

\* A delivery starts: it is the only one, or it overlaps another.
LEMMA DeliveryStarts ==
  ASSUME LogInv, NEW t \in Threads, stage[t] \notin Delivering, StartDelivery(t),
         UNCHANGED <<view, post, result, attempted, tried, acked, log, copy>>
  PROVE  DeliveryKnows' /\ AloneKnows'
<1>0. /\ attempted \in Nat /\ Len(log) \in Nat /\ Len(copy) \in Nat
      /\ stage'[t] = "loading" /\ \A q \in Threads \ {t} : stage'[q] = stage[q]
      /\ PostOf(stage[t]) = "none" /\ NoPost.type = "none"
  BY FieldTypes
  DEF LogInv, DeliveryTypeOK, MetaType, ThreadType, StartDelivery, Go, PostOf,
      Delivering
<1>1. DeliveryKnows'
  <2>1. ASSUME NEW q \in Threads \ {t} PROVE Asks(q)'
    BY <1>0, AsksStays
  <2>2. Asks(t)'
    <3>1. Asks(t)  BY DEF LogInv, DeliveryKnows
    <3> QED BY <1>0, <3>1 DEF Asks, PostOf
  <2>3. attempted <= Len(log)  BY DEF LogInv, DeliveryKnows
  <2> QED BY <1>0, <2>1, <2>2, <2>3 DEF DeliveryKnows
<1>2. AloneKnows'
  <2> SUFFICES ASSUME ~overlapped'
               PROVE  /\ \A r, q \in Threads :
                           stage'[r] \in Delivering /\ stage'[q] \in Delivering => r = q
                      /\ SentKnows' /\ \A q \in Threads : Covers(q)'
    BY DEF AloneKnows
  <2>1. ~overlapped /\ \A q \in Threads \ {t} : stage[q] \notin Delivering
    BY DEF StartDelivery
  <2>2. ASSUME NEW q \in Threads \ {t}
        PROVE stage'[q] \notin Delivering /\ Covers(q)'
    BY <1>0, <2>1, IdleCovers
  <2>3. SentKnows'
    <3>1. SentKnows  BY <2>1 DEF LogInv, AloneKnows
    <3> QED BY <3>1 DEF SentKnows, StartDelivery
  <2>4. Covers(t)'
    <3>1. Asks(t)  BY DEF LogInv, DeliveryKnows
    <3> QED BY <1>0, <3>1 DEF Asks, Covers
  <2> QED BY <2>2, <2>3, <2>4
<1> QED BY <1>1, <1>2

\* What a call carries stays in the log, which only grows.
LEMMA CallsStay ==
  ASSUME LogInv, Len(log') \in Nat, Len(log) <= Len(log'),
         \A n \in 1..Len(log) : log'[n] = log[n],
         \A q \in Threads :
           post'[q] \in {post[q], NoPost} \/ (post'[q] \in Call /\ FromLog(post'[q])),
         \A m \in late' :
               m \in late \/ (m \in Call /\ FromLog(m) /\ m.type # "none")
  PROVE  CallsKnow'
<1> DEFINE Kept(m) ==
      m.type = "events" =>
        /\ m.events # <<>> /\ Len(m.events) <= m.last /\ m.last <= Len(log')
        /\ \A i \in 1..Len(m.events) : m.events[i] = log'[m.last - Len(m.events) + i]
<1>1. ASSUME NEW m \in Call, FromLog(m) PROVE Kept(m)
  <2> SUFFICES ASSUME m.type = "events" PROVE Kept(m)  OBVIOUS
  <2>1. /\ m.events # <<>> /\ Len(m.events) <= m.last /\ m.last <= Len(log)
        /\ \A i \in 1..Len(m.events) : m.events[i] = log[m.last - Len(m.events) + i]
    BY <1>1 DEF FromLog
  <2>2. Len(m.events) \in Nat /\ m.last \in Nat /\ Len(log) \in Nat
    BY FieldTypes DEF Call
  <2>3. ASSUME NEW i \in 1..Len(m.events)
        PROVE  m.events[i] = log'[m.last - Len(m.events) + i]
    <3>1. m.last - Len(m.events) + i \in 1..Len(log)  BY <2>1, <2>2
    <3> QED BY <2>1, <3>1
  <2> QED BY <2>1, <2>2, <2>3
<1>2. FromLog(NoPost) /\ NoPost \in Call
  BY FieldTypes DEF FromLog
<1>3. ASSUME NEW q \in Threads PROVE FromLog(post[q]) /\ post[q] \in Call
  BY DEF LogInv, DeliveryTypeOK, CallType, CallsKnow
<1>4. ASSUME NEW m \in late PROVE FromLog(m) /\ m \in Call /\ m.type # "none"
  BY DEF LogInv, DeliveryTypeOK, CallType, CallsKnow
<1>5. ASSUME NEW q \in Threads PROVE Kept(post'[q])
  <2>1. FromLog(post'[q]) /\ post'[q] \in Call  BY <1>2, <1>3
  <2> HIDE DEF Kept
  <2> QED BY <1>1, <2>1
<1>6. ASSUME NEW m \in late' PROVE Kept(m) /\ m.type # "none"
  <2>1. FromLog(m) /\ m \in Call /\ m.type # "none"  BY <1>4
  <2> HIDE DEF Kept
  <2> QED BY <1>1, <2>1
<1> QED BY <1>5, <1>6 DEF CallsKnow, FromLog

-----------------------------------------------------------------------------
(* Every step keeps every part of the invariant.                           *)

\* Types: the journal,
LEMMA LogTypeStep == ASSUME LogInv, DeliveryNext PROVE LogType'
<1> USE DeliveryAssumption
    DEF logVars, metaVars, threadVars, netVars, remoteVars, histVars, Go, Finish,
        StartDelivery, Post, Returned, Collect, Try, Startup, Runs, Threads, Up,
        MutexFree, LogType, ThreadType, WriterKnows, StartupKnows, LogIsContiguous,
        LogEvent, MaxLog, Stages, Delivering
<1>0. LogType /\ ThreadType /\ WriterKnows /\ StartupKnows /\ LogIsContiguous
  BY DEF LogInv, DeliveryTypeOK
<1>1. ASSUME NEW t \in Threads,
         AppendBegin(t) \/ AppendStep(t) \/ DeliverStep(t) \/ Answer(t) \/ GiveUp(t)
   PROVE LogType'
  <2>1. CASE AppendBegin(t)  BY <1>0, <2>1 DEF AppendBegin
  <2>2. CASE AppendLine(t)  BY <1>0, <2>2 DEF AppendLine, NextNumber, Event
  <2>3. CASE AppendCount(t)
    <3>1. Len(log) \in 1..Len(log) /\ log[Len(log)].sequence = Len(log)
      <4>1. Len(log) > 0 /\ Len(log) \in Nat  BY <1>0, <2>3 DEF AppendCount
      <4> QED BY <1>0, <4>1
    <3> QED BY <1>0, <2>3, <3>1 DEF AppendCount
  <2>4. CASE AppendRaises(t)  BY <1>0, <2>4 DEF AppendRaises
  <2>5. CASE Load(t)
    <3>1. LoadEffect(t)  BY <2>5, LoadDoes
    <3> QED BY <1>0, <3>1, LookView DEF LoadEffect
  <2>6. CASE ProposalReturns(t)
    <3>1. ProposalReturnsEffect(t)  BY <2>6, ProposalReturnsDoes
    <3> QED BY <1>0, <3>1 DEF ProposalReturnsEffect
  <2>7. CASE ReadEvents(t)
    <3>1. ReadEventsEffect(t)  BY <2>7, ReadEventsDoes
    <3> QED BY <1>0, <3>1 DEF ReadEventsEffect
  <2>8. CASE SendBatch(t)
    <3>1. SendBatchEffect(t)  BY <2>8, SendBatchDoes
    <3> QED BY <1>0, <3>1 DEF SendBatchEffect
  <2>9. CASE BatchReturns(t)
    <3>1. BatchReturnsEffect(t)  BY <2>9, BatchReturnsDoes
    <3> QED BY <1>0, <3>1 DEF BatchReturnsEffect
  <2>10. CASE BatchesDone(t)  BY <1>0, <2>10 DEF BatchesDone
  <2>11. CASE SendTerminal(t)
    <3>1. SendTerminalEffect(t)  BY <2>11, SendTerminalDoes
    <3> QED BY <1>0, <3>1 DEF SendTerminalEffect
  <2>12. CASE TerminalReturns(t)  BY <1>0, <2>12, PlainView DEF TerminalReturns
  <2>13. CASE Answer(t)
    <3>1. AnswerEffect(t)  BY <2>13, AnswerDoes
    <3> QED BY <1>0, <3>1 DEF AnswerEffect
  <2>14. CASE GiveUp(t)  BY <1>0, <2>14, FieldTypes DEF GiveUp
  <2> QED BY <1>1, <2>1, <2>2, <2>3, <2>4, <2>5, <2>6, <2>7, <2>8, <2>9, <2>10,
             <2>11, <2>12, <2>13, <2>14 DEF AppendStep, DeliverStep
<1>2. ASSUME NEW r \in Runs, Approve(r) \/ Resume(r) \/ EndExecution(r)
      PROVE LogType'
  <2>1. CASE Approve(r)  BY <1>0, <2>1 DEF Approve
  <2>2. CASE Resume(r)  BY <1>0, <2>2 DEF Resume
  <2>3. CASE EndExecution(r)  BY <1>0, <2>3 DEF EndExecution
  <2> QED BY <1>2, <2>1, <2>2, <2>3 DEF Runs
<1>3. ASSUME Create \/ BindProposal \/ Settle \/ RecoverMark PROVE LogType'
  <2>1. CASE Create  BY <1>0, <2>1 DEF Create
  <2>2. CASE BindProposal  BY <1>0, <2>2 DEF BindProposal
  <2>3. CASE Settle  BY <1>0, <2>3 DEF Settle
  <2>4. CASE RecoverMark  BY <1>0, <2>4 DEF RecoverMark
  <2> QED BY <1>3, <2>1, <2>2, <2>3, <2>4 DEF Runs
<1>4. CASE ReceiveLate
  <2>1. ReceiveLateEffect  BY <1>4, ReceiveLateDoes
  <2> QED BY <1>0, <2>1 DEF ReceiveLateEffect
<1>5. CASE Reconcile
  <2>1. ReconcileEffect  BY <1>5, ReconcileDoes
  <2> QED BY <1>0, <2>1 DEF ReconcileEffect
<1>6. CASE Die
  <2>1. DieEffect  BY <1>6, DieDoes
  <2> QED BY <1>0, <2>1 DEF DieEffect
<1> QED BY <1>1, <1>2, <1>3, <1>4, <1>5, <1>6 DEF DeliveryNext

\* its metadata,
LEMMA MetaTypeStep == ASSUME LogInv, DeliveryNext PROVE MetaType'
<1> USE DeliveryAssumption
    DEF logVars, metaVars, threadVars, netVars, remoteVars, histVars, Go, Finish,
        StartDelivery, Post, Returned, Collect, Try, Startup, Runs, Threads, Up,
        MutexFree, MetaType, ThreadType, CallType, DeliveryKnows, Asks, Stages,
        Delivering
<1>0. MetaType /\ ThreadType /\ CallType /\ DeliveryKnows
  BY DEF LogInv, DeliveryTypeOK
<1>1. ASSUME NEW t \in Threads,
         AppendBegin(t) \/ AppendStep(t) \/ DeliverStep(t) \/ Answer(t) \/ GiveUp(t)
   PROVE MetaType'
  <2>1. CASE AppendBegin(t)  BY <1>0, <2>1 DEF AppendBegin
  <2>2. CASE AppendLine(t)  BY <1>0, <2>2 DEF AppendLine, NextNumber, Event
  <2>3. CASE AppendCount(t)  BY <1>0, <2>3 DEF AppendCount, AfterAppend
  <2>4. CASE AppendRaises(t)  BY <1>0, <2>4 DEF AppendRaises
  <2>5. CASE Load(t)
    <3>1. LoadEffect(t)  BY <2>5, LoadDoes
    <3> QED BY <1>0, <3>1, LookView DEF LoadEffect
  <2>6. CASE ProposalReturns(t)
    <3>1. ProposalReturnsEffect(t)  BY <2>6, ProposalReturnsDoes
    <3> QED BY <1>0, <3>1 DEF ProposalReturnsEffect
  <2>7. CASE ReadEvents(t)
    <3>1. ReadEventsEffect(t)  BY <2>7, ReadEventsDoes
    <3> QED BY <1>0, <3>1 DEF ReadEventsEffect
  <2>8. CASE SendBatch(t)
    <3>1. SendBatchEffect(t)  BY <2>8, SendBatchDoes
    <3> QED BY <1>0, <3>1 DEF SendBatchEffect, View, MaxLog
  <2>9. CASE BatchReturns(t)
    <3>1. BatchReturnsEffect(t)  BY <2>9, BatchReturnsDoes
    <3> QED BY <1>0, <3>1 DEF BatchReturnsEffect
  <2>10. CASE BatchesDone(t)  BY <1>0, <2>10 DEF BatchesDone
  <2>11. CASE SendTerminal(t)
    <3>1. SendTerminalEffect(t)  BY <2>11, SendTerminalDoes
    <3> QED BY <1>0, <3>1 DEF SendTerminalEffect
  <2>12. CASE TerminalReturns(t)  BY <1>0, <2>12, PlainView DEF TerminalReturns
  <2>13. CASE Answer(t)
    <3>1. AnswerEffect(t)  BY <2>13, AnswerDoes
    <3> QED BY <1>0, <3>1, FieldTypes DEF AnswerEffect
  <2>14. CASE GiveUp(t)  BY <1>0, <2>14, FieldTypes DEF GiveUp
  <2> QED BY <1>1, <2>1, <2>2, <2>3, <2>4, <2>5, <2>6, <2>7, <2>8, <2>9, <2>10,
             <2>11, <2>12, <2>13, <2>14 DEF AppendStep, DeliverStep
<1>2. ASSUME NEW r \in Runs, Approve(r) \/ Resume(r) \/ EndExecution(r)
      PROVE MetaType'
  <2>1. CASE Approve(r)  BY <1>0, <2>1 DEF Approve
  <2>2. CASE Resume(r)  BY <1>0, <2>2 DEF Resume
  <2>3. CASE EndExecution(r)  BY <1>0, <2>3 DEF EndExecution
  <2> QED BY <1>2, <2>1, <2>2, <2>3 DEF Runs
<1>3. ASSUME Create \/ BindProposal \/ Settle \/ RecoverMark PROVE MetaType'
  <2>1. CASE Create  BY <1>0, <2>1 DEF Create
  <2>2. CASE BindProposal  BY <1>0, <2>2 DEF BindProposal
  <2>3. CASE Settle  BY <1>0, <2>3 DEF Settle
  <2>4. CASE RecoverMark  BY <1>0, <2>4 DEF RecoverMark
  <2> QED BY <1>3, <2>1, <2>2, <2>3, <2>4 DEF Runs
<1>4. CASE ReceiveLate
  <2>1. ReceiveLateEffect  BY <1>4, ReceiveLateDoes
  <2> QED BY <1>0, <2>1 DEF ReceiveLateEffect
<1>5. CASE Reconcile
  <2>1. ReconcileEffect  BY <1>5, ReconcileDoes
  <2> QED BY <1>0, <2>1 DEF ReconcileEffect
<1>6. CASE Die
  <2>1. DieEffect  BY <1>6, DieDoes
  <2> QED BY <1>0, <2>1, FieldTypes DEF DieEffect
<1> QED BY <1>1, <1>2, <1>3, <1>4, <1>5, <1>6 DEF DeliveryNext

\* the threads and what they have read,
LEMMA ThreadTypeStep == ASSUME LogInv, DeliveryNext PROVE ThreadType'
<1> USE DeliveryAssumption
    DEF logVars, metaVars, threadVars, netVars, remoteVars, histVars, Go, Finish,
        StartDelivery, Post, Returned, Collect, Try, Startup, Runs, Threads, Up,
        MutexFree, LogType, MetaType, ThreadType, DeliveryKnows, Asks, Stages,
        Delivering
<1>0. LogType /\ MetaType /\ ThreadType /\ DeliveryKnows
  BY DEF LogInv, DeliveryTypeOK
<1>1. ASSUME NEW t \in Threads,
         AppendBegin(t) \/ AppendStep(t) \/ DeliverStep(t) \/ Answer(t) \/ GiveUp(t)
   PROVE ThreadType'
  <2>1. CASE AppendBegin(t)  BY <1>0, <2>1 DEF AppendBegin
  <2>2. CASE AppendLine(t)  BY <1>0, <2>2 DEF AppendLine, NextNumber, Event
  <2>3. CASE AppendCount(t)  BY <1>0, <2>3 DEF AppendCount, AfterAppend
  <2>4. CASE AppendRaises(t)  BY <1>0, <2>4 DEF AppendRaises
  <2>5. CASE Load(t)
    <3>1. LoadEffect(t)  BY <2>5, LoadDoes
    <3> QED BY <1>0, <3>1, LookView DEF LoadEffect
  <2>6. CASE ProposalReturns(t)
    <3>1. ProposalReturnsEffect(t)  BY <2>6, ProposalReturnsDoes
    <3> QED BY <1>0, <3>1 DEF ProposalReturnsEffect
  <2>7. CASE ReadEvents(t)
    <3>1. ReadEventsEffect(t)  BY <2>7, ReadEventsDoes
    <3> QED BY <1>0, <3>1 DEF ReadEventsEffect
  <2>8. CASE SendBatch(t)
    <3>1. SendBatchEffect(t)  BY <2>8, SendBatchDoes
    <3> QED BY <1>0, <3>1 DEF SendBatchEffect
  <2>9. CASE BatchReturns(t)
    <3>1. BatchReturnsEffect(t)  BY <2>9, BatchReturnsDoes
    <3> QED BY <1>0, <3>1 DEF BatchReturnsEffect
  <2>10. CASE BatchesDone(t)  BY <1>0, <2>10 DEF BatchesDone
  <2>11. CASE SendTerminal(t)
    <3>1. SendTerminalEffect(t)  BY <2>11, SendTerminalDoes
    <3> QED BY SMTT(30), <1>0, <3>1, PlainView DEF SendTerminalEffect
  <2>12. CASE TerminalReturns(t)  BY <1>0, <2>12, PlainView DEF TerminalReturns
  <2>13. CASE Answer(t)
    <3>1. AnswerEffect(t)  BY <2>13, AnswerDoes
    <3> QED BY <1>0, <3>1 DEF AnswerEffect
  <2>14. CASE GiveUp(t)  BY <1>0, <2>14, FieldTypes DEF GiveUp
  <2> QED BY <1>1, <2>1, <2>2, <2>3, <2>4, <2>5, <2>6, <2>7, <2>8, <2>9, <2>10,
             <2>11, <2>12, <2>13, <2>14 DEF AppendStep, DeliverStep
<1>2. ASSUME NEW r \in Runs, Approve(r) \/ Resume(r) \/ EndExecution(r)
      PROVE ThreadType'
  <2>1. CASE Approve(r)  BY <1>0, <2>1 DEF Approve
  <2>2. CASE Resume(r)  BY <1>0, <2>2 DEF Resume
  <2>3. CASE EndExecution(r)  BY <1>0, <2>3 DEF EndExecution
  <2> QED BY <1>2, <2>1, <2>2, <2>3 DEF Runs
<1>3. ASSUME Create \/ BindProposal \/ Settle \/ RecoverMark PROVE ThreadType'
  <2>1. CASE Create  BY <1>0, <2>1 DEF Create
  <2>2. CASE BindProposal  BY <1>0, <2>2 DEF BindProposal
  <2>3. CASE Settle  BY <1>0, <2>3 DEF Settle
  <2>4. CASE RecoverMark  BY <1>0, <2>4 DEF RecoverMark
  <2> QED BY <1>3, <2>1, <2>2, <2>3, <2>4 DEF Runs
<1>4. CASE ReceiveLate
  <2>1. ReceiveLateEffect  BY <1>4, ReceiveLateDoes
  <2> QED BY <1>0, <2>1 DEF ReceiveLateEffect
<1>5. CASE Reconcile
  <2>1. ReconcileEffect  BY <1>5, ReconcileDoes
  <2> QED BY <1>0, <2>1 DEF ReconcileEffect
<1>6. CASE Die
  <2>1. DieEffect  BY <1>6, DieDoes
  <2> QED BY <1>0, <2>1, PlainView DEF DieEffect
<1> QED BY <1>1, <1>2, <1>3, <1>4, <1>5, <1>6 DEF DeliveryNext

\* the calls,
LEMMA CallTypeStep == ASSUME LogInv, DeliveryNext PROVE CallType'
<1> USE DeliveryAssumption
    DEF logVars, metaVars, threadVars, netVars, remoteVars, histVars, Go, Finish,
        StartDelivery, Post, Returned, Collect, Try, Startup, Runs, Threads, Up,
        MutexFree, LogType, ThreadType, CallType, DeliveryKnows, Asks, Stages,
        Delivering
<1>0. LogType /\ ThreadType /\ CallType /\ DeliveryKnows
  BY DEF LogInv, DeliveryTypeOK
<1>1. ASSUME NEW t \in Threads,
         AppendBegin(t) \/ AppendStep(t) \/ DeliverStep(t) \/ Answer(t) \/ GiveUp(t)
   PROVE CallType'
  <2>1. CASE AppendBegin(t)  BY <1>0, <2>1 DEF AppendBegin
  <2>2. CASE AppendLine(t)  BY <1>0, <2>2 DEF AppendLine, NextNumber, Event
  <2>3. CASE AppendCount(t)  BY <1>0, <2>3 DEF AppendCount, AfterAppend
  <2>4. CASE AppendRaises(t)  BY <1>0, <2>4 DEF AppendRaises
  <2>5. CASE Load(t)
    <3>1. LoadEffect(t)  BY <2>5, LoadDoes
    <3> QED BY <1>0, <3>1, LookView DEF LoadEffect
  <2>6. CASE ProposalReturns(t)
    <3>1. ProposalReturnsEffect(t)  BY <2>6, ProposalReturnsDoes
    <3> QED BY <1>0, <3>1 DEF ProposalReturnsEffect
  <2>7. CASE ReadEvents(t)
    <3>1. ReadEventsEffect(t)  BY <2>7, ReadEventsDoes
    <3> QED BY <1>0, <3>1 DEF ReadEventsEffect
  <2>8. CASE SendBatch(t)
    <3>1. SendBatchEffect(t)  BY <2>8, SendBatchDoes
    <3> QED BY <1>0, <3>1 DEF SendBatchEffect
  <2>9. CASE BatchReturns(t)
    <3>1. BatchReturnsEffect(t)  BY <2>9, BatchReturnsDoes
    <3> QED BY <1>0, <3>1 DEF BatchReturnsEffect
  <2>10. CASE BatchesDone(t)  BY <1>0, <2>10 DEF BatchesDone
  <2>11. CASE SendTerminal(t)
    <3>1. SendTerminalEffect(t)  BY <2>11, SendTerminalDoes
    <3> QED BY <1>0, <3>1 DEF SendTerminalEffect
  <2>12. CASE TerminalReturns(t)  BY <1>0, <2>12, PlainView DEF TerminalReturns
  <2>13. CASE Answer(t)
    <3>1. AnswerEffect(t)  BY <2>13, AnswerDoes
    <3> QED BY <1>0, <3>1, FieldTypes DEF AnswerEffect
  <2>14. CASE GiveUp(t)  BY <1>0, <2>14, FieldTypes DEF GiveUp
  <2> QED BY <1>1, <2>1, <2>2, <2>3, <2>4, <2>5, <2>6, <2>7, <2>8, <2>9, <2>10,
             <2>11, <2>12, <2>13, <2>14 DEF AppendStep, DeliverStep
<1>2. ASSUME NEW r \in Runs, Approve(r) \/ Resume(r) \/ EndExecution(r)
      PROVE CallType'
  <2>1. CASE Approve(r)  BY <1>0, <2>1 DEF Approve
  <2>2. CASE Resume(r)  BY <1>0, <2>2 DEF Resume
  <2>3. CASE EndExecution(r)  BY <1>0, <2>3 DEF EndExecution
  <2> QED BY <1>2, <2>1, <2>2, <2>3 DEF Runs
<1>3. ASSUME Create \/ BindProposal \/ Settle \/ RecoverMark PROVE CallType'
  <2>1. CASE Create  BY <1>0, <2>1 DEF Create
  <2>2. CASE BindProposal  BY <1>0, <2>2 DEF BindProposal
  <2>3. CASE Settle  BY <1>0, <2>3 DEF Settle
  <2>4. CASE RecoverMark  BY <1>0, <2>4 DEF RecoverMark
  <2> QED BY <1>3, <2>1, <2>2, <2>3, <2>4 DEF Runs
<1>4. CASE ReceiveLate
  <2>1. ReceiveLateEffect  BY <1>4, ReceiveLateDoes
  <2> QED BY <1>0, <2>1 DEF ReceiveLateEffect
<1>5. CASE Reconcile
  <2>1. ReconcileEffect  BY <1>5, ReconcileDoes
  <2> QED BY <1>0, <2>1 DEF ReconcileEffect
<1>6. CASE Die
  <2>1. DieEffect  BY <1>6, DieDoes
  <2> QED BY <1>0, <2>1, FieldTypes DEF DieEffect
<1> QED BY <1>1, <1>2, <1>3, <1>4, <1>5, <1>6 DEF DeliveryNext

\* what AIOps has,
LEMMA RemoteTypeStep == ASSUME LogInv, DeliveryNext PROVE RemoteType'
<1> USE DeliveryAssumption
    DEF logVars, metaVars, threadVars, netVars, remoteVars, histVars, Go, Finish,
        StartDelivery, Post, Returned, Collect, Try, Startup, Runs, Threads, Up,
        MutexFree, LogType, RemoteType
<1>0. LogType /\ RemoteType
  BY DEF LogInv, DeliveryTypeOK
<1>1. ASSUME NEW t \in Threads,
         AppendBegin(t) \/ AppendStep(t) \/ DeliverStep(t) \/ Answer(t) \/ GiveUp(t)
   PROVE RemoteType'
  <2>1. CASE AppendBegin(t)  BY <1>0, <2>1, FieldTypes DEF AppendBegin
  <2>2. CASE AppendLine(t)
    BY <1>0, <2>2, FieldTypes DEF AppendLine, NextNumber, Event
  <2>3. CASE AppendCount(t)  BY <1>0, <2>3, FieldTypes DEF AppendCount, AfterAppend
  <2>4. CASE AppendRaises(t)  BY <1>0, <2>4, FieldTypes DEF AppendRaises
  <2>5. CASE Load(t)  BY <1>0, <2>5, FieldTypes DEF Load
  <2>6. CASE ProposalReturns(t)  BY <1>0, <2>6, FieldTypes DEF ProposalReturns
  <2>7. CASE ReadEvents(t)  BY <1>0, <2>7, FieldTypes DEF ReadEvents
  <2>8. CASE SendBatch(t)  BY <1>0, <2>8, FieldTypes DEF SendBatch
  <2>9. CASE BatchReturns(t)  BY <1>0, <2>9, FieldTypes DEF BatchReturns
  <2>10. CASE BatchesDone(t)  BY <1>0, <2>10, FieldTypes DEF BatchesDone
  <2>11. CASE SendTerminal(t)  BY <1>0, <2>11, FieldTypes DEF SendTerminal
  <2>12. CASE TerminalReturns(t)
    BY <1>0, <2>12, PlainView, FieldTypes DEF TerminalReturns
  <2>13. CASE Answer(t)
    <3>1. AnswerEffect(t)  BY <2>13, AnswerDoes
    <3> QED BY <1>0, <3>1, FieldTypes DEF AnswerEffect
  <2>14. CASE GiveUp(t)  BY <1>0, <2>14, FieldTypes, FieldTypes DEF GiveUp
  <2> QED BY <1>1, <2>1, <2>2, <2>3, <2>4, <2>5, <2>6, <2>7, <2>8, <2>9, <2>10,
             <2>11, <2>12, <2>13, <2>14 DEF AppendStep, DeliverStep
<1>2. ASSUME NEW r \in Runs, Approve(r) \/ Resume(r) \/ EndExecution(r)
      PROVE RemoteType'
  <2>1. CASE Approve(r)  BY <1>0, <2>1, FieldTypes DEF Approve
  <2>2. CASE Resume(r)  BY <1>0, <2>2, FieldTypes DEF Resume
  <2>3. CASE EndExecution(r)  BY <1>0, <2>3, FieldTypes DEF EndExecution
  <2> QED BY <1>2, <2>1, <2>2, <2>3 DEF Runs
<1>3. ASSUME Create \/ BindProposal \/ Settle \/ RecoverMark PROVE RemoteType'
  <2>1. CASE Create  BY <1>0, <2>1, FieldTypes DEF Create
  <2>2. CASE BindProposal  BY <1>0, <2>2, FieldTypes DEF BindProposal
  <2>3. CASE Settle  BY <1>0, <2>3, FieldTypes DEF Settle
  <2>4. CASE RecoverMark  BY <1>0, <2>4, FieldTypes DEF RecoverMark
  <2> QED BY <1>3, <2>1, <2>2, <2>3, <2>4 DEF Runs
<1>4. CASE ReceiveLate
  <2>1. ReceiveLateEffect  BY <1>4, ReceiveLateDoes
  <2> QED BY <1>0, <2>1, FieldTypes DEF ReceiveLateEffect
<1>5. CASE Reconcile
  <2>1. ReconcileEffect  BY <1>5, ReconcileDoes
  <2> QED BY <1>0, <2>1, FieldTypes DEF ReconcileEffect
<1>6. CASE Die  BY <1>0, <1>6, FieldTypes DEF Die
<1> QED BY <1>1, <1>2, <1>3, <1>4, <1>5, <1>6 DEF DeliveryNext

\* and the history.
LEMMA HistoryTypeStep == ASSUME LogInv, DeliveryNext PROVE HistoryType'
<1> USE DeliveryAssumption
    DEF logVars, metaVars, threadVars, netVars, remoteVars, histVars, Go, Finish,
        StartDelivery, Post, Returned, Collect, Try, Startup, Runs, Threads, Up,
        MutexFree, HistoryType
<1>0. HistoryType
  BY DEF LogInv, DeliveryTypeOK
<1>1. ASSUME NEW t \in Threads,
         AppendBegin(t) \/ AppendStep(t) \/ DeliverStep(t) \/ Answer(t) \/ GiveUp(t)
   PROVE HistoryType'
  <2>1. CASE AppendBegin(t)  BY <1>0, <2>1 DEF AppendBegin
  <2>2. CASE AppendLine(t)  BY <1>0, <2>2 DEF AppendLine, NextNumber, Event
  <2>3. CASE AppendCount(t)  BY <1>0, <2>3 DEF AppendCount, AfterAppend
  <2>4. CASE AppendRaises(t)  BY <1>0, <2>4 DEF AppendRaises
  <2>5. CASE Load(t)
    <3>1. LoadEffect(t)  BY <2>5, LoadDoes
    <3> QED BY <1>0, <3>1, LookView DEF LoadEffect
  <2>6. CASE ProposalReturns(t)
    <3>1. ProposalReturnsEffect(t)  BY <2>6, ProposalReturnsDoes
    <3> QED BY <1>0, <3>1 DEF ProposalReturnsEffect
  <2>7. CASE ReadEvents(t)
    <3>1. ReadEventsEffect(t)  BY <2>7, ReadEventsDoes
    <3> QED BY <1>0, <3>1 DEF ReadEventsEffect
  <2>8. CASE SendBatch(t)
    <3>1. SendBatchEffect(t)  BY <2>8, SendBatchDoes
    <3> QED BY <1>0, <3>1 DEF SendBatchEffect
  <2>9. CASE BatchReturns(t)
    <3>1. BatchReturnsEffect(t)  BY <2>9, BatchReturnsDoes
    <3> QED BY <1>0, <3>1 DEF BatchReturnsEffect
  <2>10. CASE BatchesDone(t)  BY <1>0, <2>10 DEF BatchesDone
  <2>11. CASE SendTerminal(t)
    <3>1. SendTerminalEffect(t)  BY <2>11, SendTerminalDoes
    <3> QED BY <1>0, <3>1 DEF SendTerminalEffect
  <2>12. CASE TerminalReturns(t)  BY <1>0, <2>12, PlainView DEF TerminalReturns
  <2>13. CASE Answer(t)
    <3>1. AnswerEffect(t)  BY <2>13, AnswerDoes
    <3> QED BY <1>0, <3>1 DEF AnswerEffect
  <2>14. CASE GiveUp(t)  BY <1>0, <2>14, FieldTypes DEF GiveUp
  <2> QED BY <1>1, <2>1, <2>2, <2>3, <2>4, <2>5, <2>6, <2>7, <2>8, <2>9, <2>10,
             <2>11, <2>12, <2>13, <2>14 DEF AppendStep, DeliverStep
<1>2. ASSUME NEW r \in Runs, Approve(r) \/ Resume(r) \/ EndExecution(r)
      PROVE HistoryType'
  <2>1. CASE Approve(r)  BY <1>0, <2>1 DEF Approve
  <2>2. CASE Resume(r)  BY <1>0, <2>2 DEF Resume
  <2>3. CASE EndExecution(r)  BY <1>0, <2>3 DEF EndExecution
  <2> QED BY <1>2, <2>1, <2>2, <2>3 DEF Runs
<1>3. ASSUME Create \/ BindProposal \/ Settle \/ RecoverMark PROVE HistoryType'
  <2>1. CASE Create  BY <1>0, <2>1 DEF Create
  <2>2. CASE BindProposal  BY <1>0, <2>2 DEF BindProposal
  <2>3. CASE Settle  BY <1>0, <2>3 DEF Settle
  <2>4. CASE RecoverMark  BY <1>0, <2>4 DEF RecoverMark
  <2> QED BY <1>3, <2>1, <2>2, <2>3, <2>4 DEF Runs
<1>4. CASE ReceiveLate
  <2>1. ReceiveLateEffect  BY <1>4, ReceiveLateDoes
  <2> QED BY <1>0, <2>1 DEF ReceiveLateEffect
<1>5. CASE Reconcile
  <2>1. ReconcileEffect  BY <1>5, ReconcileDoes
  <2> QED BY <1>0, <2>1 DEF ReconcileEffect
<1>6. CASE Die
  <2>1. DieEffect  BY <1>6, DieDoes
  <2> QED BY <1>0, <2>1 DEF DieEffect
<1> QED BY <1>1, <1>2, <1>3, <1>4, <1>5, <1>6 DEF DeliveryNext

\* Whoever writes has the mutex, and has counted its append.
LEMMA WriterKnowsStep == ASSUME LogInv, DeliveryNext PROVE WriterKnows'
<1> USE DeliveryAssumption
    DEF logVars, metaVars, threadVars, netVars, remoteVars, histVars, Go, Finish,
        StartDelivery, Post, Returned, Collect, Try, Startup, Runs, Threads, Up,
        MutexFree, LogType, ThreadType, WriterKnows, StartupKnows, Stages,
        Delivering, MaxLog
<1>0. LogType /\ ThreadType /\ WriterKnows /\ StartupKnows
  BY DEF LogInv, DeliveryTypeOK
<1>1. ASSUME NEW t \in Threads,
         AppendBegin(t) \/ AppendStep(t) \/ DeliverStep(t) \/ Answer(t) \/ GiveUp(t)
   PROVE WriterKnows'
  <2>1. CASE AppendBegin(t)  BY <1>0, <2>1 DEF AppendBegin
  <2>2. CASE AppendLine(t)  BY <1>0, <2>2 DEF AppendLine, NextNumber, Event
  <2>3. CASE AppendCount(t)  BY <1>0, <2>3 DEF AppendCount, AfterAppend
  <2>4. CASE AppendRaises(t)  BY <1>0, <2>4 DEF AppendRaises
  <2>5. CASE Load(t)
    <3>1. LoadEffect(t)  BY <2>5, LoadDoes
    <3> QED BY <1>0, <3>1, LookView DEF LoadEffect
  <2>6. CASE ProposalReturns(t)
    <3>1. ProposalReturnsEffect(t)  BY <2>6, ProposalReturnsDoes
    <3> QED BY <1>0, <3>1 DEF ProposalReturnsEffect
  <2>7. CASE ReadEvents(t)
    <3>1. stage' = [stage EXCEPT ![t] = "batching"] \/ stage' = [stage EXCEPT ![t] = "idle"]
      BY <2>7 DEF ReadEvents
    <3>2. UNCHANGED <<log, torn, writing, appends, deaths>>
      BY <2>7 DEF ReadEvents
    <3>3. stage[t] = "reading"  BY <2>7 DEF ReadEvents
    <3> QED BY <1>0, <3>1, <3>2, <3>3
  <2>8. CASE SendBatch(t)
    <3>1. SendBatchEffect(t)  BY <2>8, SendBatchDoes
    <3> QED BY <1>0, <3>1 DEF SendBatchEffect
  <2>9. CASE BatchReturns(t)
    <3>1. BatchReturnsEffect(t)  BY <2>9, BatchReturnsDoes
    <3> QED BY <1>0, <3>1 DEF BatchReturnsEffect
  <2>10. CASE BatchesDone(t)  BY <1>0, <2>10 DEF BatchesDone
  <2>11. CASE SendTerminal(t)
    <3>1. SendTerminalEffect(t)  BY <2>11, SendTerminalDoes
    <3> QED BY <1>0, <3>1 DEF SendTerminalEffect
  <2>12. CASE TerminalReturns(t)  BY <1>0, <2>12, PlainView DEF TerminalReturns
  <2>13. CASE Answer(t)
    <3>1. AnswerEffect(t)  BY <2>13, AnswerDoes
    <3> QED BY <1>0, <3>1 DEF AnswerEffect
  <2>14. CASE GiveUp(t)  BY <1>0, <2>14, FieldTypes DEF GiveUp
  <2> QED BY <1>1, <2>1, <2>2, <2>3, <2>4, <2>5, <2>6, <2>7, <2>8, <2>9, <2>10,
             <2>11, <2>12, <2>13, <2>14 DEF AppendStep, DeliverStep
<1>2. ASSUME NEW r \in Runs, Approve(r) \/ Resume(r) \/ EndExecution(r)
      PROVE WriterKnows'
  <2>1. CASE Approve(r)  BY <1>0, <2>1 DEF Approve
  <2>2. CASE Resume(r)  BY <1>0, <2>2 DEF Resume
  <2>3. CASE EndExecution(r)  BY <1>0, <2>3 DEF EndExecution
  <2> QED BY <1>2, <2>1, <2>2, <2>3 DEF Runs
<1>3. ASSUME Create \/ BindProposal \/ Settle \/ RecoverMark PROVE WriterKnows'
  <2>1. CASE Create  BY <1>0, <2>1 DEF Create
  <2>2. CASE BindProposal  BY <1>0, <2>2 DEF BindProposal
  <2>3. CASE Settle  BY <1>0, <2>3 DEF Settle
  <2>4. CASE RecoverMark  BY <1>0, <2>4 DEF RecoverMark
  <2> QED BY <1>3, <2>1, <2>2, <2>3, <2>4 DEF Runs
<1>4. CASE ReceiveLate
  <2>1. ReceiveLateEffect  BY <1>4, ReceiveLateDoes
  <2> QED BY <1>0, <2>1 DEF ReceiveLateEffect
<1>5. CASE Reconcile
  <2>1. ReconcileEffect  BY <1>5, ReconcileDoes
  <2> QED BY <1>0, <2>1 DEF ReconcileEffect
<1>6. CASE Die
  <2>1. DieEffect  BY <1>6, DieDoes
  <2> QED BY <1>0, <2>1 DEF DieEffect
<1> QED BY <1>1, <1>2, <1>3, <1>4, <1>5, <1>6 DEF DeliveryNext

\* Runs start in a runner that is up, and a crash ends them all.
LEMMA StartupKnowsStep == ASSUME LogInv, DeliveryNext PROVE StartupKnows'
<1> USE DeliveryAssumption
    DEF logVars, metaVars, threadVars, netVars, remoteVars, histVars, Go, Finish,
        StartDelivery, Post, Returned, Collect, Try, Startup, Runs, Threads, Up,
        MutexFree, ThreadType, StartupKnows, Stages, Delivering
<1>0. ThreadType /\ StartupKnows
  BY DEF LogInv, DeliveryTypeOK
<1>1. ASSUME NEW t \in Threads,
         AppendBegin(t) \/ AppendStep(t) \/ DeliverStep(t) \/ Answer(t) \/ GiveUp(t)
   PROVE StartupKnows'
  <2>1. CASE AppendBegin(t)  BY <1>0, <2>1 DEF AppendBegin
  <2>2. CASE AppendLine(t)  BY <1>0, <2>2 DEF AppendLine, NextNumber, Event
  <2>3. CASE AppendCount(t)  BY <1>0, <2>3 DEF AppendCount, AfterAppend
  <2>4. CASE AppendRaises(t)  BY <1>0, <2>4 DEF AppendRaises
  <2>5. CASE Load(t)
    <3>1. LoadEffect(t)  BY <2>5, LoadDoes
    <3> QED BY <1>0, <3>1, LookView DEF LoadEffect
  <2>6. CASE ProposalReturns(t)
    <3>1. ProposalReturnsEffect(t)  BY <2>6, ProposalReturnsDoes
    <3> QED BY <1>0, <3>1 DEF ProposalReturnsEffect
  <2>7. CASE ReadEvents(t)
    <3>1. ReadEventsEffect(t)  BY <2>7, ReadEventsDoes
    <3> QED BY <1>0, <3>1 DEF ReadEventsEffect
  <2>8. CASE SendBatch(t)
    <3>1. SendBatchEffect(t)  BY <2>8, SendBatchDoes
    <3> QED BY <1>0, <3>1 DEF SendBatchEffect
  <2>9. CASE BatchReturns(t)
    <3>1. BatchReturnsEffect(t)  BY <2>9, BatchReturnsDoes
    <3> QED BY <1>0, <3>1 DEF BatchReturnsEffect
  <2>10. CASE BatchesDone(t)  BY <1>0, <2>10 DEF BatchesDone
  <2>11. CASE SendTerminal(t)
    <3>1. SendTerminalEffect(t)  BY <2>11, SendTerminalDoes
    <3> QED BY <1>0, <3>1 DEF SendTerminalEffect
  <2>12. CASE TerminalReturns(t)  BY <1>0, <2>12, PlainView DEF TerminalReturns
  <2>13. CASE Answer(t)
    <3>1. AnswerEffect(t)  BY <2>13, AnswerDoes
    <3> QED BY <1>0, <3>1 DEF AnswerEffect
  <2>14. CASE GiveUp(t)  BY <1>0, <2>14, FieldTypes DEF GiveUp
  <2> QED BY <1>1, <2>1, <2>2, <2>3, <2>4, <2>5, <2>6, <2>7, <2>8, <2>9, <2>10,
             <2>11, <2>12, <2>13, <2>14 DEF AppendStep, DeliverStep
<1>2. ASSUME NEW r \in Runs, Approve(r) \/ Resume(r) \/ EndExecution(r)
      PROVE StartupKnows'
  <2>1. CASE Approve(r)  BY <1>0, <2>1 DEF Approve
  <2>2. CASE Resume(r)  BY <1>0, <2>2 DEF Resume
  <2>3. CASE EndExecution(r)  BY <1>0, <2>3 DEF EndExecution
  <2> QED BY <1>2, <2>1, <2>2, <2>3 DEF Runs
<1>3. ASSUME Create \/ BindProposal \/ Settle \/ RecoverMark PROVE StartupKnows'
  <2>1. CASE Create  BY <1>0, <2>1 DEF Create
  <2>2. CASE BindProposal  BY <1>0, <2>2 DEF BindProposal
  <2>3. CASE Settle  BY <1>0, <2>3 DEF Settle
  <2>4. CASE RecoverMark  BY <1>0, <2>4 DEF RecoverMark
  <2> QED BY <1>3, <2>1, <2>2, <2>3, <2>4 DEF Runs
<1>4. CASE ReceiveLate
  <2>1. ReceiveLateEffect  BY <1>4, ReceiveLateDoes
  <2> QED BY <1>0, <2>1 DEF ReceiveLateEffect
<1>5. CASE Reconcile
  <2>1. ReconcileEffect  BY <1>5, ReconcileDoes
  <2> QED BY <1>0, <2>1 DEF ReconcileEffect
<1>6. CASE Die
  <2>1. DieEffect  BY <1>6, DieDoes
  <2> QED BY <1>0, <2>1 DEF DieEffect
<1> QED BY <1>1, <1>2, <1>3, <1>4, <1>5, <1>6 DEF DeliveryNext

\* A new line has the next number, whatever became of the count.
LEMMA LogIsContiguousStep == ASSUME LogInv, DeliveryNext PROVE LogIsContiguous'
<1> USE DeliveryAssumption
    DEF logVars, metaVars, threadVars, netVars, remoteVars, histVars, Go, Finish,
        StartDelivery, Post, Returned, Collect, Try, Startup, Runs, Threads, Up,
        MutexFree, LogType, WriterKnows, LogIsContiguous, LogEvent
<1>0. LogType /\ WriterKnows /\ LogIsContiguous
  BY DEF LogInv, DeliveryTypeOK
<1>1. ASSUME NEW t \in Threads,
         AppendBegin(t) \/ AppendStep(t) \/ DeliverStep(t) \/ Answer(t) \/ GiveUp(t)
   PROVE LogIsContiguous'
  <2>1. CASE AppendBegin(t)  BY <1>0, <2>1 DEF AppendBegin
  <2>2. CASE AppendLine(t)  BY <1>0, <2>2 DEF AppendLine, NextNumber, Event
  <2>3. CASE AppendCount(t)
    <3>1. Len(log) \in 1..Len(log) /\ log[Len(log)].sequence = Len(log)
      <4>1. Len(log) > 0 /\ Len(log) \in Nat  BY <1>0, <2>3 DEF AppendCount
      <4> QED BY SMTT(30), <1>0, <4>1
    <3> QED BY <1>0, <2>3, <3>1 DEF AppendCount
  <2>4. CASE AppendRaises(t)  BY <1>0, <2>4 DEF AppendRaises
  <2>5. CASE Load(t)
    <3>1. LoadEffect(t)  BY <2>5, LoadDoes
    <3> QED BY <1>0, <3>1, LookView DEF LoadEffect
  <2>6. CASE ProposalReturns(t)
    <3>1. ProposalReturnsEffect(t)  BY <2>6, ProposalReturnsDoes
    <3> QED BY <1>0, <3>1 DEF ProposalReturnsEffect
  <2>7. CASE ReadEvents(t)
    <3>1. ReadEventsEffect(t)  BY <2>7, ReadEventsDoes
    <3> QED BY <1>0, <3>1 DEF ReadEventsEffect
  <2>8. CASE SendBatch(t)
    <3>1. SendBatchEffect(t)  BY <2>8, SendBatchDoes
    <3> QED BY <1>0, <3>1 DEF SendBatchEffect
  <2>9. CASE BatchReturns(t)
    <3>1. BatchReturnsEffect(t)  BY <2>9, BatchReturnsDoes
    <3> QED BY <1>0, <3>1 DEF BatchReturnsEffect
  <2>10. CASE BatchesDone(t)  BY <1>0, <2>10 DEF BatchesDone
  <2>11. CASE SendTerminal(t)
    <3>1. SendTerminalEffect(t)  BY <2>11, SendTerminalDoes
    <3> QED BY <1>0, <3>1 DEF SendTerminalEffect
  <2>12. CASE TerminalReturns(t)  BY <1>0, <2>12, PlainView DEF TerminalReturns
  <2>13. CASE Answer(t)
    <3>1. AnswerEffect(t)  BY <2>13, AnswerDoes
    <3> QED BY <1>0, <3>1 DEF AnswerEffect
  <2>14. CASE GiveUp(t)  BY <1>0, <2>14, FieldTypes DEF GiveUp
  <2> QED BY <1>1, <2>1, <2>2, <2>3, <2>4, <2>5, <2>6, <2>7, <2>8, <2>9, <2>10,
             <2>11, <2>12, <2>13, <2>14 DEF AppendStep, DeliverStep
<1>2. ASSUME NEW r \in Runs, Approve(r) \/ Resume(r) \/ EndExecution(r)
      PROVE LogIsContiguous'
  <2>1. CASE Approve(r)  BY <1>0, <2>1 DEF Approve
  <2>2. CASE Resume(r)  BY <1>0, <2>2 DEF Resume
  <2>3. CASE EndExecution(r)  BY <1>0, <2>3 DEF EndExecution
  <2> QED BY <1>2, <2>1, <2>2, <2>3 DEF Runs
<1>3. ASSUME Create \/ BindProposal \/ Settle \/ RecoverMark PROVE LogIsContiguous'
  <2>1. CASE Create  BY <1>0, <2>1 DEF Create
  <2>2. CASE BindProposal  BY <1>0, <2>2 DEF BindProposal
  <2>3. CASE Settle  BY <1>0, <2>3 DEF Settle
  <2>4. CASE RecoverMark  BY <1>0, <2>4 DEF RecoverMark
  <2> QED BY <1>3, <2>1, <2>2, <2>3, <2>4 DEF Runs
<1>4. CASE ReceiveLate
  <2>1. ReceiveLateEffect  BY <1>4, ReceiveLateDoes
  <2> QED BY <1>0, <2>1 DEF ReceiveLateEffect
<1>5. CASE Reconcile
  <2>1. ReconcileEffect  BY <1>5, ReconcileDoes
  <2> QED BY <1>0, <2>1 DEF ReconcileEffect
<1>6. CASE Die
  <2>1. DieEffect  BY <1>6, DieDoes
  <2> QED BY <1>0, <2>1 DEF DieEffect
<1> QED BY <1>1, <1>2, <1>3, <1>4, <1>5, <1>6 DEF DeliveryNext

\* A call takes its events from the log, which only grows.
LEMMA CallsKnowStep == ASSUME LogInv, DeliveryNext PROVE CallsKnow'
<1> USE DeliveryAssumption
    DEF logVars, metaVars, threadVars, netVars, remoteVars, histVars, Go, Finish,
        StartDelivery, Post, Returned, Collect, Try, Startup, Runs, Threads, Up,
        MutexFree, LogType, ThreadType, CallType, Stages, Delivering
<1>0. LogType /\ ThreadType /\ CallType /\ CallsKnow /\ DeliveryKnows
  BY DEF LogInv, DeliveryTypeOK
<1>1. ASSUME NEW t \in Threads,
         AppendBegin(t) \/ AppendStep(t) \/ DeliverStep(t) \/ Answer(t) \/ GiveUp(t)
   PROVE CallsKnow'
  <2>1. CASE AppendBegin(t)
    BY <1>0, <2>1, CallsStay DEF AppendBegin
  <2>2. CASE AppendLine(t)
    <3>1. /\ Len(log') \in Nat /\ Len(log) <= Len(log')
          /\ \A n \in 1..Len(log) : log'[n] = log[n]
      BY <1>0, <2>2 DEF AppendLine
    <3> QED BY <1>0, <2>2, <3>1, CallsStay DEF AppendLine
  <2>3. CASE AppendCount(t)
    BY <1>0, <2>3, CallsStay DEF AppendCount
  <2>4. CASE AppendRaises(t)
    BY <1>0, <2>4, CallsStay DEF AppendRaises
  <2>5. CASE Load(t)
    <3>1. LoadEffect(t)  BY <2>5, LoadDoes
    <3>2. \A q \in Threads :
            post'[q] \in {post[q], NoPost} \/ (post'[q] \in Call /\ FromLog(post'[q]))
      BY <1>0, <3>1 DEF LoadEffect, FromLog
    <3> QED BY <1>0, <3>1, <3>2, CallsStay, FieldTypes DEF LoadEffect
  <2>6. CASE ProposalReturns(t)
    <3>1. ProposalReturnsEffect(t)  BY <2>6, ProposalReturnsDoes
    <3> QED BY <1>0, <3>1, CallsStay DEF ProposalReturnsEffect
  <2>7. CASE ReadEvents(t)
    <3>1. ReadEventsEffect(t)  BY <2>7, ReadEventsDoes
    <3> QED BY <1>0, <3>1, CallsStay DEF ReadEventsEffect
  <2>8. CASE SendBatch(t)
    <3>1. SendBatchEffect(t)  BY <2>8, SendBatchDoes
    <3>2. \A q \in Threads :
            post'[q] \in {post[q], NoPost} \/ (post'[q] \in Call /\ FromLog(post'[q]))
      BY <1>0, <3>1 DEF SendBatchEffect
    <3> QED BY <1>0, <3>1, <3>2, CallsStay, FieldTypes DEF SendBatchEffect
  <2>9. CASE BatchReturns(t)
    <3>1. BatchReturnsEffect(t)  BY <2>9, BatchReturnsDoes
    <3> QED BY <1>0, <3>1, CallsStay DEF BatchReturnsEffect
  <2>10. CASE BatchesDone(t)
    BY <1>0, <2>10, CallsStay DEF BatchesDone
  <2>11. CASE SendTerminal(t)
    <3>1. SendTerminalEffect(t)  BY <2>11, SendTerminalDoes
    <3>2. \A q \in Threads :
            post'[q] \in {post[q], NoPost} \/ (post'[q] \in Call /\ FromLog(post'[q]))
      BY <1>0, <3>1 DEF SendTerminalEffect, FromLog
    <3> QED BY <1>0, <3>1, <3>2, CallsStay, FieldTypes DEF SendTerminalEffect
  <2>12. CASE TerminalReturns(t)
    BY <1>0, <2>12, PlainView, CallsStay DEF TerminalReturns
  <2>13. CASE Answer(t)
    <3>1. AnswerEffect(t)  BY <2>13, AnswerDoes
    <3>2. \A q \in Threads :
            post'[q] \in {post[q], NoPost} \/ (post'[q] \in Call /\ FromLog(post'[q]))
      BY <1>0, <3>1 DEF AnswerEffect
    <3> QED BY <1>0, <3>1, <3>2, CallsStay, FieldTypes DEF AnswerEffect
  <2>14. CASE GiveUp(t)
    <3>2. \A q \in Threads :
            post'[q] \in {post[q], NoPost} \/ (post'[q] \in Call /\ FromLog(post'[q]))
      BY <1>0, <2>14 DEF GiveUp
    <3>3. FromLog(post[t]) /\ post[t] \in Call /\ post[t].type # "none"
      BY <1>0, <2>14 DEF GiveUp, CallsKnow, DeliveryKnows, Asks
    <3>4. \A m \in late' : m \in late \/ m = post[t]
      BY <2>14 DEF GiveUp
    <3> QED BY <1>0, <2>14, <3>2, <3>3, <3>4, CallsStay, FieldTypes DEF GiveUp
  <2> QED BY <1>1, <2>1, <2>2, <2>3, <2>4, <2>5, <2>6, <2>7, <2>8, <2>9, <2>10,
             <2>11, <2>12, <2>13, <2>14 DEF AppendStep, DeliverStep
<1>2. ASSUME NEW r \in Runs, Approve(r) \/ Resume(r) \/ EndExecution(r)
      PROVE CallsKnow'
  <2>1. CASE Approve(r)
    BY <1>0, <2>1, CallsStay DEF Approve
  <2>2. CASE Resume(r)
    BY <1>0, <2>2, CallsStay DEF Resume
  <2>3. CASE EndExecution(r)
    BY <1>0, <2>3, CallsStay DEF EndExecution
  <2> QED BY <1>2, <2>1, <2>2, <2>3 DEF Runs
<1>3. ASSUME Create \/ BindProposal \/ Settle \/ RecoverMark PROVE CallsKnow'
  <2>1. CASE Create
    BY <1>0, <2>1, CallsStay DEF Create
  <2>2. CASE BindProposal
    BY <1>0, <2>2, CallsStay DEF BindProposal
  <2>3. CASE Settle
    BY <1>0, <2>3, CallsStay DEF Settle
  <2>4. CASE RecoverMark
    BY <1>0, <2>4, CallsStay DEF RecoverMark
  <2> QED BY <1>3, <2>1, <2>2, <2>3, <2>4 DEF Runs
<1>4. CASE ReceiveLate
  <2>1. ReceiveLateEffect  BY <1>4, ReceiveLateDoes
  <2> QED BY <1>0, <2>1, CallsStay DEF ReceiveLateEffect
<1>5. CASE Reconcile
  <2>1. ReconcileEffect  BY <1>5, ReconcileDoes
  <2> QED BY <1>0, <2>1, CallsStay DEF ReconcileEffect
<1>6. CASE Die
  <2>1. DieEffect  BY <1>6, DieDoes
  <2>2. \A q \in Threads :
        post[q] # NoPost => FromLog(post[q]) /\ post[q] \in Call /\ post[q].type # "none"
    BY <1>0 DEF CallsKnow, DeliveryKnows, Asks
  <2> QED BY <1>0, <2>1, <2>2, CallsStay, FieldTypes DEF DieEffect
<1> QED BY <1>1, <1>2, <1>3, <1>4, <1>5, <1>6 DEF DeliveryNext

\* AIOps has what the log begins with.
LEMMA CopyKnowsStep == ASSUME LogInv, DeliveryNext PROVE CopyKnows'
<1> USE DeliveryAssumption
    DEF logVars, metaVars, threadVars, netVars, remoteVars, histVars, Go, Finish,
        StartDelivery, Post, Returned, Collect, Try, Startup, Runs, Threads, Up,
        MutexFree, LogType, RemoteType, CopyKnows
<1>0. LogType /\ RemoteType /\ CopyKnows
  BY DEF LogInv, DeliveryTypeOK
<1>1. ASSUME NEW t \in Threads,
         AppendBegin(t) \/ AppendStep(t) \/ DeliverStep(t) \/ Answer(t) \/ GiveUp(t)
   PROVE CopyKnows'
  <2>1. CASE AppendBegin(t)  BY <1>0, <2>1 DEF AppendBegin
  <2>2. CASE AppendLine(t)
    <3>1. /\ Len(log') = Len(log) + 1 /\ Len(log) \in Nat /\ Len(copy) \in Nat
          /\ \A n \in 1..Len(log) : log'[n] = log[n]
      BY <1>0, <2>2 DEF AppendLine
    <3> QED BY <1>0, <2>2, <3>1 DEF AppendLine
  <2>3. CASE AppendCount(t)  BY <1>0, <2>3 DEF AppendCount, AfterAppend
  <2>4. CASE AppendRaises(t)  BY <1>0, <2>4 DEF AppendRaises
  <2>5. CASE Load(t)  BY <1>0, <2>5 DEF Load
  <2>6. CASE ProposalReturns(t)  BY <1>0, <2>6 DEF ProposalReturns
  <2>7. CASE ReadEvents(t)  BY <1>0, <2>7 DEF ReadEvents
  <2>8. CASE SendBatch(t)  BY <1>0, <2>8 DEF SendBatch
  <2>9. CASE BatchReturns(t)  BY <1>0, <2>9 DEF BatchReturns
  <2>10. CASE BatchesDone(t)  BY <1>0, <2>10 DEF BatchesDone
  <2>11. CASE SendTerminal(t)  BY <1>0, <2>11 DEF SendTerminal
  <2>12. CASE TerminalReturns(t)  BY <1>0, <2>12, PlainView DEF TerminalReturns
  <2>13. CASE Answer(t)
    <3>1. AnswerEffect(t)  BY <2>13, AnswerDoes
    <3> QED BY <1>0, <3>1 DEF AnswerEffect
  <2>14. CASE GiveUp(t)  BY <1>0, <2>14, FieldTypes DEF GiveUp
  <2> QED BY <1>1, <2>1, <2>2, <2>3, <2>4, <2>5, <2>6, <2>7, <2>8, <2>9, <2>10,
             <2>11, <2>12, <2>13, <2>14 DEF AppendStep, DeliverStep
<1>2. ASSUME NEW r \in Runs, Approve(r) \/ Resume(r) \/ EndExecution(r)
      PROVE CopyKnows'
  <2>1. CASE Approve(r)  BY <1>0, <2>1 DEF Approve
  <2>2. CASE Resume(r)  BY <1>0, <2>2 DEF Resume
  <2>3. CASE EndExecution(r)  BY <1>0, <2>3 DEF EndExecution
  <2> QED BY <1>2, <2>1, <2>2, <2>3 DEF Runs
<1>3. ASSUME Create \/ BindProposal \/ Settle \/ RecoverMark PROVE CopyKnows'
  <2>1. CASE Create  BY <1>0, <2>1 DEF Create
  <2>2. CASE BindProposal  BY <1>0, <2>2 DEF BindProposal
  <2>3. CASE Settle  BY <1>0, <2>3 DEF Settle
  <2>4. CASE RecoverMark  BY <1>0, <2>4 DEF RecoverMark
  <2> QED BY <1>3, <2>1, <2>2, <2>3, <2>4 DEF Runs
<1>4. CASE ReceiveLate
  <2>1. ReceiveLateEffect  BY <1>4, ReceiveLateDoes
  <2> QED BY <1>0, <2>1 DEF ReceiveLateEffect
<1>5. CASE Reconcile
  <2>1. ReconcileEffect  BY <1>5, ReconcileDoes
  <2> QED BY <1>0, <2>1 DEF ReconcileEffect
<1>6. CASE Die  BY <1>0, <1>6 DEF Die
<1> QED BY <1>1, <1>2, <1>3, <1>4, <1>5, <1>6 DEF DeliveryNext

\* A delivery waits for the one call it has made, reads on where it stopped, and
\* as long as it has been the only one knows what was sent and what was taken.
LEMMA DeliveriesKnowStep == ASSUME LogInv, DeliveryNext
PROVE (DeliveryKnows /\ AloneKnows)'
<1> USE DeliveryAssumption
    DEF logVars, metaVars, threadVars, netVars, remoteVars, histVars, Go, Finish,
        StartDelivery, Post, Returned, Collect, Try
<1>0. stage \in [Threads -> Stages] /\ view \in [Threads -> View] /\ post \in
      [Threads -> Call] /\ result \in [Threads -> {"none", "ok", "failed"}] /\
      attempted \in Nat /\ runs \in 0..MaxRuns /\ StartupKnows /\ DeliveryKnows /\
      AloneKnows
  BY DEF LogInv, DeliveryTypeOK, ThreadType, CallType, MetaType
<1>1. ASSUME NEW t \in Threads,
         AppendBegin(t) \/ AppendStep(t) \/ DeliverStep(t) \/ Answer(t) \/ GiveUp(t)
   PROVE (DeliveryKnows /\ AloneKnows)'
  <2>1. CASE AppendBegin(t)
    BY <1>0, <2>1, FieldTypes, NoneDelivers
    DEF AppendBegin, AfterAppend, StartupKnows, Delivering, Threads, Runs, Startup
  <2>2. CASE AppendLine(t)
    <3>1. Len(log') \in Nat /\ Len(log) <= Len(log')
      BY <1>0, <2>2 DEF AppendLine, LogType
    <3> QED BY <1>0, <2>2, <3>1, FieldTypes, NoneDelivers DEF AppendLine
  <2>3. CASE AppendCount(t)
    BY <1>0, <2>3, FieldTypes, NoneDelivers
    DEF AppendCount, AfterAppend, StartupKnows, Delivering, Threads, Runs, Startup
  <2>4. CASE AppendRaises(t)
    BY <1>0, <2>4, FieldTypes, NoneDelivers
    DEF AppendRaises, AfterAppend, StartupKnows, Delivering, Threads, Runs, Startup
  <2>5. CASE Load(t)
    <3>1. LoadEffect(t)  BY <2>5, LoadDoes
    <3>2. /\ OthersStay(t) /\ stage[t] \in Delivering
          /\ view'[t] = Look /\ result'[t] = result[t]
          /\ \/ stage'[t] = "reading" /\ post'[t] = post[t]
             \/ stage'[t] = "proposalSent" /\ post'[t].type = "proposal"
      BY <1>0, <3>1 DEF LoadEffect, OthersStay, Delivering
    <3>3. Asks(t) /\ attempted <= Len(log)
      BY <1>0 DEF DeliveryKnows
    <3>4. Asks(t)'
      <4>1. result'[t] = "none" /\ post[t] = NoPost
        BY <1>0, <3>1, <3>2, <3>3 DEF LoadEffect, Asks, PostOf
      <4>2. /\ view'[t].next <= Len(log) + 1 /\ view'[t].upto <= Len(log) /\ log' = log
            /\ stage'[t] = "reading" => view'[t].next > 0
        BY <1>0, <3>1, <3>2, <3>3, FieldTypes, LookView DEF LoadEffect
      <4>3. stage'[t] \in {"idle", "reading", "proposalSent"}  BY <3>2
      <4>4. CASE stage'[t] = "proposalSent"
        <5>1. PostOf(stage'[t]) = "proposal"  BY <4>4 DEF PostOf
        <5>2. post'[t] # NoPost => post'[t].type = "proposal" /\ result'[t] = "none"
          BY <3>2, <4>1, <4>4
        <5>3. view'[t].upto <= Len(log') /\ view'[t].next <= Len(log') + 1  BY <4>2
        <5> QED BY <5>1, <5>2, <5>3, <4>4 DEF Asks
      <4>5. CASE stage'[t] # "proposalSent"
        <5>1. PostOf(stage'[t]) = "none" /\ stage'[t] \notin {"batching", "batchSent"}
          BY <4>3, <4>5 DEF PostOf
        <5>2. post'[t] = NoPost /\ result'[t] = "none"  BY <3>2, <4>1, <4>5
        <5>3. view'[t].upto <= Len(log') /\ view'[t].next <= Len(log') + 1  BY <4>2
        <5> QED BY <5>1, <5>2, <5>3, <4>2 DEF Asks
      <4> QED BY <4>4, <4>5
    <3>5. ASSUME ~overlapped PROVE SentKnows /\ Covers(t)
      BY <1>0, <3>5 DEF AloneKnows
    <3>6. ASSUME ~overlapped PROVE SentKnows' /\ Covers(t)'
      BY <1>0, <3>1, <3>2, <3>3, <3>5, <3>6, FieldTypes, LookView
      DEF LoadEffect, Asks, SentKnows, Covers, PostOf
    <3>7. /\ overlapped' = overlapped /\ log' = log /\ attempted' <= Len(log)
          /\ Len(copy') \in Nat /\ Len(copy) <= Len(copy')
      BY <1>0, <3>1, <3>3, FieldTypes DEF LoadEffect, DeliveryKnows
    <3> QED BY <3>2, <3>4, <3>6, <3>7, OneDelivers
  <2>6. CASE ProposalReturns(t)
    <3>1. ProposalReturnsEffect(t)  BY <2>6, ProposalReturnsDoes
    <3>2. /\ OthersStay(t) /\ stage[t] \in Delivering
          /\ post'[t] = post[t] /\ result'[t] = "none"
          /\ stage'[t] \in {"idle", "reading"}
          /\ view'[t].upto = 0 /\ view'[t].next <= attempted + 1
          /\ view'[t] \in View
          /\ stage'[t] = "reading" =>
               view'[t].next = attempted + 1 /\ (view'[t].closed <=> "terminal" \in tried)
      BY <1>0, <3>1 DEF ProposalReturnsEffect, OthersStay, Delivering
    <3>3. Asks(t) /\ attempted <= Len(log)
      BY <1>0 DEF DeliveryKnows
    <3>4. Asks(t)'
      <4>1. result'[t] = "none" /\ post[t] = NoPost
        BY <1>0, <3>1, <3>2, <3>3 DEF ProposalReturnsEffect, Asks, PostOf
      <4>2. /\ view'[t].next <= Len(log) + 1 /\ view'[t].upto <= Len(log) /\ log' = log
            /\ stage'[t] = "reading" => view'[t].next > 0
        BY <1>0, <3>1, <3>2, <3>3, FieldTypes, LookView
        DEF ProposalReturnsEffect, View
      <4>3. stage'[t] \in {"idle", "reading", "proposalSent"}  BY <3>2
      <4>4. CASE stage'[t] = "proposalSent"
        <5>1. PostOf(stage'[t]) = "proposal"  BY <4>4 DEF PostOf
        <5>2. post'[t] # NoPost => post'[t].type = "proposal" /\ result'[t] = "none"
          BY <3>2, <4>1, <4>4
        <5>3. view'[t].upto <= Len(log') /\ view'[t].next <= Len(log') + 1  BY <4>2
        <5> QED BY <5>1, <5>2, <5>3, <4>4 DEF Asks
      <4>5. CASE stage'[t] # "proposalSent"
        <5>1. PostOf(stage'[t]) = "none" /\ stage'[t] \notin {"batching", "batchSent"}
          BY <4>3, <4>5 DEF PostOf
        <5>2. post'[t] = NoPost /\ result'[t] = "none"  BY <3>2, <4>1, <4>5
        <5>3. view'[t].upto <= Len(log') /\ view'[t].next <= Len(log') + 1  BY <4>2
        <5> QED BY <5>1, <5>2, <5>3, <4>2 DEF Asks
      <4> QED BY <4>4, <4>5
    <3>5. ASSUME ~overlapped PROVE SentKnows /\ Covers(t)
      BY <1>0, <3>5 DEF AloneKnows
    <3>6. ASSUME ~overlapped PROVE SentKnows' /\ Covers(t)'
      BY <1>0, <3>1, <3>2, <3>3, <3>5, <3>6, FieldTypes
      DEF ProposalReturnsEffect, Asks, SentKnows, Covers, PostOf
    <3>7. /\ overlapped' = overlapped /\ log' = log /\ attempted' <= Len(log)
          /\ Len(copy') \in Nat /\ Len(copy) <= Len(copy')
      BY <1>0, <3>1, <3>3, FieldTypes DEF ProposalReturnsEffect, DeliveryKnows
    <3> QED BY <3>2, <3>4, <3>6, <3>7, OneDelivers
  <2>7. CASE ReadEvents(t)
    <3>1. ReadEventsEffect(t)  BY <2>7, ReadEventsDoes
    <3>2. /\ OthersStay(t) /\ stage[t] \in Delivering
          /\ post'[t] = post[t] /\ result'[t] = result[t]
          /\ \/ stage'[t] = "idle" /\ view'[t].next = 0 /\ view'[t].upto = 0
             \/ /\ stage'[t] = "batching" /\ view'[t].next = view[t].next
                /\ view'[t].upto = Len(log) /\ (view'[t].closed <=> view[t].closed)
      BY <1>0, <3>1 DEF ReadEventsEffect, OthersStay, Delivering
    <3>3. Asks(t) /\ attempted <= Len(log)
      BY <1>0 DEF DeliveryKnows
    <3>4. Asks(t)'
      BY SMTT(30), <1>0, <3>1, <3>2, <3>3, FieldTypes DEF ReadEventsEffect, Asks, PostOf
    <3>5. ASSUME ~overlapped PROVE SentKnows /\ Covers(t)
      BY <1>0, <3>5 DEF AloneKnows
    <3>6. ASSUME ~overlapped PROVE SentKnows' /\ Covers(t)'
      BY <1>0, <3>1, <3>2, <3>3, <3>5, <3>6, FieldTypes
      DEF ReadEventsEffect, Asks, SentKnows, Covers, PostOf
    <3>7. /\ overlapped' = overlapped /\ log' = log /\ attempted' <= Len(log)
          /\ Len(copy') \in Nat /\ Len(copy) <= Len(copy')
      BY <1>0, <3>1, <3>3, FieldTypes DEF ReadEventsEffect, DeliveryKnows
    <3> QED BY <3>2, <3>4, <3>6, <3>7, OneDelivers
  <2>8. CASE SendBatch(t)
    <3>1. SendBatchEffect(t)  BY <2>8, SendBatchDoes
    <3>2. /\ OthersStay(t) /\ stage[t] \in Delivering
          /\ view'[t] = view[t] /\ result'[t] = result[t] /\ stage'[t] = "batchSent"
          /\ post'[t].type = "events" /\ post'[t].last = BatchEnd(view[t])
      BY <1>0, <3>1 DEF SendBatchEffect, OthersStay, Delivering
    <3>3. Asks(t) /\ attempted <= Len(log)
      BY <1>0 DEF DeliveryKnows
    <3>4. Asks(t)'
      BY SMTT(30), <1>0, <3>1, <3>2, <3>3, FieldTypes DEF SendBatchEffect, Asks, PostOf
    <3>5. ASSUME ~overlapped PROVE SentKnows /\ Covers(t)
      BY <1>0, <3>5 DEF AloneKnows
    <3>6. ASSUME ~overlapped PROVE SentKnows' /\ Covers(t)'
      <4>1. SentKnows'
        <5>1. attempted \in Nat /\ MaxLog \in Nat /\ view[t].next = attempted + 1
          BY <1>0, <3>1, <3>5, <3>6, FieldTypes DEF SendBatchEffect, Covers
        <5> QED BY <1>0, <3>1, <3>5, <3>6, <5>1, FieldTypes
          DEF SendBatchEffect, SentKnows, HistoryType
      <4>2. Covers(t)'
        BY <3>1, <3>2, <3>5, <3>6 DEF SendBatchEffect, Covers
      <4> QED BY <4>1, <4>2
    <3>7. /\ overlapped' = overlapped /\ log' = log /\ attempted' <= Len(log)
          /\ Len(copy') \in Nat /\ Len(copy) <= Len(copy')
      BY <1>0, <3>1, <3>3, FieldTypes DEF SendBatchEffect, DeliveryKnows, Asks
    <3> QED BY <3>2, <3>4, <3>6, <3>7, OneDelivers
  <2>9. CASE BatchReturns(t)
    <3>1. BatchReturnsEffect(t)  BY <2>9, BatchReturnsDoes
    <3>2. /\ OthersStay(t) /\ stage[t] \in Delivering
          /\ post'[t] = post[t] /\ result'[t] = "none"
          /\ stage'[t] = IF result[t] = "ok" THEN "batching" ELSE "closing"
          /\ view'[t].next = BatchEnd(view[t]) + 1 /\ view'[t].upto = view[t].upto
          /\ (view'[t].ok <=> result[t] = "ok")
          /\ (view'[t].closed <=> "terminal" \in tried)
      BY <1>0, <3>1 DEF BatchReturnsEffect, OthersStay, Delivering
    <3>3. Asks(t) /\ attempted <= Len(log)
      BY <1>0 DEF DeliveryKnows
    <3>4. Asks(t)'
      BY SMTT(30), <1>0, <3>1, <3>2, <3>3, FieldTypes DEF BatchReturnsEffect, Asks, PostOf
    <3>5. ASSUME ~overlapped PROVE SentKnows /\ Covers(t)
      BY <1>0, <3>5 DEF AloneKnows
    <3>6. ASSUME ~overlapped PROVE SentKnows' /\ Covers(t)'
      BY <1>0, <3>1, <3>2, <3>3, <3>5, <3>6, FieldTypes
      DEF BatchReturnsEffect, Asks, SentKnows, Covers, PostOf
    <3>7. /\ overlapped' = overlapped /\ log' = log /\ attempted' <= Len(log)
          /\ Len(copy') \in Nat /\ Len(copy) <= Len(copy')
      BY <1>0, <3>1, <3>3, FieldTypes DEF BatchReturnsEffect, DeliveryKnows
    <3> QED BY <3>2, <3>4, <3>6, <3>7, OneDelivers
  <2>10. CASE BatchesDone(t)
    <3>2. /\ OthersStay(t) /\ stage[t] \in Delivering
          /\ post'[t] = post[t] /\ result'[t] = result[t] /\ view'[t] = view[t]
          /\ stage'[t] = "closing"
      BY <1>0, <2>10 DEF BatchesDone, OthersStay, Delivering
    <3>3. Asks(t) /\ attempted <= Len(log)
      BY <1>0 DEF DeliveryKnows
    <3>4. Asks(t)'
      BY <1>0, <2>10, <3>2, <3>3, FieldTypes DEF BatchesDone, Asks, PostOf
    <3>5. ASSUME ~overlapped PROVE SentKnows /\ Covers(t)
      BY <1>0, <3>5 DEF AloneKnows
    <3>6. ASSUME ~overlapped PROVE SentKnows' /\ Covers(t)'
      BY SMTT(30), <1>0, <2>10, <3>2, <3>3, <3>5, <3>6, FieldTypes
      DEF BatchesDone, Asks, SentKnows, Covers, PostOf
    <3>7. /\ overlapped' = overlapped /\ log' = log /\ attempted' <= Len(log)
          /\ Len(copy') \in Nat /\ Len(copy) <= Len(copy')
      BY <1>0, <2>10, <3>3, FieldTypes DEF BatchesDone, DeliveryKnows
    <3> QED BY <3>2, <3>4, <3>6, <3>7, OneDelivers
  <2>11. CASE SendTerminal(t)
    <3>1. SendTerminalEffect(t)  BY <2>11, SendTerminalDoes
    <3>2. /\ OthersStay(t) /\ stage[t] \in Delivering
          /\ result'[t] = result[t]
          /\ \/ /\ post'[t] = post[t] /\ stage'[t] = "idle"
                /\ view'[t].next = 0 /\ view'[t].upto = 0
             \/ /\ view[t].ok /\ view'[t] = view[t] /\ stage'[t] = "terminalSent"
                /\ post'[t].type = "terminal" /\ post'[t].last = view[t].upto
      BY <1>0, <3>1, PlainView DEF SendTerminalEffect, OthersStay, Delivering
    <3>3. Asks(t) /\ attempted <= Len(log)
      BY <1>0 DEF DeliveryKnows
    <3>4. Asks(t)'
      <4>0. /\ PostOf("closing") = "none" /\ PostOf("idle") = "none"
            /\ PostOf("terminalSent") = "terminal"
        BY DEF PostOf
      <4>1. stage[t] = "closing" /\ log' = log /\ copy' = copy
        BY <3>1 DEF SendTerminalEffect
      <4>2. post[t] = NoPost /\ result[t] = "none"
        BY <3>3, <4>0, <4>1 DEF Asks
      <4>3. CASE /\ post'[t] = post[t] /\ stage'[t] = "idle"
                 /\ view'[t].next = 0 /\ view'[t].upto = 0
        BY <3>2, <4>0, <4>1, <4>2, <4>3, FieldTypes DEF Asks
      <4>4. CASE /\ view'[t] = view[t] /\ stage'[t] = "terminalSent"
                 /\ post'[t].type = "terminal"
        BY <3>2, <3>3, <4>0, <4>1, <4>2, <4>4 DEF Asks
      <4> QED BY <3>2, <4>3, <4>4
    <3>5. ASSUME ~overlapped PROVE SentKnows /\ Covers(t)
      BY <1>0, <3>5 DEF AloneKnows
    <3>6. ASSUME ~overlapped PROVE SentKnows' /\ Covers(t)'
      <4>1. SentKnows'
        <5>0. ~twice /\ (view[t].closed <=> "terminal" \in tried)
          BY <3>1, <3>5, <3>6 DEF SendTerminalEffect, SentKnows, Covers
        <5>2. ~twice'
          BY <3>1, <5>0, Zenon DEF SendTerminalEffect
        <5>3. UNCHANGED <<sent, acked, attempted, copy>>
          BY <3>1 DEF SendTerminalEffect
        <5>1. ~twice' /\ UNCHANGED <<sent, acked, attempted, copy>>  BY <5>2, <5>3
        <5> QED BY <3>5, <3>6, <5>1 DEF SentKnows
      <4>2. Covers(t)'
        BY <1>0, <3>1, <3>2, <3>3, <3>5, <3>6, FieldTypes
        DEF SendTerminalEffect, Asks, Covers, PostOf
      <4> QED BY <4>1, <4>2
    <3>7. /\ overlapped' = overlapped /\ log' = log /\ attempted' <= Len(log)
          /\ Len(copy') \in Nat /\ Len(copy) <= Len(copy')
      BY <1>0, <3>1, <3>3, FieldTypes DEF SendTerminalEffect, DeliveryKnows
    <3> QED BY <3>2, <3>4, <3>6, <3>7, OneDelivers
  <2>12. CASE TerminalReturns(t)
    <3>2. /\ OthersStay(t) /\ stage[t] \in Delivering
          /\ post'[t] = post[t] /\ result'[t] = "none" /\ stage'[t] = "idle"
          /\ view'[t].next = 0 /\ view'[t].upto = 0
      BY <1>0, <2>12, PlainView DEF TerminalReturns, OthersStay, Delivering
    <3>3. Asks(t) /\ attempted <= Len(log)
      BY <1>0 DEF DeliveryKnows
    <3>4. Asks(t)'
      BY SMTT(30), <1>0, <2>12, <3>2, <3>3, FieldTypes DEF TerminalReturns, Asks, PostOf
    <3>5. ASSUME ~overlapped PROVE SentKnows /\ Covers(t)
      BY <1>0, <3>5 DEF AloneKnows
    <3>6. ASSUME ~overlapped PROVE SentKnows' /\ Covers(t)'
      BY <1>0, <2>12, <3>2, <3>3, <3>5, <3>6, FieldTypes
      DEF TerminalReturns, Asks, SentKnows, Covers, PostOf
    <3>7. /\ overlapped' = overlapped /\ log' = log /\ attempted' <= Len(log)
          /\ Len(copy') \in Nat /\ Len(copy) <= Len(copy')
      BY <1>0, <2>12, <3>3, FieldTypes DEF TerminalReturns, DeliveryKnows
    <3> QED BY <3>2, <3>4, <3>6, <3>7, OneDelivers
  <2>13. CASE Answer(t)
    <3>1. AnswerEffect(t)  BY <2>13, AnswerDoes
    <3>2. /\ OthersStay(t) /\ stage[t] \in Delivering
          /\ stage'[t] = stage[t] /\ view'[t] = view[t] /\ post'[t] = NoPost
          /\ post[t] # NoPost /\ result[t] = "none"
          /\ post[t].type = PostOf(stage[t])
          /\ post[t].type # "none"
      BY <1>0, <3>1, FieldTypes
      DEF AnswerEffect, OthersStay, Delivering, DeliveryKnows, Asks, PostOf
    <3>3. Asks(t) /\ attempted <= Len(log)
      BY <1>0 DEF DeliveryKnows
    <3>4. Asks(t)'
      BY <1>0, <3>1, <3>2, <3>3, FieldTypes DEF AnswerEffect, Asks, PostOf
    <3>5. ASSUME ~overlapped PROVE SentKnows /\ Covers(t)
      BY <1>0, <3>5 DEF AloneKnows
    <3>6. ASSUME ~overlapped PROVE SentKnows' /\ Covers(t)'
      BY <1>0, <3>1, <3>2, <3>3, <3>5, <3>6, FieldTypes
      DEF AnswerEffect, Asks, SentKnows, Covers, PostOf
    <3>7. /\ overlapped' = overlapped /\ log' = log /\ attempted' <= Len(log)
          /\ Len(copy') \in Nat /\ Len(copy) <= Len(copy')
      BY <1>0, <3>1, <3>3, FieldTypes DEF AnswerEffect, DeliveryKnows
    <3> QED BY <3>2, <3>4, <3>6, <3>7, OneDelivers
  <2>14. CASE GiveUp(t)
    <3>2. /\ OthersStay(t) /\ stage[t] \in Delivering
          /\ stage'[t] = stage[t] /\ view'[t] = view[t] /\ post'[t] = NoPost
          /\ result'[t] = "failed"
          /\ post[t] # NoPost /\ post[t].type = PostOf(stage[t])
          /\ post[t].type # "none"
      BY <1>0, <2>14, FieldTypes
      DEF GiveUp, OthersStay, Delivering, DeliveryKnows, Asks, PostOf
    <3>3. Asks(t) /\ attempted <= Len(log)
      BY <1>0 DEF DeliveryKnows
    <3>4. Asks(t)'
      BY <1>0, <2>14, <3>2, <3>3, FieldTypes DEF GiveUp, Asks, PostOf
    <3>5. ASSUME ~overlapped PROVE SentKnows /\ Covers(t)
      BY <1>0, <3>5 DEF AloneKnows
    <3>6. ASSUME ~overlapped PROVE SentKnows' /\ Covers(t)'
      BY <1>0, <2>14, <3>2, <3>3, <3>5, <3>6, FieldTypes
      DEF GiveUp, Asks, SentKnows, Covers, PostOf
    <3>7. /\ overlapped' = overlapped /\ log' = log /\ attempted' <= Len(log)
          /\ Len(copy') \in Nat /\ Len(copy) <= Len(copy')
      BY <1>0, <2>14, <3>3, FieldTypes DEF GiveUp, DeliveryKnows
    <3> QED BY <3>2, <3>4, <3>6, <3>7, OneDelivers
  <2> QED BY <1>1, <2>1, <2>2, <2>3, <2>4, <2>5, <2>6, <2>7, <2>8, <2>9, <2>10,
             <2>11, <2>12, <2>13, <2>14 DEF AppendStep, DeliverStep
<1>2. ASSUME NEW r \in Runs, Approve(r) \/ Resume(r) \/ EndExecution(r)
      PROVE (DeliveryKnows /\ AloneKnows)'
  <2>1. CASE Approve(r)
    BY <1>0, <2>1, FieldTypes, NoneDelivers
    DEF Approve, AfterAppend, StartupKnows, Delivering, Threads, Runs, Startup
  <2>2. CASE Resume(r)
    <3>1. CASE Go(r, "working") /\ UNCHANGED histVars
      BY <1>0, <2>2, <3>1, FieldTypes, NoneDelivers
      DEF Resume, Delivering, Threads, Runs, Startup
    <3>2. CASE StartDelivery(r)
      BY <1>0, <2>2, <3>2, DeliveryStarts DEF Resume, Delivering, Threads
    <3> QED BY <2>2, <3>1, <3>2 DEF Resume
  <2>3. CASE EndExecution(r)
    BY <1>0, <2>3, DeliveryStarts DEF EndExecution, Delivering, Threads
  <2> QED BY <1>2, <2>1, <2>2, <2>3 DEF Runs
<1>3. ASSUME Create \/ BindProposal \/ Settle \/ RecoverMark
      PROVE (DeliveryKnows /\ AloneKnows)'
  <2>1. CASE Create
    BY <1>0, <2>1, FieldTypes, NoneDelivers
    DEF Create, AfterAppend, StartupKnows, Delivering, Threads, Runs, Startup
  <2>2. CASE BindProposal
    BY <1>0, <2>2, FieldTypes, NoneDelivers
    DEF BindProposal, AfterAppend, StartupKnows, Delivering, Threads, Runs, Startup
  <2>3. CASE Settle
    BY <1>0, <2>3, FieldTypes, NoneDelivers
    DEF Settle, AfterAppend, StartupKnows, Delivering, Threads, Runs, Startup
  <2>4. CASE RecoverMark
    <3>1. Startup \in Threads  BY FieldTypes
    <3> QED BY <1>0, <2>4, <3>1, DeliveryStarts DEF RecoverMark, Delivering
  <2> QED BY <1>3, <2>1, <2>2, <2>3, <2>4 DEF Runs
<1>4. CASE ReceiveLate
  <2>1. ReceiveLateEffect  BY <1>4, ReceiveLateDoes
  <2>2. Len(copy') \in Nat  BY <2>1 DEF ReceiveLateEffect
  <2> QED BY <1>0, <2>1, <2>2, FieldTypes, NoneDelivers DEF ReceiveLateEffect
<1>5. CASE Reconcile
  <2>1. ReconcileEffect  BY <1>5, ReconcileDoes
  <2> QED BY <1>0, <2>1, FieldTypes, NoneDelivers DEF ReconcileEffect
<1>6. CASE Die
  <2>1. DieEffect  BY <1>6, DieDoes
  <2>2. \A q \in Threads :
          /\ stage'[q] \notin Delivering /\ view'[q] = NoView
          /\ post'[q] = NoPost /\ result'[q] = "none"
    BY <2>1 DEF DieEffect, Delivering
  <2>3. ASSUME NEW q \in Threads PROVE Asks(q)' /\ Covers(q)'
    BY <1>0, <2>1, <2>2, FieldTypes, PlainView DEF DieEffect, Asks, Covers, PostOf
  <2>4. ASSUME ~overlapped PROVE SentKnows'
    BY <1>0, <2>1, <2>4 DEF DieEffect, AloneKnows, SentKnows
  <2> QED BY <1>0, <2>1, <2>2, <2>3, <2>4 DEF DieEffect, DeliveryKnows, AloneKnows
<1> QED BY <1>1, <1>2, <1>3, <1>4, <1>5, <1>6 DEF DeliveryNext

-----------------------------------------------------------------------------
(* The theorems about a session's events.                                  *)

\* Together: the invariant is inductive.
LEMMA LogStep == ASSUME LogInv, DeliveryNext PROVE LogInv'
  BY LogTypeStep, MetaTypeStep, ThreadTypeStep, CallTypeStep, RemoteTypeStep,
     HistoryTypeStep, WriterKnowsStep, StartupKnowsStep, LogIsContiguousStep, CallsKnowStep, CopyKnowsStep, DeliveriesKnowStep
     DEF LogInv, DeliveryTypeOK

\* The first state, and a step that does nothing.
LEMMA LogInit == DeliveryInit => LogInv
<1> SUFFICES ASSUME DeliveryInit PROVE LogInv  OBVIOUS
<1> USE DeliveryAssumption DEF DeliveryInit
<1>0. MaxLog \in Nat /\ <<>> \in Seq(LogEvent) /\ Len(<<>>) = 0
  BY EmptySeq DEF MaxLog
<1>1. DeliveryTypeOK
  <2>0. /\ log \in Seq(LogEvent) /\ Len(log) <= MaxLog
        /\ copy \in Seq(LogEvent) /\ Len(copy) <= MaxLog
    BY <1>0, SMT
  <2>7. {torn, proposed, closed, twice, overlapped} \subseteq BOOLEAN
    BY Zenon
  <2>8. /\ nextSeq \in 1..MaxLog + 1 /\ appends \in 0..MaxLog /\ deaths \in 0..MaxDeaths
        /\ attempted \in 0..MaxLog /\ sent \in [1..MaxLog -> 0..2]
    BY <1>0
  <2>1. LogType  BY <2>0, <2>7, <2>8 DEF LogType
  <2>2. MetaType  BY <2>7, <2>8 DEF MetaType
  <2>5. RemoteType  BY <2>0, <2>7 DEF RemoteType
  <2>6. HistoryType  BY <2>7, <2>8 DEF HistoryType
  <2>3. ThreadType  BY PlainView DEF ThreadType, Stages
  <2>4. CallType  BY PlainCalls DEF CallType
  <2> QED BY <2>1, <2>2, <2>3, <2>4, <2>5, <2>6 DEF DeliveryTypeOK
<1>2. LogIsContiguous /\ WriterKnows /\ StartupKnows /\ CopyKnows
  BY <1>0
  DEF LogIsContiguous, WriterKnows, StartupKnows, CopyKnows, Up, Startup, Runs,
      Threads
<1>3. NoPost.type = "none"  BY DEF NoPost
<1>4. CallsKnow  BY <1>3 DEF CallsKnow, FromLog
<1>5. ASSUME NEW t \in Threads
      PROVE Asks(t) /\ Covers(t) /\ stage[t] \notin Delivering
  BY <1>0, <1>3, PlainView DEF Asks, Covers, PostOf, Delivering
<1>6. SentKnows  BY <1>0 DEF SentKnows
<1>7. DeliveryKnows /\ AloneKnows
  BY <1>0, <1>5, <1>6 DEF DeliveryKnows, AloneKnows
<1> QED BY <1>1, <1>2, <1>4, <1>7 DEF LogInv

\* A step that does nothing keeps it too.
LEMMA LogStutter == ASSUME LogInv, UNCHANGED deliveryVars PROVE LogInv'
  BY DEF LogInv, DeliveryTypeOK, LogIsContiguous, WriterKnows, StartupKnows,
     CallsKnow,
         FromLog, CopyKnows, DeliveryKnows, Asks, SentKnows, Covers, AloneKnows, LogType,
         MetaType, ThreadType, CallType, RemoteType, HistoryType, Up,
         deliveryVars, logVars, metaVars, threadVars, netVars, remoteVars, histVars

\* The inductive invariant of a session's event log and its deliveries
\* (append_event, _deliver, recover_active_as_uncertain and the ingest rules).
THEOREM LogInvariant == DeliverySpec => []LogInv
<1>1. DeliveryInit => LogInv  BY LogInit
<1>2. LogInv /\ [DeliveryNext]_deliveryVars => LogInv'
  BY LogStep, LogStutter
<1> QED BY <1>1, <1>2, PTL DEF DeliverySpec

\* _deliver sends nothing twice while deliveries do not overlap, whatever fails,
\* crashes or is lost.
THEOREM NothingIsSentTwice == DeliverySpec => []SentOnce
<1>1. LogInv => SentOnce
  <2> SUFFICES ASSUME LogInv, ~overlapped
  PROVE ~twice /\ \A n \in 1..MaxLog : sent[n] <= 1
    BY DEF SentOnce
  <2>1. SentKnows  BY DEF LogInv, AloneKnows
  <2> QED BY <2>1 DEF SentKnows
<1> QED BY <1>1, LogInvariant, PTL

\* A callback recorded as accepted brought AIOps every event up to the last one
\* attempted, while deliveries do not overlap.
THEOREM AcknowledgedIsThere == DeliverySpec => []AckedIsAccepted
<1>1. LogInv => AckedIsAccepted
  BY DEF LogInv, AloneKnows, SentKnows, AckedIsAccepted
<1> QED BY <1>1, LogInvariant, PTL

\* The terminal callback comes after every event it covers, each sent once, while
\* deliveries do not overlap.
THEOREM TerminalComesLast == DeliverySpec => []TerminalIsLast
<1>1. LogInv => TerminalIsLast
  <2> SUFFICES ASSUME LogInv, ~overlapped, NEW t \in Threads, post[t].type = "terminal",
                      NEW n \in 1..post[t].last
               PROVE  sent[n] = 1
    BY DEF TerminalIsLast
  <2>1. SentKnows /\ Covers(t)  BY DEF LogInv, AloneKnows
  <2>2. /\ post[t].last <= attempted /\ post[t].last \in Nat
        /\ attempted \in 0..MaxLog /\ MaxLog \in Nat
    BY <2>1, FieldTypes DEF Covers, LogInv, DeliveryTypeOK, MetaType
  <2>3. n \in 1..MaxLog /\ n <= attempted  BY <2>2
  <2> QED BY <2>1, <2>3 DEF SentKnows
<1> QED BY <1>1, LogInvariant, PTL

\* A prefix, by its elements.
LEMMA PrefixByElements ==
  ASSUME NEW s \in Seq(LogEvent), NEW u \in Seq(LogEvent), Len(s) <= Len(u),
         \A n \in 1..Len(s) : s[n] = u[n]
  PROVE  Replica!IsPrefix(s, u)
<1>1. Len(s) \in Nat /\ Len(u) \in Nat  OBVIOUS
<1> DEFINE t == SubSeq(u, 1, Len(s))
<1>2. \A i \in 1..Len(s) : u[i] \in LogEvent  BY <1>1
<1>3. t \in Seq(LogEvent)  BY <1>1, <1>2, SubSeqProperties
<1>4. Len(t) = IF 1 <= Len(s) THEN Len(s) - 1 + 1 ELSE 0
  BY <1>1, <1>2, SubSeqProperties
<1>5. \A i \in 1..Len(s) - 1 + 1 : t[i] = u[1 + i - 1]
  BY <1>1, <1>2, SubSeqProperties
<1>6. s = t
  <2> HIDE DEF t
  <2>1. Len(t) = Len(s)  BY <1>1, <1>4
  <2>2. \A i \in 1..Len(s) : s[i] = t[i]  BY <1>1, <1>5
  <2> QED BY <1>3, <2>1, <2>2, SeqEqual
<1> QED BY <1>1, <1>6 DEF Replica!IsPrefix

\* The log and the copy of AIOps are an append-only log and a prefix of it: only
\* append_event writes the one, only an ingest the other.
THEOREM DeliveryImplementsReplica == DeliverySpec => ImplementsReplica
<1>1. DeliveryInit => Replica!Init
  BY DEF DeliveryInit, Replica!Init
<1>2. ASSUME LogInv, LogInv', [DeliveryNext]_deliveryVars
      PROVE [Replica!Next]_<<log, copy>>
  <2> USE DEF logVars, remoteVars
  <2>0. /\ log \in Seq(LogEvent) /\ copy \in Seq(LogEvent)
        /\ log' \in Seq(LogEvent) /\ copy' \in Seq(LogEvent)
        /\ Len(log) \in Nat /\ Len(copy) \in Nat
    BY <1>2 DEF LogInv, DeliveryTypeOK, LogType, RemoteType
  <2>1. ASSUME NEW t \in Threads, AppendLine(t) PROVE Replica!Write
    <3>1. copy' = copy /\ log' = Append(log, Event(NextNumber, appends))
      BY <2>1 DEF AppendLine
    <3>2. Len(log') = Len(log) + 1 /\ \A n \in 1..Len(log) : log[n] = log'[n]
      BY <2>0, <3>1
    <3>3. Replica!IsPrefix(log, log') /\ log # log'
      BY <2>0, <3>2, PrefixByElements
    <3> QED BY <3>1, <3>3 DEF Replica!Write
  <2>2. ASSUME log' = log, Len(copy) <= Len(copy'), Len(copy') <= Len(log),
               \A n \in 1..Len(copy') : copy'[n] = log[n]
        PROVE  Replica!Copy
    <3>1. \A n \in 1..Len(copy) : copy[n] = copy'[n]
      <4>1. \A n \in 1..Len(copy) : copy[n] = log[n]  BY <1>2 DEF LogInv, CopyKnows
      <4>2. Len(copy') \in Nat  BY <2>0
      <4> QED BY <2>0, <2>2, <4>1, <4>2
    <3> QED BY <2>0, <2>2, <3>1, PrefixByElements DEF Replica!Copy
  <2>3. ASSUME NEW t \in Threads, Answer(t) PROVE Replica!Copy
    <3>1. AnswerEffect(t)  BY <1>2, <2>3, AnswerDoes
    <3> QED BY <2>2, <3>1 DEF AnswerEffect
  <2>4. CASE ReceiveLate
    <3>1. ReceiveLateEffect  BY <1>2, <2>4, ReceiveLateDoes
    <3> QED BY <2>2, <3>1 DEF ReceiveLateEffect, Replica!Next
  <2>5. CASE UNCHANGED deliveryVars  BY <2>5 DEF deliveryVars
  <2>6. ASSUME NEW t \in Threads,
               AppendBegin(t) \/ AppendCount(t) \/ AppendRaises(t) \/ GiveUp(t)
        PROVE  UNCHANGED <<log, copy>>
    BY <2>6 DEF AppendBegin, AppendCount, AppendRaises, GiveUp
  <2>7. ASSUME NEW t \in Threads, DeliverStep(t) PROVE UNCHANGED <<log, copy>>
    <3>1. CASE Load(t) \/ ProposalReturns(t) \/ ReadEvents(t) \/ SendBatch(t)
      BY <3>1 DEF Load, ProposalReturns, ReadEvents, SendBatch
    <3>2. CASE BatchReturns(t) \/ BatchesDone(t) \/ SendTerminal(t) \/ TerminalReturns(t)
      BY <3>2 DEF BatchReturns, BatchesDone, SendTerminal, TerminalReturns
    <3> QED BY <2>7, <3>1, <3>2 DEF DeliverStep
  <2>8. CASE \/ Create \/ BindProposal \/ Settle \/ Reconcile \/ Die \/ RecoverMark
             \/ \E r \in Runs : Approve(r) \/ Resume(r) \/ EndExecution(r)
    BY <2>8 DEF Create, BindProposal, Settle, Approve, Resume, EndExecution, Reconcile,
       Die, RecoverMark
  <2> QED
    BY <1>2, <2>1, <2>3, <2>4, <2>5, <2>6, <2>7, <2>8
       DEF DeliveryNext, AppendStep, Replica!Next
<1> QED BY <1>1, <1>2, LogInvariant, PTL
  DEF DeliverySpec, ImplementsReplica, Replica!Spec

-----------------------------------------------------------------------------
(* The theorem about an inspection batch.                                  *)

\* The steps of one post.
LEMMA PostStepKeeps ==
  ASSUME PostInv, NEW p \in Posters, PostStep(p) PROVE PostInv'
<1> USE InspectionDeliveryAssumption DEF Posters
<1>0. PostsTypeOK /\ PostsKnow /\ EndIsCarried  BY DEF PostInv
<1>1. CASE Attempt(p)
  <2>1. /\ UNCHANGED <<revision, ended, owed, carried, restarts, dropped>>
        /\ reached' \in Nat /\ reached <= reached' /\ reached' <= revision
        /\ refused' \in Nat /\ refused <= refused' /\ refused' <= revision
    BY <1>0, <1>1 DEF Attempt, PostsTypeOK, PostsKnow, Higher
  <2>2. PICK o \in {"ok", "retriable", "rejected"} :
          /\ outcome' = [outcome EXCEPT ![p] = o]
          /\ o = "ok" => carried[p].revision <= reached'
          /\ o = "rejected" => carried[p].revision <= refused'
    BY <1>0, <1>1 DEF Attempt, PostsTypeOK, PostsKnow, Higher
  <2>3. PostsTypeOK'  BY <1>0, <2>1, <2>2 DEF PostsTypeOK
  <2>4. PostsKnow'
    <3>1. ~Idle(p)  BY <1>1 DEF Attempt
    <3>2. \A q \in Posters : carried[q].revision \in Nat
      BY <1>0 DEF PostsTypeOK
    <3> QED BY <1>0, <2>1, <2>2, <3>1, <3>2 DEF PostsTypeOK, PostsKnow, Idle
  <2>5. EndIsCarried'
    BY <1>0, <2>1 DEF PostsTypeOK, EndIsCarried
  <2> QED BY <2>3, <2>4, <2>5 DEF PostInv
<1>2. CASE AttemptAgain(p)
  <2>0. carried[p] \in [revision : Nat, attempts : Nat]  BY <1>0 DEF PostsTypeOK
  <2> DEFINE n == carried[p].attempts + 1
             c == [carried[p] EXCEPT !.attempts = n]
  <2>1. /\ c \in [revision : Nat, attempts : Nat] /\ c.revision = carried[p].revision
        /\ c # Nothing
    BY <2>0 DEF Nothing
  <2>2. /\ carried' = [carried EXCEPT ![p] = c] /\ outcome' = [outcome EXCEPT ![p] = "none"]
        /\ UNCHANGED <<revision, ended, owed, reached, refused, restarts, dropped>>
    BY <1>0, <1>2 DEF AttemptAgain, PostsTypeOK
  <2> HIDE DEF c
  <2>3. PostsTypeOK'  BY <1>0, <2>1, <2>2 DEF PostsTypeOK
  <2>4. PostsKnow'  BY <1>0, <2>1, <2>2 DEF PostsTypeOK, PostsKnow, Idle
  <2>5. EndIsCarried'  BY <1>0, <2>1, <2>2 DEF PostsTypeOK, EndIsCarried
  <2> QED BY <2>3, <2>4, <2>5 DEF PostInv
<1>3. CASE RecordOutcome(p)
  <2>0. Nothing \in [revision : Nat, attempts : Nat] /\ Nothing.revision = 0
    BY DEF Nothing
  <2>1. /\ carried' = [carried EXCEPT ![p] = Nothing]
        /\ outcome' = [outcome EXCEPT ![p] = "none"]
        /\ UNCHANGED <<revision, ended, reached, refused, restarts, dropped>>
    BY <1>3 DEF RecordOutcome, PutDown
  <2>2. /\ carried[p].revision # revision => owed' = owed
        /\ carried[p].revision = revision =>
             \/ owed' = "RETRY_PENDING"
             \/ owed' = "none" /\ reached >= revision
             \/ owed' = "FAILED" /\ refused >= revision
    BY <1>0, <1>3 DEF RecordOutcome, IsLatest, PostsTypeOK, PostsKnow
  <2>3. PostsTypeOK'  BY <1>0, <2>0, <2>1, <2>2 DEF PostsTypeOK
  <2>4. PostsKnow'  BY <1>0, <2>0, <2>1 DEF PostsTypeOK, PostsKnow, Idle
  <2>5. EndIsCarried'
    BY <1>0, <2>0, <2>1, <2>2 DEF PostsTypeOK, PostsKnow, EndIsCarried
  <2> QED BY <2>3, <2>4, <2>5 DEF PostInv
<1> QED BY <1>1, <1>2, <1>3 DEF PostStep

\* The batch changes, what is owed is posted again, the runner restarts.
LEMMA BatchStepKeeps ==
  ASSUME PostInv, (\E a \in Authors : ChangeBatch(a)) \/ ReplayDue \/ RestartRunner
  PROVE  PostInv'
<1> USE InspectionDeliveryAssumption DEF Posters
<1>0. PostsTypeOK /\ PostsKnow /\ EndIsCarried  BY DEF PostInv
<1>1. ASSUME NEW a \in Authors, ChangeBatch(a) PROVE PostInv'
  <2> DEFINE c == [revision |-> revision + 1, attempts |-> 1]
  <2>1. /\ c \in [revision : Nat, attempts : Nat] /\ c.revision = revision + 1 /\ c # Nothing
    BY <1>0 DEF PostsTypeOK, Nothing
  <2>2. /\ revision' = revision + 1 /\ ended' \in {ended, TRUE}
        /\ carried' = [carried EXCEPT ![a] = c]
        /\ outcome' = [outcome EXCEPT ![a] = "none"]
        /\ UNCHANGED <<owed, reached, refused, restarts, dropped>>
    BY <1>1 DEF ChangeBatch, Carry
  <2> HIDE DEF c
  <2>6. ended' \in BOOLEAN
    <3>1. ended \in BOOLEAN  BY <1>0 DEF PostsTypeOK
    <3> QED BY <2>2, <3>1, Zenon
  <2>3. PostsTypeOK'  BY <1>0, <2>1, <2>2, <2>6 DEF PostsTypeOK
  <2>4. PostsKnow'  BY <1>0, <2>1, <2>2 DEF PostsTypeOK, PostsKnow, Idle
  <2>5. EndIsCarried'  BY <1>0, <2>1, <2>2 DEF PostsTypeOK, EndIsCarried
  <2> QED BY <2>3, <2>4, <2>5 DEF PostInv
<1>2. CASE ReplayDue
  <2> DEFINE c == [revision |-> revision, attempts |-> 1]
  <2>1. /\ c \in [revision : Nat, attempts : Nat] /\ c.revision = revision /\ c # Nothing
    BY <1>0 DEF PostsTypeOK, Nothing
  <2>2. /\ carried' = [carried EXCEPT ![Replayer] = c]
        /\ outcome' = [outcome EXCEPT ![Replayer] = "none"]
        /\ UNCHANGED <<revision, ended, owed, reached, refused, restarts, dropped>>
    BY <1>2 DEF ReplayDue, Carry
  <2> HIDE DEF c
  <2>3. PostsTypeOK'  BY <1>0, <2>1, <2>2 DEF PostsTypeOK
  <2>4. PostsKnow'  BY <1>0, <2>1, <2>2 DEF PostsTypeOK, PostsKnow, Idle
  <2>5. EndIsCarried'  BY <1>0, <2>1, <2>2 DEF PostsTypeOK, EndIsCarried
  <2> QED BY <2>3, <2>4, <2>5 DEF PostInv
<1>3. CASE RestartRunner
  <2>0. Nothing \in [revision : Nat, attempts : Nat] /\ Nothing.revision = 0
    BY DEF Nothing
  <2>1. /\ carried' = [p \in Posters |-> Nothing] /\ outcome' = [p \in Posters |-> "none"]
        /\ UNCHANGED <<revision, ended, owed, reached, refused>>
        /\ restarts' = restarts + 1
        /\ dropped' = (dropped \/ (ended /\ \E p \in Authors : ~Idle(p)))
    BY <1>3 DEF RestartRunner
  <2>2. dropped' \in BOOLEAN  BY <2>1
  <2>3. PostsTypeOK'  BY <1>0, <2>0, <2>1, <2>2 DEF PostsTypeOK
  <2>4. PostsKnow'  BY <1>0, <2>0, <2>1 DEF PostsTypeOK, PostsKnow, Idle
  <2>5. EndIsCarried'
    <3> SUFFICES ASSUME ended, ~dropped, \A a \in Authors : Idle(a)

                 PROVE  reached = revision \/ refused = revision \/ owed = "RETRY_PENDING"
      BY <2>1 DEF EndIsCarried
    <3>1. \A a \in Authors : carried[a].revision # revision
      BY <1>0, <2>0 DEF Idle, PostsTypeOK
    <3> QED BY <1>0, <3>1 DEF EndIsCarried
  <2> QED BY <2>3, <2>4, <2>5 DEF PostInv
<1> QED BY <1>1, <1>2, <1>3

\* The end of an inspection batch is never silently forgotten (store.update,
\* _record_callback_failure, replay_due_callbacks), but by a restart in the middle
\* of its first post.
THEOREM EndIsNeverForgotten == InspectionDeliverySpec => []EndIsOwed
<1>1. InspectionDeliveryInit => PostInv
  <2> SUFFICES ASSUME InspectionDeliveryInit PROVE PostInv  OBVIOUS
  <2>0. Nothing \in [revision : Nat, attempts : Nat] /\ Nothing.revision = 0
    BY DEF Nothing
  <2>1. ended \in BOOLEAN /\ dropped \in BOOLEAN /\ ~ended
    BY Zenon DEF InspectionDeliveryInit
  <2>2. PostsTypeOK  BY <2>0, <2>1 DEF InspectionDeliveryInit, PostsTypeOK
  <2>3. PostsKnow  BY <2>0 DEF InspectionDeliveryInit, PostsKnow
  <2> QED BY <2>1, <2>2, <2>3 DEF PostInv, EndIsCarried
<1>2. PostInv /\ [InspectionDeliveryNext]_inspectionDeliveryVars => PostInv'
  <2>1. ASSUME PostInv, InspectionDeliveryNext PROVE PostInv'
    BY <2>1, PostStepKeeps, BatchStepKeeps DEF InspectionDeliveryNext
  <2>2. ASSUME PostInv, UNCHANGED inspectionDeliveryVars PROVE PostInv'
    BY <2>2
    DEF inspectionDeliveryVars, PostInv, PostsTypeOK, PostsKnow, EndIsCarried, Idle
  <2> QED BY <2>1, <2>2
<1>3. PostInv => EndIsOwed
  <2> SUFFICES ASSUME PostInv, ended, ~dropped, \A p \in Posters : Idle(p)

               PROVE  reached = revision \/ refused = revision \/ owed = "RETRY_PENDING"
    BY DEF EndIsOwed
  <2>1. \A a \in Authors : carried[a].revision # revision
    BY DEF Idle, Nothing, PostInv, PostsTypeOK, Posters
  <2> QED BY <2>1 DEF PostInv, EndIsCarried
<1> QED BY <1>1, <1>2, <1>3, PTL DEF InspectionDeliverySpec
=============================================================================

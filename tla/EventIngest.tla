---------------------------- MODULE EventIngest ----------------------------
(***************************************************************************)
(* How a batch of execution events is judged against the events accepted   *)
(* before it: validate_event_batch_semantics and decide_event_ingest       *)
(* (trusted_repair_contract.py), the rules both repositories share.        *)
(*                                                                         *)
(* An event is its sequence number and its id; two events with the same id *)
(* and number have the same content and fingerprint, as an id is drawn     *)
(* once.  The two indexes of the accepted history are the sequence itself. *)
(***************************************************************************)
EXTENDS Naturals, Sequences

Event(n, id) == [sequence |-> n, id |-> id]

\* Strictly contiguous from its first sequence, and no id twice.
BatchWellFormed(batch) ==
  /\ batch # <<>>
  /\ \A i \in 1..Len(batch) :
       /\ batch[i].sequence = batch[1].sequence + i - 1
       /\ \A j \in 1..Len(batch) : batch[i].id = batch[j].id => i = j

Known(history, e) == \E i \in 1..Len(history) : history[i] = e
IdTaken(history, e) == \E i \in 1..Len(history) : history[i].id = e.id

\* How many events of the batch are a replay of the history.
Replayed(history, batch) ==
  LET known == {i \in 1..Len(batch) : Known(history, batch[i])}
  IN IF known = {} THEN 0 ELSE CHOOSE k \in known : \A i \in known : i <= k

\* After the replayed prefix every event extends the accepted sequence by one.
ExtendsHistoryLoosely(history, batch) ==  \* mutant: a gap is accepted
  LET k == Replayed(history, batch)
  IN /\ \A i \in 1..k : Known(history, batch[i])
     /\ \A i \in k + 1..Len(batch) :
          batch[i].sequence > Len(history) /\ ~IdTaken(history, batch[i])
ExtendsHistory(history, batch) ==
  LET k == Replayed(history, batch)
  IN /\ \A i \in 1..k : Known(history, batch[i])
     /\ \A i \in k + 1..Len(batch) :
          /\ batch[i].sequence = Len(history) + i - k
          /\ ~IdTaken(history, batch[i])

\* EventIngestDecision, or the error code of the refusal.
decide_event_ingest(history, batch) ==
  IF ~BatchWellFormed(batch) \/ ~ExtendsHistory(history, batch) THEN "conflict"
  ELSE IF Replayed(history, batch) = Len(batch) THEN "idempotent"
  ELSE "new"

\* The history after the batch: all of it or nothing is inserted.
Ingest(history, batch) ==
  IF decide_event_ingest(history, batch) = "conflict" THEN history
  ELSE history \o SubSeq(batch, Replayed(history, batch) + 1, Len(batch))
=============================================================================

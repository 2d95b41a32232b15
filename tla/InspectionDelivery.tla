------------------------- MODULE InspectionDelivery -------------------------
(***************************************************************************)
(* How AIOps hears of one inspection batch (inspection.py): every change   *)
(* of the batch file is a new revision, whose snapshot its author posts.   *)
(* Several authors post at once, a post is tried a few times, and what a   *)
(* post has come to is written into the batch file: a failure that may     *)
(* pass is retried by the replay thread once the batch has ended.          *)
(***************************************************************************)
EXTENDS Naturals

CONSTANTS
  Authors,      \* the worker and batch threads that change the batch
  Replayer,     \* the replay thread
  MaxRevision,  \* bound: changes of the batch
  MaxAttempts,  \* attempts of one post (3 in the code)
  MaxRestarts   \* bound: restarts of the runner

ASSUME InspectionDeliveryAssumption ==
  /\ Replayer \notin Authors
  /\ MaxRevision \in Nat /\ MaxAttempts \in Nat \ {0} /\ MaxRestarts \in Nat

Posters == Authors \cup {Replayer}

VARIABLES
  \* the batch file
  revision,   \* snapshot_revision
  ended,      \* the batch has a terminal status
  owed,       \* callback_delivery: "none", RETRY_PENDING or FAILED
  \* the posts
  carried,    \* the snapshot each thread is posting: its revision, 0 for none,
              \* and the attempts made
  outcome,    \* what the last attempt came to: "none" while it is under way,
              \* "ok", "retriable" or "rejected"
  \* AIOps
  reached,    \* the highest revision it received
  refused,    \* the highest revision it refused for good
  restarts,
  dropped     \* history: a restart cut off a post of the ended batch

inspectionDeliveryVars ==
  <<revision, ended, owed, carried, outcome, reached, refused, restarts, dropped>>

Nothing == [revision |-> 0, attempts |-> 0]

InspectionDeliveryInit ==
  /\ revision = 1 /\ ended = FALSE /\ owed = "none"
  /\ carried = [p \in Posters |-> Nothing]
  /\ outcome = [p \in Posters |-> "none"]
  /\ reached = 0 /\ refused = 0
  /\ restarts = 0 /\ dropped = FALSE

Idle(p) == carried[p] = Nothing
Carry(p, r) ==
  /\ carried' = [carried EXCEPT ![p] = [revision |-> r, attempts |-> 1]]
  /\ outcome' = [outcome EXCEPT ![p] = "none"]
PutDown(p) ==
  /\ carried' = [carried EXCEPT ![p] = Nothing]
  /\ outcome' = [outcome EXCEPT ![p] = "none"]

\* store.update: the batch changes, ends at most once, and may still change after
\* it was cancelled; what is owed stays in the file.  The author posts the result.
ChangeBatch(a) ==
  /\ Idle(a) /\ revision < MaxRevision
  /\ revision' = revision + 1
  /\ ended' \in {ended, TRUE}
  /\ Carry(a, revision')
  /\ UNCHANGED <<owed, reached, refused, restarts, dropped>>

\* replay_due_callbacks: a failure that may pass is posted again when it is due.
ReplayDue ==
  /\ Idle(Replayer) /\ ended /\ owed = "RETRY_PENDING"
  /\ Carry(Replayer, revision)
  /\ UNCHANGED <<revision, ended, owed, reached, refused, restarts, dropped>>

Higher(x, y) == IF x > y THEN x ELSE y

\* One attempt arrives, arrives without its answer, is lost, or is refused.
Attempt(p) ==
  /\ ~Idle(p) /\ outcome[p] = "none"
  /\ \/ /\ reached' = Higher(reached, carried[p].revision)
        /\ \E o \in {"ok", "retriable"} : outcome' = [outcome EXCEPT ![p] = o]
        /\ UNCHANGED refused
     \/ /\ outcome' = [outcome EXCEPT ![p] = "retriable"]
        /\ UNCHANGED <<reached, refused>>
     \/ /\ refused' = Higher(refused, carried[p].revision)
        /\ outcome' = [outcome EXCEPT ![p] = "rejected"]
        /\ UNCHANGED reached
  /\ UNCHANGED <<revision, ended, owed, carried, restarts, dropped>>

AttemptAgain(p) ==
  /\ outcome[p] = "retriable" /\ carried[p].attempts < MaxAttempts
  /\ carried' = [carried EXCEPT ![p].attempts = @ + 1]
  /\ outcome' = [outcome EXCEPT ![p] = "none"]
  /\ UNCHANGED <<revision, ended, owed, reached, refused, restarts, dropped>>

\* _clear_callback_failure and _record_callback_failure: a poster whose snapshot
\* is no longer the latest writes nothing.
AnySnapshot(p) == TRUE  \* mutant: the revision is not compared
IsLatest(p) == carried[p].revision = revision

RecordOutcome(p) ==
  /\ outcome[p] \in {"ok", "rejected"} \/ (outcome[p] = "retriable" /\ carried[p].attempts = MaxAttempts)
  /\ owed' = IF ~IsLatest(p) THEN owed
             ELSE CASE outcome[p] = "ok" -> "none"
                    [] outcome[p] = "retriable" -> "RETRY_PENDING"
                    [] OTHER -> "FAILED"
  /\ PutDown(p)
  /\ UNCHANGED <<revision, ended, reached, refused, restarts, dropped>>

\* A restart keeps the file and forgets the posts; a batch that had not ended is
\* run on, and posted again when it ends.
RestartRunner ==
  /\ restarts < MaxRestarts
  /\ restarts' = restarts + 1
  /\ dropped' = (dropped \/ (ended /\ \E p \in Authors : ~Idle(p)))
  /\ carried' = [p \in Posters |-> Nothing]
  /\ outcome' = [p \in Posters |-> "none"]
  /\ UNCHANGED <<revision, ended, owed, reached, refused>>

PostStep(p) == Attempt(p) \/ AttemptAgain(p) \/ RecordOutcome(p)
InspectionDeliveryNext ==
  \/ \E a \in Authors : ChangeBatch(a)
  \/ \E p \in Posters : PostStep(p)
  \/ ReplayDue \/ RestartRunner

InspectionDeliverySpec ==
  InspectionDeliveryInit /\ [][InspectionDeliveryNext]_inspectionDeliveryVars

\* The end of a batch is never silently forgotten: when nobody is posting it, it
\* has reached AIOps, or was refused there, or the file still says it is owed.
\* Only a restart in the middle of the first post may lose it: then no failure
\* was recorded, and the replay thread does not look for such a batch.
EndIsOwed ==
  ended /\ ~dropped /\ (\A p \in Posters : Idle(p)) =>
    reached = revision \/ refused = revision \/ owed = "RETRY_PENDING"

-----------------------------------------------------------------------------
(* Why it is not: an invariant that every step keeps.                      *)

PostsTypeOK ==
  /\ revision \in Nat \ {0} /\ ended \in BOOLEAN
  /\ owed \in {"none", "RETRY_PENDING", "FAILED"}
  /\ carried \in [Posters -> [revision : Nat, attempts : Nat]]
  /\ outcome \in [Posters -> {"none", "ok", "retriable", "rejected"}]
  /\ reached \in Nat /\ refused \in Nat /\ restarts \in Nat /\ dropped \in BOOLEAN

\* Nobody posts, and AIOps never sees, a revision there is not; and what a post has
\* come to, AIOps knows of.
PostsKnow ==
  /\ reached <= revision /\ refused <= revision
  /\ \A p \in Posters :
       /\ carried[p].revision <= revision
       /\ outcome[p] # "none" => ~Idle(p)
       /\ outcome[p] = "ok" => carried[p].revision <= reached
       /\ outcome[p] = "rejected" => carried[p].revision <= refused

\* Until the end has been posted or is owed, the author of the last change posts it:
\* the replay thread starts only from what is owed.
EndIsCarried ==
  ended /\ ~dropped =>
    \/ reached = revision \/ refused = revision \/ owed = "RETRY_PENDING"
    \/ \E a \in Authors : carried[a].revision = revision

PostInv == PostsTypeOK /\ PostsKnow /\ EndIsCarried
=============================================================================

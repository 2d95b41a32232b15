--------------------------- MODULE MCRunnerState ---------------------------
(***************************************************************************)
(* What the runner keeps beside its sessions, for TLC: the collection of a *)
(* cluster, a sync job, the files of the configuration wizard, a whole run *)
(* of the wizard, the parser of a session's output, and the identity of    *)
(* the runner.  They share nothing, so a behaviour explores one of them,   *)
(* chosen in its first state, and the others rest: the states are the sum  *)
(* of the parts and not their product.                                     *)
(***************************************************************************)
EXTENDS ClusterCollector, SyncJob, WizardRun, StreamParser, InstanceIdentity

CONSTANTS deploy, pod, created, replaced, deleted, web, db

MCOwner == [o \in {deploy, pod} |-> IF o = pod THEN {deploy} ELSE {}]
MCListedBefore == {<<pod, deploy>>}
MCFileOrder == <<created, replaced, deleted>>
MCKind == [p \in {created, replaced, deleted} |->
            CASE p = created -> "new" [] p = replaced -> "replace" [] OTHER -> "delete"]
MCHostOrder == <<web, db>>
MCOS == [h \in {web, db} |-> IF h = web THEN "linux" ELSE "windows"]

\* One of the targets has the runner's key already, with permissions of its own.
MCStarts ==
  {[h \in {web, db} |-> [key |-> IF h = had THEN "theirs" ELSE "absent",
                        mode |-> IF h = had THEN "own" ELSE "strict", edit |-> FALSE]] :
   had \in {web, db}}

VARIABLE part

MCInit ==
  /\ CollectorInit /\ SyncInit /\ WizardInit /\ StreamInit /\ IdentityInit
  /\ part \in {"cluster", "sync", "files", "wizard", "stream", "identity"}
  /\ cluster = [o \in Objects |-> IF part = "cluster" THEN "up" ELSE "absent"]
  /\ part # "wizard" => start = CHOOSE s \in Starts : TRUE
  /\ part # "stream" => phase = "executing"

\* A whole run is explored with one disturbance: a file touched by another program,
\* between two switches, or an edit on a target; the files on their own with as many
\* others as MaxOthers, at any time.
OneDisturbance ==
  /\ othersVars' # othersVars => pc = "switched"
  /\ Cardinality({p \in Files : other'[p] # "no"} \cup {h \in Hosts : edited'[h] # "no"}) <= 1

MCNext ==
  /\ \/ part = "cluster" /\ CollectorNext
        /\ UNCHANGED <<syncVars, runVars, streamVars, identityVars>>
     \/ part = "sync" /\ SyncNext
        /\ UNCHANGED <<collectorVars, runVars, streamVars, identityVars>>
     \/ part = "files" /\ TransactionNext
        /\ UNCHANGED <<targetVars, wizardVars, collectorVars, syncVars, streamVars, identityVars>>
     \/ part = "wizard" /\ WizardNext /\ OneDisturbance
        /\ UNCHANGED <<collectorVars, syncVars, streamVars, identityVars>>
     \/ part = "stream" /\ StreamNext
        /\ UNCHANGED <<collectorVars, syncVars, runVars, identityVars>>
     \/ part = "identity" /\ IdentityNext /\ drifts' + powers' <= 1
        /\ UNCHANGED <<collectorVars, syncVars, runVars, streamVars>>
  /\ UNCHANGED part

\* CollectorFairness, where there is something to collect: in the other parts the cluster
\* is empty, and so is the view of it.
MCFairness ==
  /\ WF_collectorVars(part = "cluster" /\ Rounds)
  /\ WF_collectorVars(part = "cluster" /\ Pulls)

MCSpec ==
  /\ MCInit
  /\ [][MCNext]_<<part, collectorVars, syncVars, runVars, streamVars, identityVars>>
  /\ MCFairness
=============================================================================

----------------------------- MODULE WizardRun -----------------------------
(***************************************************************************)
(* One run of scripts/configure_wizard.py from the prepared files on: the  *)
(* runner's public key is installed on every target, verified by a login,  *)
(* and then the local files are committed; on any failure the keys are     *)
(* rolled back.  The installation is a script on the target, a Linux or a  *)
(* Windows one, which goes on when the wizard has stopped waiting for it;  *)
(* an administrator may edit the same authorized_keys at any time.         *)
(***************************************************************************)
EXTENDS ConfigTransaction

CONSTANTS
  HostOrder,     \* pending_setups
  OS,            \* of each target: "linux" or "windows"
  Starts,        \* what the targets' authorized_keys may be at the start
  MaxEdits       \* bound: targets whose administrator edits the file

Hosts == {HostOrder[i] : i \in 1..Len(HostOrder)}

\* An authorized_keys file: the runner's key, "ours" if this run added it; its
\* permissions, the target's "own" or "strict"; and whether it has the
\* administrator's edit.  A file that does not exist is an empty one.
Contents ==
  [key : {"absent", "theirs", "ours"}, mode : {"own", "strict"}, edit : BOOLEAN]

ASSUME WizardRunAssumption ==
  /\ HostOrder \in Seq(Hosts) /\ Len(HostOrder) > 0
  /\ \A i, j \in 1..Len(HostOrder) : HostOrder[i] = HostOrder[j] => i = j
  /\ OS \in [Hosts -> {"linux", "windows"}] /\ MaxEdits \in Nat
  /\ \A start \in Starts : start \in [Hosts -> {c \in Contents : c.key # "ours" /\ ~c.edit}]

VARIABLES
  \* the targets
  start,      \* history: the files at the start
  keys,       \* the authorized_keys of each target
  script,     \* the installation: "no", "sent", "copied", "protected", "added",
              \* "done" or "failed"
  copy,       \* the copy it made of the file it found
  installed,  \* and the file as it left it, by its digest and permissions
  edited,     \* history: when the administrator edited the file, "no" if never
  \* the wizard
  main,       \* what it is doing
  host,       \* the target it is at, by number
  inflight,   \* remote_operation_inflight
  changes,    \* remote_changes: the targets whose file it has changed
  failures,   \* rollback_failures is not empty
  report      \* what it tells at the end

scriptVars == <<start, script, copy, installed>>
targetVars == <<scriptVars, keys, edited>>
reportVars == <<failures, report>>
wizardVars == <<main, host, inflight, changes, reportVars>>
runVars == <<transactionVars, targetVars, wizardVars>>

Host == HostOrder[host]
NoReport == [said |-> "nothing"]

WizardInit ==
  /\ TransactionInit
  /\ start \in Starts /\ keys = start /\ copy = start /\ installed = start
  /\ script = [h \in Hosts |-> "no"] /\ edited = [h \in Hosts |-> "no"]
  /\ main = "prepare" /\ host = 1 /\ inflight = FALSE /\ changes = {}
  /\ failures = FALSE /\ report = NoReport

Fail(kind) ==
  /\ raised' = kind /\ main' = "rollback" /\ host' = Len(HostOrder)
  /\ UNCHANGED <<fileVars, progressVars, workVars, changed, preserve, errors, committed, othersVars>>
-----------------------------------------------------------------------------
\* main: prepare, ask, and go on to the targets; the user may decline.
Prepares ==
  /\ main = "prepare" /\ PrepareStep
  /\ UNCHANGED <<targetVars, wizardVars>>

Confirms ==
  /\ main = "prepare" /\ pc = "ready"
  /\ main' = "connect"
  /\ UNCHANGED <<transactionVars, targetVars, host, inflight, changes, reportVars>>

\* _open_password_client: the target shows one of the host keys that were confirmed,
\* takes the password, and tells what system it is.
Connects ==
  /\ main = "connect"
  /\ main' = "send"
  /\ UNCHANGED <<transactionVars, targetVars, host, inflight, changes, reportVars>>

\* _install_remote_public_key: the operation is in flight from before the script
\* is sent.
SendsScript ==
  /\ main = "send"
  /\ inflight' = TRUE
  /\ script' = [script EXCEPT ![Host] = "sent"]
  /\ main' = "install"
  /\ UNCHANGED <<transactionVars, start, keys, copy, installed, edited, host, changes, reportVars>>

\* The script copies the file, sets its permissions, appends the key unless it is
\* there, and takes the digest of what it leaves.
ScriptGoes(h, from, to) ==
  /\ script[h] = from /\ script' = [script EXCEPT ![h] = to]
  /\ UNCHANGED <<transactionVars, wizardVars, start, edited>>

ScriptCopies(h) ==
  /\ ScriptGoes(h, "sent", "copied")
  /\ copy' = [copy EXCEPT ![h] = keys[h]]
  /\ UNCHANGED <<keys, installed>>

ScriptProtects(h) ==
  /\ ScriptGoes(h, "copied", "protected")
  /\ keys' = [keys EXCEPT ![h].mode = "strict"]
  /\ UNCHANGED <<copy, installed>>

ScriptAppends(h) ==
  /\ ScriptGoes(h, "protected", "added")
  /\ keys' = [keys EXCEPT ![h].key = IF @ = "absent" THEN "ours" ELSE @]
  /\ UNCHANGED <<copy, installed>>

ScriptEnds(h) ==
  /\ ScriptGoes(h, "added", "done")
  /\ installed' = [installed EXCEPT ![h] = keys[h]]
  /\ UNCHANGED <<keys, copy>>

\* A script that fails puts its copy back, if it can and has one.
ScriptFails(h) ==
  /\ \E from \in {"sent", "copied", "protected", "added"} : ScriptGoes(h, from, "failed")
  /\ keys' \in {keys} \cup
       IF script[h] = "sent" THEN {} ELSE {[keys EXCEPT ![h] = copy[h]]}
  /\ UNCHANGED <<copy, installed>>

Script(h) ==
  \/ ScriptCopies(h) \/ ScriptProtects(h) \/ ScriptAppends(h) \/ ScriptEnds(h) \/ ScriptFails(h)

\* _linux_install_script and _windows_install_script: a copy in a file beside it,
\* moved back, or the bytes in memory, written back; by these steps they are the same.
LinuxInstall(h) == OS[h] = "linux" /\ Script(h)
WindowsInstall(h) == OS[h] = "windows" /\ Script(h)

\* A key that was added is recorded, and permissions that were changed.
KeyAdded(h) == installed[h].key = "ours"
Recorded(h) ==
  IF KeyAdded(h) \/ installed[h].mode # copy[h].mode THEN changes \cup {h} ELSE changes

\* The change is recorded before the operation stops being in flight.
Returns ==
  /\ main = "install" /\ script[Host] = "done"
  /\ changes' = Recorded(Host) /\ inflight' = FALSE
  /\ main' = "verify"
  /\ UNCHANGED <<transactionVars, targetVars, host, reportVars>>
LinuxReturns == OS[Host] = "linux" /\ Returns
WindowsReturns == OS[Host] = "windows" /\ Returns

\* The script failed, or what it answers lacks a marker of success; or no answer
\* comes in time, while it goes on.  The operation stays in flight.
Unanswered ==
  /\ main = "install"
  /\ \E kind \in {"error", "interrupt"} : Trouble(kind) /\ Fail(kind)
  /\ UNCHANGED <<targetVars, inflight, changes, reportVars>>
RefusedAnswer == script[Host] = "failed" /\ Unanswered
NoAnswer == script[Host] # "failed" /\ Unanswered

\* _verify_ssh_target: a login with the candidate key.
Verifies ==
  /\ main = "verify" /\ keys[Host].key # "absent"
  /\ IF host < Len(HostOrder) THEN main' = "connect" /\ host' = host + 1
     ELSE main' = "commit" /\ host' = host
  /\ UNCHANGED <<transactionVars, targetVars, inflight, changes, reportVars>>

\* Between the last target and the commit, and within it.
Commits ==
  /\ main = "commit" /\ (StartCommit \/ CommitStep \/ RestoreStep)
  /\ UNCHANGED <<targetVars, wizardVars>>

Raises ==
  \E kind \in {"error", "interrupt"} :
    \/ /\ main \in {"prepare", "commit"} /\ StepFails
       /\ UNCHANGED <<targetVars, wizardVars>>
    \/ /\ Trouble(kind)
       /\ main \in {"connect", "send", "verify"} \/ (main \in {"prepare", "commit"} /\ pc = "ready")
       /\ Fail(kind)
       /\ UNCHANGED <<targetVars, inflight, changes, reportVars>>

\* What the transaction raised reaches main.
Caught ==
  /\ main \in {"prepare", "commit"} /\ pc = "raised"
  /\ main' = "rollback" /\ host' = Len(HostOrder)
  /\ UNCHANGED <<transactionVars, targetVars, inflight, changes, reportVars>>
-----------------------------------------------------------------------------
\* _rollback_remote_changes, in reverse order.
RollbackNext == IF host > 1 THEN main' = "rollback" /\ host' = host - 1 ELSE main' = "cleanup" /\ host' = host

Rolling == {"rollback", "filter", "switch", "restore"}
RollbackSkips ==
  /\ main = "rollback" /\ Host \notin changes
  /\ RollbackNext
  /\ UNCHANGED <<transactionVars, targetVars, inflight, changes, reportVars>>

InstalledOrNot(h) == TRUE  \* mutant of AsInstalled: the digest is not compared

\* The file must be as the installation left it.
AsInstalled(h) == keys[h] = installed[h]

Looks(os, from, to) ==
  /\ main = from /\ Host \in changes /\ OS[Host] = os /\ AsInstalled(Host)
  /\ main' = to
  /\ UNCHANGED <<transactionVars, targetVars, host, inflight, changes, reportVars>>

\* _linux_rollback_script looks, filters the key's line into a candidate and looks
\* again; _windows_rollback_script looks once.
LinuxLooks == Looks("linux", "rollback", "filter")
LinuxLooksAgain == Looks("linux", "filter", "switch")
WindowsLooks == Looks("windows", "rollback", "restore")

\* If the key was added, Linux moves the candidate over the file, and Windows writes
\* back the bytes its installation began with; the permissions are set back.
LinuxRolledBack(h) ==
  [IF KeyAdded(h) THEN [installed[h] EXCEPT !.key = "absent"] ELSE keys[h] EXCEPT !.mode = copy[h].mode]
WindowsRolledBack(h) ==
  IF KeyAdded(h) THEN copy[h] ELSE [keys[h] EXCEPT !.mode = copy[h].mode]

RollsBack(from, content) ==
  /\ main = from
  /\ keys' = [keys EXCEPT ![Host] = content]
  /\ RollbackNext
  /\ UNCHANGED <<transactionVars, scriptVars, edited, inflight, changes, reportVars>>
LinuxSwitches == RollsBack("switch", LinuxRolledBack(Host))
WindowsRestores == RollsBack("restore", WindowsRolledBack(Host))

\* A target that cannot be reached, has been edited, or does not answer in time is
\* a failure, whatever its script has done by then; so is an interrupt, which
\* between two targets ends the rollback.
LinuxMayLeave(h) == {keys[h], LinuxRolledBack(h), installed[h]}
WindowsMayLeave(h) == {keys[h], WindowsRolledBack(h)}
RollbackFails ==
  /\ main \in Rolling /\ Host \in changes
  /\ failures' = TRUE
  /\ \E content \in CASE main = "switch" -> LinuxMayLeave(Host)
                      [] main = "restore" -> WindowsMayLeave(Host)
                      [] OTHER -> {keys[Host]} :
       keys' = [keys EXCEPT ![Host] = content]
  /\ \/ RollbackNext /\ UNCHANGED interrupts
     \/ Trouble("interrupt") /\ (RollbackNext \/ (main' = "cleanup" /\ host' = host))
  /\ UNCHANGED <<fileVars, progressVars, workVars, changed, outcomeVars, othersVars,
                 scriptVars, edited, inflight, changes, report>>

\* What there is to tell: whether candidates or copies are left behind, and of a run
\* that was not committed, whether the keys and the files are as they were.
Told(left) ==
  IF committed THEN [said |-> "committed", left |-> left]
  ELSE [said |-> "not committed",
        left |-> IF preserve /\ raised = "error" THEN "something" ELSE left,
        keys |-> IF failures \/ inflight THEN "uncertain" ELSE "rolled back",
        files |-> IF preserve /\ raised = "error" THEN "uncertain" ELSE "untouched"]

\* _rollback_and_cleanup ends with the work directory, as the commit does; when it
\* cannot be removed (cleanup_error), or is kept on purpose, main says so.
RunCleanup ==
  /\ main = "cleanup" \/ (main = "commit" /\ pc = "committed")
  /\ pc' = "closed"
  /\ \E left \in IF preserve THEN {"nothing"} ELSE {"nothing", "something"} :
       /\ IF preserve \/ left = "something" THEN UNCHANGED workVars
          ELSE prepared' = {} /\ backup' = [p \in Files |-> "none"]
       /\ report' = Told(left)
  /\ main' = "exit"
  /\ UNCHANGED <<fileVars, at, changed, outcomeVars, othersVars, interrupts,
                 targetVars, host, inflight, changes, failures>>

\* An administrator edits a target's authorized_keys: before its installation has
\* copied it, during it, after it, or "blind", between a rollback's last look and
\* its change.
Edit(h) ==
  /\ main # "exit" /\ edited[h] = "no"
  /\ Cardinality({g \in Hosts : edited[g] # "no"}) < MaxEdits
  /\ keys' = [keys EXCEPT ![h].edit = TRUE]
  /\ edited' = [edited EXCEPT ![h] =
       CASE main \in {"switch", "restore"} /\ Host = h -> "blind"
         [] script[h] \in {"no", "sent"} -> "before"
         [] script[h] \in {"copied", "protected", "added"} -> "during"
         [] OTHER -> "after"]
  /\ UNCHANGED <<transactionVars, scriptVars, wizardVars>>

Others ==
  /\ OthersStep
  /\ UNCHANGED <<targetVars, wizardVars>>

InstallStep ==
  \/ Connects \/ SendsScript \/ LinuxReturns \/ WindowsReturns \/ RefusedAnswer \/ NoAnswer
  \/ Verifies
RollbackStep ==
  \/ RollbackSkips \/ RollbackFails
  \/ LinuxLooks \/ LinuxLooksAgain \/ LinuxSwitches
  \/ WindowsLooks \/ WindowsRestores
TargetStep == \E h \in Hosts : LinuxInstall(h) \/ WindowsInstall(h) \/ Edit(h)
WizardNext ==
  \/ Prepares \/ Confirms \/ InstallStep \/ Commits \/ Raises \/ Caught
  \/ RollbackStep \/ RunCleanup \/ TargetStep \/ Others
WizardSpec == WizardInit /\ [][WizardNext]_runVars
-----------------------------------------------------------------------------
WizardTypeOK ==
  /\ main \in {"prepare", "connect", "send", "install", "verify", "commit", "rollback", "filter",
               "switch", "restore", "cleanup", "exit"}
  /\ host \in 1..Len(HostOrder) /\ changes \subseteq Hosts
  /\ inflight \in BOOLEAN /\ failures \in BOOLEAN
  /\ start \in Starts
  /\ keys \in [Hosts -> Contents] /\ copy \in [Hosts -> Contents] /\ installed \in [Hosts -> Contents]
  /\ script \in [Hosts -> {"no", "sent", "copied", "protected", "added", "done", "failed"}]
  /\ edited \in [Hosts -> {"no", "before", "during", "after", "blind"}]

\* What the run tells the user is true.  It has committed only what every target
\* lets it use; when it says the keys are rolled back, every target has the key and
\* the permissions it had at the start; when it says the files are untouched, they
\* are; and when it says nothing of what it leaves behind, no candidate and no copy
\* of a file is left.  (Not so when the restoration itself was interrupted: the
\* recovery material is kept, but the run is reported as an ordinary cancellation.)
Emptied == prepared = {} /\ \A p \in Files : backup[p] = "none"
ReportIsTrue ==
  main = "exit" =>
    /\ report.said = "committed" => committed /\ \A h \in Hosts : keys[h].key # "absent"
    /\ report.said = "not committed" =>
         /\ report.keys = "rolled back" =>
              \A h \in Hosts : keys[h].key = start[h].key /\ keys[h].mode = start[h].mode
         /\ report.files = "untouched" /\ ~preserve =>
              \A p \in Files : other[p] = "no" => Unchanged(p)
    /\ report.left = "nothing" => Emptied \/ (preserve /\ raised = "interrupt")

\* An administrator's edit is lost only where the scripts cannot see it: between the
\* last look and the change of a rollback, or when it was made during an
\* installation that failed or, on Windows, was rolled back from the bytes it began with.
EditsKept ==
  \A h \in Hosts : edited[h] # "no" /\ ~keys[h].edit =>
    \/ edited[h] = "blind"
    \/ edited[h] = "during" /\ (script[h] = "failed" \/ OS[h] = "windows")

\* Why these hold.  The wizard and the transaction go together; no script is under way
\* unless the operation is in flight; and a rollback changes a file that it has just
\* found as it was installed.
MainKnows ==
  /\ main = "prepare" => host = 1
  /\ main \in {"connect", "send", "install", "verify"} => pc = "ready"
  /\ main = "commit" => pc \notin {"staged", "baselines", "backups", "closed"}
  /\ main \in Rolling \cup {"cleanup"} => pc \in {"ready", "raised"}
  /\ main = "exit" =>
       /\ pc = "closed"
       /\ report = Told("something") \/ (report = Told("nothing") /\ (preserve \/ Emptied))
  /\ main \in {"prepare", "connect", "send", "verify", "commit"} \/ committed => ~inflight
  /\ main = "install" => inflight
  /\ main \in {"filter", "switch"} => Host \in changes /\ OS[Host] = "linux"
  /\ main = "restore" => Host \in changes /\ OS[Host] = "windows"
  /\ main \in {"switch", "restore"} => keys[Host] = installed[Host] \/ edited[Host] = "blind"

\* The wizard goes through the targets in order, and has recorded what changed.
Same(one, two) == one.key = two.key /\ one.mode = two.mode
ScriptFits(i) ==
  LET h == HostOrder[i] IN
  /\ main = "prepare" => script[h] = "no"
  /\ main \in {"connect", "send"} => script[h] = IF i < host THEN "done" ELSE "no"
  /\ main = "install" =>
       script[h] \in CASE i < host -> {"done"} [] i > host -> {"no"}
                      [] OTHER -> {"sent", "copied", "protected", "added", "done", "failed"}
  /\ main = "verify" => script[h] = IF i <= host THEN "done" ELSE "no"
  /\ main = "commit" \/ (main = "exit" /\ committed) => script[h] = "done"
  /\ ~inflight => script[h] \in {"no", "done"}
  /\ h \in changes => script[h] = "done"
  /\ script[h] = "done" /\ (~inflight \/ (main = "install" /\ i # host)) =>
       h \in changes \/ Same(installed[h], copy[h])

\* A target that is as its installation left it, and one that has been rolled back.
Standing(i) ==
  \/ main \in {"prepare", "connect", "send", "install", "verify", "commit"}
  \/ main \in Rolling /\ i <= host
  \/ main = "exit" /\ committed
RolledBack(i) ==
  /\ ~failures /\ ~inflight
  /\ (main \in Rolling /\ i > host) \/ main = "cleanup" \/ (main = "exit" /\ ~committed)
KeysFit(i) ==
  LET h == HostOrder[i] IN
  /\ script[h] \in {"no", "sent", "copied"} => Same(keys[h], start[h])
  /\ script[h] \in {"copied", "protected", "added", "done"} => Same(copy[h], start[h])
  /\ script[h] = "protected" => keys[h].key = start[h].key
  /\ script[h] = "added" =>
       keys[h].key = IF start[h].key = "absent" THEN "ours" ELSE start[h].key
  /\ script[h] = "done" =>
       installed[h].key = IF start[h].key = "absent" THEN "ours" ELSE start[h].key
  /\ script[h] = "done" /\ Standing(i) => Same(keys[h], installed[h])
  /\ RolledBack(i) => Same(keys[h], start[h])

\* Where an edit must be: in the file, and in the copy or in what was installed if it
\* was there first.
EditFits(i) ==
  LET h == HostOrder[i] IN
  /\ edited[h] = "no" => ~keys[h].edit /\ ~copy[h].edit /\ ~installed[h].edit
  /\ edited[h] = "before" =>
       /\ keys[h].edit
       /\ script[h] \in {"copied", "protected", "added", "done"} => copy[h].edit
  /\ edited[h] = "during" =>
       /\ script[h] \notin {"no", "sent"}
       /\ script[h] \in {"copied", "protected", "added"} => keys[h].edit
       /\ keys[h].edit \/ script[h] = "failed" \/ OS[h] = "windows"
  /\ edited[h] \in {"before", "during"} /\ script[h] = "done" => installed[h].edit
  /\ edited[h] = "after" =>
       keys[h].edit /\ ~installed[h].edit /\ script[h] \in {"done", "failed"}
  /\ edited[h] = "blind" => script[h] = "done"

RunInv ==
  /\ WizardTypeOK /\ ReportIsTrue /\ EditsKept
  /\ MainKnows /\ \A i \in 1..Len(HostOrder) : ScriptFits(i) /\ KeysFit(i) /\ EditFits(i)
=============================================================================

-------------------------- MODULE InstanceIdentity --------------------------
(***************************************************************************)
(* The identity under which AIOps knows a runner (instance_identity.py,    *)
(* and the startup of server.py): installers create its file once, runner  *)
(* processes start with what is in it, and one of them at a time may serve *)
(* and recover the sessions of another.  Processes may be killed, the      *)
(* power may fail, and an administrator may remove the file or restore an  *)
(* older one.                                                              *)
(***************************************************************************)
EXTENDS Naturals, FiniteSets

CONSTANTS
  Installers,   \* processes that run "instance_identity init"
  Services,     \* runner processes, of one state directory
  MaxPower,     \* bound: power failures
  MaxDrifts     \* bound: what the administrator does to the file

\* An installer would name the runner by itself; the file of the administrator has a
\* name of its own, and so has one with no content and none.
Admin == "admin"
Nobody == "nobody"
NoIdentity == [id |-> "none", inode |-> 0]
ASSUME InstanceIdentityAssumption ==
  /\ MaxPower \in Nat /\ MaxDrifts \in Nat
  /\ {Admin, "none", "empty"} \cap Installers = {}
  /\ Nobody \notin Installers \cup Services /\ Installers \cap Services = {}

VARIABLES
  identity,   \* the identity file: its content and its inode
  disk,       \* what a power failure may leave of it
  initLock,   \* runner-instance.init.lock
  serveLock,  \* runner-instance.lock
  installer,  \* where each installer is
  service,    \* where each runner process is
  snapshot,   \* the file each runner process has started with
  told,       \* history: the identities anyone has been told
  early,      \* history: one was told before its file was sure to stay
  restored,   \* history: the administrator's file is in place
  drifts, powers

fileOfIdentity == <<identity, disk>>
locksOfIdentity == <<initLock, serveLock>>
toldVars == <<told, early>>
identityVars ==
  <<fileOfIdentity, locksOfIdentity, installer, service, snapshot, toldVars, restored, drifts, powers>>

Inodes == {1, 2}
Valid == identity.id \in Installers \cup {Admin}
Serving == {s \in Services : service[s] \in {"recovering", "serving"}}

IdentityInit ==
  /\ identity = NoIdentity /\ disk = {NoIdentity}
  /\ initLock = Nobody /\ serveLock = Nobody
  /\ installer = [i \in Installers |-> "start"]
  /\ service = [s \in Services |-> "down"] /\ snapshot = [s \in Services |-> NoIdentity]
  /\ told = {} /\ early = FALSE /\ restored = FALSE
  /\ drifts = 0 /\ powers = 0

Tell(id) == told' = told \cup {id} /\ early' = (early \/ disk # {identity})
-----------------------------------------------------------------------------
\* init_identity: all under the lock, which waits.
InstallerStep(i, from, to) ==
  /\ installer[i] = from
  /\ installer' = [installer EXCEPT ![i] = to]
  /\ initLock' = IF to \in {"done", "failed"} THEN Nobody ELSE i
  /\ UNCHANGED <<serveLock, service, snapshot, restored, drifts, powers>>

InitLocks(i) ==
  /\ initLock = Nobody /\ InstallerStep(i, "start", "locked")
  /\ UNCHANGED <<fileOfIdentity, toldVars>>

\* load_identity: the content must be one identity; an installer tells it.
InitLoads(i, from) ==
  /\ \/ Valid /\ InstallerStep(i, from, "done") /\ Tell(identity.id)
     \/ ~Valid /\ InstallerStep(i, from, "failed") /\ UNCHANGED toldVars
  /\ UNCHANGED fileOfIdentity

InitLooks(i) ==
  \/ identity # NoIdentity /\ InitLoads(i, "locked")
  \/ /\ identity = NoIdentity /\ InstallerStep(i, "locked", "creating")
     /\ UNCHANGED <<fileOfIdentity, toldVars>>

CreateAnyway == TRUE  \* mutant of MayCreate: the file is not created exclusively

\* O_EXCL: not even a file that is there only since the look is overwritten.
MayCreate == identity = NoIdentity

InitCreates(i) ==
  \/ /\ MayCreate /\ InstallerStep(i, "creating", "writing")
     /\ \E n \in Inodes : identity' = [id |-> "empty", inode |-> n]
     /\ disk' = disk \cup {identity'}
     /\ UNCHANGED toldVars
  \/ ~MayCreate /\ InitLoads(i, "creating")

\* By the handle: a file that was removed or replaced meanwhile is written in vain.
InitWrites(i) ==
  /\ InstallerStep(i, "writing", "written")
  /\ IF identity.id = "empty"
     THEN /\ identity' = [identity EXCEPT !.id = i]
          /\ disk' = (disk \ {identity}) \cup {identity'}
     ELSE UNCHANGED fileOfIdentity
  /\ UNCHANGED toldVars

\* _fsync_directory.
InitSyncs(i) ==
  /\ InstallerStep(i, "written", "synced")
  /\ disk' = {identity}
  /\ UNCHANGED <<identity, toldVars>>

InitReturns(i) == InitLoads(i, "synced")

InstallerDies(i) ==
  /\ initLock = i /\ InstallerStep(i, installer[i], "failed")
  /\ UNCHANGED <<fileOfIdentity, toldVars>>
-----------------------------------------------------------------------------
ServiceStep(s, from, to) ==
  /\ service[s] = from
  /\ service' = [service EXCEPT ![s] = to]
  /\ UNCHANGED <<fileOfIdentity, initLock, installer, restored, drifts, powers>>

\* Runner: the guard reads the file, which is never created or repaired here.
ServiceLoads(s) ==
  /\ Valid /\ ServiceStep(s, "down", "guarded")
  /\ snapshot' = [snapshot EXCEPT ![s] = identity]
  /\ UNCHANGED <<serveLock, toldVars>>

\* Then the lock for as long as it serves, which does not wait.
ServiceLocks(s) ==
  /\ IF serveLock = Nobody THEN ServiceStep(s, "guarded", "recovering") /\ serveLock' = s
     ELSE ServiceStep(s, "guarded", "down") /\ UNCHANGED serveLock
  /\ UNCHANGED <<snapshot, toldVars>>

\* recover_active_as_uncertain.
ServiceRecovers(s) ==
  /\ ServiceStep(s, "recovering", "serving")
  /\ UNCHANGED <<serveLock, snapshot, toldVars>>

\* identity_request, with verify: the file must be the one it started with.
ServiceTells(s) ==
  /\ identity = snapshot[s] /\ ServiceStep(s, "serving", "serving")
  /\ Tell(snapshot[s].id)
  /\ UNCHANGED <<serveLock, snapshot>>

\* main after the user's interrupt: close gives the lock back, and the process ends
\* when the workers of its inspections have.
ServiceCloses(s) ==
  /\ ServiceStep(s, "serving", "closing") /\ serveLock' = Nobody
  /\ UNCHANGED <<snapshot, toldVars>>

\* Its end, at any time: the kernel lets go of the lock.
ServiceEnds(s) ==
  /\ \E from \in {"guarded", "recovering", "serving", "closing"} : ServiceStep(s, from, "down")
  /\ serveLock' = IF serveLock = s THEN Nobody ELSE serveLock
  /\ UNCHANGED <<snapshot, toldVars>>
-----------------------------------------------------------------------------
\* The administrator removes the file or restores another one in its place, which
\* may get the inode of the old one.
Drift ==
  /\ drifts < MaxDrifts /\ drifts' = drifts + 1
  /\ \/ identity' = NoIdentity /\ restored' = FALSE
     \/ /\ \E n \in Inodes : identity' = [id |-> Admin, inode |-> n]
        /\ restored' = TRUE
  /\ disk' = {identity'}
  /\ UNCHANGED <<locksOfIdentity, installer, service, snapshot, toldVars, powers>>

PowerFails ==
  /\ powers < MaxPower /\ powers' = powers + 1
  /\ \E left \in disk : identity' = left /\ disk' = {left}
  /\ initLock' = Nobody /\ serveLock' = Nobody
  /\ installer' = [i \in Installers |-> IF initLock = i THEN "failed" ELSE installer[i]]
  /\ service' = [s \in Services |-> "down"]
  /\ UNCHANGED <<snapshot, toldVars, restored, drifts>>

IdentityNext ==
  \/ \E i \in Installers :
       \/ InitLocks(i) \/ InitLooks(i) \/ InitCreates(i) \/ InitWrites(i) \/ InitSyncs(i)
       \/ InitReturns(i) \/ InstallerDies(i)
  \/ \E s \in Services :
       \/ ServiceLoads(s) \/ ServiceLocks(s) \/ ServiceRecovers(s) \/ ServiceTells(s)
       \/ ServiceCloses(s) \/ ServiceEnds(s)
  \/ Drift \/ PowerFails
IdentitySpec == IdentityInit /\ [][IdentityNext]_identityVars
-----------------------------------------------------------------------------
\* No runner process recovers sessions, which kills what works for them, while
\* another one serves them.  (One that is closing has given its lock back, and may
\* still inspect.)
RecoversAlone == Cardinality(Serving) <= 1

\* Left alone by the administrator, a runner keeps the one name it has told: no
\* second installer, death or power failure gives it another.  An identity told
\* before its directory was synced, by a runner process that started meanwhile or
\* by an installer after the death of the first, may still be lost.
NameStays ==
  drifts = 0 /\ ~early => Cardinality(told) <= 1 /\ (told # {} => identity.id \in told)

\* Nor does an installer ever overwrite the file an administrator has restored.
RestoredStays == restored => identity.id = Admin

\* What these rest on.  Who serves holds the lock; what a runner process has started
\* with was valid; a name told for sure is the file's, which no power failure takes
\* away, and so is a restored one.
IdentityFile == [id : Installers \cup {Admin, "none", "empty"}, inode : Inodes \cup {0}]
IdentityTypeOK ==
  /\ identity \in IdentityFile /\ disk \subseteq IdentityFile
  /\ installer \in [Installers -> {"start", "locked", "creating", "writing", "written",
                                  "synced", "done", "failed"}]
  /\ service \in [Services -> {"down", "guarded", "recovering", "serving", "closing"}]
  /\ snapshot \in [Services -> IdentityFile]
  /\ early \in BOOLEAN /\ restored \in BOOLEAN
  /\ drifts \in Nat /\ powers \in Nat
ServersLock == \A s \in Serving : serveLock = s
StartedValid ==
  \A s \in Services : service[s] # "down" => snapshot[s].id \in Installers \cup {Admin}
ToldIsSafe ==
  drifts = 0 /\ ~early /\ told # {} => told = {identity.id} /\ disk = {identity} /\ Valid
RestoredIsSafe == restored => disk = {identity}

IdentityInv ==
  /\ RecoversAlone /\ NameStays /\ RestoredStays
  /\ IdentityTypeOK /\ ServersLock /\ StartedValid /\ ToldIsSafe /\ RestoredIsSafe
=============================================================================

----------------------- MODULE InstanceIdentityProofs -----------------------
(***************************************************************************)
(* Proofs about the identity of a runner, for any installers and runner    *)
(* processes, power failures and changes by the administrator: IdentityInv *)
(* is inductive.                                                           *)
(***************************************************************************)
EXTENDS InstanceIdentity, FiniteSetTheorems, TLAPS

\* The parts that carry the others from step to step.
IdentityCore ==
  /\ IdentityTypeOK /\ ServersLock /\ StartedValid /\ ToldIsSafe /\ RestoredStays
  /\ RestoredIsSafe

\* Of all who serve each holds the one lock, and what was told is one name.
LEMMA CoreIsEnough == IdentityCore => IdentityInv
<1> SUFFICES ASSUME IdentityCore PROVE IdentityInv
  OBVIOUS
<1>1. RecoversAlone
  <2>1. Serving \subseteq {serveLock}  BY DEF IdentityCore, ServersLock
  <2>2. IsFiniteSet({serveLock}) /\ Cardinality({serveLock}) = 1  BY FS_Singleton
  <2>3. Cardinality(Serving) <= Cardinality({serveLock})  BY <2>1, <2>2, FS_Subset
  <2> QED BY <2>2, <2>3 DEF RecoversAlone
<1>2. NameStays
  <2>1. Cardinality({}) = 0  BY FS_EmptySet
  <2>2. Cardinality({identity.id}) = 1  BY FS_Singleton
  <2> QED BY <2>1, <2>2 DEF NameStays, IdentityCore, ToldIsSafe
<1> QED BY <1>1, <1>2 DEF IdentityCore, IdentityInv

\* The first state: no file, and nobody has been told anything.
LEMMA IdentityInitKeeps == IdentityInit => IdentityCore
<1> SUFFICES ASSUME IdentityInit PROVE IdentityCore
  OBVIOUS
<1>1. early \in BOOLEAN /\ restored \in BOOLEAN  BY Zenon DEF IdentityInit
<1> QED
  BY <1>1, InstanceIdentityAssumption
     DEF IdentityInit, IdentityCore, IdentityTypeOK, IdentityFile, ServersLock, Serving,
         StartedValid, ToldIsSafe, RestoredStays, RestoredIsSafe, NoIdentity, Inodes

\* Telling the file's own name keeps it the only one told, if it is there to stay.
LEMMA TellKeeps ==
  ASSUME IdentityCore, Valid, Tell(identity.id), UNCHANGED <<fileOfIdentity, drifts>>
  PROVE  ToldIsSafe' /\ early' \in BOOLEAN
<1>1. early' \in BOOLEAN  BY Zenon DEF Tell
<1>2. ToldIsSafe'
  BY DEF Tell, IdentityCore, ToldIsSafe, Valid, fileOfIdentity
<1> QED BY <1>1, <1>2

\* What every step of an installer leaves as it is.
LEMMA InstallerFrame ==
  ASSUME IdentityCore, NEW i \in Installers, NEW from, NEW to, InstallerStep(i, from, to),
         to \in {"start", "locked", "creating", "writing", "written", "synced", "done",
                 "failed"},
         identity' \in IdentityFile, disk' \subseteq IdentityFile, early' \in BOOLEAN
  PROVE  IdentityTypeOK' /\ ServersLock' /\ StartedValid'
  BY DEF IdentityCore, IdentityTypeOK, ServersLock, StartedValid, Serving, InstallerStep

\* A step that writes neither the file nor what was told keeps both safe.
LEMMA QuietFile ==
  ASSUME IdentityCore, UNCHANGED <<fileOfIdentity, toldVars, restored, drifts>>
  PROVE  /\ identity' \in IdentityFile /\ disk' \subseteq IdentityFile /\ early' \in BOOLEAN
         /\ ToldIsSafe' /\ RestoredStays' /\ RestoredIsSafe'
  BY DEF IdentityCore, IdentityTypeOK, ToldIsSafe, RestoredStays, RestoredIsSafe, Valid,
     fileOfIdentity, toldVars

\* load_identity at any of its places.
LEMMA LoadsKeeps ==
  ASSUME IdentityCore, NEW i \in Installers, NEW from, InitLoads(i, from)
  PROVE  IdentityCore'
<1>1. CASE Valid /\ InstallerStep(i, from, "done") /\ Tell(identity.id)
  <2>1. UNCHANGED <<fileOfIdentity, restored, drifts>>
    BY <1>1 DEF InitLoads, InstallerStep
  <2>2. ToldIsSafe' /\ early' \in BOOLEAN  BY <1>1, <2>1, TellKeeps
  <2>3. RestoredStays' /\ RestoredIsSafe'
    BY <2>1 DEF IdentityCore, RestoredStays, RestoredIsSafe, fileOfIdentity
  <2>4. identity' \in IdentityFile /\ disk' \subseteq IdentityFile
    BY <2>1 DEF IdentityCore, IdentityTypeOK, fileOfIdentity
  <2>5. IdentityTypeOK' /\ ServersLock' /\ StartedValid'
    BY <1>1, <2>2, <2>4, InstallerFrame
  <2> QED BY <2>2, <2>3, <2>5 DEF IdentityCore
<1>2. CASE InstallerStep(i, from, "failed") /\ UNCHANGED toldVars
  <2>1. UNCHANGED <<fileOfIdentity, toldVars, restored, drifts>>
    BY <1>2 DEF InitLoads, InstallerStep
  <2> QED BY <1>2, <2>1, QuietFile, InstallerFrame DEF IdentityCore
<1> QED BY <1>1, <1>2 DEF InitLoads

\* Every step of an installer.
LEMMA InstallerKeeps ==
  ASSUME IdentityCore, NEW i \in Installers,
         \/ InitLocks(i) \/ InitLooks(i) \/ InitCreates(i) \/ InitWrites(i) \/ InitSyncs(i)
         \/ InitReturns(i) \/ InstallerDies(i)
  PROVE  IdentityCore'
<1>0. /\ IdentityTypeOK /\ ToldIsSafe /\ RestoredStays /\ RestoredIsSafe
      /\ i \notin {Admin, "none", "empty"}
  BY InstanceIdentityAssumption DEF IdentityCore
<1>1. ASSUME NEW from, NEW to \in {"locked", "creating", "failed"}, InstallerStep(i, from, to),
             UNCHANGED <<fileOfIdentity, toldVars>>
      PROVE  IdentityCore'
  <2>1. UNCHANGED <<fileOfIdentity, toldVars, restored, drifts>>
    BY <1>1 DEF InstallerStep
  <2> QED BY <1>1, <2>1, QuietFile, InstallerFrame DEF IdentityCore
<1>2. CASE InitLocks(i)  BY <1>1, <1>2 DEF InitLocks
<1>3. CASE InitLooks(i)
  BY <1>1, <1>3, LoadsKeeps DEF InitLooks
<1>4. CASE InstallerDies(i)
  BY <1>1, <1>4 DEF InstallerDies
<1>5. CASE InitReturns(i)  BY <1>5, LoadsKeeps DEF InitReturns
<1>6. CASE InitCreates(i)
  <2>1. CASE ~MayCreate  BY <1>6, <2>1, LoadsKeeps DEF InitCreates
  <2>2. CASE MayCreate
    <3>1. PICK n \in Inodes : identity' = [id |-> "empty", inode |-> n]
      BY <1>6, <2>2 DEF InitCreates
    <3>2. /\ identity = NoIdentity /\ InstallerStep(i, "creating", "writing")
          /\ disk' = disk \cup {identity'} /\ UNCHANGED toldVars
      BY <1>6, <2>2 DEF InitCreates, MayCreate
    <3>3. UNCHANGED <<restored, drifts>> /\ ~restored /\ ~Valid
      BY <1>0, <3>2, InstanceIdentityAssumption
      DEF InstallerStep, RestoredStays, NoIdentity, Valid, Admin
    <3>4. identity' \in IdentityFile /\ disk' \subseteq IdentityFile /\ early' \in BOOLEAN
      BY <1>0, <3>1, <3>2 DEF IdentityTypeOK, IdentityFile, toldVars
    <3>5. ToldIsSafe' /\ RestoredStays' /\ RestoredIsSafe'
      BY <1>0, <3>2, <3>3 DEF ToldIsSafe, RestoredStays, RestoredIsSafe, toldVars
    <3> QED BY <3>2, <3>4, <3>5, InstallerFrame DEF IdentityCore
  <2> QED BY <2>1, <2>2
<1>7. CASE InitWrites(i)
  <2>1. CASE identity.id = "empty"
    <3>1. /\ InstallerStep(i, "writing", "written") /\ identity' = [identity EXCEPT !.id = i]
          /\ disk' = (disk \ {identity}) \cup {identity'} /\ UNCHANGED toldVars
      BY <1>7, <2>1 DEF InitWrites
    <3>2. UNCHANGED <<restored, drifts>> /\ ~restored /\ ~Valid
      BY <1>0, <2>1, <3>1, InstanceIdentityAssumption
      DEF InstallerStep, RestoredStays, Valid, Admin
    <3>3. identity' \in IdentityFile /\ disk' \subseteq IdentityFile /\ early' \in BOOLEAN
      BY <1>0, <3>1 DEF IdentityTypeOK, IdentityFile, toldVars
    <3>4. ToldIsSafe' /\ RestoredStays' /\ RestoredIsSafe'
      BY <1>0, <3>1, <3>2 DEF ToldIsSafe, RestoredStays, RestoredIsSafe, toldVars
    <3> QED BY <3>1, <3>3, <3>4, InstallerFrame DEF IdentityCore
  <2>2. CASE identity.id # "empty"
    <3>1. /\ InstallerStep(i, "writing", "written")
          /\ UNCHANGED <<fileOfIdentity, toldVars, restored, drifts>>
      BY <1>7, <2>2 DEF InitWrites, InstallerStep
    <3> QED BY <3>1, QuietFile, InstallerFrame DEF IdentityCore
  <2> QED BY <2>1, <2>2
<1>8. CASE InitSyncs(i)
  <2>1. /\ InstallerStep(i, "written", "synced") /\ disk' = {identity}
        /\ UNCHANGED <<identity, toldVars, restored, drifts>>
    BY <1>8 DEF InitSyncs, InstallerStep
  <2>2. identity' \in IdentityFile /\ disk' \subseteq IdentityFile /\ early' \in BOOLEAN
    BY <1>0, <2>1 DEF IdentityTypeOK, toldVars
  <2>3. ToldIsSafe' /\ RestoredStays' /\ RestoredIsSafe'
    BY <1>0, <2>1 DEF ToldIsSafe, RestoredStays, RestoredIsSafe, Valid, toldVars
  <2> QED BY <2>1, <2>2, <2>3, InstallerFrame DEF IdentityCore
<1> QED BY <1>2, <1>3, <1>4, <1>5, <1>6, <1>7, <1>8

\* Every step of a runner process.
LEMMA ServiceKeeps ==
  ASSUME IdentityCore, NEW s \in Services,
         \/ ServiceLoads(s) \/ ServiceLocks(s) \/ ServiceRecovers(s) \/ ServiceTells(s)
         \/ ServiceCloses(s) \/ ServiceEnds(s)
  PROVE  IdentityCore'
<1> USE DEF ServiceStep
<1>0. /\ IdentityTypeOK /\ ServersLock /\ StartedValid /\ ToldIsSafe /\ RestoredStays
      /\ RestoredIsSafe /\ Nobody \notin Services
  BY InstanceIdentityAssumption DEF IdentityCore
<1>1. UNCHANGED <<fileOfIdentity, installer, restored, drifts, powers>>
  BY DEF ServiceLoads, ServiceLocks, ServiceRecovers, ServiceTells, ServiceCloses,
         ServiceEnds
<1>2. /\ service' \in [Services -> {"down", "guarded", "recovering", "serving", "closing"}]
      /\ snapshot' \in [Services -> IdentityFile]
  BY <1>0 DEF IdentityTypeOK, ServiceLoads, ServiceLocks, ServiceRecovers, ServiceTells,
              ServiceCloses, ServiceEnds
<1>3. ServersLock'
  <2>0. \A q \in Services \ {s} : service'[q] = service[q]
    BY <1>0 DEF IdentityTypeOK, ServiceLoads, ServiceLocks, ServiceRecovers, ServiceTells,
                ServiceCloses, ServiceEnds
  <2>1. CASE ServiceLoads(s) \/ ServiceRecovers(s) \/ ServiceTells(s)
    <3>1. serveLock' = serveLock /\ (s \in Serving' => s \in Serving)
      BY <1>0, <2>1 DEF IdentityTypeOK, ServiceLoads, ServiceRecovers, ServiceTells, Serving
    <3> QED BY <1>0, <2>0, <3>1 DEF ServersLock, Serving
  <2>2. CASE ServiceLocks(s)
    <3>1. CASE serveLock = Nobody
      <4>1. serveLock' = s /\ \A q \in Services : q \notin Serving
        BY <1>0, <2>2, <3>1 DEF ServiceLocks, ServersLock, Serving
      <4> QED BY <2>0, <4>1 DEF ServersLock, Serving
    <3>2. CASE serveLock # Nobody
      <4>1. serveLock' = serveLock /\ service'[s] = "down"
        BY <1>0, <2>2, <3>2 DEF ServiceLocks, IdentityTypeOK
      <4> QED BY <1>0, <2>0, <4>1 DEF ServersLock, Serving
    <3> QED BY <3>1, <3>2
  <2>3. CASE ServiceCloses(s)
    <3>1. s \in Serving /\ service'[s] = "closing"
      BY <1>0, <2>3 DEF ServiceCloses, IdentityTypeOK, Serving
    <3> QED BY <1>0, <2>0, <3>1 DEF ServersLock, Serving
  <2>4. CASE ServiceEnds(s)
    <3>1. /\ service'[s] = "down"
          /\ serveLock' = IF serveLock = s THEN Nobody ELSE serveLock
      BY <1>0, <2>4 DEF ServiceEnds, IdentityTypeOK
    <3> QED BY <1>0, <2>0, <3>1 DEF ServersLock, Serving
  <2> QED BY <2>1, <2>2, <2>3, <2>4
<1>4. StartedValid'
  <2>1. CASE ServiceLoads(s)
    BY <1>0, <2>1 DEF ServiceLoads, StartedValid, IdentityTypeOK, Valid
  <2>2. CASE ~ServiceLoads(s)
    <3>1. /\ snapshot' = snapshot
          /\ \A q \in Services : service'[q] # "down" => service[q] # "down"
      BY <1>0, <2>2 DEF IdentityTypeOK, ServiceLocks, ServiceRecovers, ServiceTells,
                        ServiceCloses, ServiceEnds
    <3> QED BY <1>0, <3>1 DEF StartedValid
  <2> QED BY <2>1, <2>2
<1>5. /\ identity' \in IdentityFile /\ disk' \subseteq IdentityFile /\ early' \in BOOLEAN
      /\ ToldIsSafe' /\ RestoredStays' /\ RestoredIsSafe'
  <2>1. CASE ServiceTells(s)
    <3>1. identity = snapshot[s] /\ service[s] = "serving" /\ Tell(identity.id)
      BY <2>1 DEF ServiceTells
    <3>2. Valid  BY <1>0, <3>1 DEF StartedValid, Valid
    <3>3. ToldIsSafe' /\ early' \in BOOLEAN  BY <1>1, <3>1, <3>2, TellKeeps
    <3> QED BY <1>0, <1>1, <3>3
            DEF IdentityTypeOK, RestoredStays, RestoredIsSafe, fileOfIdentity
  <2>2. CASE ~ServiceTells(s)
    <3>1. UNCHANGED toldVars
      BY <2>2 DEF ServiceLoads, ServiceLocks, ServiceRecovers, ServiceCloses, ServiceEnds
    <3> QED BY <1>1, <3>1, QuietFile
  <2> QED BY <2>1, <2>2
<1>6. IdentityTypeOK'  BY <1>0, <1>1, <1>2, <1>5 DEF IdentityTypeOK
<1> QED BY <1>3, <1>4, <1>5, <1>6 DEF IdentityCore

\* What the administrator does, and a power failure.
LEMMA OutsideKeeps == ASSUME IdentityCore, Drift \/ PowerFails PROVE IdentityCore'
<1>0. /\ IdentityTypeOK /\ ServersLock /\ StartedValid /\ ToldIsSafe /\ RestoredStays
      /\ RestoredIsSafe
  BY DEF IdentityCore
<1>1. CASE Drift
  <2>1. /\ drifts' = drifts + 1 /\ disk' = {identity'} /\ restored' \in BOOLEAN
        /\ identity' \in IdentityFile /\ (restored' => identity'.id = Admin)
        /\ UNCHANGED <<locksOfIdentity, installer, service, snapshot, toldVars, powers>>
    <3>1. CASE identity' = NoIdentity /\ restored' = FALSE
      <4>1. restored' \in BOOLEAN  BY Zenon, <3>1
      <4>2. identity' \in IdentityFile  BY <3>1 DEF NoIdentity, IdentityFile
      <4> QED BY <1>1, <3>1, <4>1, <4>2 DEF Drift
    <3>2. CASE (\E n \in Inodes : identity' = [id |-> Admin, inode |-> n]) /\ restored' = TRUE
      <4>1. restored' \in BOOLEAN  BY Zenon, <3>2
      <4>2. identity' \in IdentityFile /\ identity'.id = Admin  BY <3>2 DEF IdentityFile
      <4> QED BY <1>1, <4>1, <4>2 DEF Drift
    <3> QED BY <1>1, <3>1, <3>2 DEF Drift
  <2>2. IdentityTypeOK'
    BY <1>0, <2>1 DEF IdentityTypeOK, toldVars
  <2>3. ServersLock' /\ StartedValid'
    BY <1>0, <2>1 DEF ServersLock, StartedValid, Serving, locksOfIdentity
  <2>4. ToldIsSafe'  BY <1>0, <2>1 DEF IdentityTypeOK, ToldIsSafe
  <2> QED BY <2>1, <2>2, <2>3, <2>4 DEF IdentityCore, RestoredStays, RestoredIsSafe
<1>2. CASE PowerFails
  <2>1. /\ identity' \in disk /\ disk' = {identity'}
        /\ service' = [s \in Services |-> "down"]
        /\ powers' = powers + 1 /\ UNCHANGED <<snapshot, toldVars, restored, drifts>>
    BY <1>2 DEF PowerFails
  <2>2. installer' \in [Installers -> {"start", "locked", "creating", "writing", "written",
                                       "synced", "done", "failed"}]
    BY <1>0, <1>2 DEF PowerFails, IdentityTypeOK
  <2>3. IdentityTypeOK'  BY <1>0, <2>1, <2>2 DEF IdentityTypeOK, toldVars
  <2>4. ServersLock' /\ StartedValid'  BY <2>1 DEF ServersLock, StartedValid, Serving
  <2>5. ToldIsSafe' /\ RestoredStays' /\ RestoredIsSafe'
    BY <1>0, <2>1 DEF ToldIsSafe, RestoredStays, RestoredIsSafe, Valid, toldVars
  <2> QED BY <2>3, <2>4, <2>5 DEF IdentityCore
<1> QED BY <1>1, <1>2

\* One runner process at a time recovers and serves, the runner keeps the one name it
\* has told for sure, and no installer overwrites the file an administrator restored:
\* whoever dies when, and through power failures (init_identity and the guard of
\* instance_identity.py, and the lock of server.py).
THEOREM IdentityInvariant == IdentitySpec => []IdentityInv
<1>1. ASSUME IdentityCore, [IdentityNext]_identityVars PROVE IdentityCore'
  <2>1. CASE IdentityNext
    BY <1>1, <2>1, InstallerKeeps, ServiceKeeps, OutsideKeeps DEF IdentityNext
  <2>2. CASE UNCHANGED identityVars
    BY <1>1, <2>2 DEF identityVars, fileOfIdentity, locksOfIdentity, toldVars, IdentityCore,
       IdentityTypeOK, ServersLock, Serving, StartedValid, ToldIsSafe, RestoredStays,
       RestoredIsSafe, Valid
  <2> QED BY <1>1, <2>1, <2>2
<1> QED BY <1>1, IdentityInitKeeps, CoreIsEnough, PTL DEF IdentitySpec
=============================================================================

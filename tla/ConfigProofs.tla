---------------------------- MODULE ConfigProofs ----------------------------
(***************************************************************************)
(* Proofs about the configuration wizard: the transaction over the local   *)
(* files, alone and within a run, and what a run reports.  The invariants  *)
(* FailureInv and RunInv are inductive as they stand in their modules.     *)
(***************************************************************************)
EXTENDS WizardRun, TLAPS

\* The paths and their numbers.
LEMMA NumbersAndFiles ==
  /\ N \in Nat /\ N > 0
  /\ \A i \in 1..N : FileOrder[i] \in Files
  /\ \A i, j \in 1..N : FileOrder[i] = FileOrder[j] => i = j
  /\ Files = {FileOrder[i] : i \in 1..N}
BY ConfigTransactionAssumption DEF N, Files

\* Every variable keeps its type.
LEMMA TransactionTypeStep ==
  ASSUME FailureInv, TransactionNext PROVE TransactionTypeOK'
<1> USE DEF fileVars, progressVars, workVars, outcomeVars, othersVars, File, Loops,
            TransactionTypeOK, Baseline, Intended
<1>0. /\ TransactionTypeOK /\ N \in Nat /\ N > 0 /\ File \in Files
      /\ MaxInterrupts \in Nat /\ \A f \in Files : Kind[f] \in {"new", "replace", "delete"}
  BY NumbersAndFiles, ConfigTransactionAssumption DEF FailureInv, TransactionTypeOK
<1>1. CASE PrepareCandidates
  BY <1>0, <1>1 DEF PrepareCandidates
<1>2. CASE PrepareCompares
  BY <1>0, <1>2 DEF PrepareCompares, Advance
<1>3. CASE PrepareLinks
  BY <1>0, <1>3 DEF PrepareLinks, Advance, Unchanged, Snapshot
<1>4. CASE PrepareRefuses
  BY <1>0, <1>4 DEF PrepareRefuses, PrepareRaises
<1>5. CASE StartCommit
  BY <1>0, <1>5 DEF StartCommit
<1>6. CASE CommitCompares
  BY <1>0, <1>6 DEF CommitCompares, Advance
<1>7. CASE CommitRegisters
  BY <1>0, <1>7 DEF CommitRegisters, Unchanged, Snapshot
<1>8. CASE CommitSwitches
  BY <1>0, <1>8 DEF CommitSwitches
<1>9. CASE CommitConfirms
  BY <1>0, <1>9 DEF CommitConfirms
<1>10. CASE CommitVerifies
  BY <1>0, <1>10 DEF CommitVerifies, Advance, AsIntended, Snapshot, BackupSnapshot
<1>11. CASE CommitRefuses
  BY <1>0, <1>11 DEF CommitRefuses, CommitRaises, Committing
<1>12. CASE RestoreLooks
  <2>1. /\ RestoreNext \/ (pc' = "putback" /\ UNCHANGED at)
        /\ errors' = errors \/ errors' = TRUE
    BY <1>12 DEF RestoreLooks
  <2>2. pc' \in Loops /\ at' \in 1..N
    BY <1>0, <2>1 DEF RestoreNext
  <2>3. UNCHANGED <<fileVars, workVars, changed, preserve, committed, raised, othersVars, interrupts>>
    BY <1>12 DEF RestoreLooks
  <2> QED
    BY <1>0, <2>1, <2>2, <2>3
<1>13. CASE RestorePutsBack
  <2>1. pc' \in Loops /\ at' \in 1..N
    BY <1>0, <1>13 DEF RestorePutsBack, RestoreNext
  <2>2. interrupts' \in 0..MaxInterrupts
    BY <1>0, <1>13 DEF RestorePutsBack, Trouble
  <2>5. errors' \in BOOLEAN
    BY <1>0, <1>13 DEF RestorePutsBack
  <2>3. entry' \in [Files -> {"none", "orig", "cand", "other"}] /\ backup' \in [Files -> {"none", "orig"}]
    BY <1>0, <1>13 DEF RestorePutsBack
  <2>4. UNCHANGED <<written, prepared, changed, preserve, committed, raised, othersVars>>
    BY <1>13 DEF RestorePutsBack
  <2> QED
    BY <1>0, <2>1, <2>2, <2>3, <2>4, <2>5
<1>14. CASE RestoreFails
  BY <1>0, <1>14 DEF RestoreFails, RestoreNext, Trouble
<1>15. CASE RestoreInterrupted
  BY <1>0, <1>15 DEF RestoreInterrupted, Trouble
<1>16. CASE RestoreEnds
  BY <1>0, <1>16 DEF RestoreEnds
<1>17. CASE StepFails
  <2>1. interrupts' \in 0..MaxInterrupts /\ raised' \in {"error", "interrupt"}
    BY <1>0, <1>17 DEF StepFails, PrepareRaises, CommitRaises, Trouble
  <2>2. /\ pc' \in {"raised", "restore"} /\ at' \in {at, N} /\ prepared' \in {prepared, {}}
        /\ preserve' = preserve \/ preserve' = TRUE
        /\ UNCHANGED <<fileVars, backup, changed, errors, committed, othersVars>>
    BY <1>17 DEF StepFails, PrepareRaises, CommitRaises
  <2>3. preserve' \in BOOLEAN
    BY <1>0, <2>2
  <2>4. at' \in 1..N /\ prepared' \subseteq Files
    BY <1>0, <2>2
  <2> QED
    BY <1>0, <2>1, <2>2, <2>3, <2>4
<1>18. CASE Cleanup
  BY <1>0, <1>18 DEF Cleanup
<1>19. ASSUME NEW q \in Files, AnotherWrites(q) PROVE TransactionTypeOK'
  BY <1>0, <1>19 DEF AnotherWrites, AnotherProgram, LooksNoMore, Blind
<1>20. ASSUME NEW q \in Files, AnotherReplaces(q) PROVE TransactionTypeOK'
  BY <1>0, <1>20 DEF AnotherReplaces, AnotherProgram, LooksNoMore, Blind
<1>21. ASSUME NEW q \in Files, AnotherRemoves(q) PROVE TransactionTypeOK'
  BY <1>0, <1>21 DEF AnotherRemoves, AnotherProgram, LooksNoMore, Blind
<1> QED
  BY <1>1, <1>2, <1>3, <1>4, <1>5, <1>6, <1>7, <1>8, <1>9, <1>10, <1>11, <1>12, <1>13,
     <1>14, <1>15, <1>16, <1>17, <1>18, <1>19, <1>20, <1>21
     DEF TransactionNext, PrepareStep, CommitStep, RestoreStep, OthersStep

\* The loops keep knowing where they are.
LEMMA LoopsStep ==
  ASSUME FailureInv, TransactionNext PROVE LoopsKnow'
<1> USE DEF fileVars, progressVars, workVars, outcomeVars, othersVars, TransactionTypeOK,
            LoopsKnow, File
<1>0. /\ TransactionTypeOK /\ LoopsKnow /\ N \in Nat /\ N > 0 /\ File \in Files
      /\ \A i \in 1..N : FileOrder[i] = File <=> i = at
      /\ Files = {FileOrder[i] : i \in 1..N}
  BY NumbersAndFiles DEF FailureInv, TransactionTypeOK
<1>1. CASE PrepareCandidates
  BY <1>0, <1>1 DEF PrepareCandidates
<1>2. CASE PrepareCompares
  BY <1>0, <1>2 DEF PrepareCompares, Advance
<1>3. CASE PrepareLinks
  BY <1>0, <1>3 DEF PrepareLinks, Advance, Unchanged, Snapshot
<1>4. CASE PrepareRefuses
  BY <1>0, <1>4 DEF PrepareRefuses, PrepareRaises
<1>5. CASE StartCommit
  BY <1>0, <1>5 DEF StartCommit
<1>6. CASE CommitCompares
  BY <1>0, <1>6 DEF CommitCompares, Advance
<1>7. CASE CommitRegisters
  BY <1>0, <1>7 DEF CommitRegisters, Unchanged, Snapshot
<1>8. CASE CommitSwitches
  BY <1>0, <1>8 DEF CommitSwitches
<1>9. CASE CommitConfirms
  BY <1>0, <1>9 DEF CommitConfirms
<1>10. CASE CommitVerifies
  <2>1. /\ pc = "verify" /\ UNCHANGED <<changed, preserve>>
        /\ (pc' = "verify" /\ at < N) \/ (pc' = "committed" /\ at = N)
    BY <1>0, <1>10 DEF CommitVerifies, Advance
  <2>2. committed' <=> at = N
    BY <1>10 DEF CommitVerifies
  <2> QED
    BY <1>0, <2>1, <2>2
<1>11. CASE CommitRefuses
  BY <1>0, <1>11 DEF CommitRefuses, CommitRaises, Committing
<1>12. CASE RestoreLooks
  BY <1>0, <1>12
     DEF RestoreLooks, RestoreNext, RestoreSkips, RestoreAsIntended, Unchanged, Snapshot
<1>13. CASE RestorePutsBack
  BY <1>0, <1>13 DEF RestorePutsBack, RestoreNext, Trouble
<1>14. CASE RestoreFails
  BY <1>0, <1>14 DEF RestoreFails, RestoreNext, Trouble
<1>15. CASE RestoreInterrupted
  BY <1>0, <1>15 DEF RestoreInterrupted, Trouble
<1>16. CASE RestoreEnds
  BY <1>0, <1>16 DEF RestoreEnds
<1>17. CASE StepFails
  BY <1>0, <1>17 DEF StepFails, PrepareRaises, CommitRaises, Committing, Trouble
<1>18. CASE Cleanup
  BY <1>0, <1>18 DEF Cleanup
<1>19. ASSUME NEW q \in Files, AnotherWrites(q) PROVE LoopsKnow'
  BY <1>0, <1>19 DEF AnotherWrites, AnotherProgram, LooksNoMore, Blind
<1>20. ASSUME NEW q \in Files, AnotherReplaces(q) PROVE LoopsKnow'
  BY <1>0, <1>20 DEF AnotherReplaces, AnotherProgram, LooksNoMore, Blind
<1>21. ASSUME NEW q \in Files, AnotherRemoves(q) PROVE LoopsKnow'
  BY <1>0, <1>21 DEF AnotherRemoves, AnotherProgram, LooksNoMore, Blind
<1> QED
  BY <1>1, <1>2, <1>3, <1>4, <1>5, <1>6, <1>7, <1>8, <1>9, <1>10, <1>11, <1>12, <1>13,
     <1>14, <1>15, <1>16, <1>17, <1>18, <1>19, <1>20, <1>21
     DEF TransactionNext, PrepareStep, CommitStep, RestoreStep, OthersStep

\* What the transaction did to a file stays so.
LEMMA OwnStep ==
  ASSUME FailureInv, TransactionNext, NEW i \in 1..N
  PROVE  OwnFits(i)'
<1> USE DEF fileVars, progressVars, workVars, outcomeVars, othersVars, TransactionTypeOK,
            LoopsKnow, OwnFits, OthersFits,
           Unswitched, Linked, Restored, Baseline, Intended, File
<1> DEFINE p == FileOrder[i]
<1>0. /\ TransactionTypeOK /\ LoopsKnow /\ OwnFits(i) /\ OthersFits(i)
      /\ N \in Nat /\ File \in Files /\ p \in Files /\ (i # at => p # File)
      /\ Kind[p] \in {"new", "replace", "delete"}
  BY NumbersAndFiles, ConfigTransactionAssumption DEF FailureInv, TransactionTypeOK
<1>1. CASE PrepareCandidates
  BY <1>0, <1>1 DEF PrepareCandidates
<1>2. CASE PrepareCompares
  BY <1>0, <1>2 DEF PrepareCompares, Advance
<1>3. CASE PrepareLinks
  BY <1>0, <1>3 DEF PrepareLinks, Advance, Unchanged, Snapshot
<1>4. CASE PrepareRefuses
  BY <1>0, <1>4 DEF PrepareRefuses, PrepareRaises
<1>5. CASE StartCommit
  BY <1>0, <1>5 DEF StartCommit
<1>6. CASE CommitCompares
  BY <1>0, <1>6 DEF CommitCompares, Advance
<1>7. CASE CommitRegisters
  BY <1>0, <1>7 DEF CommitRegisters, Unchanged, Snapshot
<1>8. CASE CommitSwitches
  BY <1>0, <1>8 DEF CommitSwitches
<1>9. CASE CommitConfirms
  BY <1>0, <1>9 DEF CommitConfirms
<1>10. CASE CommitVerifies
  BY <1>0, <1>10 DEF CommitVerifies, Advance, AsIntended, Snapshot, BackupSnapshot
<1>11. CASE CommitRefuses
  BY <1>0, <1>11 DEF CommitRefuses, CommitRaises, Committing
<1>12. CASE RestoreLooks
  BY <1>0, <1>12
     DEF RestoreLooks, RestoreNext, RestoreSkips, RestoreAsIntended, Unchanged, Snapshot
<1>13. CASE RestorePutsBack
  BY <1>0, <1>13 DEF RestorePutsBack, RestoreNext, Trouble
<1>14. CASE RestoreFails
  BY <1>0, <1>14 DEF RestoreFails, RestoreNext, Trouble
<1>15. CASE RestoreInterrupted
  BY <1>0, <1>15 DEF RestoreInterrupted, Trouble
<1>16. CASE RestoreEnds
  BY <1>0, <1>16 DEF RestoreEnds
<1>17. CASE StepFails
  BY <1>0, <1>17 DEF StepFails, PrepareRaises, CommitRaises, Committing, Trouble
<1>18. CASE Cleanup
  BY <1>0, <1>18 DEF Cleanup
<1>19. ASSUME NEW q \in Files, AnotherWrites(q) PROVE OwnFits(i)'
  BY <1>0, <1>19 DEF AnotherWrites, AnotherProgram, LooksNoMore, Blind
<1>20. ASSUME NEW q \in Files, AnotherReplaces(q) PROVE OwnFits(i)'
  BY <1>0, <1>20 DEF AnotherReplaces, AnotherProgram, LooksNoMore, Blind
<1>21. ASSUME NEW q \in Files, AnotherRemoves(q) PROVE OwnFits(i)'
  BY <1>0, <1>21 DEF AnotherRemoves, AnotherProgram, LooksNoMore, Blind
<1> QED
  BY <1>1, <1>2, <1>3, <1>4, <1>5, <1>6, <1>7, <1>8, <1>9, <1>10, <1>11, <1>12, <1>13,
     <1>14, <1>15, <1>16, <1>17, <1>18, <1>19, <1>20, <1>21
     DEF TransactionNext, PrepareStep, CommitStep, RestoreStep, OthersStep

\* And so does what another program did to it.
LEMMA OthersStepKeeps ==
  ASSUME FailureInv, TransactionNext, NEW i \in 1..N
  PROVE  OthersFits(i)'
<1> USE DEF fileVars, progressVars, workVars, outcomeVars, othersVars, TransactionTypeOK,
            LoopsKnow, OwnFits, OthersFits,
           Unswitched, Linked, Baseline, Intended, File
<1> DEFINE p == FileOrder[i]
<1>0. /\ TransactionTypeOK /\ LoopsKnow /\ OwnFits(i) /\ OthersFits(i)
      /\ N \in Nat /\ File \in Files /\ p \in Files /\ (i # at => p # File)
      /\ Kind[p] \in {"new", "replace", "delete"}
  BY NumbersAndFiles, ConfigTransactionAssumption DEF FailureInv, TransactionTypeOK
<1>00. LooksNoMore(p) <=> (pc = "verify" /\ i < at) \/ pc \in {"committed", "raised", "closed"}
  BY <1>0, NumbersAndFiles DEF LooksNoMore
<1>1. CASE PrepareCandidates
  BY <1>0, <1>1 DEF PrepareCandidates
<1>2. CASE PrepareCompares
  BY <1>0, <1>2 DEF PrepareCompares, Advance
<1>3. CASE PrepareLinks
  BY <1>0, <1>3 DEF PrepareLinks, Advance, Unchanged, Snapshot
<1>4. CASE PrepareRefuses
  BY <1>0, <1>4 DEF PrepareRefuses, PrepareRaises
<1>5. CASE StartCommit
  BY <1>0, <1>5 DEF StartCommit
<1>6. CASE CommitCompares
  BY <1>0, <1>6 DEF CommitCompares, Advance
<1>7. CASE CommitRegisters
  BY <1>0, <1>7 DEF CommitRegisters, Unchanged, Snapshot
<1>8. CASE CommitSwitches
  BY <1>0, <1>8 DEF CommitSwitches
<1>9. CASE CommitConfirms
  BY <1>0, <1>9 DEF CommitConfirms, AsIntended, Snapshot, BackupSnapshot
<1>10. CASE CommitVerifies
  BY <1>0, <1>10 DEF CommitVerifies, Advance, AsIntended, Snapshot, BackupSnapshot
<1>11. CASE CommitRefuses
  BY <1>0, <1>11 DEF CommitRefuses, CommitRaises, Committing
<1>12. CASE RestoreLooks
  BY <1>0, <1>12
     DEF RestoreLooks, RestoreNext, RestoreSkips, RestoreAsIntended, Unchanged, Snapshot
<1>13. CASE RestorePutsBack
  <2>1. CASE i = at
    BY <1>0, <1>13, <2>1 DEF RestorePutsBack, RestoreNext
  <2>2. CASE i # at
    <3>1. /\ entry'[p] = entry[p] /\ backup'[p] = backup[p]
      BY <1>0, <1>13, <2>2 DEF RestorePutsBack
    <3>2. /\ pc' \in {"restore", "restored"} /\ pc = "putback"
          /\ UNCHANGED <<written, changed, committed, othersVars>>
      BY <1>13 DEF RestorePutsBack, RestoreNext
    <3> QED
      BY <1>0, <3>1, <3>2
  <2> QED
    BY <2>1, <2>2
<1>14. CASE RestoreFails
  BY <1>0, <1>14 DEF RestoreFails, RestoreNext, Trouble
<1>15. CASE RestoreInterrupted
  BY <1>0, <1>15 DEF RestoreInterrupted, Trouble
<1>16. CASE RestoreEnds
  BY <1>0, <1>16 DEF RestoreEnds
<1>17. CASE StepFails
  BY <1>0, <1>17 DEF StepFails, PrepareRaises, CommitRaises, Committing, Trouble
<1>18. CASE Cleanup
  <2>1. pc' = "closed" /\ UNCHANGED <<fileVars, changed, committed, othersVars>>
    BY <1>18 DEF Cleanup
  <2>2. backup'[p] = backup[p] \/ (backup'[p] = "none" /\ ~preserve)
    BY <1>0, <1>18 DEF Cleanup
  <2> QED
    BY <1>0, <1>18, <2>1, <2>2 DEF Cleanup, Restored
<1>19. ASSUME NEW q \in Files, AnotherWrites(q) PROVE OthersFits(i)'
  <2>1. UNCHANGED <<progressVars, workVars, changed, outcomeVars>>
    BY <1>19 DEF AnotherWrites, AnotherProgram
  <2>2. CASE p # q
    <3>1. /\ entry'[p] = entry[p] /\ written'[p] = written[p] /\ other'[p] = other[p]
      BY <1>0, <1>19, <2>2 DEF AnotherWrites, AnotherProgram
    <3>2. unseen'[p] = unseen[p]
      BY <1>0, <1>19, <2>2 DEF AnotherWrites
    <3> QED
      BY <1>0, <2>1, <3>1, <3>2
  <2>3. CASE p = q
    <3>1. /\ other[p] = "no" /\ other'[p] = ("wrote") /\ UNCHANGED entry
          /\ \E f \in {entry[p], backup[p]} \ {"none", "other"} : written'[p] = written[p] \cup {f}
      BY <1>0, <1>19, <2>3 DEF AnotherWrites, AnotherProgram
    <3>2. unseen'[p] = (LooksNoMore(p) \/ (Blind(p) /\ pc = "putback"))
      BY <1>0, <1>19, <2>3 DEF AnotherWrites
    <3> QED
      BY <1>0, <1>00, <2>1, <3>1, <3>2 DEF Blind
  <2> QED
    BY <2>2, <2>3
<1>20. ASSUME NEW q \in Files, AnotherReplaces(q) PROVE OthersFits(i)'
  <2>1. UNCHANGED <<progressVars, workVars, changed, outcomeVars>>
    BY <1>20 DEF AnotherReplaces, AnotherProgram
  <2>2. CASE p # q
    <3>1. /\ entry'[p] = entry[p] /\ written'[p] = written[p] /\ other'[p] = other[p]
      BY <1>0, <1>20, <2>2 DEF AnotherReplaces, AnotherProgram
    <3>2. unseen'[p] = unseen[p]
      BY <1>0, <1>20, <2>2 DEF AnotherReplaces
    <3> QED
      BY <1>0, <2>1, <3>1, <3>2
  <2>3. CASE p = q
    <3>1. /\ other[p] = "no" /\ other'[p] = (IF entry[p] = "none" THEN "created" ELSE "replaced") /\ UNCHANGED written
          /\ entry'[p] = "other"
      BY <1>0, <1>20, <2>3 DEF AnotherReplaces, AnotherProgram
    <3>2. unseen'[p] = (LooksNoMore(p) \/ Blind(p))
      BY <1>0, <1>20, <2>3 DEF AnotherReplaces
    <3> QED
      BY <1>0, <1>00, <2>1, <3>1, <3>2 DEF Blind
  <2> QED
    BY <2>2, <2>3
<1>21. ASSUME NEW q \in Files, AnotherRemoves(q) PROVE OthersFits(i)'
  <2>1. UNCHANGED <<progressVars, workVars, changed, outcomeVars>>
    BY <1>21 DEF AnotherRemoves, AnotherProgram
  <2>2. CASE p # q
    <3>1. /\ entry'[p] = entry[p] /\ written'[p] = written[p] /\ other'[p] = other[p]
      BY <1>0, <1>21, <2>2 DEF AnotherRemoves, AnotherProgram
    <3>2. unseen'[p] = unseen[p]
      BY <1>0, <1>21, <2>2 DEF AnotherRemoves
    <3> QED
      BY <1>0, <2>1, <3>1, <3>2
  <2>3. CASE p = q
    <3>1. /\ other[p] = "no" /\ other'[p] = ("removed") /\ UNCHANGED written
          /\ entry[p] # "none" /\ entry'[p] = "none"
      BY <1>0, <1>21, <2>3 DEF AnotherRemoves, AnotherProgram
    <3>2. unseen'[p] = (LooksNoMore(p) \/ Blind(p) \/ (Kind[p] = "delete" /\ p \in changed))
      BY <1>0, <1>21, <2>3 DEF AnotherRemoves
    <3> QED
      BY <1>0, <1>00, <2>1, <3>1, <3>2 DEF Blind
  <2> QED
    BY <2>2, <2>3
<1> QED
  BY <1>1, <1>2, <1>3, <1>4, <1>5, <1>6, <1>7, <1>8, <1>9, <1>10, <1>11, <1>12, <1>13,
     <1>14, <1>15, <1>16, <1>17, <1>18, <1>19, <1>20, <1>21
     DEF TransactionNext, PrepareStep, CommitStep, RestoreStep, OthersStep

\* In the start nothing is switched and nobody has been at a file.
LEMMA TransactionStarts == TransactionInit => FailureInv /\ CommitIsExclusive
<1> SUFFICES ASSUME TransactionInit PROVE FailureInv /\ CommitIsExclusive
  OBVIOUS
<1> USE DEF TransactionInit
<1>1. /\ N \in Nat /\ N > 0 /\ MaxInterrupts \in Nat
      /\ \A p \in Files : Kind[p] \in {"new", "replace", "delete"}
      /\ \A i \in 1..N : FileOrder[i] \in Files
  BY NumbersAndFiles, ConfigTransactionAssumption
<1>2. TransactionTypeOK
  <2>1. entry \in [Files -> {"none", "orig", "cand", "other"}]
    BY DEF Baseline
  <2>2. /\ written \in [Files -> SUBSET {"orig", "cand"}]
        /\ backup \in [Files -> {"none", "orig"}]
        /\ other \in [Files -> {"no", "wrote", "replaced", "created", "removed"}]
    OBVIOUS
  <2>3. unseen \in [Files -> BOOLEAN]
    OBVIOUS
  <2>4. preserve \in BOOLEAN /\ errors \in BOOLEAN /\ committed \in BOOLEAN
    OBVIOUS
  <2>5. pc \in Loops /\ at \in 1..N /\ interrupts \in 0..MaxInterrupts
    BY <1>1 DEF Loops
  <2>6. prepared \subseteq Files /\ changed \subseteq Files /\ raised \in {"no", "error", "interrupt"}
    OBVIOUS
  <2> QED
    BY <2>1, <2>2, <2>3, <2>4, <2>5, <2>6 DEF TransactionTypeOK
<1>3. Undone /\ OldVersionKept /\ LoopsKnow /\ CommitIsExclusive
  BY <1>1 DEF Undone, OldVersionKept, LoopsKnow, CommitIsExclusive, Baseline
<1>4. ASSUME NEW i \in 1..N PROVE OwnFits(i) /\ OthersFits(i)
  BY <1>1 DEF OwnFits, OthersFits, Unswitched, Linked, Restored, Baseline, Intended
<1> QED
  BY <1>2, <1>3, <1>4 DEF FailureInv

\* What is known of every file says that a failed commit is undone, that the old
\* version has a name and that a published commit was alone.
LEMMA FilesFit ==
  ASSUME TransactionTypeOK, LoopsKnow, \A i \in 1..N : OwnFits(i) /\ OthersFits(i)
  PROVE  FailureInv /\ CommitIsExclusive
<1> USE DEF TransactionTypeOK
<1>1. ASSUME NEW p \in Files PROVE \E i \in 1..N : p = FileOrder[i]
  BY NumbersAndFiles
<1>2. ASSUME NEW p \in Files PROVE Kind[p] \in {"new", "replace", "delete"}
  BY ConfigTransactionAssumption
<1>3. ASSUME pc \in {"raised", "closed"}, ~committed, ~preserve, NEW p \in Files
      PROVE  /\ other[p] = "no" => Unchanged(p)
             /\ ~unseen[p] => CASE other[p] = "wrote" -> Snapshot(p) = "other"
                                [] other[p] \in {"created", "replaced"} -> entry[p] = "other"
                                [] other[p] = "removed" -> entry[p] = "none"
                                [] OTHER -> TRUE
  <2>1. PICK i \in 1..N : p = FileOrder[i]
    BY <1>1
  <2>2. OwnFits(i) /\ OthersFits(i) /\ Restored(i)
    BY <1>3 DEF Restored
  <2>3. Kind[p] \in {"new", "replace", "delete"}
    BY <1>2
  <2>4. other[p] = "no" => entry[p] = Baseline(p) /\ written[p] = {}
    BY <2>1, <2>2 DEF OwnFits, OthersFits
  <2>5. other[p] = "no" => Unchanged(p)
    BY <2>4 DEF Unchanged, Snapshot
  <2>6. ASSUME ~unseen[p], other[p] = "wrote" PROVE entry[p] \in written[p]
    <3>1. \/ entry[p] \in written[p]
          \/ entry[p] = Intended(p) /\ backup[p] \in written[p]
      BY <2>1, <2>2, <2>6 DEF OthersFits
    <3>2. Kind[p] # "new" => entry[p] = Baseline(p)
      BY <2>1, <2>2, <2>6 DEF OwnFits
    <3>3. backup[p] \in {"none", Baseline(p)} /\ written[p] \subseteq {"orig", "cand"}
      BY <2>1, <2>2 DEF OthersFits
    <3> QED
      BY <2>3, <3>1, <3>2, <3>3 DEF Baseline, Intended
  <2>7. ~unseen[p] => /\ other[p] \in {"created", "replaced"} => entry[p] = "other"
                      /\ other[p] = "removed" => entry[p] = "none"
    BY <2>1, <2>2 DEF OthersFits
  <2> QED
    BY <2>5, <2>6, <2>7 DEF Snapshot
<1>4. ASSUME ~committed, NEW p \in Files, Kind[p] # "new", other[p] \in {"no", "wrote"}
      PROVE  "orig" \in {entry[p], backup[p]}
  <2>1. PICK i \in 1..N : p = FileOrder[i]
    BY <1>1
  <2> QED
    BY <1>2, <1>4, <2>1 DEF OwnFits, Baseline, Intended
<1>5. CommitIsExclusive
  BY <1>1 DEF CommitIsExclusive, OthersFits
<1> QED
  BY <1>3, <1>4, <1>5 DEF FailureInv, Undone, OldVersionKept

\* A stutter changes none of it.
LEMMA TransactionStutters ==
  ASSUME FailureInv, UNCHANGED transactionVars PROVE FailureInv'
<1> USE DEF transactionVars, fileVars, progressVars, workVars, outcomeVars, othersVars
<1>1. TransactionTypeOK' /\ LoopsKnow'
  BY DEF FailureInv, TransactionTypeOK, LoopsKnow
<1>2. Undone' /\ OldVersionKept'
  BY DEF FailureInv, Undone, OldVersionKept, Unchanged, Snapshot
<1>3. ASSUME NEW i \in 1..N PROVE OwnFits(i)' /\ OthersFits(i)'
  <2>1. OwnFits(i) /\ OthersFits(i)
    BY DEF FailureInv
  <2> QED
    BY <2>1 DEF OwnFits, OthersFits, Unswitched, Linked, Restored
<1> QED
  BY <1>1, <1>2, <1>3 DEF FailureInv

\* A step of the transaction keeps its invariant.
LEMMA TransactionNextKeeps ==
  ASSUME FailureInv, TransactionNext PROVE FailureInv'
<1>1. TransactionTypeOK' /\ LoopsKnow'
  BY TransactionTypeStep, LoopsStep
<1>2. \A i \in 1..N : OwnFits(i)' /\ OthersFits(i)'
  BY OwnStep, OthersStepKeeps
<1>3. (TransactionTypeOK /\ LoopsKnow /\ (\A i \in 1..N : OwnFits(i) /\ OthersFits(i)))' => FailureInv'
  BY FilesFit, PTL
<1> QED
  BY <1>1, <1>2, <1>3

\* In every behaviour of the transaction, a commit that fails either puts every file
\* back as it was, or as another program made it, or leaves what is needed to recover.
THEOREM FailureInvariant == TransactionSpec => []FailureInv
BY TransactionStarts, TransactionNextKeeps, TransactionStutters, PTL DEF TransactionSpec

\* And a commit that is published was made by the transaction alone, as far as any
\* look at the files can tell.
THEOREM CommitsAreExclusive == TransactionSpec => []CommitIsExclusive
<1>1. FailureInv => CommitIsExclusive
  BY FilesFit DEF FailureInv
<1> QED
  BY <1>1, FailureInvariant, PTL
-----------------------------------------------------------------------------
\* The steps of a run, one by one.
LEMMA WizardSteps ==
  ASSUME WizardNext
  PROVE  \/ Prepares \/ Confirms \/ Connects \/ SendsScript \/ Returns \/ Unanswered \/ Verifies
         \/ Commits \/ Raises \/ Caught \/ RollbackSkips \/ LinuxLooks \/ LinuxLooksAgain
         \/ WindowsLooks \/ LinuxSwitches \/ WindowsRestores \/ RollbackFails \/ RunCleanup \/ Others
         \/ \E g \in Hosts :
              \/ ScriptCopies(g) \/ ScriptProtects(g) \/ ScriptAppends(g) \/ ScriptEnds(g)
              \/ ScriptFails(g) \/ Edit(g)
BY DEF WizardNext, InstallStep, RollbackStep, TargetStep, LinuxReturns, WindowsReturns,
   RefusedAnswer,
       NoAnswer, LinuxInstall, WindowsInstall, Script

\* What the steps of the transaction that a run takes leave alone.
LEMMA StepsOfTheRun ==
  ASSUME LoopsKnow
  PROVE  /\ OthersStep => UNCHANGED <<progressVars, workVars, changed, outcomeVars, interrupts>>
         /\ StartCommit \/ CommitStep \/ RestoreStep =>
              pc' \notin {"staged", "baselines", "backups", "closed"}
         /\ StepFails => pc' \in {"raised", "restore"} /\ UNCHANGED committed
         /\ pc = "committed" => committed
         /\ committed => pc \in {"committed", "closed"}
<1>1. OthersStep => UNCHANGED <<progressVars, workVars, changed, outcomeVars, interrupts>>
  BY DEF OthersStep, AnotherWrites, AnotherReplaces, AnotherRemoves, AnotherProgram
<1>2. StartCommit \/ CommitStep => pc' \notin {"staged", "baselines", "backups", "closed"}
  BY DEF StartCommit, CommitStep, CommitCompares, CommitRegisters, CommitSwitches, CommitConfirms,
         CommitVerifies, CommitRefuses, CommitRaises, Advance
<1>3. RestoreStep => pc' \notin {"staged", "baselines", "backups", "closed"}
  BY DEF RestoreStep, RestoreLooks, RestorePutsBack, RestoreFails, RestoreInterrupted,
     RestoreEnds,
         RestoreNext
<1>4. StepFails => pc' \in {"raised", "restore"} /\ UNCHANGED committed
  BY DEF StepFails, PrepareRaises, CommitRaises
<1> QED
  BY <1>1, <1>2, <1>3, <1>4 DEF LoopsKnow

\* The targets and their numbers.
LEMMA NumbersAndHosts ==
  /\ Len(HostOrder) \in Nat /\ Len(HostOrder) > 0
  /\ \A i \in 1..Len(HostOrder) : HostOrder[i] \in Hosts
  /\ \A i, j \in 1..Len(HostOrder) : HostOrder[i] = HostOrder[j] => i = j
  /\ \A h \in Hosts : \E i \in 1..Len(HostOrder) : h = HostOrder[i]
BY WizardRunAssumption DEF Hosts

\* Every variable of the run keeps its type.
LEMMA WizardTypeStep ==
  ASSUME RunInv, WizardNext PROVE WizardTypeOK'
<1> USE DEF targetVars, scriptVars, wizardVars, reportVars, WizardTypeOK, Contents
<1>0. /\ WizardTypeOK /\ Len(HostOrder) \in Nat /\ Len(HostOrder) > 0 /\ Host \in Hosts
  BY NumbersAndHosts DEF RunInv, WizardTypeOK, Host
<1>1. CASE Prepares
  BY <1>0, <1>1 DEF Prepares
<1>2. CASE Confirms
  BY <1>0, <1>2 DEF Confirms
<1>3. CASE Connects
  BY <1>0, <1>3 DEF Connects
<1>4. CASE SendsScript
  BY <1>0, <1>4 DEF SendsScript
<1>5. CASE Returns
  BY <1>0, <1>5 DEF Returns, Recorded
<1>6. CASE Unanswered
  BY <1>0, <1>6 DEF Unanswered, Trouble, Fail
<1>7. CASE Verifies
  BY <1>0, <1>7 DEF Verifies
<1>8. CASE Commits
  BY <1>0, <1>8 DEF Commits
<1>9. CASE Raises
  BY <1>0, <1>9 DEF Raises, Trouble, Fail
<1>10. CASE Caught
  BY <1>0, <1>10 DEF Caught
<1>11. CASE RollbackSkips
  BY <1>0, <1>11 DEF RollbackSkips, RollbackNext, Rolling
<1>12. CASE LinuxLooks
  BY <1>0, <1>12 DEF LinuxLooks, Looks, AsInstalled, Rolling
<1>13. CASE LinuxLooksAgain
  BY <1>0, <1>13 DEF LinuxLooksAgain, Looks, AsInstalled, Rolling
<1>14. CASE WindowsLooks
  BY <1>0, <1>14 DEF WindowsLooks, Looks, AsInstalled, Rolling
<1>15. CASE LinuxSwitches
  <2>1. keys[Host] \in Contents /\ installed[Host] \in Contents /\ copy[Host] \in Contents
    BY <1>0
  <2>2. LinuxRolledBack(Host) \in Contents
    BY <2>1 DEF LinuxRolledBack
  <2>3. keys' = [keys EXCEPT ![Host] = LinuxRolledBack(Host)]
    BY <1>15 DEF LinuxSwitches, RollsBack
  <2>4. keys' \in [Hosts -> Contents]
    BY <1>0, <2>2, <2>3
  <2>5. main' \in {"rollback", "cleanup"} /\ host' \in 1..Len(HostOrder)
    BY <1>0, <1>15 DEF LinuxSwitches, RollsBack, RollbackNext
  <2>6. UNCHANGED <<scriptVars, edited, inflight, changes, reportVars>>
    BY <1>15 DEF LinuxSwitches, RollsBack
  <2> QED
    BY <1>0, <2>4, <2>5, <2>6
<1>16. CASE WindowsRestores
  <2>1. keys[Host] \in Contents /\ installed[Host] \in Contents /\ copy[Host] \in Contents
    BY <1>0
  <2>2. WindowsRolledBack(Host) \in Contents
    BY <2>1 DEF WindowsRolledBack
  <2>3. keys' = [keys EXCEPT ![Host] = WindowsRolledBack(Host)]
    BY <1>16 DEF WindowsRestores, RollsBack
  <2>4. keys' \in [Hosts -> Contents]
    BY <1>0, <2>2, <2>3
  <2>5. main' \in {"rollback", "cleanup"} /\ host' \in 1..Len(HostOrder)
    BY <1>0, <1>16 DEF WindowsRestores, RollsBack, RollbackNext
  <2>6. UNCHANGED <<scriptVars, edited, inflight, changes, reportVars>>
    BY <1>16 DEF WindowsRestores, RollsBack
  <2> QED
    BY <1>0, <2>4, <2>5, <2>6
<1>17. CASE RollbackFails
  <2>1. /\ keys[Host] \in Contents /\ installed[Host] \in Contents /\ copy[Host] \in Contents
    BY <1>0
  <2>2. /\ LinuxRolledBack(Host) \in Contents /\ WindowsRolledBack(Host) \in Contents
    BY <2>1 DEF LinuxRolledBack, WindowsRolledBack, KeyAdded
  <2>3. keys' \in [Hosts -> Contents]
    <3>1. PICK content \in CASE main = "switch" -> LinuxMayLeave(Host)
                              [] main = "restore" -> WindowsMayLeave(Host)
                              [] OTHER -> {keys[Host]} :
                 keys' = [keys EXCEPT ![Host] = content]
      BY <1>17 DEF RollbackFails
    <3>2. content \in Contents
      BY <2>1, <2>2, <3>1 DEF LinuxMayLeave, WindowsMayLeave
    <3> QED
      BY <1>0, <3>1, <3>2
  <2>4. main' \in {"rollback", "cleanup"} /\ host' \in 1..Len(HostOrder)
    BY <1>0, <1>17 DEF RollbackFails, RollbackNext
  <2>5. failures' \in BOOLEAN /\ UNCHANGED <<scriptVars, edited, inflight, changes>>
    BY <1>17 DEF RollbackFails
  <2> QED
    BY <1>0, <2>3, <2>4, <2>5
<1>18. CASE RunCleanup
  BY <1>0, <1>18 DEF RunCleanup
<1>19. CASE Others
  BY <1>0, <1>19, StepsOfTheRun DEF Others, FailureInv
<1>20. ASSUME NEW g \in Hosts, ScriptCopies(g) PROVE WizardTypeOK'
  BY <1>0, <1>20 DEF ScriptCopies, ScriptGoes
<1>21. ASSUME NEW g \in Hosts, ScriptProtects(g) PROVE WizardTypeOK'
  <2>1. keys' = [keys EXCEPT ![g].mode = "strict"]
    BY <1>21 DEF ScriptProtects
  <2>2. keys[g] \in Contents
    BY <1>0, <1>21
  <2>3. [keys[g] EXCEPT !.mode = "strict"] \in Contents
    BY <2>2
  <2>4. keys' \in [Hosts -> Contents]
    BY <1>0, <1>21, <2>1, <2>3
  <2>5. /\ script' = [script EXCEPT ![g] = "protected"]
        /\ UNCHANGED <<wizardVars, start, copy, installed, edited>>
    BY <1>21 DEF ScriptProtects, ScriptGoes
  <2> QED
    BY <1>0, <2>4, <2>5
<1>22. ASSUME NEW g \in Hosts, ScriptAppends(g) PROVE WizardTypeOK'
  <2>1. keys' = [keys EXCEPT ![g].key = IF @ = "absent" THEN "ours" ELSE @]
    BY <1>22 DEF ScriptAppends
  <2>2. keys[g] \in Contents
    BY <1>0, <1>22
  <2>3. [keys[g] EXCEPT !.key = IF @ = "absent" THEN "ours" ELSE @] \in Contents
    BY <2>2
  <2>4. keys' \in [Hosts -> Contents]
    BY <1>0, <1>22, <2>1, <2>3
  <2>5. script' = [script EXCEPT ![g] = "added"]
    BY <1>22 DEF ScriptAppends, ScriptGoes
  <2>6. UNCHANGED <<wizardVars, start, copy, installed, edited>>
    BY <1>22 DEF ScriptAppends, ScriptGoes
  <2> QED
    BY <1>0, <2>4, <2>5, <2>6
<1>23. ASSUME NEW g \in Hosts, ScriptEnds(g) PROVE WizardTypeOK'
  BY <1>0, <1>23 DEF ScriptEnds, ScriptGoes
<1>24. ASSUME NEW g \in Hosts, ScriptFails(g) PROVE WizardTypeOK'
  BY <1>0, <1>24 DEF ScriptFails, ScriptGoes
<1>25. ASSUME NEW g \in Hosts, Edit(g) PROVE WizardTypeOK'
  <2>1. keys[g] \in Contents
    BY <1>0, <1>25
  <2>2. [keys[g] EXCEPT !.edit = TRUE] \in Contents
    BY <2>1
  <2>3. keys' \in [Hosts -> Contents]
    BY <1>0, <1>25, <2>2 DEF Edit
  <2>4. edited' \in [Hosts -> {"no", "before", "during", "after", "blind"}]
    BY <1>0, <1>25 DEF Edit
  <2>5. UNCHANGED <<scriptVars, wizardVars>>
    BY <1>25 DEF Edit
  <2> QED
    BY <1>0, <2>3, <2>4, <2>5
<1> QED
  BY <1>1, <1>2, <1>3, <1>4, <1>5, <1>6, <1>7, <1>8, <1>9, <1>10, <1>11, <1>12, <1>13,
     <1>14, <1>15, <1>16,
     <1>17, <1>18, <1>19, <1>20, <1>21, <1>22, <1>23, <1>24, <1>25, WizardSteps

\* What a report says, of a run that was committed and of one that was not.
LEMMA ToldOf ==
  ASSUME NEW left
  PROVE  /\ committed => Told(left).said = "committed" /\ Told(left).left = left
         /\ ~committed =>
              /\ Told(left).said = "not committed"
              /\ Told(left).left = IF preserve /\ raised = "error" THEN "something" ELSE left
              /\ Told(left).keys = IF failures \/ inflight THEN "uncertain" ELSE "rolled back"
<1> DEFINE l == IF preserve /\ raised = "error" THEN "something" ELSE left
           k == IF failures \/ inflight THEN "uncertain" ELSE "rolled back"
           f == IF preserve /\ raised = "error" THEN "uncertain" ELSE "untouched"
           r == Told(left)
<1>1. ASSUME committed PROVE Told(left).said = "committed" /\ Told(left).left = left
  BY <1>1 DEF Told
<1>2. ASSUME ~committed PROVE r.said = "not committed" /\ r.left = l /\ r.keys = k
  <2>1. r = [said |-> "not committed", left |-> l, keys |-> k, files |-> f]
    BY <1>2, Zenon DEF Told
  <2> HIDE DEF l, k, f, r
  <2> QED
    BY <2>1
<1> QED
  BY <1>1, <1>2, Zenon

\* The wizard and the transaction stay together.
LEMMA MainStep ==
  ASSUME RunInv, FailureInv, WizardNext PROVE MainKnows'
<1> USE DEF targetVars, scriptVars, wizardVars, reportVars, transactionVars, progressVars,
            outcomeVars, workVars, WizardTypeOK, MainKnows, Host, Told, Emptied, Rolling
<1>0. /\ WizardTypeOK /\ MainKnows /\ Host \in Hosts /\ Len(HostOrder) \in Nat /\ Len(HostOrder) > 0
      /\ Host \in changes => script[Host] = "done"
      /\ \A i, j \in 1..Len(HostOrder) : HostOrder[i] = HostOrder[j] => i = j
      /\ pc = "committed" => committed
      /\ committed => pc \in {"committed", "closed"}
  BY NumbersAndHosts, StepsOfTheRun DEF RunInv, WizardTypeOK, Host, ScriptFits, FailureInv
<1>1. CASE Prepares
  BY <1>0, <1>1 DEF Prepares
<1>2. CASE Confirms
  BY <1>0, <1>2 DEF Confirms
<1>3. CASE Connects
  BY <1>0, <1>3 DEF Connects
<1>4. CASE SendsScript
  BY <1>0, <1>4 DEF SendsScript
<1>5. CASE Returns
  BY <1>0, <1>5 DEF Returns
<1>6. CASE Unanswered
  BY <1>0, <1>6 DEF Unanswered, Trouble, Fail
<1>7. CASE Verifies
  BY <1>0, <1>7 DEF Verifies
<1>8. CASE Commits
  <2>1. main = "commit" /\ UNCHANGED <<targetVars, wizardVars>>
    BY <1>8 DEF Commits
  <2>2. pc' \notin {"staged", "baselines", "backups", "closed"}
    BY <1>8, StepsOfTheRun DEF Commits, FailureInv
  <2> QED
    BY <1>0, <2>1, <2>2
<1>9. CASE Raises
  <2>1. CASE /\ main \in {"prepare", "commit"} /\ StepFails
             /\ UNCHANGED <<targetVars, wizardVars>>
    <3>1. pc' \in {"raised", "restore"} /\ UNCHANGED committed
      BY <2>1, StepsOfTheRun DEF FailureInv
    <3> QED
      BY <1>0, <2>1, <3>1
  <2>2. CASE \E kind \in {"error", "interrupt"} :
               /\ Trouble(kind)
               /\ main \in {"connect", "send", "verify"} \/ (main \in {"prepare", "commit"} /\ pc = "ready")
               /\ Fail(kind)
               /\ UNCHANGED <<targetVars, inflight, changes, reportVars>>
    <3>1. /\ main' = "rollback" /\ UNCHANGED <<pc, committed, inflight>>
          /\ main \in {"connect", "send", "verify"} \/ pc = "ready"
      BY <2>2 DEF Fail
    <3> QED
      BY <1>0, <3>1
  <2> QED
    BY <1>9, <2>1, <2>2 DEF Raises
<1>10. CASE Caught
  BY <1>0, <1>10 DEF Caught
<1>11. CASE RollbackSkips
  BY <1>0, <1>11 DEF RollbackSkips, RollbackNext, Rolling
<1>12. CASE LinuxLooks
  BY <1>0, <1>12 DEF LinuxLooks, Looks, AsInstalled, Rolling
<1>13. CASE LinuxLooksAgain
  BY <1>0, <1>13 DEF LinuxLooksAgain, Looks, AsInstalled, Rolling
<1>14. CASE WindowsLooks
  BY <1>0, <1>14 DEF WindowsLooks, Looks, AsInstalled, Rolling
<1>15. CASE LinuxSwitches
  BY <1>0, <1>15 DEF LinuxSwitches, RollsBack, RollbackNext, Rolling
<1>16. CASE WindowsRestores
  BY <1>0, <1>16 DEF WindowsRestores, RollsBack, RollbackNext, Rolling
<1>17. CASE RollbackFails
  BY <1>0, <1>17 DEF RollbackFails, RollbackNext, Rolling
<1>18. CASE RunCleanup
  <2>1. UNCHANGED <<preserve, committed, raised, failures, inflight>> /\ pc' = "closed" /\ main' = "exit"
    BY <1>18 DEF RunCleanup
  <2>2. Told("something")' = Told("something") /\ Told("nothing")' = Told("nothing")
    BY <2>1, Zenon
  <2> HIDE DEF Told, Emptied
  <2>3. \/ report' = Told("something")
        \/ report' = Told("nothing") /\ preserve
        \/ report' = Told("nothing") /\ prepared' = {} /\ backup' = [p \in Files |-> "none"]
    BY <1>18, Zenon DEF RunCleanup
  <2>4. prepared' = {} /\ backup' = [p \in Files |-> "none"] => Emptied'
    BY DEF Emptied
  <2> QED
    BY <1>0, <1>18, <2>1, <2>2, <2>3, <2>4 DEF RunCleanup
<1>19. CASE Others
  <2>1. UNCHANGED <<pc, committed, preserve, raised, prepared, backup>>
    BY <1>19, StepsOfTheRun DEF Others, FailureInv
  <2>2. UNCHANGED <<targetVars, wizardVars>>
    BY <1>19 DEF Others
  <2> QED
    BY <1>0, <2>1, <2>2
<1>20. ASSUME NEW g \in Hosts, ScriptCopies(g) PROVE MainKnows'
  BY <1>0, <1>20 DEF ScriptCopies, ScriptGoes
<1>21. ASSUME NEW g \in Hosts, ScriptProtects(g) PROVE MainKnows'
  BY <1>0, <1>21 DEF ScriptProtects, ScriptGoes
<1>22. ASSUME NEW g \in Hosts, ScriptAppends(g) PROVE MainKnows'
  BY <1>0, <1>22 DEF ScriptAppends, ScriptGoes
<1>23. ASSUME NEW g \in Hosts, ScriptEnds(g) PROVE MainKnows'
  BY <1>0, <1>23 DEF ScriptEnds, ScriptGoes
<1>24. ASSUME NEW g \in Hosts, ScriptFails(g) PROVE MainKnows'
  <2>1. /\ script[g] \in {"sent", "copied", "protected", "added"}
        /\ UNCHANGED <<transactionVars, wizardVars, installed, edited>>
    BY <1>24 DEF ScriptFails, ScriptGoes
  <2>2. Host \in changes => keys'[Host] = keys[Host]
    BY <1>0, <1>24, <2>1 DEF ScriptFails
  <2> QED
    BY <1>0, <2>1, <2>2
<1>25. ASSUME NEW g \in Hosts, Edit(g) PROVE MainKnows'
  BY <1>0, <1>25 DEF Edit
<1> QED
  BY <1>1, <1>2, <1>3, <1>4, <1>5, <1>6, <1>7, <1>8, <1>9, <1>10, <1>11, <1>12, <1>13,
     <1>14, <1>15, <1>16,
     <1>17, <1>18, <1>19, <1>20, <1>21, <1>22, <1>23, <1>24, <1>25, WizardSteps

\* The order of the targets is kept.
LEMMA ScriptFitsStep ==
  ASSUME RunInv, FailureInv, WizardNext, NEW i \in 1..Len(HostOrder) PROVE ScriptFits(i)'
<1> USE DEF targetVars, scriptVars, wizardVars, reportVars, transactionVars, outcomeVars,
            WizardTypeOK, MainKnows, ScriptFits, Same, Host
<1> DEFINE h == HostOrder[i]
<1>0. /\ WizardTypeOK /\ MainKnows /\ ScriptFits(i) /\ KeysFit(i) /\ EditFits(i)
      /\ Host \in Hosts /\ h \in Hosts /\ (h = Host <=> i = host) /\ Len(HostOrder) \in Nat /\ host \in 1..Len(HostOrder)
      /\ pc = "committed" => committed
      /\ committed => pc \in {"committed", "closed"}
  BY NumbersAndHosts, StepsOfTheRun DEF RunInv, WizardTypeOK, Host, FailureInv
<1>00. start[h] \in Contents /\ start[h].key # "ours" /\ ~start[h].edit
  <2>1. start \in [Hosts -> {c \in Contents : c.key # "ours" /\ ~c.edit}]
    BY <1>0, WizardRunAssumption DEF WizardTypeOK
  <2>2. start[h] \in {c \in Contents : c.key # "ours" /\ ~c.edit}
    BY <1>0, <2>1
  <2> QED
    BY <2>2
<1>1. CASE Prepares
  BY <1>0, <1>00, <1>1 DEF Prepares
<1>2. CASE Confirms
  BY <1>0, <1>00, <1>2 DEF Confirms
<1>3. CASE Connects
  BY <1>0, <1>00, <1>3 DEF Connects
<1>4. CASE SendsScript
  BY <1>0, <1>00, <1>4 DEF SendsScript
<1>5. CASE Returns
  BY <1>0, <1>00, <1>5 DEF Returns, Recorded, KeyAdded, KeysFit
<1>6. CASE Unanswered
  BY <1>0, <1>00, <1>6 DEF Unanswered, Trouble, Fail
<1>7. CASE Verifies
  BY <1>0, <1>00, <1>7 DEF Verifies
<1>8. CASE Commits
  BY <1>0, <1>00, <1>8 DEF Commits
<1>9. CASE Raises
  BY <1>0, <1>00, <1>9 DEF Raises, Trouble, Fail
<1>10. CASE Caught
  BY <1>0, <1>00, <1>10 DEF Caught
<1>11. CASE RollbackSkips
  BY <1>0, <1>00, <1>11 DEF RollbackSkips, RollbackNext, Rolling
<1>12. CASE LinuxLooks
  BY <1>0, <1>00, <1>12 DEF LinuxLooks, Looks, AsInstalled, Rolling
<1>13. CASE LinuxLooksAgain
  BY <1>0, <1>00, <1>13 DEF LinuxLooksAgain, Looks, AsInstalled, Rolling
<1>14. CASE WindowsLooks
  BY <1>0, <1>00, <1>14 DEF WindowsLooks, Looks, AsInstalled, Rolling
<1>15. CASE LinuxSwitches
  BY <1>0, <1>00, <1>15 DEF LinuxSwitches, RollsBack, RollbackNext, Rolling
<1>16. CASE WindowsRestores
  BY <1>0, <1>00, <1>16 DEF WindowsRestores, RollsBack, RollbackNext, Rolling
<1>17. CASE RollbackFails
  BY <1>0, <1>00, <1>17 DEF RollbackFails, RollbackNext, Rolling
<1>18. CASE RunCleanup
  BY <1>0, <1>00, <1>18 DEF RunCleanup
<1>19. CASE Others
  BY <1>0, <1>00, <1>19, StepsOfTheRun DEF Others, FailureInv
<1>20. ASSUME NEW g \in Hosts, ScriptCopies(g) PROVE ScriptFits(i)'
  BY <1>0, <1>00, <1>20 DEF ScriptCopies, ScriptGoes
<1>21. ASSUME NEW g \in Hosts, ScriptProtects(g) PROVE ScriptFits(i)'
  BY <1>0, <1>00, <1>21 DEF ScriptProtects, ScriptGoes
<1>22. ASSUME NEW g \in Hosts, ScriptAppends(g) PROVE ScriptFits(i)'
  BY <1>0, <1>00, <1>22 DEF ScriptAppends, ScriptGoes
<1>23. ASSUME NEW g \in Hosts, ScriptEnds(g) PROVE ScriptFits(i)'
  BY <1>0, <1>00, <1>23 DEF ScriptEnds, ScriptGoes
<1>24. ASSUME NEW g \in Hosts, ScriptFails(g) PROVE ScriptFits(i)'
  BY <1>0, <1>00, <1>24 DEF ScriptFails, ScriptGoes
<1>25. ASSUME NEW g \in Hosts, Edit(g) PROVE ScriptFits(i)'
  BY <1>0, <1>00, <1>25 DEF Edit
<1> QED
  BY <1>1, <1>2, <1>3, <1>4, <1>5, <1>6, <1>7, <1>8, <1>9, <1>10, <1>11, <1>12, <1>13,
     <1>14, <1>15, <1>16,
     <1>17, <1>18, <1>19, <1>20, <1>21, <1>22, <1>23, <1>24, <1>25, WizardSteps

\* The keys and the permissions stay what the scripts made of them.
LEMMA KeysFitStep ==
  ASSUME RunInv, FailureInv, WizardNext, NEW i \in 1..Len(HostOrder) PROVE KeysFit(i)'
<1> USE DEF targetVars, scriptVars, wizardVars, reportVars, transactionVars, outcomeVars,
            WizardTypeOK, MainKnows, ScriptFits, KeysFit, Standing, RolledBack, Same, Rolling,
            Host, Contents
<1> DEFINE h == HostOrder[i]
<1>0. /\ WizardTypeOK /\ MainKnows /\ ScriptFits(i) /\ KeysFit(i) /\ EditFits(i)
      /\ Host \in Hosts /\ h \in Hosts /\ (h = Host <=> i = host) /\ Len(HostOrder) \in Nat /\ host \in 1..Len(HostOrder)
      /\ pc = "committed" => committed
      /\ committed => pc \in {"committed", "closed"}
  BY NumbersAndHosts, StepsOfTheRun DEF RunInv, WizardTypeOK, Host, FailureInv
<1>00. start[h] \in Contents /\ start[h].key # "ours" /\ ~start[h].edit
  <2>1. start \in [Hosts -> {c \in Contents : c.key # "ours" /\ ~c.edit}]
    BY <1>0, WizardRunAssumption DEF WizardTypeOK
  <2>2. start[h] \in {c \in Contents : c.key # "ours" /\ ~c.edit}
    BY <1>0, <2>1
  <2> QED
    BY <2>2
<1>1. CASE Prepares
  BY <1>0, <1>00, <1>1 DEF Prepares
<1>2. CASE Confirms
  BY <1>0, <1>00, <1>2 DEF Confirms
<1>3. CASE Connects
  BY <1>0, <1>00, <1>3 DEF Connects
<1>4. CASE SendsScript
  BY <1>0, <1>00, <1>4 DEF SendsScript
<1>5. CASE Returns
  BY <1>0, <1>00, <1>5 DEF Returns, Recorded, KeyAdded, KeysFit
<1>6. CASE Unanswered
  BY <1>0, <1>00, <1>6 DEF Unanswered, Trouble, Fail
<1>7. CASE Verifies
  BY <1>0, <1>00, <1>7 DEF Verifies
<1>8. CASE Commits
  BY <1>0, <1>00, <1>8 DEF Commits
<1>9. CASE Raises
  BY <1>0, <1>00, <1>9 DEF Raises, Trouble, Fail
<1>10. CASE Caught
  BY <1>0, <1>00, <1>10 DEF Caught
<1>11. CASE RollbackSkips
  BY <1>0, <1>00, <1>11 DEF RollbackSkips, RollbackNext, Rolling
<1>12. CASE LinuxLooks
  BY <1>0, <1>00, <1>12 DEF LinuxLooks, Looks, AsInstalled, Rolling
<1>13. CASE LinuxLooksAgain
  BY <1>0, <1>00, <1>13 DEF LinuxLooksAgain, Looks, AsInstalled, Rolling
<1>14. CASE WindowsLooks
  BY <1>0, <1>00, <1>14 DEF WindowsLooks, Looks, AsInstalled, Rolling
<1>15. CASE LinuxSwitches
  BY <1>0, <1>00, <1>15
     DEF LinuxSwitches, RollsBack, LinuxRolledBack, KeyAdded, RollbackNext, Rolling
<1>16. CASE WindowsRestores
  BY <1>0, <1>00, <1>16
     DEF WindowsRestores, RollsBack, WindowsRolledBack, KeyAdded, RollbackNext, Rolling
<1>17. CASE RollbackFails
  BY <1>0, <1>00, <1>17
     DEF RollbackFails, LinuxMayLeave, WindowsMayLeave, LinuxRolledBack, WindowsRolledBack,
         KeyAdded, RollbackNext, Rolling
<1>18. CASE RunCleanup
  BY <1>0, <1>00, <1>18 DEF RunCleanup
<1>19. CASE Others
  BY <1>0, <1>00, <1>19, StepsOfTheRun DEF Others, FailureInv
<1>20. ASSUME NEW g \in Hosts, ScriptCopies(g) PROVE KeysFit(i)'
  BY <1>0, <1>00, <1>20 DEF ScriptCopies, ScriptGoes
<1>21. ASSUME NEW g \in Hosts, ScriptProtects(g) PROVE KeysFit(i)'
  BY <1>0, <1>00, <1>21 DEF ScriptProtects, ScriptGoes
<1>22. ASSUME NEW g \in Hosts, ScriptAppends(g) PROVE KeysFit(i)'
  BY <1>0, <1>00, <1>22 DEF ScriptAppends, ScriptGoes
<1>23. ASSUME NEW g \in Hosts, ScriptEnds(g) PROVE KeysFit(i)'
  BY <1>0, <1>00, <1>23 DEF ScriptEnds, ScriptGoes
<1>24. ASSUME NEW g \in Hosts, ScriptFails(g) PROVE KeysFit(i)'
  BY <1>0, <1>00, <1>24 DEF ScriptFails, ScriptGoes
<1>25. ASSUME NEW g \in Hosts, Edit(g) PROVE KeysFit(i)'
  BY <1>0, <1>00, <1>25 DEF Edit
<1> QED
  BY <1>1, <1>2, <1>3, <1>4, <1>5, <1>6, <1>7, <1>8, <1>9, <1>10, <1>11, <1>12, <1>13,
     <1>14, <1>15, <1>16,
     <1>17, <1>18, <1>19, <1>20, <1>21, <1>22, <1>23, <1>24, <1>25, WizardSteps

\* And an edit stays where it was made.
LEMMA EditFitsStep ==
  ASSUME RunInv, FailureInv, WizardNext, NEW i \in 1..Len(HostOrder) PROVE EditFits(i)'
<1> USE DEF targetVars, scriptVars, wizardVars, reportVars, transactionVars, outcomeVars,
            WizardTypeOK, MainKnows, ScriptFits, KeysFit, EditFits, Host, Contents
<1> DEFINE h == HostOrder[i]
<1>0. /\ WizardTypeOK /\ MainKnows /\ ScriptFits(i) /\ KeysFit(i) /\ EditFits(i)
      /\ Host \in Hosts /\ h \in Hosts /\ (h = Host <=> i = host) /\ Len(HostOrder) \in Nat /\ host \in 1..Len(HostOrder)
      /\ pc = "committed" => committed
      /\ committed => pc \in {"committed", "closed"}
  BY NumbersAndHosts, StepsOfTheRun DEF RunInv, WizardTypeOK, Host, FailureInv
<1>00. start[h] \in Contents /\ start[h].key # "ours" /\ ~start[h].edit
  <2>1. start \in [Hosts -> {c \in Contents : c.key # "ours" /\ ~c.edit}]
    BY <1>0, WizardRunAssumption DEF WizardTypeOK
  <2>2. start[h] \in {c \in Contents : c.key # "ours" /\ ~c.edit}
    BY <1>0, <2>1
  <2> QED
    BY <2>2
<1>1. CASE Prepares
  BY <1>0, <1>00, <1>1 DEF Prepares
<1>2. CASE Confirms
  BY <1>0, <1>00, <1>2 DEF Confirms
<1>3. CASE Connects
  BY <1>0, <1>00, <1>3 DEF Connects
<1>4. CASE SendsScript
  BY <1>0, <1>00, <1>4 DEF SendsScript
<1>5. CASE Returns
  BY <1>0, <1>00, <1>5 DEF Returns, Recorded, KeyAdded, KeysFit
<1>6. CASE Unanswered
  BY <1>0, <1>00, <1>6 DEF Unanswered, Trouble, Fail
<1>7. CASE Verifies
  BY <1>0, <1>00, <1>7 DEF Verifies
<1>8. CASE Commits
  BY <1>0, <1>00, <1>8 DEF Commits
<1>9. CASE Raises
  BY <1>0, <1>00, <1>9 DEF Raises, Trouble, Fail
<1>10. CASE Caught
  BY <1>0, <1>00, <1>10 DEF Caught
<1>11. CASE RollbackSkips
  BY <1>0, <1>00, <1>11 DEF RollbackSkips, RollbackNext, Rolling
<1>12. CASE LinuxLooks
  BY <1>0, <1>00, <1>12 DEF LinuxLooks, Looks, AsInstalled, Rolling
<1>13. CASE LinuxLooksAgain
  BY <1>0, <1>00, <1>13 DEF LinuxLooksAgain, Looks, AsInstalled, Rolling
<1>14. CASE WindowsLooks
  BY <1>0, <1>00, <1>14 DEF WindowsLooks, Looks, AsInstalled, Rolling
<1>15. CASE LinuxSwitches
  BY <1>0, <1>00, <1>15
     DEF LinuxSwitches, RollsBack, LinuxRolledBack, KeyAdded, RollbackNext, Rolling
<1>16. CASE WindowsRestores
  BY <1>0, <1>00, <1>16
     DEF WindowsRestores, RollsBack, WindowsRolledBack, KeyAdded, RollbackNext, Rolling
<1>17. CASE RollbackFails
  <2>1. UNCHANGED <<start, script, copy, installed, edited>>
    BY <1>17 DEF RollbackFails
  <2>2. Host \in changes
    BY <1>17 DEF RollbackFails
  <2>3. CASE h # Host
    <3>1. keys'[h] = keys[h]
      BY <1>0, <1>17, <2>3 DEF RollbackFails
    <3> QED
      BY <1>0, <2>1, <3>1
  <2>4. CASE h = Host
    <3>1. \/ keys'[h] = keys[h]
          \/ main = "switch" /\ keys'[h] \in {installed[h], LinuxRolledBack(h)}
          \/ main = "restore" /\ keys'[h] = WindowsRolledBack(h)
      BY <1>0, <1>17, <2>4 DEF RollbackFails, LinuxMayLeave, WindowsMayLeave
    <3> QED
      <4>1. keys[h] \in Contents /\ installed[h] \in Contents /\ copy[h] \in Contents
        BY <1>0
      <4>2. /\ LinuxRolledBack(h).edit = IF KeyAdded(h) THEN installed[h].edit ELSE keys[h].edit
            /\ WindowsRolledBack(h).edit = IF KeyAdded(h) THEN copy[h].edit ELSE keys[h].edit
        BY <4>1 DEF LinuxRolledBack, WindowsRolledBack
      <4>3. script[h] = "done" /\ (main \in {"switch", "restore"} => keys[h] = installed[h] \/ edited[h] = "blind")
            /\ (main = "restore" => OS[h] = "windows")
        BY <1>0, <2>2, <2>4
      <4>4. CASE keys'[h] = keys[h]
        BY <1>0, <2>1, <4>4
      <4>5. CASE main = "switch" /\ keys'[h] \in {installed[h], LinuxRolledBack(h)}
        <5>1. keys'[h].edit \in {installed[h].edit, keys[h].edit}
          BY <4>2, <4>5
        <5> QED
          BY <1>0, <2>1, <4>3, <4>5, <5>1
      <4>6. CASE main = "restore" /\ keys'[h] = WindowsRolledBack(h)
        <5>1. keys'[h].edit \in {copy[h].edit, keys[h].edit}
          BY <4>2, <4>6
        <5> QED
          BY <1>0, <2>1, <4>3, <4>6, <5>1
      <4> QED
        BY <3>1, <4>4, <4>5, <4>6
  <2> QED
    BY <2>3, <2>4
<1>18. CASE RunCleanup
  BY <1>0, <1>00, <1>18 DEF RunCleanup
<1>19. CASE Others
  BY <1>0, <1>00, <1>19, StepsOfTheRun DEF Others, FailureInv
<1>20. ASSUME NEW g \in Hosts, ScriptCopies(g) PROVE EditFits(i)'
  BY <1>0, <1>00, <1>20 DEF ScriptCopies, ScriptGoes
<1>21. ASSUME NEW g \in Hosts, ScriptProtects(g) PROVE EditFits(i)'
  BY <1>0, <1>00, <1>21 DEF ScriptProtects, ScriptGoes
<1>22. ASSUME NEW g \in Hosts, ScriptAppends(g) PROVE EditFits(i)'
  BY <1>0, <1>00, <1>22 DEF ScriptAppends, ScriptGoes
<1>23. ASSUME NEW g \in Hosts, ScriptEnds(g) PROVE EditFits(i)'
  BY <1>0, <1>00, <1>23 DEF ScriptEnds, ScriptGoes
<1>24. ASSUME NEW g \in Hosts, ScriptFails(g) PROVE EditFits(i)'
  BY <1>0, <1>00, <1>24 DEF ScriptFails, ScriptGoes
<1>25. ASSUME NEW g \in Hosts, Edit(g) PROVE EditFits(i)'
  BY <1>0, <1>00, <1>25 DEF Edit
<1> QED
  BY <1>1, <1>2, <1>3, <1>4, <1>5, <1>6, <1>7, <1>8, <1>9, <1>10, <1>11, <1>12, <1>13,
     <1>14, <1>15, <1>16,
     <1>17, <1>18, <1>19, <1>20, <1>21, <1>22, <1>23, <1>24, <1>25, WizardSteps

\* In the start every target is as it was found.
LEMMA WizardStarts == WizardInit => RunInv
<1> SUFFICES ASSUME WizardInit PROVE RunInv
  OBVIOUS
<1> USE DEF WizardInit
<1>1. /\ Len(HostOrder) \in Nat /\ Len(HostOrder) > 0
      /\ \A i \in 1..Len(HostOrder) : HostOrder[i] \in Hosts
  BY NumbersAndHosts
<1>2. start \in [Hosts -> {c \in Contents : c.key # "ours" /\ ~c.edit}]
  BY WizardRunAssumption
<1>3. ASSUME NEW h \in Hosts PROVE start[h] \in Contents /\ ~start[h].edit
  <2>1. start[h] \in {c \in Contents : c.key # "ours" /\ ~c.edit}
    BY <1>2, <1>3
  <2> QED
    BY <2>1
<1>4. start \in [Hosts -> Contents]
  BY <1>2, <1>3
<1>5. WizardTypeOK
  <2>1. /\ script \in [Hosts -> {"no", "sent", "copied", "protected", "added", "done", "failed"}]
        /\ edited \in [Hosts -> {"no", "before", "during", "after", "blind"}]
    OBVIOUS
  <2>2. /\ keys \in [Hosts -> Contents] /\ copy \in [Hosts -> Contents]
        /\ installed \in [Hosts -> Contents] /\ start \in Starts
    BY <1>4
  <2>3. host \in 1..Len(HostOrder) /\ changes \subseteq Hosts
    BY <1>1
  <2>4. inflight \in BOOLEAN /\ failures \in BOOLEAN
    OBVIOUS
  <2> QED
    BY <2>1, <2>2, <2>3, <2>4 DEF WizardTypeOK
<1>6. MainKnows
  BY DEF MainKnows, Rolling, TransactionInit
<1>7. ReportIsTrue /\ EditsKept
  BY DEF ReportIsTrue, EditsKept
<1>8. ASSUME NEW i \in 1..Len(HostOrder) PROVE ScriptFits(i) /\ KeysFit(i) /\ EditFits(i)
  <2>1. HostOrder[i] \in Hosts
    BY <1>1
  <2> QED
    BY <1>3, <2>1 DEF ScriptFits, KeysFit, EditFits, RolledBack, Same, Rolling
<1> QED
  BY <1>5, <1>6, <1>7, <1>8 DEF RunInv

\* What is known of every target says that the report is true and that no edit is lost
\* where the scripts can see it.
LEMMA TargetsFit ==
  ASSUME WizardTypeOK, MainKnows, FailureInv,
         \A i \in 1..Len(HostOrder) : ScriptFits(i) /\ KeysFit(i) /\ EditFits(i)
  PROVE  RunInv
<1>0. ASSUME NEW left \in {"nothing", "something"}
      PROVE  /\ committed => Told(left).said = "committed" /\ Told(left).left = left
             /\ ~committed =>
                  /\ Told(left).said = "not committed"
                  /\ Told(left).left = IF preserve /\ raised = "error" THEN "something" ELSE left
                  /\ Told(left).keys = IF failures \/ inflight THEN "uncertain" ELSE "rolled back"
  BY <1>0, ToldOf
<1>1. ASSUME NEW h \in Hosts PROVE start[h].key # "ours"
  <2>1. start[h] \in {c \in Contents : c.key # "ours" /\ ~c.edit}
    BY <1>1, WizardRunAssumption DEF WizardTypeOK
  <2> QED
    BY <2>1
<1>2. ASSUME main = "exit", report.said = "committed" PROVE committed
  BY <1>0, <1>2 DEF MainKnows
<1>3. ASSUME main = "exit", report.said = "committed", NEW h \in Hosts PROVE keys[h].key # "absent"
  <2>1. PICK i \in 1..Len(HostOrder) : h = HostOrder[i]
    BY NumbersAndHosts
  <2>2. committed
    BY <1>2, <1>3
  <2>3. script[h] = "done" /\ Same(keys[h], installed[h]) /\ installed[h].key # "absent"
    BY <1>1, <1>3, <2>1, <2>2 DEF ScriptFits, KeysFit, Standing
  <2> QED
    BY <2>3 DEF Same
<1>4. ASSUME main = "exit", report.said = "not committed"
      PROVE  ~committed /\ report.keys = IF failures \/ inflight THEN "uncertain" ELSE "rolled back"
  BY <1>0, <1>4 DEF MainKnows
<1>5. ASSUME main = "exit", report.said = "not committed", report.keys = "rolled back", NEW h \in Hosts
      PROVE  keys[h].key = start[h].key /\ keys[h].mode = start[h].mode
  <2>1. PICK i \in 1..Len(HostOrder) : h = HostOrder[i]
    BY NumbersAndHosts
  <2>2. RolledBack(i)
    BY <1>4, <1>5 DEF RolledBack
  <2> QED
    BY <2>1, <2>2 DEF KeysFit, Same
<1>6. ASSUME main = "exit", report.said = "not committed", ~preserve, NEW p \in Files, other[p] = "no"
      PROVE  Unchanged(p)
  BY <1>4, <1>6 DEF MainKnows, FailureInv, Undone
<1>7. ASSUME main = "exit", report.left = "nothing"
      PROVE  Emptied \/ (preserve /\ raised = "interrupt")
  <2>1. preserve => ~committed /\ raised \in {"error", "interrupt"}
    BY DEF FailureInv, LoopsKnow, TransactionTypeOK
  <2> QED
    BY <1>0, <1>7, <2>1 DEF MainKnows
<1>8. ReportIsTrue
  BY <1>2, <1>3, <1>5, <1>6, <1>7 DEF ReportIsTrue
<1>9. ASSUME NEW h \in Hosts, edited[h] # "no", ~keys[h].edit
      PROVE  \/ edited[h] = "blind"
             \/ edited[h] = "during" /\ (script[h] = "failed" \/ OS[h] = "windows")
  <2>1. PICK i \in 1..Len(HostOrder) : h = HostOrder[i]
    BY NumbersAndHosts
  <2> QED
    BY <1>9, <2>1 DEF EditFits, WizardTypeOK
<1>10. EditsKept
  BY <1>9 DEF EditsKept
<1> QED
  BY <1>8, <1>10 DEF RunInv

\* A stutter of the run.
LEMMA WizardStutters ==
  ASSUME FailureInv, RunInv, UNCHANGED runVars PROVE FailureInv' /\ RunInv'
<1> USE DEF runVars, targetVars, scriptVars, wizardVars, reportVars
<1>1. FailureInv'
  BY TransactionStutters
<1>2. WizardTypeOK' /\ MainKnows'
  <2>1. WizardTypeOK /\ MainKnows  BY DEF RunInv
  <2>2. WizardTypeOK'
    BY <2>1 DEF WizardTypeOK, transactionVars, outcomeVars, progressVars, workVars
  <2>3. /\ UNCHANGED <<main, pc, report, preserve, committed, inflight, changes, keys, installed>>
        /\ UNCHANGED <<edited, host>>
    BY DEF transactionVars, outcomeVars, progressVars
  <2>4. Host' = Host /\ Emptied' = Emptied
    BY Zenon, <2>3 DEF Host, Emptied, transactionVars, workVars
  <2>5. Told("something")' = Told("something") /\ Told("nothing")' = Told("nothing")
    BY Zenon DEF Told, transactionVars, outcomeVars
  <2>6. MainKnows'
    BY <2>1, <2>3, <2>4, <2>5 DEF MainKnows
  <2> QED BY <2>2, <2>6
<1>3. ASSUME NEW i \in 1..Len(HostOrder) PROVE ScriptFits(i)' /\ KeysFit(i)' /\ EditFits(i)'
  <2>1. ScriptFits(i) /\ KeysFit(i) /\ EditFits(i)
    BY DEF RunInv
  <2> QED
    BY <2>1
       DEF ScriptFits, KeysFit, EditFits, Standing, RolledBack, Same, transactionVars,
           outcomeVars
<1>4. (WizardTypeOK /\ MainKnows /\ FailureInv
       /\ \A i \in 1..Len(HostOrder) : ScriptFits(i) /\ KeysFit(i) /\ EditFits(i))' => RunInv'
  BY TargetsFit, PTL
<1> QED
  BY <1>1, <1>2, <1>3, <1>4

\* What a run does to the local files is a step of the transaction, or its end with
\* nothing switched: the invariant of the transaction holds in a run as well.
LEMMA FilesInRun ==
  ASSUME FailureInv, RunInv, WizardNext PROVE FailureInv'
<1>1. CASE TransactionNext
  BY <1>1, TransactionNextKeeps
<1>2. CASE UNCHANGED transactionVars
  BY <1>2, TransactionStutters
<1>3. CASE /\ UNCHANGED <<fileVars, progressVars, workVars, changed, preserve, errors, committed, othersVars>>
           /\ raised' \in {raised, "error", "interrupt"} /\ interrupts' \in 0..MaxInterrupts
  <2> USE <1>3 DEF fileVars, progressVars, workVars, othersVars
  <2>1. TransactionTypeOK' /\ LoopsKnow'
    BY DEF FailureInv, TransactionTypeOK, LoopsKnow
  <2>2. Undone' /\ OldVersionKept'
    BY DEF FailureInv, Undone, OldVersionKept, Unchanged, Snapshot
  <2>3. ASSUME NEW i \in 1..N PROVE OwnFits(i)' /\ OthersFits(i)'
    <3>1. OwnFits(i) /\ OthersFits(i)
      BY DEF FailureInv
    <3> QED
      BY <3>1 DEF OwnFits, OthersFits, Unswitched, Linked, Restored
  <2> QED
    BY <2>1, <2>2, <2>3 DEF FailureInv
<1>4. CASE RunCleanup
  <2> USE DEF fileVars, outcomeVars, othersVars
  <2>1. /\ TransactionTypeOK /\ LoopsKnow /\ pc \in {"ready", "raised", "committed"}
    BY <1>4 DEF RunCleanup, FailureInv, RunInv, MainKnows
  <2>2. pc' = "closed" /\ UNCHANGED <<fileVars, at, changed, outcomeVars, othersVars, interrupts>>
    BY <1>4 DEF RunCleanup
  <2>3. /\ prepared' = prepared \/ prepared' = {}
        /\ backup' = backup \/ (~preserve /\ backup' = [p \in Files |-> "none"])
    BY <1>4 DEF RunCleanup, workVars
  <2>4. TransactionTypeOK' /\ LoopsKnow'
    BY <2>1, <2>2, <2>3 DEF TransactionTypeOK, Loops, LoopsKnow
  <2>5. ASSUME NEW i \in 1..N PROVE OwnFits(i)' /\ OthersFits(i)'
    <3> DEFINE p == FileOrder[i]
    <3>1. /\ p \in Files /\ Kind[p] \in {"new", "replace", "delete"} /\ OwnFits(i) /\ OthersFits(i)
      BY NumbersAndFiles, ConfigTransactionAssumption DEF FailureInv
    <3>2. backup'[p] = backup[p] \/ (backup'[p] = "none" /\ ~preserve)
      BY <2>3, <3>1
    <3>3. OwnFits(i)'
      BY <2>1, <2>2, <3>1, <3>2
         DEF OwnFits, Unswitched, Linked, Restored, Baseline, Intended, LoopsKnow, TransactionTypeOK
    <3>4. OthersFits(i)'
      BY <2>1, <2>2, <3>1, <3>2
         DEF OwnFits, OthersFits, Unswitched, Linked, Restored, Baseline, Intended, LoopsKnow, TransactionTypeOK
    <3> QED
      BY <3>3, <3>4
  <2>6. (TransactionTypeOK /\ LoopsKnow /\ (\A i \in 1..N : OwnFits(i) /\ OthersFits(i)))' => FailureInv'
    BY FilesFit, PTL
  <2> QED
    BY <2>4, <2>5, <2>6
<1>5. TransactionNext \/ UNCHANGED transactionVars \/ RunCleanup
      \/ /\ UNCHANGED <<fileVars, progressVars, workVars, changed, preserve, errors, committed, othersVars>>
         /\ raised' \in {raised, "error", "interrupt"} /\ interrupts' \in 0..MaxInterrupts
  <2> USE DEF TransactionNext, TransactionTypeOK
  <2>0. interrupts \in 0..MaxInterrupts /\ MaxInterrupts \in Nat
    BY ConfigTransactionAssumption DEF FailureInv
  <2>1. CASE Prepares
    BY <2>1 DEF Prepares
  <2>2. CASE Commits
    BY <2>2 DEF Commits
  <2>3. CASE Others
    BY <2>3 DEF Others
  <2>4. CASE Unanswered
    BY <2>0, <2>4 DEF Unanswered, Trouble, Fail
  <2>5. CASE Raises
    BY <2>0, <2>5 DEF Raises, Trouble, Fail
  <2>6. CASE RollbackFails
    BY <2>0, <2>6 DEF RollbackFails, Trouble, outcomeVars, FailureInv
  <2>7. ASSUME NEW g \in Hosts,
               \/ ScriptCopies(g) \/ ScriptProtects(g) \/ ScriptAppends(g) \/ ScriptEnds(g)
               \/ ScriptFails(g) \/ Edit(g)
        PROVE  UNCHANGED transactionVars
    BY <2>7
       DEF ScriptCopies, ScriptProtects, ScriptAppends, ScriptEnds, ScriptFails,
           ScriptGoes, Edit
  <2>8. CASE Confirms \/ Connects \/ SendsScript \/ Returns \/ Verifies \/ Caught \/ RollbackSkips
             \/ LinuxLooks \/ LinuxLooksAgain \/ WindowsLooks \/ LinuxSwitches \/ WindowsRestores
    BY <2>8
       DEF Confirms, Connects, SendsScript, Returns, Verifies, Caught, RollbackSkips,
           LinuxLooks,
                LinuxLooksAgain, WindowsLooks, Looks, LinuxSwitches, WindowsRestores, RollsBack
  <2> QED
    BY <2>1, <2>2, <2>3, <2>4, <2>5, <2>6, <2>7, <2>8, WizardSteps
<1> QED
  BY <1>1, <1>2, <1>3, <1>4, <1>5

\* What a run of the wizard reports is true, with any targets, files, failures and
\* other programs; and what holds of the transaction holds within a run.
THEOREM RunReportsTruly == WizardSpec => [](FailureInv /\ RunInv)
<1>1. ASSUME FailureInv, RunInv, WizardNext PROVE FailureInv' /\ RunInv'
  <2>1. FailureInv'
    BY <1>1, FilesInRun
  <2>2. WizardTypeOK' /\ MainKnows'
    BY <1>1, WizardTypeStep, MainStep
  <2>3. \A i \in 1..Len(HostOrder) : ScriptFits(i)' /\ KeysFit(i)' /\ EditFits(i)'
    BY <1>1, ScriptFitsStep, KeysFitStep, EditFitsStep
  <2>4. (WizardTypeOK /\ MainKnows /\ FailureInv
         /\ \A i \in 1..Len(HostOrder) : ScriptFits(i) /\ KeysFit(i) /\ EditFits(i))' => RunInv'
    BY TargetsFit, PTL
  <2> QED
    BY <2>1, <2>2, <2>3, <2>4
<1>2. WizardInit => FailureInv /\ RunInv
  BY TransactionStarts, WizardStarts DEF WizardInit
<1> QED
  BY <1>1, <1>2, WizardStutters, PTL DEF WizardSpec

\* In a run too, a commit is published only if it was made alone.
THEOREM RunsCommitAlone == WizardSpec => []CommitIsExclusive
<1>1. FailureInv => CommitIsExclusive
  BY FilesFit DEF FailureInv
<1> QED
  BY <1>1, RunReportsTruly, PTL
=============================================================================

------------------------- MODULE ConfigTransaction -------------------------
(***************************************************************************)
(* The Transaction of scripts/configure_wizard.py: several files are       *)
(* created, replaced or deleted together, or left as they were, while      *)
(* other programs may write the same files, system calls may fail and the  *)
(* user may interrupt.                                                     *)
(*                                                                         *)
(* A path names the file it had at the start ("orig"), the transaction's   *)
(* candidate ("cand"), a file another program put there ("other") or       *)
(* nothing; a hard link keeps a file that its path no longer names.        *)
(***************************************************************************)
EXTENDS Naturals, Sequences, FiniteSets

CONSTANTS
  FileOrder,     \* the affected paths, sorted
  Kind,          \* what is staged for each: "new", "replace" or "delete"
  MaxOthers,     \* bound: files that another program touches, once each
  MaxInterrupts  \* bound: keyboard interrupts

N == Len(FileOrder)
Files == {FileOrder[i] : i \in 1..N}

ASSUME ConfigTransactionAssumption ==
  /\ FileOrder \in Seq(Files) /\ N > 0
  /\ \A i, j \in 1..N : FileOrder[i] = FileOrder[j] => i = j
  /\ Kind \in [Files -> {"new", "replace", "delete"}]
  /\ MaxOthers \in Nat /\ MaxInterrupts \in Nat

VARIABLES
  \* the file system
  entry,     \* what each path names
  written,   \* the files another program has written to in place: a subset of
             \* {"orig", "cand"} for each path
  \* the transaction
  pc,        \* the loop it is in
  at,        \* the file the loop is at
  prepared,  \* the paths that have a candidate
  backup,    \* the file each backup links to
  changed,   \* the paths whose switch has been registered
  preserve,  \* preserve_recovery
  errors,    \* restore_errors is not empty
  committed,
  raised,    \* what ended it: "no", "error" or "interrupt"
  \* the others
  other,     \* what another program did to each path: "no", "wrote" in place,
             \* "replaced", "created" or "removed"
  unseen,    \* and whether it did so where the transaction cannot see it
  interrupts

fileVars == <<entry, written>>
progressVars == <<pc, at>>
workVars == <<prepared, backup>>
outcomeVars == <<preserve, errors, committed, raised>>
othersVars == <<other, unseen>>
transactionVars ==
  <<fileVars, progressVars, workVars, changed, outcomeVars, othersVars, interrupts>>

\* _snapshot: device, inode, size, time and digest, so that it differs as soon as
\* another program has been at the file.
Snapshot(p) == IF entry[p] \in written[p] THEN "other" ELSE entry[p]
BackupSnapshot(p) == IF backup[p] \in written[p] THEN "other" ELSE backup[p]
Baseline(p) == IF Kind[p] = "new" THEN "none" ELSE "orig"
Intended(p) == IF Kind[p] = "delete" THEN "none" ELSE "cand"
Unchanged(p) == Snapshot(p) = Baseline(p)

TransactionInit ==
  /\ entry = [p \in Files |-> Baseline(p)] /\ written = [p \in Files |-> {}]
  /\ pc = "staged" /\ at = 1
  /\ prepared = {} /\ backup = [p \in Files |-> "none"] /\ changed = {}
  /\ preserve = FALSE /\ errors = FALSE /\ committed = FALSE /\ raised = "no"
  /\ other = [p \in Files |-> "no"] /\ unseen = [p \in Files |-> FALSE]
  /\ interrupts = 0

File == FileOrder[at]
\* A loop over the files: once more, or on to the next.
Advance(loop, then) ==
  IF at < N THEN pc' = loop /\ at' = at + 1 ELSE pc' = then /\ at' = 1

\* What may go wrong: a call that fails, or the user's interrupt.
Trouble(kind) ==
  \/ kind = "error" /\ UNCHANGED interrupts
  \/ kind = "interrupt" /\ interrupts < MaxInterrupts /\ interrupts' = interrupts + 1
-----------------------------------------------------------------------------
\* prepare: the candidates are written, the baselines compared, and every file
\* that exists is linked to a backup.
PrepareRaises(kind) ==
  /\ pc \in {"staged", "baselines", "backups"}
  /\ prepared' = {} /\ raised' = kind /\ pc' = "raised"
  /\ UNCHANGED <<fileVars, at, backup, changed, preserve, errors, committed, othersVars>>

PrepareCandidates ==
  /\ pc = "staged"
  /\ prepared' = {p \in Files : Kind[p] # "delete"}
  /\ pc' = "baselines" /\ at' = 1
  /\ UNCHANGED <<fileVars, backup, changed, outcomeVars, othersVars, interrupts>>

PrepareCompares ==
  /\ pc = "baselines" /\ Unchanged(File)
  /\ Advance("baselines", "backups")
  /\ UNCHANGED <<fileVars, workVars, changed, outcomeVars, othersVars, interrupts>>

\* A file that has vanished gets no backup: the commit will find it gone.
PrepareLinks ==
  /\ pc = "backups"
  /\ entry[File] # "none" => Unchanged(File)
  /\ backup' = [backup EXCEPT ![File] = entry[File]]
  /\ Advance("backups", "ready")
  /\ UNCHANGED <<fileVars, prepared, changed, outcomeVars, othersVars, interrupts>>

PrepareRefuses ==
  /\ \/ pc = "baselines" /\ ~Unchanged(File)
     \/ pc = "backups" /\ entry[File] # "none" /\ ~Unchanged(File)
  /\ PrepareRaises("error") /\ UNCHANGED interrupts

\* commit: everything is compared once more before anything is switched.
StartCommit ==
  /\ pc = "ready"
  /\ pc' = "compare" /\ at' = 1
  /\ UNCHANGED <<fileVars, workVars, changed, outcomeVars, othersVars, interrupts>>

CommitCompares ==
  /\ pc = "compare" /\ Unchanged(File)
  /\ Advance("compare", "register")
  /\ UNCHANGED <<fileVars, workVars, changed, outcomeVars, othersVars, interrupts>>

\* Each file is compared again, and its switch registered before it is made.
CommitRegisters ==
  /\ pc = "register" /\ Unchanged(File)
  /\ changed' = changed \cup {File}
  /\ pc' = "switch"
  /\ UNCHANGED <<fileVars, at, workVars, outcomeVars, othersVars, interrupts>>

\* A new file is linked, which never overwrites; the others are replaced or
\* removed, whatever is there by now.
CommitSwitches ==
  /\ pc = "switch" /\ (Kind[File] = "new" => entry[File] = "none")
  /\ entry' = [entry EXCEPT ![File] = Intended(File)]
  /\ pc' = "switched"
  /\ UNCHANGED <<written, at, workVars, changed, outcomeVars, othersVars, interrupts>>

OnlyThePath(p) == Snapshot(p) = Intended(p)  \* mutant: the backups are not compared

\* The switch is compared with what was intended, and the backup with what was
\* there: a file written through an old handle shows in the backup.
AsIntended(p) ==
  /\ Snapshot(p) = Intended(p)
  /\ backup[p] # "none" => BackupSnapshot(p) = Baseline(p)

CommitConfirms ==
  /\ pc = "switched" /\ AsIntended(File)
  /\ IF at < N THEN pc' = "register" /\ at' = at + 1 ELSE pc' = "verify" /\ at' = 1
  /\ UNCHANGED <<fileVars, workVars, changed, outcomeVars, othersVars, interrupts>>

\* All files are compared a last time before the commit is published.
CommitVerifies ==
  /\ pc = "verify" /\ AsIntended(File)
  /\ Advance("verify", "committed")
  /\ committed' = (at = N)
  /\ UNCHANGED <<fileVars, workVars, changed, preserve, errors, raised, othersVars, interrupts>>

Committing == pc \in {"compare", "register", "switch", "switched", "verify"}
CommitRaises(kind) ==
  /\ Committing
  /\ raised' = kind /\ preserve' = TRUE /\ pc' = "restore" /\ at' = N
  /\ UNCHANGED <<fileVars, workVars, errors, committed, othersVars>>

CommitRefuses ==
  /\ \/ pc \in {"compare", "register"} /\ ~Unchanged(File) /\ UNCHANGED changed
     \/ pc \in {"switched", "verify"} /\ ~AsIntended(File) /\ UNCHANGED changed
     \/ pc = "switch" /\ Kind[File] = "new" /\ entry[File] # "none" /\ changed' = changed \ {File}
  /\ CommitRaises("error") /\ UNCHANGED interrupts
-----------------------------------------------------------------------------
\* The files are restored in reverse order; a file that another program has
\* changed since is left alone and is an error, unless it is a new one.
RestoreNext == IF at > 1 THEN pc' = "restore" /\ at' = at - 1 ELSE pc' = "restored" /\ at' = 1
RestoreSkips == File \notin changed \/ Unchanged(File) \/ (Kind[File] = "new" /\ Snapshot(File) # "cand")
RestoreAnyway == TRUE  \* mutant of RestoreAsIntended: whatever is there is overwritten
RestoreAsIntended == Snapshot(File) = Intended(File)

RestoreLooks ==
  /\ pc = "restore"
  /\ CASE RestoreSkips -> RestoreNext /\ UNCHANGED errors
       [] ~RestoreSkips /\ RestoreAsIntended -> pc' = "putback" /\ UNCHANGED <<at, errors>>
       [] OTHER -> RestoreNext /\ errors' = TRUE
  /\ UNCHANGED <<fileVars, workVars, changed, preserve, committed, raised, othersVars, interrupts>>

\* The backup is moved back over the candidate, or the new file removed.
RestorePutsBack ==
  /\ pc = "putback"
  /\ entry' = [entry EXCEPT ![File] = backup[File]]
  /\ backup' = [backup EXCEPT ![File] = "none"]
  /\ RestoreNext
  /\ \/ UNCHANGED <<errors, interrupts>>
     \/ Trouble("interrupt") /\ errors' = TRUE
  /\ UNCHANGED <<written, prepared, changed, preserve, committed, raised, othersVars>>

\* Trouble with one file is an error of that file; an interrupt between two files
\* leaves the rest, and everything in the work directory, as it is.
RestoreFails ==
  /\ pc \in {"restore", "putback"}
  /\ \E kind \in {"error", "interrupt"} : Trouble(kind)
  /\ errors' = TRUE /\ RestoreNext
  /\ UNCHANGED <<fileVars, workVars, changed, preserve, committed, raised, othersVars>>

RestoreInterrupted ==
  /\ pc \in {"restore", "restored"} /\ Trouble("interrupt")
  /\ raised' = "interrupt" /\ pc' = "raised"
  /\ UNCHANGED <<fileVars, at, workVars, changed, preserve, errors, committed, othersVars>>

RestoreEnds ==
  /\ pc = "restored"
  /\ preserve' = errors
  /\ raised' = IF errors THEN "error" ELSE raised
  /\ pc' = "raised"
  /\ UNCHANGED <<fileVars, at, workVars, changed, errors, committed, othersVars, interrupts>>

\* cleanup: the work directory goes with its candidates and backups, or is
\* reported, unless it is needed to recover.
Cleanup ==
  /\ pc \in {"raised", "committed"}
  /\ IF preserve THEN UNCHANGED workVars
     ELSE \/ prepared' = {} /\ backup' = [p \in Files |-> "none"]
          \/ UNCHANGED workVars
  /\ pc' = "closed"
  /\ UNCHANGED <<fileVars, at, changed, outcomeVars, othersVars, interrupts>>

\* Any step may meet trouble instead.
StepFails ==
  \E kind \in {"error", "interrupt"} :
    /\ Trouble(kind)
    /\ PrepareRaises(kind) \/ (CommitRaises(kind) /\ UNCHANGED changed)
-----------------------------------------------------------------------------
\* Another program is at a file, at any time.  Between the last look at a path and
\* the call that replaces what it names, nothing can be seen; nor after the last
\* look at the file.
LooksNoMore(p) ==
  \/ pc = "verify" /\ \A i \in at..N : FileOrder[i] # p
  \/ pc \in {"committed", "raised", "closed"}
Blind(p) == File = p /\ (pc = "putback" \/ (pc = "switch" /\ Kind[p] # "new"))

AnotherProgram(p, what) ==
  /\ other[p] = "no" /\ Cardinality({q \in Files : other[q] # "no"}) < MaxOthers
  /\ pc # "closed"
  /\ other' = [other EXCEPT ![p] = what]
  /\ UNCHANGED <<progressVars, workVars, changed, outcomeVars, interrupts>>

\* In place, by its path or by a handle opened earlier; in a switch, the old file
\* lives on in the backup.
AnotherWrites(p) ==
  /\ \E f \in {entry[p], backup[p]} \ {"none", "other"} :
       written' = [written EXCEPT ![p] = @ \cup {f}]
  /\ AnotherProgram(p, "wrote")
  /\ unseen' = [unseen EXCEPT ![p] = LooksNoMore(p) \/ (Blind(p) /\ pc = "putback")]
  /\ UNCHANGED entry

AnotherReplaces(p) ==
  /\ entry' = [entry EXCEPT ![p] = "other"]
  /\ AnotherProgram(p, IF entry[p] = "none" THEN "created" ELSE "replaced")
  /\ unseen' = [unseen EXCEPT ![p] = LooksNoMore(p) \/ Blind(p)]
  /\ UNCHANGED written

\* Nor can it tell who removed a file that it has registered to be removed.
AnotherRemoves(p) ==
  /\ entry[p] # "none"
  /\ entry' = [entry EXCEPT ![p] = "none"]
  /\ AnotherProgram(p, "removed")
  /\ unseen' = [unseen EXCEPT ![p] =
                 LooksNoMore(p) \/ Blind(p) \/ (Kind[p] = "delete" /\ p \in changed)]
  /\ UNCHANGED written

PrepareStep == PrepareCandidates \/ PrepareCompares \/ PrepareLinks \/ PrepareRefuses
CommitStep ==
  \/ CommitCompares \/ CommitRegisters \/ CommitSwitches \/ CommitConfirms
  \/ CommitVerifies \/ CommitRefuses
RestoreStep ==
  RestoreLooks \/ RestorePutsBack \/ RestoreFails \/ RestoreInterrupted \/ RestoreEnds
OthersStep == \E p \in Files : AnotherWrites(p) \/ AnotherReplaces(p) \/ AnotherRemoves(p)

TransactionNext ==
  PrepareStep \/ StartCommit \/ CommitStep \/ RestoreStep \/ StepFails \/ Cleanup \/ OthersStep
TransactionSpec == TransactionInit /\ [][TransactionNext]_transactionVars
-----------------------------------------------------------------------------
Loops ==
  {"staged", "baselines", "backups", "ready", "compare", "register", "switch", "switched",
   "verify", "committed", "restore", "putback", "restored", "raised", "closed"}
TransactionTypeOK ==
  /\ entry \in [Files -> {"none", "orig", "cand", "other"}]
  /\ written \in [Files -> SUBSET {"orig", "cand"}]
  /\ pc \in Loops /\ at \in 1..N
  /\ backup \in [Files -> {"none", "orig"}]
  /\ prepared \subseteq Files /\ changed \subseteq Files
  /\ preserve \in BOOLEAN /\ errors \in BOOLEAN /\ committed \in BOOLEAN
  /\ raised \in {"no", "error", "interrupt"} /\ interrupts \in 0..MaxInterrupts
  /\ other \in [Files -> {"no", "wrote", "replaced", "created", "removed"}]
  /\ unseen \in [Files -> BOOLEAN]

\* A commit that failed and says it kept no recovery material left nothing of its
\* own: each file is as it was, or is as another program made it.
Undone ==
  pc \in {"raised", "closed"} /\ ~committed /\ ~preserve =>
    \A p \in Files :
      /\ other[p] = "no" => Unchanged(p)
      /\ ~unseen[p] => CASE other[p] = "wrote" -> Snapshot(p) = "other"
                         [] other[p] \in {"created", "replaced"} -> entry[p] = "other"
                         [] other[p] = "removed" -> entry[p] = "none"
                         [] OTHER -> TRUE

\* Until a commit is published, the old version of every file has a name, its own
\* or that of its backup, unless another program took it away.
OldVersionKept ==
  ~committed => \A p \in Files :
    Kind[p] # "new" /\ other[p] \in {"no", "wrote"} => "orig" \in {entry[p], backup[p]}

\* Why these hold.  What is registered follows the loop over the files; only a commit
\* that failed restores, and it keeps everything until it has.
LoopsKnow ==
  /\ pc \in {"staged", "baselines", "backups", "ready", "compare"} => changed = {}
  /\ pc = "register" => \A i \in 1..N : FileOrder[i] \in changed <=> i < at
  /\ pc \in {"switch", "switched"} => \A i \in 1..N : FileOrder[i] \in changed <=> i <= at
  /\ pc \in {"verify", "committed"} => changed = Files
  /\ pc = "committed" => committed
  /\ committed => pc \in {"committed", "closed"}
  /\ pc \in {"restore", "putback", "restored"} => preserve
  /\ preserve =>
       /\ pc \in {"restore", "putback", "restored", "raised", "closed"}
       /\ ~committed /\ raised # "no"

\* Which files the loops have not come to, have a backup of, or have restored.
Unswitched(i) ==
  \/ pc \in {"staged", "baselines", "backups", "ready", "compare"}
  \/ pc \in {"register", "switch"} /\ i >= at
  \/ pc = "switched" /\ i > at
Linked(i) ==
  \/ pc = "backups" /\ i < at
  \/ pc \in {"ready", "compare", "register", "switch", "switched", "verify", "committed"}
Restored(i) ==
  \/ pc \in {"restore", "putback"} /\ ~errors /\ i > at
  \/ pc = "restored" /\ ~errors
  \/ pc \in {"raised", "closed"} /\ ~committed /\ ~preserve

\* A path that nobody else renamed names its old file or its new one, and has the old
\* one to go back to; what has been restored is the old one.
OwnFits(i) ==
  LET p == FileOrder[i] IN
  other[p] \in {"no", "wrote"} =>
    /\ entry[p] \in {Baseline(p), Intended(p)}
    /\ Unswitched(i) => entry[p] = Baseline(p)
    /\ Linked(i) => backup[p] = Baseline(p)
    /\ entry[p] = Intended(p) =>
         p \in changed /\ (~committed => backup[p] = Baseline(p))
    /\ pc = "putback" /\ i = at => entry[p] = Intended(p)
    /\ Restored(i) /\ (other[p] = "no" \/ Kind[p] # "new") => entry[p] = Baseline(p)

\* What another program did where it can be seen is there to be seen, in the file or
\* in its backup, and is never switched or put back over.
OthersFits(i) ==
  LET p == FileOrder[i] IN
  /\ other[p] # "wrote" => written[p] = {}
  /\ backup[p] \in {"none", Baseline(p)}
  /\ Unswitched(i) /\ other[p] = "removed" => Kind[p] # "new"
  /\ ~unseen[p] =>
       /\ other[p] = "wrote" =>
            \/ entry[p] \in written[p]
            \/ entry[p] = Intended(p) /\ backup[p] \in written[p]
       /\ other[p] \in {"created", "replaced"} => entry[p] = "other"
       /\ other[p] = "removed" => entry[p] = "none"
       /\ other[p] = "removed" /\ Kind[p] = "delete" => p \notin changed
       /\ i = at /\ (pc = "putback" \/ (pc = "switch" /\ Kind[p] # "new")) =>
            other[p] \in {"no", "wrote"}
       /\ i = at /\ pc = "putback" => entry[p] \notin written[p]
       /\ (pc = "verify" /\ i < at) \/ committed => other[p] = "no"

\* A failure is either undone or leaves what is needed to recover.
FailureInv ==
  /\ TransactionTypeOK /\ Undone /\ OldVersionKept
  /\ LoopsKnow /\ \A i \in 1..N : OwnFits(i) /\ OthersFits(i)

\* A commit is published only if no other program was at any of its files where
\* the transaction could see it, up to its last look at that file.
CommitIsExclusive == committed => \A p \in Files : other[p] = "no" \/ unseen[p]
=============================================================================

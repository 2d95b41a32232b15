-------------------------- MODULE KubernetesProofs --------------------------
(***************************************************************************)
(* Proofs about kubernetes.py.  The sync jobs, for any number of requests  *)
(* that cancel and any number of restarts: SyncInv is inductive.  The      *)
(* collector, for any objects, owners, capacity, limits and number of      *)
(* upsets: a reader that was told of no loss sees the projection.          *)
(*                                                                         *)
(* The items of a stream, and an answer of it, are taken one by one, and   *)
(* the excluded objects are found round by round: what holds after each is *)
(* shown of a set of numbers that would otherwise have a least one.        *)
(***************************************************************************)
EXTENDS SyncJob, ClusterCollector, FiniteSetTheorems, WellFoundedInduction, TLAPS

\* The first state: no job, and nobody at work.
LEMMA SyncInitKeeps == SyncInit => SyncInv
<1> SUFFICES ASSUME SyncInit PROVE SyncInv
  OBVIOUS
<1> USE SyncJobAssumption DEF Writers, Where, Jobs, Active, Terminal, Unknown, NoFile, Busy
<1>1. overlapped \in BOOLEAN  BY Zenon DEF SyncInit
<1>2. SyncTypeOK  BY <1>1 DEF SyncInit, SyncTypeOK
<1>3. ServedIsListed /\ ActiveHasThread /\ FileIsWhole /\ FileAgrees /\ ThreadKnows
  BY DEF SyncInit, ServedIsListed, ActiveHasThread, FileIsWhole, FileAgrees, Record, ThreadKnows,
     Working
<1>4. WriterIsAlone  BY DEF SyncInit, WriterIsAlone
<1> QED BY <1>2, <1>3, <1>4 DEF SyncInv

\* What a step to another place does to one who is there.
LEMMA GotoMoves ==
  ASSUME SyncTypeOK, NEW w \in Writers, NEW where \in Where, Goto(w, where)
  PROVE  /\ doing' \in [Writers -> Where] /\ doing'[w] = where
         /\ \A x \in Writers \ {w} : doing'[x] = doing[x]
         /\ ~overlapped' => ~overlapped /\ (Busy(where) => \A x \in Writers \ {w} : ~Busy(doing[x]))
  BY DEF Goto, SyncTypeOK

\* And overlapped stays a Boolean.
LEMMA GotoTyped ==
  ASSUME SyncTypeOK, NEW w \in Writers, NEW where, Goto(w, where) PROVE overlapped' \in BOOLEAN
  BY Zenon DEF Goto, SyncTypeOK

\* What a file may hold, and what the steps put there.
FileRecord ==
  [status : Active \cup Terminal \cup {"NONE", "MIXED", "EMPTY"}, listed : BOOLEAN]
LEMMA FileRecords ==
  /\ {Mixed, Empty, NoFile} \subseteq FileRecord
  /\ [status : Active \cup Terminal, listed : BOOLEAN] \subseteq FileRecord
  BY DEF FileRecord, Mixed, Empty, NoFile, Active, Terminal

\* Every step keeps every part of the invariant.
LEMMA SyncStepKeeps == ASSUME SyncInv, SyncNext PROVE SyncInv'
<1> USE SyncJobAssumption DEF Writers, Where, Jobs, Active, Terminal, Unknown, NoFile, Empty, Mixed
<1>0. /\ SyncTypeOK /\ ServedIsListed /\ ActiveHasThread /\ FileIsWhole /\ FileAgrees
      /\ ThreadKnows /\ WriterIsAlone
  BY DEF SyncInv
<1>1. CASE StartSync
  <2>1. Goto(Runner, "begin") /\ job = Unknown /\ job' = [status |-> "PENDING", listed |-> FALSE]
        /\ file' = job' /\ UNCHANGED <<temp, handle, text, restartsOfSync>>
    BY <1>1 DEF StartSync
  <2>2. overlapped' \in BOOLEAN  BY <1>0, <2>1, GotoTyped
  <2>3. \A w \in Writers : doing[w] = "idle"  BY <1>0, <2>1 DEF ThreadKnows
  <2>4. /\ doing' \in [Writers -> Where] /\ doing'[Runner] = "begin"
        /\ \A x \in Writers \ {Runner} : doing'[x] = doing[x]
    BY <1>0, <2>1, GotoMoves
  <2>5. SyncTypeOK'  BY <1>0, <2>1, <2>2, <2>4 DEF SyncTypeOK
  <2>6. ServedIsListed' /\ ActiveHasThread' /\ FileIsWhole' /\ FileAgrees' /\ ThreadKnows'
    BY <1>0, <2>1, <2>3, <2>4 DEF ServedIsListed, ActiveHasThread, FileIsWhole, FileAgrees, Record,
       ThreadKnows, Working
  <2>7. WriterIsAlone'  BY <1>0, <2>1, <2>3, <2>4 DEF WriterIsAlone, Busy
  <2> QED BY <2>5, <2>6, <2>7 DEF SyncInv
<1>2. ASSUME RunBegins PROVE SyncInv'
  <2>1. /\ Goto(Runner, "open") /\ doing[Runner] = "begin"
        /\ job' = [job EXCEPT !.status = "RUNNING"] /\ UNCHANGED <<file, temp, handle, text, restartsOfSync>>
    BY <1>2 DEF RunBegins
  <2>2. overlapped' \in BOOLEAN  BY <1>0, <2>1, GotoTyped
  <2>3. /\ doing' \in [Writers -> Where] /\ doing'[Runner] = "open"
        /\ \A x \in Writers \ {Runner} : doing'[x] = doing[x]
        /\ ~overlapped' =>
             ~overlapped /\ (Busy("open") => \A x \in Writers \ {Runner} : ~Busy(doing[x]))
    BY <1>0, <2>1, GotoMoves
  <2>4. SyncTypeOK'
    <3>1. job # Unknown  BY <1>0, <2>1 DEF ThreadKnows
    <3> QED BY <1>0, <2>1, <2>2, <2>3, <3>1 DEF SyncTypeOK
  <2>5. ServedIsListed' /\ ActiveHasThread' /\ FileIsWhole' /\ FileAgrees' /\ ThreadKnows'
    BY <1>0, <2>1, <2>3 DEF SyncTypeOK, ServedIsListed, ActiveHasThread, FileIsWhole, FileAgrees,
       Record, ThreadKnows, Working, WriterIsAlone, Busy
  <2>6. WriterIsAlone'  BY <1>0, <2>1, <2>3 DEF SyncTypeOK, ThreadKnows, WriterIsAlone, Busy
  <2> QED BY <2>4, <2>5, <2>6 DEF SyncInv
<1>3. ASSUME RunLists PROVE SyncInv'
  <2>1. /\ Goto(Runner, "openlast") /\ doing[Runner] = "list"
        /\ \/ job' = [status |-> "SUCCEEDED", listed |-> TRUE]
           \/ job' = [job EXCEPT !.status = "FAILED"]
        /\ UNCHANGED <<file, temp, handle, text, restartsOfSync>>
    BY <1>3 DEF RunLists
  <2>2. overlapped' \in BOOLEAN  BY <1>0, <2>1, GotoTyped
  <2>3. /\ doing' \in [Writers -> Where] /\ doing'[Runner] = "openlast"
        /\ \A x \in Writers \ {Runner} : doing'[x] = doing[x]
        /\ ~overlapped' =>
             ~overlapped /\ (Busy("openlast") => \A x \in Writers \ {Runner} : ~Busy(doing[x]))
    BY <1>0, <2>1, GotoMoves
  <2>4. SyncTypeOK'
    <3>1. job' \in Jobs
      <4>1. CASE job' = [status |-> "SUCCEEDED", listed |-> TRUE]  BY <4>1
      <4>2. CASE job' = [job EXCEPT !.status = "FAILED"]
        BY <1>0, <2>1, <4>2 DEF SyncTypeOK, ThreadKnows
      <4> QED BY <2>1, <4>1, <4>2
    <3> QED BY <1>0, <2>1, <2>2, <2>3, <3>1 DEF SyncTypeOK
  <2>5. ServedIsListed' /\ ActiveHasThread' /\ FileIsWhole' /\ FileAgrees' /\ ThreadKnows'
    BY <1>0, <2>1, <2>3 DEF SyncTypeOK, ServedIsListed, ActiveHasThread, FileIsWhole, FileAgrees,
       Record, ThreadKnows, Working, WriterIsAlone, Busy
  <2>6. WriterIsAlone'  BY <1>0, <2>1, <2>3 DEF SyncTypeOK, ThreadKnows, WriterIsAlone, Busy
  <2> QED BY <2>4, <2>5, <2>6 DEF SyncInv
<1>4. ASSUME NEW c \in Cancellers, CancelLooks(c) PROVE SyncInv'
  <2>1. /\ Goto(c, "cancel") /\ doing[c] = "idle" /\ job.status \in Active
        /\ UNCHANGED <<job, file, temp, handle, text, restartsOfSync>>
    BY <1>4 DEF CancelLooks
  <2>2. overlapped' \in BOOLEAN  BY <1>0, <2>1, GotoTyped
  <2>3. /\ doing' \in [Writers -> Where] /\ doing'[c] = "cancel"
        /\ \A x \in Writers \ {c} : doing'[x] = doing[x]
        /\ ~overlapped' =>
             ~overlapped /\ (Busy("cancel") => \A x \in Writers \ {c} : ~Busy(doing[x]))
    BY <1>0, <2>1, GotoMoves
  <2>4. SyncTypeOK'  BY <1>0, <2>1, <2>2, <2>3 DEF SyncTypeOK
  <2>5. ServedIsListed' /\ ActiveHasThread' /\ FileIsWhole' /\ FileAgrees' /\ ThreadKnows'
    BY <1>0, <2>1, <2>3 DEF SyncTypeOK, ServedIsListed, ActiveHasThread, FileIsWhole, FileAgrees,
       Record, ThreadKnows, Working, WriterIsAlone, Busy
  <2>6. WriterIsAlone'  BY <1>0, <2>1, <2>3 DEF SyncTypeOK, ThreadKnows, WriterIsAlone, Busy
  <2> QED BY <2>4, <2>5, <2>6 DEF SyncInv
<1>5. ASSUME NEW c \in Cancellers, CancelWrites(c) PROVE SyncInv'
  <2>1. /\ Goto(c, "openlast") /\ doing[c] = "cancel"
        /\ job' = [job EXCEPT !.status = "CANCELLED"]
        /\ UNCHANGED <<file, temp, handle, text, restartsOfSync>>
    BY <1>5 DEF CancelWrites
  <2>2. overlapped' \in BOOLEAN  BY <1>0, <2>1, GotoTyped
  <2>3. /\ doing' \in [Writers -> Where] /\ doing'[c] = "openlast"
        /\ \A x \in Writers \ {c} : doing'[x] = doing[x]
        /\ ~overlapped' =>
             ~overlapped /\ (Busy("openlast") => \A x \in Writers \ {c} : ~Busy(doing[x]))
    BY <1>0, <2>1, GotoMoves
  <2>4. SyncTypeOK'
    <3>1. job # Unknown  BY <1>0, <2>1 DEF ThreadKnows
    <3> QED BY <1>0, <2>1, <2>2, <2>3, <3>1 DEF SyncTypeOK
  <2>5. ServedIsListed' /\ ActiveHasThread' /\ FileIsWhole' /\ FileAgrees' /\ ThreadKnows'
    BY <1>0, <2>1, <2>3 DEF SyncTypeOK, ServedIsListed, ActiveHasThread, FileIsWhole, FileAgrees,
       Record, ThreadKnows, Working, WriterIsAlone, Busy
  <2>6. WriterIsAlone'  BY <1>0, <2>1, <2>3 DEF SyncTypeOK, ThreadKnows, WriterIsAlone, Busy
  <2> QED BY <2>4, <2>5, <2>6 DEF SyncInv
<1>6. ASSUME NEW w \in Writers, PersistOpens(w) PROVE SyncInv'
  <2> DEFINE where == IF doing[w] = "open" THEN "write" ELSE "writelast"
  <2>1. /\ Goto(w, where) /\ doing[w] \in {"open", "openlast"} /\ temp' = Empty
        /\ handle' = [handle EXCEPT ![w] = "temp"] /\ UNCHANGED <<job, file, text, restartsOfSync>>
    BY <1>6 DEF PersistOpens, Opens
  <2>2. overlapped' \in BOOLEAN  BY <1>0, <2>1, GotoTyped
  <2>3. /\ doing' \in [Writers -> Where] /\ doing'[w] = where
        /\ \A x \in Writers \ {w} : doing'[x] = doing[x]
        /\ ~overlapped' => ~overlapped /\ \A x \in Writers \ {w} : ~Busy(doing[x])
    BY <1>0, <2>1, GotoMoves DEF Busy
  <2>4. SyncTypeOK'  BY <1>0, <2>1, <2>2, <2>3 DEF SyncTypeOK
  <2>5. ServedIsListed' /\ ActiveHasThread' /\ FileIsWhole' /\ FileAgrees' /\ ThreadKnows'
    BY <1>0, <2>1, <2>3 DEF SyncTypeOK, ServedIsListed, ActiveHasThread, FileIsWhole, FileAgrees, Record,
       ThreadKnows, Working, WriterIsAlone, Busy
  <2>6. WriterIsAlone'
    BY <1>0, <2>1, <2>3 DEF SyncTypeOK, ThreadKnows, WriterIsAlone, Busy
  <2> QED BY <2>4, <2>5, <2>6 DEF SyncInv
<1>7. ASSUME NEW w \in Writers, PersistReads(w) PROVE SyncInv'
  <2> DEFINE where == IF doing[w] = "write" THEN "flush" ELSE "flushlast"
  <2>1. /\ Goto(w, where) /\ doing[w] \in {"write", "writelast"}
        /\ text' = [text EXCEPT ![w] = job] /\ UNCHANGED <<job, file, temp, handle, restartsOfSync>>
    BY <1>7 DEF PersistReads
  <2>2. overlapped' \in BOOLEAN  BY <1>0, <2>1, GotoTyped
  <2>3. /\ doing' \in [Writers -> Where] /\ doing'[w] = where
        /\ \A x \in Writers \ {w} : doing'[x] = doing[x]
        /\ ~overlapped' => ~overlapped /\ \A x \in Writers \ {w} : ~Busy(doing[x])
    BY <1>0, <2>1, GotoMoves DEF Busy
  <2>4. job # Unknown  BY <1>0, <2>1 DEF ThreadKnows
  <2>5. SyncTypeOK'  BY <1>0, <2>1, <2>2, <2>3 DEF SyncTypeOK
  <2>6. text'[w] = job /\ \A x \in Writers \ {w} : text'[x] = text[x]
    BY <1>0, <2>1 DEF SyncTypeOK
  <2>7. ServedIsListed' /\ ActiveHasThread' /\ FileIsWhole' /\ FileAgrees' /\ ThreadKnows'
    BY <1>0, <2>1, <2>3, <2>4, <2>6 DEF ServedIsListed, ActiveHasThread, FileIsWhole, FileAgrees,
       Record, ThreadKnows, Working
  <2>8. WriterIsAlone'  BY <1>0, <2>1, <2>3, <2>6 DEF WriterIsAlone, Busy
  <2> QED BY <2>5, <2>7, <2>8 DEF SyncInv
<1>8. ASSUME NEW w \in Writers, PersistWrites(w) PROVE SyncInv'
  <2> DEFINE where == IF doing[w] = "flush" THEN "rename" ELSE "renamelast"
  <2>1. /\ Goto(w, where) /\ doing[w] \in {"flush", "flushlast"}
        /\ text' = [text EXCEPT ![w] = Unknown] /\ UNCHANGED <<job, handle, restartsOfSync>>
        /\ \/ handle[w] = "temp" /\ temp' \in Over(temp, text[w]) /\ UNCHANGED file
           \/ handle[w] = "file" /\ file' \in Over(file, text[w]) /\ UNCHANGED temp
           \/ handle[w] = "gone" /\ UNCHANGED <<file, temp>>
    BY <1>8 DEF PersistWrites
  <2>2. overlapped' \in BOOLEAN  BY <1>0, <2>1, GotoTyped
  <2>3. /\ doing' \in [Writers -> Where] /\ doing'[w] = where
        /\ \A x \in Writers \ {w} : doing'[x] = doing[x]
        /\ ~overlapped' => ~overlapped /\ \A x \in Writers \ {w} : ~Busy(doing[x])
    BY <1>0, <2>1, GotoMoves DEF Busy
  <2>4. job # Unknown /\ text[w] # Unknown  BY <1>0, <2>1 DEF ThreadKnows
  <2>5. temp' \in {temp, text[w], Mixed} /\ file' \in {file, text[w], Mixed}  BY <2>1 DEF Over
  <2>6. text'[w] = Unknown /\ \A x \in Writers \ {w} : text'[x] = text[x]
    BY <1>0, <2>1 DEF SyncTypeOK
  <2>7. SyncTypeOK'
    <3>1. text[w] \in FileRecord  BY <1>0, <2>4, FileRecords DEF SyncTypeOK
    <3>2. /\ file' \in FileRecord /\ temp' \in FileRecord
      BY <1>0, <2>5, <3>1, FileRecords DEF SyncTypeOK, FileRecord
    <3> QED BY <1>0, <2>1, <2>2, <2>3, <3>2 DEF SyncTypeOK, FileRecord
  <2>8. ServedIsListed'
    BY <1>0, <2>1, <2>5, <2>6 DEF ServedIsListed
  <2>9. ~overlapped' => temp' = job /\ UNCHANGED file
    BY <1>0, <2>1, <2>3 DEF WriterIsAlone, Over
  <2>10. ActiveHasThread' /\ FileAgrees' /\ ThreadKnows'
    BY <1>0, <2>1, <2>3, <2>4, <2>6 DEF SyncTypeOK, ActiveHasThread, FileAgrees, ThreadKnows, Working
  <2>11. FileIsWhole'  BY <1>0, <2>1, <2>3, <2>9 DEF FileIsWhole, Record
  <2>12. WriterIsAlone'  BY <1>0, <2>1, <2>3, <2>9 DEF WriterIsAlone, Busy
  <2> QED BY <2>7, <2>8, <2>10, <2>11, <2>12 DEF SyncInv
<1>9. ASSUME NEW w \in Writers, PersistRenames(w) PROVE SyncInv'
  <2> DEFINE where ==
        IF temp # NoFile /\ doing[w] = "rename" THEN "list" ELSE "idle"
  <2>1. /\ Goto(w, where) /\ doing[w] \in {"rename", "renamelast"}
        /\ UNCHANGED <<job, text, restartsOfSync>>
        /\ IF temp = NoFile THEN UNCHANGED <<file, temp>> ELSE file' = temp /\ temp' = NoFile
    BY <1>9 DEF PersistRenames
  <2>2. overlapped' \in BOOLEAN  BY <1>0, <2>1, GotoTyped
  <2>3. /\ doing' \in [Writers -> Where] /\ doing'[w] = where
        /\ \A x \in Writers \ {w} : doing'[x] = doing[x]
        /\ ~overlapped' => ~overlapped
    BY <1>0, <2>1, GotoMoves
  <2>4. handle' \in [Writers -> {"none", "temp", "file", "gone"}]
    <3>1. \A h \in {"none", "temp", "file", "gone"} :
            Renamed(h) \in {"none", "temp", "file", "gone"}
      BY DEF Renamed
    <3> QED BY <1>0, <1>9, <3>1 DEF PersistRenames, SyncTypeOK
  <2>5. job # Unknown  BY <1>0, <2>1 DEF ThreadKnows
  <2>6. ~overlapped =>
          /\ temp = job /\ temp # NoFile
          /\ \A x \in Writers \ {w} : ~Busy(doing[x])
    BY <1>0, <2>1 DEF SyncTypeOK, WriterIsAlone, Busy
  <2>7. SyncTypeOK'
    <3>1. /\ file' \in FileRecord /\ temp' \in FileRecord
      BY <1>0, <2>1, FileRecords DEF SyncTypeOK, FileRecord
    <3> QED BY <1>0, <2>1, <2>2, <2>3, <2>4, <3>1 DEF SyncTypeOK, FileRecord
  <2>8. ServedIsListed'  BY <1>0, <2>1 DEF ServedIsListed
  <2>9. ThreadKnows'  BY <1>0, <2>1, <2>3, <2>5 DEF ThreadKnows
  <2>10. ActiveHasThread'
    BY <1>0, <2>1, <2>3, <2>6 DEF ActiveHasThread, Working, ThreadKnows, WriterIsAlone, Busy,
       SyncTypeOK, Goto
  <2>11. WriterIsAlone'  BY <1>0, <2>1, <2>3, <2>6 DEF WriterIsAlone, Busy
  <2>12. FileAgrees'
    BY <2>1, <2>3, <2>6 DEF FileAgrees, Goto
  <2>13. FileIsWhole'
    <3>1. Record(job)  BY <1>0, <2>5 DEF SyncTypeOK, Record
    <3> QED BY <2>1, <2>3, <2>6, <3>1 DEF FileIsWhole, Record
  <2> QED BY <2>7, <2>8, <2>9, <2>10, <2>11, <2>12, <2>13 DEF SyncInv
<1>10. CASE RestartSync
  <2>1. /\ job' = Recovered(file)
        /\ file' = IF Record(file) THEN Recovered(file) ELSE file
        /\ temp' \in {NoFile, temp} /\ overlapped' = FALSE
        /\ \A w \in Writers : doing'[w] = "idle" /\ text'[w] = Unknown
        /\ restartsOfSync' = restartsOfSync + 1
    BY <1>10 DEF RestartSync
  <2>2. /\ ~Record(file) => job' = Unknown
        /\ Record(file) => job'.status \in Terminal /\ job' = file' /\ job' # Unknown
        /\ job'.status = "SUCCEEDED" => file.status = "SUCCEEDED" /\ job' = file
        /\ job' \in Jobs
    BY <1>0, <2>1 DEF Recovered, Record, SyncTypeOK
  <2>3. overlapped' \in BOOLEAN  BY Zenon, <2>1
  <2>4. SyncTypeOK'
    BY <1>0, <1>10, <2>1, <2>2, <2>3 DEF RestartSync, SyncTypeOK
  <2>5. ServedIsListed' /\ ActiveHasThread'
    BY <1>0, <2>1, <2>2 DEF ServedIsListed, ActiveHasThread
  <2>6. FileAgrees' /\ ThreadKnows' /\ WriterIsAlone'
    BY <2>1, <2>2 DEF FileAgrees, ThreadKnows, WriterIsAlone, Busy
  <2>7. FileIsWhole'
    <3>1. Record(file) => Record(job')  BY <2>2 DEF Record
    <3> QED BY <2>2, <3>1 DEF FileIsWhole, Record
  <2> QED BY <2>4, <2>5, <2>6, <2>7 DEF SyncInv
<1> QED
  BY <1>1, <1>2, <1>3, <1>4, <1>5, <1>6, <1>7, <1>8, <1>9, <1>10 DEF SyncNext, Persists

\* The invariant of the sync jobs is inductive: what holds in every state of
\* _run_sync, cancel_sync, _persist_job and _recover_jobs of kubernetes.py, some of
\* it only as long as no two writers have met in the one temporary file (overlapped).
\* What it says with that exception, and what without, the next two theorems state.
THEOREM SyncInvariant == SyncSpec => []SyncInv
<1>1. ASSUME SyncInv, UNCHANGED syncVars PROVE SyncInv'
  BY <1>1 DEF syncVars, SyncInv, SyncTypeOK, ServedIsListed, ActiveHasThread, Working,
     FileIsWhole, FileAgrees, Record, ThreadKnows, WriterIsAlone
<1> QED BY <1>1, SyncInitKeeps, SyncStepKeeps, PTL DEF SyncSpec

\* Whatever the writers of a job do at once, and across restarts: a job that says
\* SUCCEEDED, in memory, in its file or in what is about to become its file, has its
\* whole list, which is what sync_assets serves.
THEOREM SyncServesWholeLists == SyncSpec => []ServedIsListed
<1>1. SyncInv => ServedIsListed  BY DEF SyncInv
<1> QED BY <1>1, SyncInvariant, PTL

\* As long as no two writers have been between a look and a rename at once, in this
\* life of the runner: the job's file is a whole record at every moment, so that a
\* crash at any step of open, write and rename loses no job; it says what the memory
\* says whenever nobody is writing; and a job that says it goes on has its thread.
\* Without that condition none of the three holds.
THEOREM LoneWriterKeepsTheJob ==
  SyncSpec =>
    [](~overlapped =>
         /\ job # Unknown => Record(file)
         /\ (\A w \in Writers : ~Busy(doing[w])) /\ job # Unknown => file = job
         /\ job.status \in Active => Working)
<1>1. SyncInv => (~overlapped =>
         /\ job # Unknown => Record(file)
         /\ (\A w \in Writers : ~Busy(doing[w])) /\ job # Unknown => file = job
         /\ job.status \in Active => Working)
  BY DEF SyncInv, FileIsWhole, WriterIsAlone, ActiveHasThread
<1> QED BY <1>1, SyncInvariant, PTL
-----------------------------------------------------------------------------
\* A set of numbers that has no least one is empty: what takes the place of induction.
LEMMA LeastOf ==
  ASSUME NEW T \in SUBSET Nat, T # {}
  PROVE  \E x \in T : \A y \in T : x <= y
<1>1. IsWellFoundedOn(OpToRel(<, Nat), Nat)  BY NatLessThanWellFounded
<1>2. PICK x \in T : \A y \in T : ~ (<<y, x>> \in OpToRel(<, Nat))  BY <1>1, WFMin
<1>3. \A y \in T : <<y, x>> \in OpToRel(<, Nat) \/ ~ (y < x)  BY SMT DEF OpToRel
<1>4. \A y \in T : ~ (y < x)  BY Zenon, <1>2, <1>3
<1> QED BY <1>4

\* So what holds of 0, and of n + 1 when it holds of n, holds of every number.
LEMMA NatSet ==
  ASSUME NEW T, 0 \in T, \A n \in Nat : n \in T => n + 1 \in T
  PROVE  Nat \subseteq T
<1> SUFFICES ASSUME ~(Nat \subseteq T) PROVE FALSE  OBVIOUS
<1>1. Nat \ T # {}  OBVIOUS
<1>2. PICK x \in Nat \ T : \A y \in Nat \ T : x <= y  BY <1>1, LeastOf
<1>3. x # 0 /\ x - 1 \in Nat /\ (x - 1) + 1 = x  BY <1>2
<1>4. x - 1 \in T  BY <1>2, <1>3
<1> QED BY <1>2, <1>3, <1>4

\* The objects of a set, each in its place.
LEMMA Ordered ==
  ASSUME ClusterCollectorAssumption, NEW S \in SUBSET Objects
  PROVE  /\ Cardinality(S) \in Nat /\ SetToSeq(S) \in [1..Cardinality(S) -> S]
         /\ \A o \in S : \E i \in 1..Cardinality(S) : SetToSeq(S)[i] = o
<1>1. IsFiniteSet(S)  BY FS_Subset DEF ClusterCollectorAssumption
<1>2. PICK n \in Nat : n = Cardinality(S) /\ ExistsBijection(1..n, S)  BY <1>1, FS_CardinalityType
<1>3. \E f \in [1..n -> S] : IsInjective(f)  BY <1>2 DEF ExistsBijection, Bijection, Injection
<1> DEFINE q == SetToSeq(S)
<1>4. q \in [1..n -> S] /\ IsInjective(q)  BY <1>2, <1>3 DEF SetToSeq
<1>5. q \in Injection(1..n, S)  BY <1>4 DEF Injection
<1>6. IsFiniteSet(1..n) /\ Cardinality(1..n) = n  BY FS_Interval
<1>7. q \in Surjection(1..n, S)  BY <1>1, <1>2, <1>5, <1>6, FS_Injection
<1> QED BY <1>2, <1>4, <1>7 DEF Surjection

\* The expected count of a baseline tells enough: what lacks nothing in number and has
\* nothing else in it is the whole.
LEMMA PresentSame ==
  ASSUME ClusterCollectorAssumption, NEW a \in Assets, NEW b \in Assets,
         \A o \in Objects : a[o] \in {"absent", b[o]}, Present(a) = Present(b)
  PROVE  a = b
<1> DEFINE A == {o \in Objects : a[o] # "absent"}
           B == {o \in Objects : b[o] # "absent"}
<1>1. A \subseteq B  OBVIOUS
<1>2. IsFiniteSet(B)  BY FS_Subset DEF ClusterCollectorAssumption
<1>3. A = B  BY <1>1, <1>2, FS_Subset DEF Present
<1>4. \A o \in Objects : a[o] = b[o]  BY <1>3
<1> QED BY <1>4 DEF Assets

\* The count that the item COMPLETE carries is a number.
LEMMA PresentTyped ==
  ASSUME ClusterCollectorAssumption, NEW a
  PROVE  Present(a) \in Nat
BY FS_Subset, FS_CardinalityType DEF ClusterCollectorAssumption, Present

\* An empty projection hides nothing, and what is hidden of a projection leaves one.
LEMMA VisibleTyped ==
  /\ Nothing_ \in Assets /\ Visible(Nothing_) = Nothing_
  /\ \A a \in Assets : Visible(a) \in Assets
BY DEF Visible, Nothing_, Assets, States

\* An item leaves AIOps with a view and a baseline, in the epoch it was in.
LEMMA TakeTyped ==
  ASSUME NEW r \in Readers, NEW item \in Items
  PROVE  Take(r, item) \in Readers /\ Take(r, item).epoch = r.epoch
<1> USE VisibleTyped DEF Readers, Items, Assets
<1>1. CASE item.type = "CHANGED"  BY <1>1 DEF Take
<1>2. CASE item.type = "BASELINE"  BY <1>2 DEF Take
<1>3. CASE item.type = "COMPLETE"  BY <1>3 DEF Take
<1> QED BY <1>1, <1>2, <1>3

\* One item, taken by a reader that fits the mark before it, leaves one that fits the
\* mark after it.
LEMMA TakeFits ==
  ASSUME ClusterCollectorAssumption, NEW r \in Readers, NEW item \in Items,
         NEW l \in Marks, NEW m \in Marks, Leads(l, item, m), Fits(r, l)
  PROVE  Fits(Take(r, item), m)
<1>1. CASE item.type = "CHANGED"
  <2>1. item.object \in Objects /\ m = [l EXCEPT !.view[item.object] = item.state]
    BY <1>1 DEF Leads, Items
  <2>2. Take(r, item) = [r EXCEPT !.view[item.object] = item.state]  BY <1>1 DEF Take
  <2> QED BY <2>1, <2>2 DEF Fits, Readers, Marks, Assets
<1>2. CASE item.type = "BASELINE"
  <2>1. /\ item.object \in Objects /\ m.view = [l.view EXCEPT ![item.object] = item.state]
        /\ m.goal[item.object] = item.state /\ l.goal \in {m.goal, Nothing_}
    BY <1>2 DEF Leads, Items
  <2>2. Take(r, item) = [r EXCEPT !.view[item.object] = item.state, !.base[item.object] = item.state]
    BY <1>2 DEF Take
  <2>3. \A o \in Objects : r.base[o] \in {"absent", m.goal[o]}  BY <2>1 DEF Fits, Nothing_
  <2> QED BY <2>1, <2>2, <2>3 DEF Fits, Readers, Marks, Assets
<1>3. CASE item.type = "COMPLETE"
  <2>1. /\ l.view = l.goal /\ item.expected = Present(l.goal)
        /\ m = [view |-> l.goal, goal |-> Nothing_]
    BY <1>3 DEF Leads
  <2>2. CASE Present(r.base) = item.expected
    <3>1. Take(r, item) = [r EXCEPT !.view = r.base, !.base = Nothing_, !.missed = FALSE]
      BY <1>3, <2>2 DEF Take
    <3>2. r.base = l.goal  BY <2>1, <2>2, PresentSame DEF Fits, Readers, Marks
    <3> QED BY <2>1, <3>1, <3>2 DEF Fits, Readers, Nothing_
  <2>3. CASE Present(r.base) # item.expected
    <3>1. Take(r, item) = [r EXCEPT !.base = Nothing_]  BY <1>3, <2>3 DEF Take
    <3> QED BY <2>1, <3>1 DEF Fits, Readers, Nothing_
  <2> QED BY <2>2, <2>3
<1> QED BY <1>1, <1>2, <1>3 DEF Items

\* The answer of collection_pull, taken item by item: each state of the reader exists.
LEMMA TakesExist ==
  ASSUME NEW r \in Readers, NEW its \in Seq(Items)
  PROVE  \E g \in [0..Len(its) -> Readers] :
           g[0] = r /\ \A i \in 1..Len(its) : g[i] = Take(g[i - 1], its[i])
<1> DEFINE Upto(n) ==
      \E g \in [0..n -> Readers] : g[0] = r /\ \A i \in 1..n : g[i] = Take(g[i - 1], its[i])
    T == {n \in Nat : n <= Len(its) => Upto(n)}
<1>1. 0 \in T
  <2> DEFINE g == [i \in 0..0 |-> r]
  <2>1. g \in [0..0 -> Readers] /\ g[0] = r /\ \A i \in 1..0 : g[i] = Take(g[i - 1], its[i])
    OBVIOUS
  <2>2. Upto(0)  BY <2>1
  <2> QED BY <2>2
<1>2. \A n \in Nat : n \in T => n + 1 \in T
  <2> SUFFICES ASSUME NEW n \in Nat, n + 1 <= Len(its), Upto(n) PROVE Upto(n + 1)
    <3> HIDE DEF Upto
    <3> QED OBVIOUS
  <2>1. PICK g \in [0..n -> Readers] :
          g[0] = r /\ \A i \in 1..n : g[i] = Take(g[i - 1], its[i])
    OBVIOUS
  <2> DEFINE h == [i \in 0..n + 1 |-> IF i = n + 1 THEN Take(g[n], its[n + 1]) ELSE g[i]]
  <2>2. its[n + 1] \in Items /\ g[n] \in Readers  OBVIOUS
  <2>3. Take(g[n], its[n + 1]) \in Readers  BY <2>2, TakeTyped
  <2>4. h \in [0..n + 1 -> Readers]  BY <2>3
  <2>5. h[0] = r  BY <2>1
  <2>6. \A i \in 1..n + 1 : h[i] = Take(h[i - 1], its[i])  BY <2>1
  <2> QED BY <2>4, <2>5, <2>6
<1>3. Nat \subseteq T
  <2> HIDE DEF T
  <2> QED BY <1>1, <1>2, NatSet
<1> QED BY <1>3

\* And the last of them is what TakeAll makes of the answer.
LEMMA TakeAllIs ==
  ASSUME NEW r \in Readers, NEW its \in Seq(Items)
  PROVE  \E g \in [0..Len(its) -> Readers] :
           /\ g[0] = r /\ \A i \in 1..Len(its) : g[i] = Take(g[i - 1], its[i])
           /\ TakeAll(r, its) = g[Len(its)]
<1> DEFINE D(g) == [i \in 0..Len(its) |-> IF i = 0 THEN r ELSE Take(g[i - 1], its[i])]
           g == CHOOSE h : h = D(h)
<1>1. PICK f \in [0..Len(its) -> Readers] :
        f[0] = r /\ \A i \in 1..Len(its) : f[i] = Take(f[i - 1], its[i])
  BY TakesExist
<1>2. f = D(f)  BY <1>1
<1>3. g = D(g)  BY <1>2
<1>4. TakeAll(r, its) = g[Len(its)]  BY DEF TakeAll
<1> HIDE DEF g
<1> DEFINE T == {n \in Nat : n <= Len(its) => g[n] \in Readers}
<1>5. g[0] = r /\ \A i \in 1..Len(its) : g[i] = Take(g[i - 1], its[i])  BY <1>3
<1>6. 0 \in T  BY <1>5
<1>7. \A n \in Nat : n \in T => n + 1 \in T
  <2> SUFFICES ASSUME NEW n \in Nat, g[n] \in Readers, n + 1 <= Len(its)
               PROVE  g[n + 1] \in Readers
    OBVIOUS
  <2>1. n + 1 \in 1..Len(its) /\ (n + 1) - 1 = n /\ its[n + 1] \in Items  OBVIOUS
  <2>2. g[n + 1] = Take(g[n], its[n + 1])  BY <1>5, <2>1
  <2> QED BY <2>1, <2>2, TakeTyped
<1>8. Nat \subseteq T
  <2> HIDE DEF T
  <2> QED BY <1>6, <1>7, NatSet
<1>9. g \in [0..Len(its) -> Readers]  BY <1>3, <1>8
<1> QED BY <1>4, <1>5, <1>9

\* A whole answer, taken from the mark before it, leaves a reader that fits the mark
\* after it.
LEMMA TakeAllFits ==
  ASSUME ClusterCollectorAssumption, NEW r \in Readers, NEW its \in Seq(Items),
         NEW line \in [0..Len(its) -> Marks], Along(line, its), Fits(r, line[0])
  PROVE  /\ TakeAll(r, its) \in Readers /\ TakeAll(r, its).epoch = r.epoch
         /\ Fits(TakeAll(r, its), line[Len(its)])
<1>1. PICK g \in [0..Len(its) -> Readers] :
        /\ g[0] = r /\ \A i \in 1..Len(its) : g[i] = Take(g[i - 1], its[i])
        /\ TakeAll(r, its) = g[Len(its)]
  BY TakeAllIs
<1> DEFINE T == {n \in Nat : n <= Len(its) => g[n].epoch = r.epoch /\ Fits(g[n], line[n])}
<1>2. 0 \in T  BY <1>1
<1>3. \A n \in Nat : n \in T => n + 1 \in T
  <2> SUFFICES ASSUME NEW n \in Nat, n + 1 <= Len(its), g[n].epoch = r.epoch, Fits(g[n], line[n])
               PROVE  g[n + 1].epoch = r.epoch /\ Fits(g[n + 1], line[n + 1])
    OBVIOUS
  <2>1. /\ g[n] \in Readers /\ its[n + 1] \in Items /\ line[n] \in Marks /\ line[n + 1] \in Marks
        /\ n + 1 \in 1..Len(its) /\ (n + 1) - 1 = n
    OBVIOUS
  <2>2. g[n + 1] = Take(g[n], its[n + 1])  BY <1>1, <2>1
  <2>3. Leads(line[n], its[n + 1], line[n + 1])  BY <2>1, Zenon DEF Along
  <2>4. Take(g[n], its[n + 1]).epoch = r.epoch  BY <2>1, TakeTyped
  <2>5. Fits(Take(g[n], its[n + 1]), line[n + 1])  BY <2>1, <2>3, TakeFits
  <2> QED BY <2>2, <2>4, <2>5
<1>4. Nat \subseteq T
  <2> HIDE DEF T
  <2> QED BY <1>2, <1>3, NatSet
<1> QED BY <1>1, <1>4

\* CollectionStream.append, the marks: where one part of a stream ends the next begins.
LEMMA Joined ==
  ASSUME NEW one \in Seq(Items), NEW two \in Seq(Items),
         NEW before \in [0..Len(one) -> Marks], NEW after \in [0..Len(two) -> Marks],
         Along(before, one), Along(after, two), before[Len(one)] = after[0]
  PROVE  /\ one \o two \in Seq(Items) /\ Len(one \o two) = Len(one) + Len(two)
         /\ \E line \in [0..Len(one) + Len(two) -> Marks] :
              /\ Along(line, one \o two)
              /\ \A i \in 0..Len(one) : line[i] = before[i]
              /\ line[Len(one) + Len(two)] = after[Len(two)]
<1> DEFINE n == Len(one)
           all == one \o two
           line == [i \in 0..n + Len(two) |-> IF i <= n THEN before[i] ELSE after[i - n]]
<1>1. all \in Seq(Items) /\ Len(all) = n + Len(two) /\ n \in Nat /\ Len(two) \in Nat
  OBVIOUS
<1>2. line \in [0..n + Len(two) -> Marks]
  <2>1. \A i \in 0..n + Len(two) : i > n => i - n \in 0..Len(two)  BY <1>1
  <2> QED BY <1>1, <2>1
<1>3. ASSUME NEW i \in 0..Len(two) PROVE line[n + i] = after[i]
  <2>1. CASE i = 0  BY <1>1, <2>1
  <2>2. CASE i > 0
    <3>1. n + i \in 0..n + Len(two) /\ n + i > n /\ (n + i) - n = i  BY <1>1, <2>2
    <3> QED BY <3>1
  <2> QED BY <2>1, <2>2
<1>4. ASSUME NEW i \in 1..Len(all) PROVE Leads(line[i - 1], all[i], line[i])
  <2>1. CASE i <= n
    <3>1. all[i] = one[i] /\ line[i - 1] = before[i - 1] /\ line[i] = before[i]  BY <1>1, <2>1
    <3> QED BY <1>1, <2>1, <3>1 DEF Along
  <2>2. CASE i > n
    <3> DEFINE k == i - n
    <3>1. k \in 1..Len(two) /\ i = n + k  BY <1>1, <2>2
    <3>2. all[i] = two[k]  BY <1>1, <3>1
    <3>3. line[i] = after[k]  BY <1>1, <1>3, <3>1
    <3>4. i - 1 = n + (k - 1) /\ k - 1 \in 0..Len(two)  BY <1>1, <3>1
    <3>5. line[i - 1] = after[k - 1]  BY <1>3, <3>4
    <3> QED BY <3>1, <3>2, <3>3, <3>5 DEF Along
  <2> QED BY <1>1, <2>1, <2>2
<1>5. \A i \in 0..n : line[i] = before[i]  BY <1>1
<1>6. line[n + Len(two)] = after[Len(two)]  BY <1>1, <1>3
<1> QED BY <1>1, <1>2, <1>4, <1>5, <1>6 DEF Along

\* CollectionStream.append and read: a part of a stream keeps its marks.
LEMMA Cut ==
  ASSUME NEW its \in Seq(Items), NEW line \in [0..Len(its) -> Marks], Along(line, its),
         NEW k \in 0..Len(its), NEW e \in k..Len(its)
  PROVE  /\ SubSeq(its, k + 1, e) \in Seq(Items) /\ Len(SubSeq(its, k + 1, e)) = e - k
         /\ [i \in 0..e - k |-> line[k + i]] \in [0..e - k -> Marks]
         /\ Along([i \in 0..e - k |-> line[k + i]], SubSeq(its, k + 1, e))
<1> DEFINE part == SubSeq(its, k + 1, e)
           marks == [i \in 0..e - k |-> line[k + i]]
<1>1. part \in Seq(Items) /\ Len(part) = e - k /\ e - k \in Nat  OBVIOUS
<1>2. \A i \in 0..e - k : k + i \in 0..Len(its)  OBVIOUS
<1>3. marks \in [0..Len(part) -> Marks]  BY <1>1, <1>2
<1>4. ASSUME NEW i \in 1..Len(part) PROVE Leads(marks[i - 1], part[i], marks[i])
  <2>1. part[i] = its[k + i] /\ k + i \in 1..Len(its)  BY <1>1
  <2>2. marks[i] = line[k + i] /\ marks[i - 1] = line[(k + i) - 1]  BY <1>1
  <2> QED BY <2>1, <2>2 DEF Along
<1> QED BY <1>1, <1>3, <1>4 DEF Along

\* _replace_projection: what differs leads from the old projection to the new; in a
\* baseline every item says where it leads.
LEMMA DifferencesLead ==
  ASSUME ClusterCollectorAssumption, NEW old \in Assets, NEW new \in Assets, NEW full \in BOOLEAN
  PROVE  /\ Differences(old, new, full) \in Seq(Items)
         /\ \E line \in [0..Len(Differences(old, new, full)) -> Marks] :
              /\ Along(line, Differences(old, new, full))
              /\ line[0] = [view |-> old, goal |-> Nothing_]
              /\ line[Len(Differences(old, new, full))] =
                   [view |-> new, goal |-> IF full THEN new ELSE Nothing_]
<1> DEFINE U == {o \in Objects : new[o] # "absent" /\ (full \/ old[o] # new[o])}
           G == {o \in Objects : new[o] = "absent" /\ old[o] # "absent"}
           ups == SetToSeq(U)
           gone == SetToSeq(G)
<1>1. PICK p \in Nat : /\ p = Cardinality(U) /\ ups \in [1..p -> U]
                       /\ \A o \in U : \E i \in 1..p : ups[i] = o
  BY Ordered
<1>2. PICK q \in Nat : /\ q = Cardinality(G) /\ gone \in [1..q -> G]
                       /\ \A o \in G : \E i \in 1..q : gone[i] = o
  BY Ordered
<1> HIDE DEF ups, gone
<1> DEFINE kind == IF full THEN "BASELINE" ELSE "CHANGED"
           ch == [i \in 1..p |-> [type |-> kind, object |-> ups[i], state |-> new[ups[i]]]]
           del == [i \in 1..q |-> [type |-> "CHANGED", object |-> gone[i], state |-> "absent"]]
           core == ch \o del
<1>3. Changes(old, new, full) = ch  BY <1>1 DEF Changes, ups
<1>4. Deleted(old, new) = del  BY <1>2 DEF Deleted, gone
<1>5. ch \in Seq(Items) /\ Len(ch) = p
  <2>1. \A i \in 1..p : ups[i] \in Objects /\ new[ups[i]] \in States  BY <1>1 DEF Assets
  <2>2. \A i \in 1..p : ch[i] \in Items  BY <2>1 DEF Items
  <2> QED BY <2>2
<1>6. del \in Seq(Items) /\ Len(del) = q
  <2>1. \A i \in 1..q : gone[i] \in Objects /\ "absent" \in States  BY <1>2 DEF States
  <2>2. \A i \in 1..q : del[i] \in Items  BY <2>1 DEF Items
  <2> QED BY <2>2
<1>7. core \in Seq(Items) /\ Len(core) = p + q
  <2> HIDE DEF ch, del
  <2> QED BY <1>5, <1>6
<1>8. \A i \in 1..p : core[i] = ch[i]
  <2> HIDE DEF ch, del
  <2> QED BY <1>5, <1>6
<1>9. \A i \in 1..q : core[p + i] = del[i]
  <2> HIDE DEF ch, del
  <2> QED BY SMTT(30), <1>5, <1>6
<1>10. ASSUME NEW i \in 1..p + q
       PROVE  /\ core[i].object \in Objects /\ core[i].state = new[core[i].object]
              /\ core[i].type \in {"BASELINE", "CHANGED"}
              /\ core[i].type = "BASELINE" => full
              /\ full /\ core[i].type = "CHANGED" => i > p
  <2>1. CASE i <= p
    <3>1. core[i] = [type |-> kind, object |-> ups[i], state |-> new[ups[i]]]
      BY <1>8, <2>1
    <3> HIDE DEF core
    <3> QED BY <1>1, <2>1, <3>1
  <2>2. CASE i > p
    <3>1. PICK k \in 1..q : i = p + k  BY <2>2
    <3>2. core[i] = [type |-> "CHANGED", object |-> gone[k], state |-> "absent"]
      BY <1>9, <3>1
    <3> HIDE DEF core
    <3> QED BY <1>2, <2>2, <3>1, <3>2
  <2> QED BY <2>1, <2>2
<1>11. full /\ p = 0 => new = Nothing_
  <2> SUFFICES ASSUME full, p = 0 PROVE \A o \in Objects : new[o] = "absent"
    BY DEF Assets, Nothing_
  <2> QED BY <1>1
<1>12. \A o \in Objects : new[o] # old[o] => \E i \in 1..p + q : core[i].object = o
  <2> SUFFICES ASSUME NEW o \in Objects, new[o] # old[o]
               PROVE  \E i \in 1..p + q : core[i].object = o
    OBVIOUS
  <2>1. CASE new[o] # "absent"
    <3>1. PICK i \in 1..p : ups[i] = o  BY <1>1, <2>1
    <3>2. core[i].object = o  BY <1>8, <3>1
    <3> QED BY <3>2
  <2>2. CASE new[o] = "absent"
    <3>1. PICK i \in 1..q : gone[i] = o  BY <1>2, <2>2
    <3>2. core[p + i].object = o  BY <1>9, <3>1
    <3> QED BY <3>2
  <2> QED BY <2>1, <2>2
<1> HIDE DEF core
<1> DEFINE View(j) == [o \in Objects |-> IF \E i \in 1..j : core[i].object = o THEN new[o] ELSE old[o]]
           line == [j \in 0..p + q |->
                     [view |-> View(j),
                      goal |-> IF full /\ (j > 0 \/ p + q = 0) THEN new ELSE Nothing_]]
<1>13. \A j \in 0..p + q : View(j) \in Assets  BY DEF Assets
<1>14. line \in [0..p + q -> Marks]
  <2> HIDE DEF View
  <2> QED BY <1>13, VisibleTyped DEF Marks
<1>15. line[0] = [view |-> old, goal |-> Nothing_]
  <2>1. View(0) = old  BY DEF Assets
  <2>2. full /\ p + q = 0 => new = Nothing_  BY <1>11
  <2> HIDE DEF View
  <2> QED BY <2>1, <2>2
<1>16. line[p + q] = [view |-> new, goal |-> IF full THEN new ELSE Nothing_]
  <2>1. View(p + q) = new  BY <1>12 DEF Assets
  <2> HIDE DEF View
  <2> QED BY <2>1
<1>17. ASSUME NEW j \in 1..p + q PROVE Leads(line[j - 1], core[j], line[j])
  <2> DEFINE o == core[j].object
  <2>1. View(j) = [View(j - 1) EXCEPT ![o] = new[o]]
    <3>1. \A x \in Objects : x # o =>
            ((\E i \in 1..j : core[i].object = x) <=> (\E i \in 1..j - 1 : core[i].object = x))
      BY SMTT(20)
    <3>2. \E i \in 1..j : core[i].object = o  OBVIOUS
    <3> QED BY <3>1, <3>2
  <2> HIDE DEF View
  <2>2. line[j] = [view |-> View(j), goal |-> IF full THEN new ELSE Nothing_]  OBVIOUS
  <2>3. /\ line[j - 1].view = View(j - 1)
        /\ line[j - 1].goal = IF full /\ j > 1 THEN new ELSE Nothing_
    OBVIOUS
  <2>4. line[j - 1] \in Marks /\ line[j] \in Marks
    <3>1. j - 1 \in 0..p + q /\ j \in 0..p + q  OBVIOUS
    <3> HIDE DEF line
    <3> QED BY <1>14, <3>1
  <2> HIDE DEF line
  <2>5. CASE core[j].type = "BASELINE"
    BY <1>10, <2>1, <2>2, <2>3, <2>5 DEF Leads
  <2>6. CASE core[j].type = "CHANGED"
    <3>1. line[j - 1].goal = IF full THEN new ELSE Nothing_  BY <1>10, <1>11, <2>3, <2>6
    <3>2. line[j] = [line[j - 1] EXCEPT !.view[core[j].object] = core[j].state]
      BY <1>10, <2>1, <2>2, <2>3, <2>4, <3>1 DEF Marks
    <3> QED BY <2>6, <3>2 DEF Leads
  <2> QED BY <1>10, <2>5, <2>6
<1>18. Along(line, core)  BY <1>7, <1>17 DEF Along
<1> HIDE DEF line
<1>19. Differences(old, new, full) = core  BY <1>3, <1>4 DEF Differences, core
<1> QED BY <1>7, <1>14, <1>15, <1>16, <1>18, <1>19

\* What one call of _replace_projection appends.
Block(old, assets, full) ==
  Differences(old, Visible(assets), full) \o (IF full THEN Complete(assets) ELSE <<>>)
\* All that one call of _replace_projection appends leads from what was visible to
\* what is, and no baseline is left open.
LEMMA BlockLeads ==
  ASSUME ClusterCollectorAssumption, NEW old \in Assets, NEW assets \in Assets, NEW full \in BOOLEAN
  PROVE  /\ Block(old, assets, full) \in Seq(Items)
         /\ \E line \in [0..Len(Block(old, assets, full)) -> Marks] :
              /\ Along(line, Block(old, assets, full))
              /\ line[0] = [view |-> old, goal |-> Nothing_]
              /\ line[Len(Block(old, assets, full))] = [view |-> Visible(assets), goal |-> Nothing_]
<1> DEFINE new == Visible(assets)
           core == Differences(old, new, full)
           end == IF full THEN Complete(assets) ELSE <<>>
           goal == IF full THEN new ELSE Nothing_
           after == [i \in 0..Len(end) |->
                      [view |-> new, goal |-> IF i = 0 THEN goal ELSE Nothing_]]
<1>1. new \in Assets /\ Nothing_ \in Assets  BY VisibleTyped
<1> HIDE DEF new
<1>2. /\ core \in Seq(Items)
      /\ \E line \in [0..Len(core) -> Marks] :
           /\ Along(line, core) /\ line[0] = [view |-> old, goal |-> Nothing_]
           /\ line[Len(core)] = [view |-> new, goal |-> goal]
  BY <1>1, DifferencesLead
<1>3. PICK line \in [0..Len(core) -> Marks] :
        /\ Along(line, core) /\ line[0] = [view |-> old, goal |-> Nothing_]
        /\ line[Len(core)] = [view |-> new, goal |-> goal]
  BY <1>2
<1>4. /\ end \in Seq(Items) /\ Len(end) = (IF full THEN 1 ELSE 0)
      /\ full => end[1] = [type |-> "COMPLETE", expected |-> Present(new)]
  <2>1. CASE full
    <3>1. end = <<[type |-> "COMPLETE", expected |-> Present(new)]>>  BY <2>1 DEF Complete, new
    <3>2. [type |-> "COMPLETE", expected |-> Present(new)] \in Items  BY PresentTyped DEF Items
    <3> HIDE DEF end
    <3> QED BY <2>1, <3>1, <3>2
  <2>2. CASE ~full  BY <2>2
  <2> QED BY <2>1, <2>2
<1> HIDE DEF core, end
<1>5. after \in [0..Len(end) -> Marks]  BY <1>1 DEF Marks
<1>6. Along(after, end)
  <2> SUFFICES ASSUME full PROVE Leads(after[0], end[1], after[1])  BY <1>4 DEF Along
  <2> QED BY <1>4 DEF Leads
<1>7. line[Len(core)] = after[0]  BY <1>3, <1>4
<1>8. after[Len(end)] = [view |-> new, goal |-> Nothing_]  BY <1>4
<1> HIDE DEF after, goal
<1>9. /\ core \o end \in Seq(Items) /\ Len(core \o end) = Len(core) + Len(end)
      /\ \E all \in [0..Len(core) + Len(end) -> Marks] :
           /\ Along(all, core \o end)
           /\ \A i \in 0..Len(core) : all[i] = line[i]
           /\ all[Len(core) + Len(end)] = after[Len(end)]
  BY <1>2, <1>3, <1>4, <1>5, <1>6, <1>7, Joined
<1>10. Block(old, assets, full) = core \o end  BY DEF Block, core, end, new
<1>11. 0 \in 0..Len(core)  BY <1>2
<1> QED BY <1>3, <1>8, <1>9, <1>10, <1>11 DEF new

\* CollectionStream.append drops its oldest items: a reader that is before them has a
\* gap, and any other is at the mark where it was.
LEMMA AppendKeeps ==
  ASSUME ClusterCollectorAssumption, ReaderInv, NEW assets \in Assets, NEW full \in BOOLEAN,
         raw' = assets, AppendAll(Block(Visible(raw), assets, full)), epoch' = epoch
  PROVE  /\ items' \in Seq(Items) /\ Len(items') <= Capacity /\ appended' \in 0..Capacity + 1
         /\ reader' \in Readers /\ reader'.epoch <= epoch
         /\ StreamLeads'
<1> DEFINE block == Block(Visible(raw), assets, full)
           all == items \o block
           over == IF Len(all) > Capacity THEN Len(all) - Capacity ELSE 0
<1>1. /\ Capacity \in Nat /\ items \in Seq(Items) /\ Len(items) <= Capacity
      /\ appended \in 0..Capacity + 1 /\ reader \in Readers /\ reader.epoch <= epoch /\ raw \in Assets
  BY DEF ClusterCollectorAssumption, ReaderInv, CollectorTypeOK
<1>2. PICK n \in Nat : n = Len(items)  BY <1>1
<1>3. Visible(raw) \in Assets /\ Visible(assets) \in Assets  BY <1>1, VisibleTyped
<1>4. block \in Seq(Items)  BY <1>3, BlockLeads
<1>5. PICK after \in [0..Len(block) -> Marks] :
        /\ Along(after, block) /\ after[0] = [view |-> Visible(raw), goal |-> Nothing_]
        /\ after[Len(block)] = [view |-> Visible(assets), goal |-> Nothing_]
  BY <1>3, BlockLeads
<1>6. PICK before \in [0..Len(items) -> Marks] :
        /\ Along(before, items) /\ before[Len(items)] = [view |-> Visible(raw), goal |-> Nothing_]
        /\ Behind /\ ~Gap => Fits(reader, before[Len(items) - reader.lag])
  BY DEF ReaderInv, StreamLeads
<1>7. /\ items' = SubSeq(all, over + 1, Len(all)) /\ appended' = Capped(appended + Len(block))
      /\ reader' = IF Behind THEN [reader EXCEPT !.lag = Capped(@ + Len(block))] ELSE reader
  BY Zenon DEF AppendAll
<1> HIDE DEF block, over, all
<1>8. PICK b \in Nat : b = Len(block)  BY <1>4
<1>9. appended' \in 0..Capacity + 1  BY <1>1, <1>7, <1>8 DEF Capped
<1>10. /\ reader' \in Readers /\ reader'.epoch = reader.epoch
       /\ reader'.base = reader.base /\ reader'.view = reader.view /\ reader'.missed = reader.missed
       /\ Behind => reader'.lag = Capped(reader.lag + b)
  <2>1. \A l \in Nat : Capped(l + b) \in 0..Capacity + 1  BY <1>1, <1>8 DEF Capped
  <2>2. CASE Behind
    <3>1. reader' = [reader EXCEPT !.lag = Capped(reader.lag + b)]  BY <1>7, <1>8, <2>2
    <3>2. reader.lag \in Nat  BY <1>1 DEF Readers
    <3>3. Capped(reader.lag + b) \in 0..Capacity + 1  BY <2>1, <3>2
    <3> QED BY <1>1, <3>1, <3>3 DEF Readers
  <2>3. CASE ~Behind  BY <1>1, <1>7, <2>3
  <2> QED BY <2>2, <2>3
<1>11. all \in Seq(Items) /\ Len(all) = n + b  BY <1>1, <1>2, <1>4, <1>8 DEF all
<1>12. PICK line \in [0..n + b -> Marks] :
         /\ Along(line, all) /\ \A i \in 0..n : line[i] = before[i]
         /\ line[n + b] = after[Len(block)]
  <2>1. before[Len(items)] = after[0]  BY <1>5, <1>6
  <2>2. /\ items \o block \in Seq(Items) /\ Len(items \o block) = Len(items) + Len(block)
        /\ \E line \in [0..Len(items) + Len(block) -> Marks] :
             /\ Along(line, items \o block) /\ \A i \in 0..Len(items) : line[i] = before[i]
             /\ line[Len(items) + Len(block)] = after[Len(block)]
    <3>1. Along(before, items) /\ Along(after, block)  BY <1>5, <1>6
    <3>2. items \in Seq(Items)  BY <1>1
    <3> QED BY ZenonT(60), <1>4, <2>1, <3>1, <3>2, Joined
  <2> QED BY <1>2, <1>8, <2>2 DEF all
<1>13. over \in 0..n + b /\ n + b - over <= Capacity /\ (over > 0 => n + b - over = Capacity)
  <2>1. over = IF n + b > Capacity THEN n + b - Capacity ELSE 0  BY <1>11 DEF over
  <2> QED BY <1>1, <2>1
<1> DEFINE marks == [i \in 0..n + b - over |-> line[over + i]]
<1>14. /\ items' \in Seq(Items) /\ Len(items') = n + b - over
       /\ marks \in [0..Len(items') -> Marks] /\ Along(marks, items')
  <2>1. line \in [0..Len(all) -> Marks] /\ over \in 0..Len(all) /\ Len(all) \in over..Len(all)
    BY <1>8, <1>2, <1>11, <1>12, <1>13
  <2>2. /\ items' \in Seq(Items) /\ Len(items') = Len(all) - over
        /\ [i \in 0..Len(all) - over |-> line[over + i]] \in [0..Len(all) - over -> Marks]
        /\ Along([i \in 0..Len(all) - over |-> line[over + i]], items')
    BY <1>7, <1>11, <1>12, <2>1, Cut
  <2>3. Len(all) - over = n + b - over
    <3>1. Len(all) = n + b  BY <1>11
    <3>2. over \in Int  BY <1>13
    <3> QED BY <3>1, <3>2
  <2>4. marks = [i \in 0..Len(all) - over |-> line[over + i]]  BY Zenon, <2>3
  <2>5. [0..Len(items') -> Marks] = [0..Len(all) - over -> Marks]  BY <2>2
  <2> HIDE DEF marks
  <2> QED BY <2>2, <2>3, <2>4, <2>5
<1>15. marks[Len(items')] = [view |-> Visible(raw'), goal |-> Nothing_]
  BY <1>5, <1>8, <1>12, <1>13, <1>14
<1>16. ASSUME reader'.epoch = epoch', ~ (reader'.lag > Len(items'))
       PROVE  Fits(reader', marks[Len(items') - reader'.lag])
  <2>1. Behind  BY <1>10, <1>16 DEF Behind
  <2>2. reader.lag \in 0..Capacity + 1  BY <1>1 DEF Readers
  <2>3. reader'.lag = reader.lag + b  BY <1>1, <1>10, <1>13, <1>14, <1>16, <2>1, <2>2 DEF Capped
  <2>4. reader.lag <= n  BY <1>1, <1>2, <1>13, <1>14, <1>16, <2>2, <2>3
  <2>5. Fits(reader, before[n - reader.lag])  BY <1>2, <1>6, <2>1, <2>2, <2>4 DEF Gap
  <2>6. marks[Len(items') - reader'.lag] = before[n - reader.lag]
    <3>1. PICK l \in Nat : l = reader.lag  BY <1>1, <2>2
    <3>2. PICK m \in Nat : m = Len(items')  BY <1>14
    <3>5. m = n + b - over /\ l <= n /\ over \in Nat  BY <1>13, <1>14, <2>4, <3>1, <3>2
    <3>6. l + b <= m  BY <1>16, <2>3, <3>1, <3>2
    <3>3. m - (l + b) \in 0..n + b - over /\ over + (m - (l + b)) = n - l /\ n - l \in 0..n
      BY <3>5, <3>6
    <3>4. marks[m - (l + b)] = line[n - l]  BY <3>3
    <3> QED BY <1>12, <2>3, <3>1, <3>2, <3>3, <3>4
  <2> QED BY <1>10, <2>5, <2>6 DEF Fits
<1> HIDE DEF marks
<1>17. StreamLeads'  BY <1>14, <1>15, <1>16 DEF StreamLeads, Behind, Gap
<1> QED BY <1>1, <1>9, <1>10, <1>13, <1>14, <1>17

\* _replace_projection, by a watch or by a full list.
LEMMA ReplaceKeeps ==
  ASSUME ClusterCollectorAssumption, ReaderInv, NEW assets \in Assets, NEW full \in BOOLEAN,
         ReplaceProjection(assets, full), epoch' = epoch
  PROVE  /\ raw' = assets /\ items' \in Seq(Items) /\ Len(items') <= Capacity
         /\ appended' \in 0..Capacity + 1 /\ reader' \in Readers /\ reader'.epoch <= epoch
         /\ StreamLeads'
<1>1. raw' = assets /\ AppendAll(Block(Visible(raw), assets, full))
  BY DEF ReplaceProjection, Block
<1> QED BY <1>1, AppendKeeps

\* What is left as it was still leads to the same projection.
LEMMA LeadsStill ==
  ASSUME StreamLeads, UNCHANGED <<epoch, raw, items, reader>>
  PROVE  StreamLeads'
BY DEF StreamLeads, Behind, Gap

\* A new collector: an empty projection, an empty stream.
LEMMA InitKeeps == CollectorInit /\ ClusterCollectorAssumption => ReaderInv
<1> SUFFICES ASSUME CollectorInit, ClusterCollectorAssumption PROVE ReaderInv  OBVIOUS
<1>1. /\ Nothing_ \in Assets /\ Capacity \in Nat /\ Visible(Nothing_) = Nothing_
      /\ [o \in Objects |-> "up"] \in Assets
  BY VisibleTyped DEF ClusterCollectorAssumption, Assets, States
<1>2. CollectorTypeOK
  <2>1. reader \in Readers /\ reader.epoch <= epoch
    BY <1>1 DEF CollectorInit, NewReader, Readers
  <2>2. queue \in [Objects -> Seq(States)]  BY DEF CollectorInit
  <2> QED BY <1>1, <2>1, <2>2 DEF CollectorInit, CollectorTypeOK
<1>3. StreamLeads
  <2> DEFINE line == [i \in 0..0 |-> [view |-> Nothing_, goal |-> Nothing_]]
  <2>1. line \in [0..0 -> Marks]  BY <1>1 DEF Marks
  <2>2. items = <<>> /\ Len(items) = 0  BY DEF CollectorInit
  <2>3. Along(line, items)  BY <2>2 DEF Along
  <2>4. reader.lag = 0 /\ Fits(reader, line[0])  BY DEF CollectorInit, NewReader, Fits, Nothing_
  <2>5. line[0] = [view |-> Visible(raw), goal |-> Nothing_]  BY <1>1 DEF CollectorInit
  <2> HIDE DEF line
  <2> QED BY <2>1, <2>2, <2>3, <2>4, <2>5 DEF StreamLeads
<1> QED BY <1>2, <1>3 DEF ReaderInv

\* A restart: whoever read the old epoch is not at the stream of the new one.
LEMMA RestartKeeps ==
  ASSUME ClusterCollectorAssumption, ReaderInv, RestartCollector
  PROVE  ReaderInv'
<1>1. /\ Nothing_ \in Assets /\ Capacity \in Nat /\ Visible(Nothing_) = Nothing_
      /\ epoch \in Nat /\ reader \in Readers /\ reader.epoch <= epoch /\ cluster \in Assets
  BY VisibleTyped DEF ClusterCollectorAssumption, ReaderInv, CollectorTypeOK
<1>2. reader' \in Readers /\ reader'.epoch = reader.epoch
  <2>1. reader' = [reader EXCEPT !.lag = 0, !.base = Nothing_]  BY DEF RestartCollector
  <2>2. 0 \in 0..Capacity + 1  BY <1>1
  <2> QED BY <1>1, <2>1, <2>2 DEF Readers
<1>3. /\ watch' \in [Objects -> {"off", "listed", "streaming"}] /\ queue' \in [Objects -> Seq(States)]
      /\ items' = <<>> /\ raw' = Nothing_ /\ appended' = 0 /\ baseline' = Nothing_ /\ listed' = {}
      /\ epoch' = epoch + 1 /\ cluster' = cluster
  BY DEF RestartCollector
<1>4. CollectorTypeOK'
  <2>1. items' \in Seq(Items) /\ Len(items') = 0  BY <1>3
  <2>2. reader'.epoch <= epoch' /\ epoch' \in Nat  BY <1>1, <1>2, <1>3 DEF Readers
  <2>3. appended' \in 0..Capacity + 1 /\ Len(items') <= Capacity  BY <1>1, <1>3, <2>1
  <2> QED BY <1>1, <1>2, <1>3, <2>1, <2>2, <2>3 DEF CollectorTypeOK
<1>5. StreamLeads'
  <2> DEFINE line == [i \in 0..0 |-> [view |-> Nothing_, goal |-> Nothing_]]
  <2>1. line \in [0..0 -> Marks]  BY <1>1 DEF Marks
  <2>2. items' = <<>> /\ Len(items') = 0  BY <1>3
  <2>3. Along(line, items')  BY <2>2 DEF Along
  <2>4. ~ (reader'.epoch = epoch')  BY <1>1, <1>2, <1>3 DEF Readers
  <2>5. line[0] = [view |-> Visible(raw'), goal |-> Nothing_]  BY <1>1, <1>3
  <2> HIDE DEF line
  <2> QED BY <2>1, <2>2, <2>3, <2>4, <2>5 DEF StreamLeads, Behind
<1> QED BY <1>4, <1>5 DEF ReaderInv

\* collection_pull: the reader goes on along the marks, from the oldest when it has a gap.
LEMMA PullKeeps ==
  ASSUME ClusterCollectorAssumption, ReaderInv, NEW n \in Limits, Pull(n)
  PROVE  ReaderInv'
<1> DEFINE told == IF Gap THEN [reader EXCEPT !.base = Nothing_, !.missed = TRUE] ELSE reader
           got == ReadItems(n)
<1>1. /\ n \in Nat /\ Capacity \in Nat /\ items \in Seq(Items) /\ Len(items) <= Capacity
      /\ reader \in Readers /\ reader.epoch = epoch /\ Nothing_ \in Assets
  BY VisibleTyped DEF ClusterCollectorAssumption, ReaderInv, CollectorTypeOK, Pull, Behind
<1>2. reader' = [TakeAll(told, got) EXCEPT !.lag = Len(items) - From - Len(got)]  BY DEF Pull
<1>3. PICK len \in Nat : len = Len(items)  BY <1>1
<1>4. PICK line \in [0..Len(items) -> Marks] :
        /\ Along(line, items) /\ line[Len(items)] = [view |-> Visible(raw), goal |-> Nothing_]
        /\ Behind /\ ~Gap => Fits(reader, line[Len(items) - reader.lag])
  BY DEF ReaderInv, StreamLeads
<1>5. PICK k \in 0..len : k = From  BY <1>1, <1>3 DEF From, Readers
<1>6. PICK e \in k..len : e = (IF k + n < len THEN k + n ELSE len)  BY <1>1, <1>5
<1>7. got = SubSeq(items, k + 1, e)  BY <1>3, <1>5, <1>6 DEF ReadItems
<1> DEFINE marks == [i \in 0..e - k |-> line[k + i]]
<1>8. /\ got \in Seq(Items) /\ Len(got) = e - k
      /\ marks \in [0..e - k -> Marks] /\ Along(marks, got)
  <2> HIDE DEF got
  <2>1. k \in 0..Len(items) /\ e \in k..Len(items)  BY <1>3, <1>5, <1>6
  <2> QED BY <1>1, <1>4, <1>7, <2>1, Cut
<1>9. told \in Readers /\ told.epoch = epoch  BY <1>1 DEF Readers
<1>10. Fits(told, marks[0])
  <2>1. marks[0] = line[k]  BY <1>6
  <2>2. CASE Gap  BY <2>2 DEF Fits, Nothing_, Readers
  <2>3. CASE ~Gap
    <3>1. k = len - reader.lag  BY <1>3, <1>5, <2>3 DEF From, Gap
    <3>2. Fits(reader, line[k])  BY <1>1, <1>3, <1>4, <2>3, <3>1 DEF Behind
    <3> QED BY <2>1, <2>3, <3>2
  <2> QED BY <2>2, <2>3
<1>11. marks[e - k] = line[e]  BY <1>5, <1>6
<1> HIDE DEF told, got, marks
<1>12. /\ TakeAll(told, got) \in Readers /\ TakeAll(told, got).epoch = told.epoch
       /\ Fits(TakeAll(told, got), marks[e - k])
  <2>1. marks \in [0..Len(got) -> Marks]  BY <1>8
  <2>2. Fits(TakeAll(told, got), marks[Len(got)])  BY <1>8, <1>9, <1>10, <2>1, TakeAllFits
  <2> QED BY <1>8, <1>9, <1>10, <2>1, <2>2, TakeAllFits
<1>13. Len(items) - From - Len(got) = len - e /\ len - e \in 0..Capacity + 1 /\ len - (len - e) = e
  BY <1>1, <1>3, <1>5, <1>6, <1>8
<1>14. /\ reader' \in Readers /\ reader'.epoch = epoch /\ reader'.lag = len - e
       /\ reader'.view = TakeAll(told, got).view /\ reader'.base = TakeAll(told, got).base
       /\ reader'.missed = TakeAll(told, got).missed
  BY <1>2, <1>9, <1>12, <1>13 DEF Readers
<1>15. UNCHANGED <<clusterVars, watchVars, epoch, loopVars, raw, items, appended>>  BY DEF Pull
<1>16. CollectorTypeOK'
  BY <1>14, <1>15 DEF ReaderInv, CollectorTypeOK, clusterVars, watchVars, loopVars
<1>17. Fits(reader', line[Len(items) - reader'.lag])
  BY <1>3, <1>11, <1>12, <1>13, <1>14 DEF Fits
<1>18. StreamLeads'  BY <1>4, <1>15, <1>17 DEF StreamLeads
<1> QED BY <1>16, <1>18 DEF ReaderInv

\* The answer of another epoch: the reader knows that it missed something.
LEMMA NewEpochKeeps ==
  ASSUME ClusterCollectorAssumption, ReaderInv, PullNewEpoch
  PROVE  ReaderInv'
<1>1. /\ Capacity \in Nat /\ items \in Seq(Items) /\ Len(items) <= Capacity /\ Nothing_ \in Assets
      /\ reader \in Readers /\ epoch \in Nat /\ appended \in 0..Capacity + 1
  BY VisibleTyped DEF ClusterCollectorAssumption, ReaderInv, CollectorTypeOK
<1>2. /\ reader' \in Readers /\ reader'.epoch = epoch /\ reader'.base = Nothing_ /\ reader'.missed
  BY <1>1 DEF PullNewEpoch, Readers
<1>3. UNCHANGED <<clusterVars, watchVars, epoch, loopVars, raw, items, appended>>  BY DEF PullNewEpoch
<1>4. CollectorTypeOK'
  BY <1>1, <1>2, <1>3 DEF ReaderInv, CollectorTypeOK, clusterVars, watchVars, loopVars
<1>5. \A l : Fits(reader', l)  BY <1>2 DEF Fits, Nothing_
<1>6. StreamLeads'  BY <1>3, <1>5 DEF ReaderInv, StreamLeads
<1> QED BY <1>4, <1>6 DEF ReaderInv

\* Every step of the cluster, of the watches, of the loop and of AIOps keeps it.
LEMMA CollectorNextKeeps ==
  ASSUME ClusterCollectorAssumption, ReaderInv, [CollectorNext]_collectorVars
  PROVE  ReaderInv'
<1> USE DEF clusterVars, watchVars, loopVars
<1>1. /\ CollectorTypeOK /\ StreamLeads
      /\ cluster \in Assets /\ raw \in Assets /\ baseline \in Assets /\ Nothing_ \in Assets
      /\ watch \in [Objects -> {"off", "listed", "streaming"}] /\ queue \in [Objects -> Seq(States)]
  BY VisibleTyped DEF ReaderInv, CollectorTypeOK
<1>2. ASSUME NEW o \in Objects, NEW s \in States, ChangeCluster(o, s) PROVE ReaderInv'
  <2>1. cluster' \in Assets  BY <1>1, <1>2 DEF ChangeCluster, Assets
  <2>2. queue' \in [Objects -> Seq(States)]
    <3>1. Append(queue[o], s) \in Seq(States)  BY <1>1
    <3> QED BY <1>1, <1>2, <3>1 DEF ChangeCluster
  <2>3. UNCHANGED <<watch, epoch, loopVars, raw, items, appended, reader>>  BY <1>2 DEF ChangeCluster
  <2> QED BY <1>1, <2>1, <2>2, <2>3, LeadsStill DEF ReaderInv, CollectorTypeOK
<1>3. ASSUME NEW o \in Objects, WatchList(o) PROVE ReaderInv'
  <2>1. queue' \in [Objects -> Seq(States)]
    <3>1. <<cluster[o]>> \in Seq(States)  BY <1>1 DEF Assets
    <3> QED BY <1>1, <1>3, <3>1 DEF WatchList
  <2>2. watch' \in [Objects -> {"off", "listed", "streaming"}]  BY <1>1, <1>3 DEF WatchList
  <2>3. UNCHANGED <<clusterVars, epoch, loopVars, raw, items, appended, reader>>  BY <1>3 DEF WatchList
  <2> QED BY <1>1, <2>1, <2>2, <2>3, LeadsStill DEF ReaderInv, CollectorTypeOK
<1>4. ASSUME NEW o \in Objects, WatchChange(o) PROVE ReaderInv'
  <2>1. queue[o] \in Seq(States) /\ queue[o] # <<>>  BY <1>1, <1>4 DEF WatchChange
  <2>2. Head(queue[o]) \in States /\ Tail(queue[o]) \in Seq(States)  BY <2>1
  <2>3. queue' \in [Objects -> Seq(States)]  BY <1>1, <1>4, <2>2 DEF WatchChange
  <2>4. watch' \in [Objects -> {"off", "listed", "streaming"}]  BY <1>1, <1>4 DEF WatchChange
  <2>5. [raw EXCEPT ![o] = Head(queue[o])] \in Assets  BY <1>1, <2>2 DEF Assets
  <2>6. /\ ReplaceProjection([raw EXCEPT ![o] = Head(queue[o])], FALSE)
        /\ UNCHANGED <<clusterVars, epoch, loopVars>>
    BY <1>4 DEF WatchChange
  <2> QED BY <1>1, <2>3, <2>4, <2>5, <2>6, ReplaceKeeps DEF ReaderInv, CollectorTypeOK
<1>5. ASSUME NEW o \in Objects, WatchExpires(o) PROVE ReaderInv'
  <2>1. queue' \in [Objects -> Seq(States)]  BY <1>1, <1>5 DEF WatchExpires
  <2>2. watch' \in [Objects -> {"off", "listed", "streaming"}]  BY <1>1, <1>5 DEF WatchExpires
  <2>3. UNCHANGED <<cluster, epoch, loopVars, raw, items, appended, reader>>  BY <1>5 DEF WatchExpires
  <2> QED BY <1>1, <2>1, <2>2, <2>3, LeadsStill DEF ReaderInv, CollectorTypeOK
<1>6. ASSUME NEW o \in Objects, CollectList(o) PROVE ReaderInv'
  <2>1. baseline' \in Assets  BY <1>1, <1>6 DEF CollectList, Assets
  <2>2. listed' \subseteq Objects  BY <1>1, <1>6 DEF CollectList, CollectorTypeOK
  <2>3. UNCHANGED <<clusterVars, watchVars, epoch, first, raw, items, appended, reader>>
    BY <1>6 DEF CollectList
  <2> QED BY <1>1, <2>1, <2>2, <2>3, LeadsStill DEF ReaderInv, CollectorTypeOK
<1>7. CASE CollectFails
  <2>1. /\ listed' = {} /\ baseline' = Nothing_
        /\ UNCHANGED <<clusterVars, watchVars, epoch, raw, items, appended, reader>>
    BY <1>7 DEF CollectFails, RoundEnds
  <2> QED BY <1>1, <2>1, LeadsStill DEF ReaderInv, CollectorTypeOK
<1>8. CASE CollectApplies
  <2>1. /\ listed' = {} /\ baseline' = Nothing_ /\ ReplaceProjection(baseline, TRUE)
        /\ UNCHANGED <<clusterVars, watchVars, epoch>>
    BY <1>8 DEF CollectApplies, RoundEnds
  <2> QED BY <1>1, <2>1, ReplaceKeeps DEF ReaderInv, CollectorTypeOK
<1>9. CASE UNCHANGED collectorVars
  BY <1>1, <1>9, LeadsStill DEF ReaderInv, CollectorTypeOK, collectorVars
<1> QED BY <1>2, <1>3, <1>4, <1>5, <1>6, <1>7, <1>8, <1>9, RestartKeeps, PullKeeps, NewEpochKeeps
    DEF CollectorNext

\* A reader at the end of the stream stands on its last mark.
LEMMA EndIsProjection == ReaderInv => CollectorInv
<1> SUFFICES ASSUME ReaderInv, Behind, reader.lag = 0, ~reader.missed
             PROVE  reader.view = Visible(raw)
  BY DEF ReaderInv, CollectorInv, ViewIsProjection
<1>1. PICK n \in Nat : n = Len(items)  BY DEF ReaderInv, CollectorTypeOK
<1> QED BY <1>1 DEF ReaderInv, StreamLeads, Gap, Fits

\* A reader of CollectionStream that has read to its end and was told of no loss sees
\* exactly what _replace_projection last made of the cluster, however the watches, the
\* lists, the dropped items, the restarts and the pulls were ordered.
THEOREM ViewIsTheProjection == CollectorSpec => [](CollectorInv /\ ReaderInv)
<1>1. CollectorInit => ReaderInv  BY InitKeeps, ClusterCollectorAssumption
<1>2. ReaderInv /\ [CollectorNext]_collectorVars => ReaderInv'
  BY CollectorNextKeeps, ClusterCollectorAssumption
<1> QED BY <1>1, <1>2, EndIsProjection, PTL DEF CollectorSpec
-----------------------------------------------------------------------------
\* The rounds of _scaled_to_zero_excluded_uids exist, and each is the next after the last.
LEMMA RoundsExist ==
  ASSUME NEW assets, NEW n \in Nat
  PROVE  \E g \in [0..n -> SUBSET Objects] :
           g[0] = ScaledToZero(assets) /\ \A i \in 1..n : g[i] = WithOwned(assets, g[i - 1])
<1> DEFINE Upto(m) == \E g \in [0..m -> SUBSET Objects] :
             g[0] = ScaledToZero(assets) /\ \A i \in 1..m : g[i] = WithOwned(assets, g[i - 1])
           T == {m \in Nat : Upto(m)}
<1>1. 0 \in T
  <2> DEFINE g == [i \in 0..0 |-> ScaledToZero(assets)]
  <2>1. g \in [0..0 -> SUBSET Objects] /\ g[0] = ScaledToZero(assets)  BY DEF ScaledToZero
  <2>2. \A i \in 1..0 : g[i] = WithOwned(assets, g[i - 1])  OBVIOUS
  <2>3. Upto(0)  BY <2>1, <2>2
  <2> QED BY <2>3
<1>2. \A m \in Nat : m \in T => m + 1 \in T
  <2> SUFFICES ASSUME NEW m \in Nat, Upto(m) PROVE Upto(m + 1)
    <3> HIDE DEF Upto
    <3> QED OBVIOUS
  <2>1. PICK g \in [0..m -> SUBSET Objects] :
          g[0] = ScaledToZero(assets) /\ \A i \in 1..m : g[i] = WithOwned(assets, g[i - 1])
    OBVIOUS
  <2> DEFINE h == [i \in 0..m + 1 |-> IF i = m + 1 THEN WithOwned(assets, g[m]) ELSE g[i]]
  <2>2. WithOwned(assets, g[m]) \in SUBSET Objects  BY DEF WithOwned
  <2>3. h \in [0..m + 1 -> SUBSET Objects]  BY <2>2
  <2>4. h[0] = ScaledToZero(assets)  BY <2>1
  <2>5. \A i \in 1..m + 1 : h[i] = WithOwned(assets, h[i - 1])  BY <2>1
  <2> QED BY <2>3, <2>4, <2>5
<1>3. Nat \subseteq T
  <2> HIDE DEF T
  <2> QED BY <1>1, <1>2, NatSet
<1> QED BY <1>3

\* Excluded is the last of them.
LEMMA ExcludedIsLast ==
  ASSUME ClusterCollectorAssumption, NEW assets
  PROVE  \E n \in Nat : \E g \in [0..n -> SUBSET Objects] :
           /\ n = Cardinality(Objects) /\ Excluded(assets) = g[n]
           /\ g[0] = ScaledToZero(assets) /\ \A i \in 1..n : g[i] = WithOwned(assets, g[i - 1])
<1>1. PICK n \in Nat : n = Cardinality(Objects)
  BY FS_CardinalityType DEF ClusterCollectorAssumption
<1> DEFINE D(h) == [i \in 0..Cardinality(Objects) |->
                     IF i = 0 THEN ScaledToZero(assets) ELSE WithOwned(assets, h[i - 1])]
           g == CHOOSE h : h = D(h)
<1>2. PICK f \in [0..n -> SUBSET Objects] :
        f[0] = ScaledToZero(assets) /\ \A i \in 1..n : f[i] = WithOwned(assets, f[i - 1])
  BY RoundsExist
<1>3. f = D(f)  BY <1>1, <1>2
<1>4. g = D(g)  BY <1>3
<1>5. Excluded(assets) = g[n]  BY <1>1 DEF Excluded
<1> HIDE DEF g
<1>6. g[0] = ScaledToZero(assets) /\ \A i \in 1..n : g[i] = WithOwned(assets, g[i - 1])
  BY <1>1, <1>4
<1>7. \A i \in 0..n : g[i] \in SUBSET Objects
  <2> DEFINE T == {m \in Nat : m <= n => g[m] \in SUBSET Objects}
  <2>1. 0 \in T  BY <1>6 DEF ScaledToZero
  <2>2. \A m \in Nat : m \in T => m + 1 \in T
    <3> SUFFICES ASSUME NEW m \in Nat, m + 1 <= n, g[m] \in SUBSET Objects
                 PROVE  g[m + 1] \in SUBSET Objects
      OBVIOUS
    <3>1. g[m + 1] = WithOwned(assets, g[m])  BY <1>6
    <3> QED BY <3>1 DEF WithOwned
  <2>3. Nat \subseteq T
    <3> HIDE DEF T
    <3> QED BY <2>1, <2>2, NatSet
  <2> QED BY <2>3
<1>8. g \in [0..n -> SUBSET Objects]  BY <1>1, <1>4, <1>7
<1> QED BY <1>1, <1>5, <1>6, <1>8

\* The loop of _scaled_to_zero_excluded_uids: after as many rounds as there are objects
\* nothing changes any more, and what it has then is the least set that holds the
\* stopped workloads and all that is owned by one of its members.
THEOREM ExcludedIsLeast ==
  ASSUME ClusterCollectorAssumption, NEW assets
  PROVE  /\ ScaledToZero(assets) \subseteq Excluded(assets)
         /\ WithOwned(assets, Excluded(assets)) = Excluded(assets)
         /\ \A S : ScaledToZero(assets) \subseteq S /\ WithOwned(assets, S) = S => Excluded(assets) \subseteq S
<1>9. PICK n \in Nat : \E g \in [0..n -> SUBSET Objects] :
        /\ n = Cardinality(Objects) /\ Excluded(assets) = g[n]
        /\ g[0] = ScaledToZero(assets) /\ \A i \in 1..n : g[i] = WithOwned(assets, g[i - 1])
  BY ExcludedIsLast
<1>1. PICK g \in [0..n -> SUBSET Objects] :
        /\ n = Cardinality(Objects) /\ Excluded(assets) = g[n]
        /\ g[0] = ScaledToZero(assets) /\ \A i \in 1..n : g[i] = WithOwned(assets, g[i - 1])
  BY <1>9
<1>2. \A i \in 0..n : IsFiniteSet(g[i]) /\ Cardinality(g[i]) \in Nat
  BY FS_Subset, FS_CardinalityType DEF ClusterCollectorAssumption
<1>3. ScaledToZero(assets) \subseteq g[n]
  <2> DEFINE T == {m \in Nat : m <= n => ScaledToZero(assets) \subseteq g[m]}
  <2>1. 0 \in T  BY <1>1
  <2>2. \A m \in Nat : m \in T => m + 1 \in T
    <3> SUFFICES ASSUME NEW m \in Nat, m + 1 <= n, ScaledToZero(assets) \subseteq g[m]
                 PROVE  ScaledToZero(assets) \subseteq g[m + 1]
      OBVIOUS
    <3>1. g[m + 1] = WithOwned(assets, g[m])  BY <1>1
    <3> QED BY <3>1 DEF WithOwned
  <2>3. Nat \subseteq T
    <3> HIDE DEF T
    <3> QED BY <2>1, <2>2, NatSet
  <2> QED BY <2>3
<1>4. WithOwned(assets, g[n]) = g[n]
  <2> DEFINE T == {m \in Nat : m <= n => WithOwned(assets, g[m]) = g[m] \/ Cardinality(g[m]) >= m}
  <2>1. 0 \in T  BY <1>2
  <2>2. \A m \in Nat : m \in T => m + 1 \in T
    <3> SUFFICES ASSUME NEW m \in Nat, m + 1 <= n,
                        WithOwned(assets, g[m]) = g[m] \/ Cardinality(g[m]) >= m
                 PROVE  WithOwned(assets, g[m + 1]) = g[m + 1] \/ Cardinality(g[m + 1]) >= m + 1
      OBVIOUS
    <3>1. g[m + 1] = WithOwned(assets, g[m])  BY <1>1
    <3>2. CASE WithOwned(assets, g[m]) = g[m]  BY <3>1, <3>2
    <3>3. CASE WithOwned(assets, g[m]) # g[m] /\ Cardinality(g[m]) >= m
      <4>1. g[m] \subseteq g[m + 1] /\ g[m] # g[m + 1]  BY <3>1, <3>3 DEF WithOwned
      <4>2. Cardinality(g[m]) < Cardinality(g[m + 1])  BY <1>2, <4>1, FS_Subset
      <4> QED BY <1>2, <3>3, <4>2
    <3> QED BY <3>2, <3>3
  <2>3. Nat \subseteq T
    <3> HIDE DEF T
    <3> QED BY <2>1, <2>2, NatSet
  <2>4. CASE Cardinality(g[n]) >= n
    <3>1. g[n] \subseteq Objects /\ IsFiniteSet(Objects)  BY DEF ClusterCollectorAssumption
    <3>2. g[n] = Objects  BY <1>1, <1>2, <2>4, <3>1, FS_Subset
    <3> QED BY <3>2 DEF WithOwned
  <2> QED BY <2>3, <2>4
<1>5. ASSUME NEW S, ScaledToZero(assets) \subseteq S, WithOwned(assets, S) = S PROVE g[n] \subseteq S
  <2> DEFINE T == {m \in Nat : m <= n => g[m] \subseteq S}
  <2>1. 0 \in T  BY <1>1, <1>5
  <2>2. \A m \in Nat : m \in T => m + 1 \in T
    <3> SUFFICES ASSUME NEW m \in Nat, m + 1 <= n, g[m] \subseteq S PROVE g[m + 1] \subseteq S
      OBVIOUS
    <3>1. g[m + 1] = WithOwned(assets, g[m])  BY <1>1
    <3>2. WithOwned(assets, g[m]) \subseteq WithOwned(assets, S)  BY DEF WithOwned
    <3> QED BY <1>5, <3>1, <3>2
  <2>3. Nat \subseteq T
    <3> HIDE DEF T
    <3> QED BY <2>1, <2>2, NatSet
  <2> QED BY <2>3
<1> QED BY <1>1, <1>3, <1>4, <1>5
=============================================================================

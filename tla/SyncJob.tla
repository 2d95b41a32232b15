------------------------------ MODULE SyncJob ------------------------------
(***************************************************************************)
(* A sync job of kubernetes.py: one thread lists the cluster, any number   *)
(* of requests may cancel, and everyone who changes the record writes it   *)
(* to the job's file by way of the same temporary file, with no lock.      *)
(***************************************************************************)
EXTENDS Naturals, FiniteSets

CONSTANTS
  Cancellers,      \* the requests that may cancel
  MaxSyncRestarts  \* bound: restarts of the runner

Runner == "runner"
ASSUME SyncJobAssumption == MaxSyncRestarts \in Nat /\ Runner \notin Cancellers
Writers == Cancellers \cup {Runner}

VARIABLES
  job,      \* the record in memory, Unknown when there is none
  file,     \* what the job's file holds
  temp,     \* what the temporary file holds
  doing,    \* where each writer is
  handle,   \* the file each writer writes to: its temporary file may have been
            \* renamed to the job's file by another
  text,     \* what each writer is about to write, as it read the record
  overlapped,  \* history: two writers were between a look and a rename at once
  restartsOfSync

syncVars == <<job, file, temp, doing, handle, text, overlapped, restartsOfSync>>

Unknown == [status |-> "UNKNOWN", listed |-> FALSE]
NoFile == [status |-> "NONE", listed |-> FALSE]
Empty == [status |-> "EMPTY", listed |-> FALSE]
Mixed == [status |-> "MIXED", listed |-> FALSE]
Active == {"PENDING", "RUNNING"}
Terminal == {"SUCCEEDED", "FAILED", "CANCELLED"}
Record(f) == f.status \in Active \cup Terminal

SyncInit ==
  /\ job = Unknown /\ file = NoFile /\ temp = NoFile
  /\ doing = [w \in Writers |-> "idle"] /\ handle = [w \in Writers |-> "none"]
  /\ text = [w \in Writers |-> Unknown]
  /\ overlapped = FALSE /\ restartsOfSync = 0

Working == doing[Runner] # "idle"
Busy(where) == where \notin {"idle", "begin", "list"}
Goto(w, where) ==
  /\ doing' = [doing EXCEPT ![w] = where]
  /\ overlapped' = (overlapped \/ (Busy(where) /\ \E x \in Writers \ {w} : Busy(doing[x])))

\* start_sync: under the lock, and once for each idempotency key.
StartSync ==
  /\ job = Unknown
  /\ job' = [status |-> "PENDING", listed |-> FALSE]
  /\ file' = job'
  /\ Goto(Runner, "begin")
  /\ UNCHANGED <<temp, handle, text, restartsOfSync>>

\* _run_sync up to its first write, and from its list to its second.
RunBegins ==
  /\ doing[Runner] = "begin"
  /\ job' = [job EXCEPT !.status = "RUNNING"]
  /\ Goto(Runner, "open")
  /\ UNCHANGED <<file, temp, handle, text, restartsOfSync>>

RunLists ==
  /\ doing[Runner] = "list"
  /\ \/ job' = [status |-> "SUCCEEDED", listed |-> TRUE]
     \/ job' = [job EXCEPT !.status = "FAILED"]
  /\ Goto(Runner, "openlast")
  /\ UNCHANGED <<file, temp, handle, text, restartsOfSync>>

\* cancel_sync: the status is read and then written.
CancelLooks(c) ==
  /\ doing[c] = "idle" /\ job.status \in Active
  /\ Goto(c, "cancel")
  /\ UNCHANGED <<job, file, temp, handle, text, restartsOfSync>>

CancelWrites(c) ==
  /\ doing[c] = "cancel"
  /\ job' = [job EXCEPT !.status = "CANCELLED"]
  /\ Goto(c, "openlast")
  /\ UNCHANGED <<file, temp, handle, text, restartsOfSync>>

\* _persist_job: open, which empties the temporary file, dump, which reads the record
\* and writes what it read, and rename.
Opens(w) == doing[w] \in {"open", "openlast"}
PersistOpens(w) ==
  /\ Opens(w)
  /\ temp' = Empty
  /\ handle' = [handle EXCEPT ![w] = "temp"]
  /\ Goto(w, IF doing[w] = "open" THEN "write" ELSE "writelast")
  /\ UNCHANGED <<job, file, text, restartsOfSync>>

PersistReads(w) ==
  /\ doing[w] \in {"write", "writelast"}
  /\ text' = [text EXCEPT ![w] = job]
  /\ Goto(w, IF doing[w] = "write" THEN "flush" ELSE "flushlast")
  /\ UNCHANGED <<job, file, temp, handle, restartsOfSync>>

\* Two who write the same file from its start may leave a mixture.
Over(old, new) == IF old \in {Empty, new} THEN {new} ELSE {new, Mixed}
PersistWrites(w) ==
  /\ doing[w] \in {"flush", "flushlast"}
  /\ \/ handle[w] = "temp" /\ temp' \in Over(temp, text[w]) /\ UNCHANGED file
     \/ handle[w] = "file" /\ file' \in Over(file, text[w]) /\ UNCHANGED temp
     \/ handle[w] = "gone" /\ UNCHANGED <<file, temp>>
  /\ text' = [text EXCEPT ![w] = Unknown]
  /\ Goto(w, IF doing[w] = "flush" THEN "rename" ELSE "renamelast")
  /\ UNCHANGED <<job, handle, restartsOfSync>>

\* The others who had the temporary file open now write to the job's file; if it
\* has been renamed already, the rename raises, which ends a request or the thread.
Renamed(h) == CASE h = "temp" -> "file" [] h = "file" -> "gone" [] OTHER -> h
PersistRenames(w) ==
  /\ doing[w] \in {"rename", "renamelast"}
  /\ IF temp = NoFile
     THEN Goto(w, "idle") /\ UNCHANGED <<file, temp>> /\ handle' = [handle EXCEPT ![w] = "none"]
     ELSE /\ file' = temp /\ temp' = NoFile
          /\ handle' = [x \in Writers |-> IF x = w THEN "none" ELSE Renamed(handle[x])]
          /\ Goto(w, IF doing[w] = "rename" THEN "list" ELSE "idle")
  /\ UNCHANGED <<job, text, restartsOfSync>>

RecoveredAsItWas(f) == IF Record(f) THEN f ELSE Unknown  \* mutant: nothing is settled

\* A restart; _recover_jobs: a job that had not ended has failed, and a file that
\* cannot be read is a job nobody knows.
Recovered(f) ==
  CASE ~Record(f) -> Unknown
    [] f.status \in Active -> [f EXCEPT !.status = "FAILED"]
    [] OTHER -> f

RestartSync ==
  /\ restartsOfSync < MaxSyncRestarts
  /\ restartsOfSync' = restartsOfSync + 1
  /\ job' = Recovered(file)
  /\ file' = IF Record(file) THEN Recovered(file) ELSE file
  /\ temp' = IF file.status \in Active THEN NoFile ELSE temp
  /\ doing' = [w \in Writers |-> "idle"] /\ handle' = [w \in Writers |-> "none"]
  /\ text' = [w \in Writers |-> Unknown]
  /\ overlapped' = FALSE

Persists(w) == PersistOpens(w) \/ PersistReads(w) \/ PersistWrites(w) \/ PersistRenames(w)
SyncNext ==
  \/ StartSync \/ RunBegins \/ RunLists \/ RestartSync
  \/ \E c \in Cancellers : CancelLooks(c) \/ CancelWrites(c)
  \/ \E w \in Writers : Persists(w)

SyncSpec == SyncInit /\ [][SyncNext]_syncVars
-----------------------------------------------------------------------------
Where ==
  {"idle", "begin", "list", "cancel", "open", "write", "flush", "rename", "openlast",
   "writelast", "flushlast", "renamelast"}
Jobs == {Unknown} \cup [status : Active \cup Terminal, listed : BOOLEAN]
SyncTypeOK ==
  /\ job \in Jobs /\ text \in [Writers -> Jobs]
  /\ {file, temp} \subseteq
       [status : Active \cup Terminal \cup {"NONE", "MIXED", "EMPTY"}, listed : BOOLEAN]
  /\ doing \in [Writers -> Where]
  /\ handle \in [Writers -> {"none", "temp", "file", "gone"}]
  /\ overlapped \in BOOLEAN /\ restartsOfSync \in Nat

\* What sync_assets serves is the whole list: a job that says SUCCEEDED has it,
\* in memory, in the file a restart will read and in what will become that file.
ServedIsListed ==
  \A r \in {job, file, temp} \cup {text[w] : w \in Writers} : r.status = "SUCCEEDED" => r.listed

\* A job that says it is going on has a thread that will end it, across restarts;
\* only a cancellation that met a write of the thread may leave one that never ends.
ActiveHasThread == job.status \in Active => Working \/ overlapped

\* The file of a job is a record that a restart can read, even in the middle of a
\* write.  Not so once two writers have met: one of them may empty, or mix its bytes
\* into, what the other has renamed (EMPTY and MIXED), and a restart forgets the job.
FileIsWhole == ~overlapped /\ job # Unknown => Record(file)

\* When nobody is writing, the file says what the memory says, so that a restart
\* does not take back an answer that was given; again unless two writers met.
FileAgrees ==
  (\A w \in Writers : doing[w] = "idle") /\ job # Unknown => file = job \/ overlapped

\* What these rest on: nobody works for, or writes, a job nobody knows, the thread
\* does not finish before the job has, and a writer who has met no other has the
\* temporary file to itself, so that what it renames is the record.
ThreadKnows ==
  /\ job = Unknown => \A w \in Writers : doing[w] = "idle"
  /\ \A w \in Writers : doing[w] \in {"flush", "flushlast"} => text[w] # Unknown
  /\ doing[Runner] \in {"openlast", "writelast", "flushlast", "renamelast"} =>
       job.status \in Terminal
WriterIsAlone ==
  ~overlapped =>
    /\ \A w, x \in Writers : Busy(doing[w]) /\ Busy(doing[x]) => w = x
    /\ \A w \in Writers :
         /\ doing[w] \in {"write", "writelast", "flush", "flushlast"} =>
              handle[w] = "temp" /\ temp = Empty
         /\ doing[w] \in {"flush", "flushlast"} => text[w] = job
         /\ doing[w] \in {"rename", "renamelast"} => temp = job
    /\ job # Unknown /\ (\A w \in Writers : ~Busy(doing[w])) => file = job

SyncInv ==
  /\ SyncTypeOK /\ ServedIsListed /\ ActiveHasThread /\ FileIsWhole /\ FileAgrees
  /\ ThreadKnows /\ WriterIsAlone
=============================================================================

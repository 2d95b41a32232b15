----------------------------- MODULE LogReplica -----------------------------
(***************************************************************************)
(* What AIOps is promised of a session's events, however calls are lost,   *)
(* repeated, delayed or cut short by a crash: its copy is always a prefix  *)
(* of the runner's log, and neither of them ever takes an event back.      *)
(***************************************************************************)
EXTENDS Sequences, SequencesExt

VARIABLES log, copy

Init == log = <<>> /\ copy = <<>>

Write ==
  /\ log # log'
  /\ IsPrefix(log, log')
  /\ UNCHANGED copy

Copy ==
  /\ IsPrefix(copy, copy') /\ IsPrefix(copy', log)
  /\ UNCHANGED log

Next == Write \/ Copy
Spec == Init /\ [][Next]_<<log, copy>>
=============================================================================

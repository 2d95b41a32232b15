-------------------------- MODULE MCTrustedSession --------------------------
(***************************************************************************)
(* TrustedSession for TLC.  The control intents are those AIOps sends:     *)
(* a stop asks for CANCELLED, a close for any of its terminal statuses.    *)
(***************************************************************************)
EXTENDS TrustedSession, TLC

CONSTANTS s1, s2, h1, h2, stop, again, close

Stop(s) ==
  [session |-> s, action |-> "STOP_ACTIVE_SESSION", desired_terminal |-> "CANCELLED"]
Close(s, goal) ==
  [session |-> s, action |-> "CLOSE_WAITING_SESSION", desired_terminal |-> goal]

StopIntent == [c \in {stop} |-> Stop(s1)]
TwoStops == [c \in {stop, again} |-> Stop(s1)]
StopAndClose == stop :> Stop(s1) @@ close :> Close(s1, "EXPIRED")
NoIntent == [c \in {} |-> Stop(s1)]

\* The sessions are interchangeable when no intent names one.
SessionSymmetry == Permutations(Sessions)
=============================================================================

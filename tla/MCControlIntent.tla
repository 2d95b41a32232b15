-------------------------- MODULE MCControlIntent --------------------------
(***************************************************************************)
(* ControlIntent for TLC: one session, a stop and the rejection of its     *)
(* proposal, carried by two HTTP threads.                                  *)
(***************************************************************************)
EXTENDS ControlIntent, TLC

CONSTANTS s1, h1, h2, stop, close

StopAndClose ==
  stop :> [session |-> s1, action |-> "STOP_ACTIVE_SESSION",
           desired_terminal |-> "CANCELLED"] @@
  close :> [session |-> s1, action |-> "CLOSE_WAITING_SESSION",
            desired_terminal |-> "REJECTED"]
FitsApproval == [c \in {stop, close} |-> IF c = close THEN {"PENDING_APPROVAL"} ELSE {}]

HandlerSymmetry == Permutations(Handlers)
=============================================================================

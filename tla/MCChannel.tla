----------------------------- MODULE MCChannel -----------------------------
(***************************************************************************)
(* The two ways AIOps hears from the runner, for TLC.  Sessions and        *)
(* batches are posted by different threads from different files: a run     *)
(* explores one of the two, chosen in its first state, and the other rests *)
(* in its initial state, where nothing it is fair to is enabled.           *)
(***************************************************************************)
EXTENDS EventDelivery, InspectionDelivery

VARIABLE channel

ChannelInit ==
  DeliveryInit /\ InspectionDeliveryInit /\ channel \in {"session", "batch"}
ChannelNext ==
  /\ \/ channel = "session" /\ DeliveryNext /\ UNCHANGED inspectionDeliveryVars
     \/ channel = "batch" /\ InspectionDeliveryNext /\ UNCHANGED deliveryVars
  /\ UNCHANGED channel
ChannelSpec ==
  /\ ChannelInit /\ [][ChannelNext]_<<channel, deliveryVars, inspectionDeliveryVars>>
  /\ DeliveryFairness
=============================================================================

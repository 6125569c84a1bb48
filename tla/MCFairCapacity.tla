--------------------------- MODULE MCFairCapacity ---------------------------
(* Three campaigns with one, one and two workers. *)
EXTENDS FairCapacity, TLC

CONSTANTS t1, t2, t3, t4

MCTasks == {t1, t2, t3, t4}
MCCampaigns == 1..3
MCCampaignOf == t1 :> 1 @@ t2 :> 2 @@ t3 :> 3 @@ t4 :> 3
=============================================================================

----------------------------- MODULE MCCampaign -----------------------------
(* Instances of Campaign for TLC.                                           *)
EXTENDS Campaign, TLC

MCTexts == [c \in Customers |-> IF c = 3 THEN "other" ELSE "same"]
AnyWorker == Permutations(Workers)
=============================================================================

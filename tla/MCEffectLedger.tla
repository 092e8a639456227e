--------------------------- MODULE MCEffectLedger ---------------------------
(* EffectLedger on small instances: an effect is named after its capability, *)
(* and the two pulls share a branch.                                         *)
EXTENDS EffectLedger

CONSTANTS k1, k2, k3

OneOfEach == {"reply", "pull", "issue"}
TwoPulls == {"pull", "pull2"}
Pull == {"pull"}
Update == {"update"}

TwoCallers == {k1, k2}
ThreeCallers == {k1, k2, k3}

KindOf == [e \in Effects |-> IF e = "pull2" THEN "pull" ELSE e]
ByEffect == [e \in Effects |-> {e}]
ByBranch == [e \in Effects |-> {d \in Effects : KindOf[d] = KindOf[e]}]
=============================================================================

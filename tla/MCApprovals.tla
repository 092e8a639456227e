----------------------------- MODULE MCApprovals -----------------------------
(* Approvals on small instances.                                            *)
EXTENDS Approvals, TLC

CONSTANTS c1, c2, k1, w1, w2, p1, p2

TwoCards == {c1, c2}
OneCard == {c1}
OneWake == {k1}
TwoWorkers == {w1, w2}
OneWorker == {w1}
TwoCalls == {p1, p2}
OneCall == {p1}

Symmetric ==
  Permutations(Cards) \cup Permutations(Workers) \cup Permutations(Calls)
=============================================================================

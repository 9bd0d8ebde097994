----------------------------- MODULE MCUsageIngest -----------------------------
(* Small instances of UsageIngest: the app's shops take turns at emitting events. *)
EXTENDS UsageIngest, TLC

CONSTANTS s1, s2, d1, d2

MCShopOf == [e \in Events |-> IF e % 2 = 1 THEN s1 ELSE s2]
MCSymmetry == Permutations(Drains)
=============================================================================

----------------------------- MODULE MCBreakGlass -----------------------------
(* Small instances of BreakGlass: a reveal grant for one shop, which is sensitive  *)
(* or not as the cfg says, and an administrator's impersonation grant.             *)
EXTENDS BreakGlass, TLC

CONSTANTS g1, g2, ada, sam, s1, s2

MCWanted ==
  (g1 :> [user |-> sam, scope |-> "PII_REVEAL", shop |-> s1]) @@
  (g2 :> [user |-> ada, scope |-> "IMPERSONATION", shop |-> AnyShop])
=============================================================================

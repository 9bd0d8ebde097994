----------------------------- MODULE MCCompliance -----------------------------
(* A small instance of Compliance: two runs of a shop/redact, one of another request   *)
(* that is due later.                                                                 *)
EXTENDS Compliance

MCEventOf == [r \in Runs |-> IF r = "r3" THEN "customer" ELSE "shop"]
MCDueAt == [e \in Events |-> IF e = "shop" THEN 1 ELSE 2]
=============================================================================

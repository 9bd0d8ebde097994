-------------------------- MODULE MCWebhookPipeline --------------------------
(* Small instances of WebhookPipeline: two webhook ids of one body, so that the  *)
(* content-hash lookup and the unique id both come into play.                    *)
EXTENDS WebhookPipeline, TLC

CONSTANTS w1, w2, r1, r2, r3, k1, k2, p1, p2

MCWebhookIds == {w1, w2}
MCBodies == {"redact shop"}
MCBodyOf == [w \in MCWebhookIds |-> "redact shop"]
MCOneBodyOf == [w \in {w1} |-> "redact shop"]
MCActorSymmetry == Permutations(Requests) \cup Permutations(Workers) \cup Permutations(Replays)

\* Every crash and lost lock hits a run of one job, so that two of them are enough to
\* stall it more often than the queue forgives.
FaultsAtOneJob == \A k \in Workers : run[k].wid # w1 => faults' = faults
FairSpecOneFaulty == Init /\ [][Next /\ FaultsAtOneJob]_vars /\ Fairness
=============================================================================

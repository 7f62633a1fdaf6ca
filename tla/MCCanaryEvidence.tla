-------------------------- MODULE MCCanaryEvidence --------------------------
(***************************************************************************)
(* TLC instances of CanaryEvidence.  Handler threads are interchangeable.  *)
(***************************************************************************)
EXTENDS CanaryEvidence, TLC

ThreadSymmetry == Permutations(Threads)

Request(t, o, q) == [tier |-> t, outcome |-> o, quick |-> q]

\* Good, slow, refused and timed-out canary requests; production works.
MixedTraffic ==
    {Request("canary", "scored", TRUE), Request("canary", "scored", FALSE),
     Request("canary", "refused", TRUE), Request("canary", "unreachable", FALSE),
     Request("production", "scored", TRUE)}

\* A little production traffic beside the canary's.
Served == [t \in Tiers |-> IF t = "canary" THEN 3 ELSE 1]
=============================================================================

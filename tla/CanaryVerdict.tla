--------------------------- MODULE CanaryVerdict ----------------------------
(***************************************************************************)
(* evaluate_canary of monitoring/canary.py: the verdict on one observation *)
(* window, from the signals of the two tiers.  A pure function.            *)
(*                                                                         *)
(* Limits are percentages and rates are fractions compared by              *)
(* cross-multiplication, so nothing is rounded: MaxErrorPercent is 2 for   *)
(* the default 0.02, MaxLatencyRatio is 150 for 1.5.  A latency is the     *)
(* index of a histogram bucket edge, 0 when the window is empty.           *)
(***************************************************************************)
EXTENDS Naturals

CONSTANTS
    MinRequests,         \* fewer than this is noise
    MaxErrorPercent,     \* absolute ceilings
    MaxFailurePercent,
    MaxLatency,
    MaxErrorRatio,       \* relative to the incumbent, 100 is parity
    MaxLatencyRatio

ASSUME ThresholdAssumption ==
    /\ {MinRequests, MaxErrorPercent, MaxFailurePercent, MaxLatency} \subseteq Nat
    /\ {MaxErrorRatio, MaxLatencyRatio} \subseteq Nat

\* A share of requests; an empty window has rate zero.
Rate(count, requests) ==
    IF requests = 0 THEN [part |-> 0, whole |-> 1]
                    ELSE [part |-> count, whole |-> requests]

Latency(edge) == [part |-> edge, whole |-> 1]

Within(rate, percent) == 100 * rate.part <= percent * rate.whole

\* _ratio(candidate, incumbent) <= percent / 100, where a zero incumbent makes
\* the ratio 1 for a zero candidate and infinite for any other.
RatioWithin(candidate, incumbent, percent) ==
    IF incumbent.part = 0
    THEN candidate.part = 0 /\ 100 <= percent
    ELSE 100 * candidate.part * incumbent.whole
            <= percent * incumbent.part * candidate.whole

ErrorRate(signals) == Rate(signals.errors, signals.requests)
FailureRate(signals) == Rate(signals.failures, signals.requests)

AbsolutelyFit(canary) ==
    /\ Within(ErrorRate(canary), MaxErrorPercent)
    /\ Within(FailureRate(canary), MaxFailurePercent)
    /\ canary.latency <= MaxLatency

NoWorseThan(canary, production) ==
    /\ RatioWithin(ErrorRate(canary), ErrorRate(production), MaxErrorRatio)
    /\ RatioWithin(Latency(canary.latency), Latency(production.latency),
                   MaxLatencyRatio)

\* evaluate_canary holding back for want of traffic on either tier.
EvaluateOnAllTraffic(canary, production) ==
    IF ~canary.healthy \/ ~AbsolutelyFit(canary) \/ ~NoWorseThan(canary, production)
    THEN "rollback"
    ELSE IF canary.requests + production.requests < MinRequests THEN "hold" ELSE "promote"

\* Health is decided first and alone; too little traffic only matters when
\* no blocking check has failed.
EvaluateCanary(canary, production) ==
    IF ~canary.healthy \/ ~AbsolutelyFit(canary) \/ ~NoWorseThan(canary, production)
    THEN "rollback"
    ELSE IF canary.requests < MinRequests THEN "hold" ELSE "promote"
=============================================================================

--------------------------- MODULE CanaryEvidence ---------------------------
(***************************************************************************)
(* How the evidence behind a verdict is gathered inside one API process.   *)
(* The handler threads of api/routes.py count each request through         *)
(* observability/metrics.py, while InProcessSignals (monitoring/signals.py)*)
(* reads the same counters one at a time: first to mark the start of the   *)
(* window, later to evaluate it.  Neither the reads nor the increments for *)
(* one request are atomic.                                                 *)
(*                                                                         *)
(* The baseline is taken "when the canary started", as InProcessSignals    *)
(* says: canary requests arrive only after it, production ones all along.  *)
(***************************************************************************)
EXTENDS CanaryVerdict, Sequences, FiniteSets

CONSTANTS
    Threads,        \* handler threads of the API process
    Traffic,        \* the kinds of request that may arrive
    MaxServed       \* bound: requests handled, per tier

Tiers == {"canary", "production"}
Outcomes == {"scored", "refused", "unreachable"}   \* 200, 422, 503

ASSUME TrafficAssumption ==
    /\ IsFiniteSet(Threads) /\ MaxServed \in [Tiers -> Nat]
    /\ Traffic \subseteq [tier : Tiers, outcome : Outcomes, quick : BOOLEAN]

VARIABLES
    counters,       \* the metrics of each tier, cumulative since boot
    thread,         \* the tier and the increments each thread has still to make
    baseline,       \* the counters as mark_window_start has read them
    sample,         \* the counters as signals_for has read them
    reader,         \* what is being read, and how far it has got
    gauge,          \* the canary health gauge, set once at startup
    verdict,        \* what the last evaluation decided
    served,         \* requests handled so far, per tier
    hidden,         \* history: failed canary requests whose error is not counted
    seen            \* history: what a reading of the canary could have known

vars == <<counters, thread, baseline, sample, reader, gauge, verdict, served, hidden, seen>>

\* Two cumulative histogram buckets: up to the first edge, and all of them.
Fields == {"requests", "errors", "failures", "fast", "timed"}
Zero == [f \in Fields |-> 0]

\* observe_canary_request counting the error before the request.
IncrementsErrorFirst(request) ==
    (IF request.outcome = "scored" THEN <<>> ELSE <<{"errors"}>>)
        \o <<{"requests"}>>
        \o <<IF request.quick THEN {"fast", "timed"} ELSE {"timed"}>>
        \o (IF request.outcome = "unreachable" THEN <<{"failures"}>> ELSE <<>>)

\* The increments of observe_canary_request, in order.  One histogram
\* observation moves both cumulative buckets at once.
Increments(request) ==
    <<{"requests"}>>
        \o <<IF request.quick THEN {"fast", "timed"} ELSE {"timed"}>>
        \o (IF request.outcome = "scored" THEN <<>> ELSE <<{"errors"}>>)
        \o (IF request.outcome = "unreachable" THEN <<{"failures"}>> ELSE <<>>)

\* Reading the errors, or the histogram total, before what they are compared to.
ErrorsReadFirst == <<"errors", "requests", "failures", "fast", "timed">>
TotalReadFirst == <<"requests", "errors", "failures", "timed", "fast">>

\* _raw, then _quantile from the smallest bucket up.
ReadOrder == <<"requests", "errors", "failures", "fast", "timed">>

\* Both mark_window_start and evaluate read the canary before production.
Readings ==
    [i \in 1..(2 * Len(ReadOrder)) |->
        IF i <= Len(ReadOrder)
        THEN [tier |-> "canary", field |-> ReadOrder[i]]
        ELSE [tier |-> "production", field |-> ReadOrder[i - Len(ReadOrder)]]]

\* failed: the requests that had failed when the request count was read, their
\* errors counted or not; p95: the latency when the last bucket was read.
NothingSeen == [failed |-> 0, p95 |-> 0]

Free == [tier |-> "production", todo |-> <<>>, failed |-> FALSE]

Init ==
    /\ counters = [t \in Tiers |-> Zero]
    /\ thread = [w \in Threads |-> Free]
    /\ baseline = [t \in Tiers |-> Zero]
    /\ sample = [t \in Tiers |-> Zero]
    /\ reader = [task |-> "mark", next |-> 1]
    /\ gauge \in BOOLEAN
    /\ verdict = "none"
    /\ served = [t \in Tiers |-> 0]
    /\ hidden = 0
    /\ seen = NothingSeen

-----------------------------------------------------------------------------
(* Handler threads. *)

\* predict has its answer; what remains is to count it.
Answer(w, request) ==
    /\ thread[w].todo = <<>>
    /\ served[request.tier] < MaxServed[request.tier]
    /\ request.tier = "canary" => reader.task # "mark"
    /\ served' = [served EXCEPT ![request.tier] = @ + 1]
    /\ thread' = [thread EXCEPT ![w] =
                     [tier |-> request.tier, todo |-> Increments(request),
                      failed |-> request.outcome # "scored"]]
    /\ UNCHANGED <<counters, baseline, sample, reader, gauge, verdict, hidden, seen>>

\* A failed canary request is hidden from its request count to its error count.
Uncovered(t, step, failed) ==
    IF t = "canary" /\ failed /\ "requests" \in step THEN 1 ELSE 0
Covered(t, step) == IF t = "canary" /\ "errors" \in step THEN 1 ELSE 0

Count(w) ==
    LET t == thread[w].tier
        step == Head(thread[w].todo)
    IN  /\ thread[w].todo # <<>>
        /\ counters' = [counters EXCEPT ![t] =
                           [f \in Fields |-> IF f \in step THEN @[f] + 1 ELSE @[f]]]
        /\ thread' = [thread EXCEPT ![w].todo = Tail(@)]
        /\ hidden' = hidden + Uncovered(t, step, thread[w].failed) - Covered(t, step)
        /\ UNCHANGED <<baseline, sample, reader, gauge, verdict, served, seen>>

-----------------------------------------------------------------------------
(* The evaluator. *)

\* What the window holds now: the counters less the baseline, never below 0.
Delta(now, base) ==
    [f \in Fields |-> IF now[f] >= base[f] THEN now[f] - base[f] ELSE 0]

\* The edge under which 95% of the window falls.
P95(window) ==
    IF window.timed = 0 THEN 0
    ELSE IF 100 * window.fast >= 95 * window.timed THEN 1 ELSE 2

Signals(tier) ==
    LET window == Delta(sample[tier], baseline[tier])
    IN  [requests |-> window.requests, errors |-> window.errors,
         failures |-> window.failures, latency |-> P95(window),
         healthy |-> tier = "production" \/ gauge]

ReadInto(store) ==
    LET r == Readings[reader.next]
    IN  store' = [store EXCEPT ![r.tier][r.field] = counters[r.tier][r.field]]

Advance ==
    reader' = IF reader.next < Len(Readings)
              THEN [reader EXCEPT !.next = @ + 1]
              ELSE [task |-> IF reader.task = "mark" THEN "idle" ELSE "judge", next |-> 1]

Mark ==
    /\ reader.task = "mark"
    /\ ReadInto(baseline)
    /\ Advance
    /\ UNCHANGED <<counters, thread, sample, gauge, verdict, served, hidden, seen>>

BeginEvaluate ==
    /\ reader.task = "idle"
    /\ reader' = [task |-> "read", next |-> 1]
    /\ sample' = [t \in Tiers |-> Zero]
    /\ verdict' = "none"
    /\ seen' = NothingSeen
    /\ UNCHANGED <<counters, thread, baseline, gauge, served, hidden>>

See(r) ==
    LET window == Delta(counters["canary"], baseline["canary"])
        Reads(field) == r = [tier |-> "canary", field |-> field]
    IN  seen' = [failed |-> IF Reads("requests") THEN window.errors + hidden ELSE seen.failed,
                 p95 |-> IF Reads("timed") THEN P95(window) ELSE seen.p95]

Read ==
    /\ reader.task = "read"
    /\ ReadInto(sample)
    /\ See(Readings[reader.next])
    /\ Advance
    /\ UNCHANGED <<counters, thread, baseline, gauge, verdict, served, hidden>>

Judge ==
    /\ reader.task = "judge"
    /\ verdict' = EvaluateCanary(Signals("canary"), Signals("production"))
    /\ reader' = [task |-> "idle", next |-> 1]
    /\ UNCHANGED <<counters, thread, baseline, sample, gauge, served, hidden, seen>>

Next ==
    \/ \E w \in Threads, request \in Traffic : Answer(w, request)
    \/ \E w \in Threads : Count(w)
    \/ Mark \/ BeginEvaluate \/ Read \/ Judge

Spec == Init /\ [][Next]_vars

-----------------------------------------------------------------------------
(* Properties *)

\* At every instant the counters of a tier tell a possible story: no more
\* errors or timings than requests, no more upstream failures than errors.
\* A scrape or a reading that falls between two increments relies on the
\* order in which observe_canary_request makes them.
CountersCoherent ==
    /\ hidden \in 0..Cardinality(Threads)
    /\ \A t \in Tiers :
          LET c == counters[t]
          IN  c.failures <= c.errors /\ c.errors <= c.requests
                /\ c.fast <= c.timed /\ c.timed <= c.requests

\* A promote verdict can have missed at most one failed request per handler
\* thread: among the canary requests it counted, the failures that really
\* happened stay within the ceiling but for those a thread was just counting.
\* evaluate reads each counter once, with requests being served meanwhile.
FailuresNotMissed ==
    verdict = "promote" =>
        100 * seen.failed <= MaxErrorPercent * Signals("canary").requests
                                + 100 * Cardinality(Threads)

\* A promote verdict never rests on a latency tail that reading the histogram
\* bucket by bucket made look shorter: when the last bucket was read, the p95
\* of the canary's window really was within the limit.
SlowTailNotMissed ==
    verdict = "promote" => seen.p95 <= MaxLatency

\* A promote verdict has as many canary requests behind it as it asks for: each
\* was answered, and none is a count of something else or counted twice.  So where
\* a minimum is set, a canary that nobody was routed to is never promoted.
PromoteIsMeasured == verdict = "promote" => MinRequests <= served["canary"]

(* Why the properties hold: the inductive invariant. *)

Timings == {{"timed"}, {"fast", "timed"}}

\* What a thread may still have to count, of a request that failed or not.
Pending(failed) ==
    LET R == {"requests"}  E == {"errors"}  F == {"failures"}
    IN  {<<>>} \cup
        IF failed
        THEN {<<E>>, <<E, F>>, <<F>>} \cup
             UNION {{<<T, E>>, <<T, E, F>>, <<R, T, E>>, <<R, T, E, F>>} : T \in Timings}
        ELSE UNION {{<<T>>, <<R, T>>} : T \in Timings}

Verdicts == {"rollback", "hold", "promote"}

\* A handler thread, part of the way through counting a request.
Handlers == UNION {[tier : Tiers, todo : Pending(f), failed : {f}] : f \in BOOLEAN}

TypeOK ==
    /\ {counters, baseline, sample} \subseteq [Tiers -> [Fields -> Nat]]
    /\ thread \in [Threads -> Handlers]
    /\ reader \in [task : {"mark", "idle", "read", "judge"}, next : 1..Len(Readings)]
    /\ gauge \in BOOLEAN
    /\ verdict \in Verdicts \cup {"none"}
    /\ served \in [Tiers -> Nat] /\ hidden \in Nat
    /\ seen \in [failed : Nat, p95 : Nat]

\* The fields a thread has still to count.
Owing(todo) == UNION {todo[i] : i \in DOMAIN todo}
Owed(w) == Owing(thread[w].todo)

\* The threads that have made one count of their request and not a later one.
Between(t, made, due) ==
    {w \in Threads : thread[w].tier = t /\ made \notin Owed(w) /\ due \in Owed(w)}

\* Two counters of a tier differ by at least the threads that are between them.
CountersBalance ==
    /\ hidden = Cardinality(Between("canary", "requests", "errors"))
    /\ \A t \in Tiers :
          LET c == counters[t]
              Behind(made, due) == c[due] + Cardinality(Between(t, made, due)) <= c[made]
          IN  /\ Behind("requests", "timed") /\ Behind("timed", "errors")
              /\ Behind("errors", "failures") /\ c.fast <= c.timed

\* No canary request has arrived before the baseline is taken.
BaselineClean ==
    /\ baseline["canary"] = Zero
    /\ reader.task = "mark" =>
          /\ counters["canary"] = Zero
          /\ \A w \in Threads : thread[w].tier = "canary" => thread[w].todo = <<>>

\* The i-th value of this evaluation has been read.
Taken(i) == reader.task = "judge" \/ verdict # "none"
              \/ (reader.task = "read" /\ i < reader.next)

\* What has been read of the canary so far bounds what really happened, since
\* the counts read later can only have grown in the meantime; and a verdict is
\* the verdict on what was read.
ReadingBounds ==
    /\ verdict # "none" =>
          /\ reader.task = "idle"
          /\ verdict = EvaluateCanary(Signals("canary"), Signals("production"))
    /\ Taken(1) =>
          /\ seen.failed <= sample["canary"].requests + Cardinality(Threads)
          /\ seen.failed <= (IF Taken(2) THEN sample ELSE counters)["canary"].errors
                                + Cardinality(Threads)
    /\ Taken(4) => sample["canary"].fast <= counters["canary"].fast
    /\ Taken(5) => seen.p95 <= P95(sample["canary"])

EInv == TypeOK /\ CountersBalance /\ BaselineClean /\ ReadingBounds

\* Beside it: a request is counted after it is answered, and once.
Uncounted(t) == {w \in Threads : thread[w].tier = t /\ "requests" \in Owed(w)}

CountedWhenAnswered ==
    /\ \A t \in Tiers : counters[t].requests + Cardinality(Uncounted(t)) = served[t]
    /\ sample["canary"].requests <= served["canary"]
=============================================================================

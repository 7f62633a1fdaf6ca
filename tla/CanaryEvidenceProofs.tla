------------------------ MODULE CanaryEvidenceProofs ------------------------
(***************************************************************************)
(* Proofs about CanaryEvidence, and the verdict it comes to, for every     *)
(* number of handler threads, every traffic and every setting of the       *)
(* thresholds.                                                             *)
(***************************************************************************)
EXTENDS CanaryEvidence, FiniteSetTheorems, SequenceTheorems, TLAPS

(* The verdict as a function of what it is given. *)

TierSignals == [requests : Nat, errors : Nat, failures : Nat, latency : Nat, healthy : BOOLEAN]

\* Over as many requests, one tier did nothing worse than another.
NoWorse(a, b) ==
    /\ a.requests = b.requests
    /\ a.errors <= b.errors /\ a.failures <= b.failures /\ a.latency <= b.latency
    /\ b.healthy => a.healthy

\* Multiplying keeps the order.
LEMMA TimesMonotone ==
  ASSUME NEW x \in Nat, NEW y \in Nat, NEW k \in Nat, x <= y
  PROVE  x * k <= y * k /\ k * x <= k * y /\ x * k \in Nat /\ y * k \in Nat
<1>1. PICK d \in Nat : y = x + d
  <2>1. y - x \in Nat /\ y = x + (y - x)
    OBVIOUS
  <2> QED BY <2>1
<1>2. y * k = x * k + d * k /\ k * y = k * x + k * d
  BY <1>1
<1>3. x * k \in Nat /\ d * k \in Nat /\ k * x \in Nat /\ k * d \in Nat
  OBVIOUS
<1> QED BY <1>2, <1>3

\* A rate's parts, in order.
LEMMA RateOrdered ==
  ASSUME NEW x \in Nat, NEW y \in Nat, NEW n \in Nat, x <= y
  PROVE  /\ Rate(x, n).whole = Rate(y, n).whole /\ Rate(x, n).whole \in Nat \ {0}
         /\ Rate(x, n).part <= Rate(y, n).part
         /\ Rate(x, n).part \in Nat /\ Rate(y, n).part \in Nat
BY DEF Rate

\* A smaller candidate's rate, or a larger incumbent's, is within the ratio
\* whenever the other is, a zero incumbent included.
LEMMA RatioMonotone ==
  ASSUME NEW c1, NEW c2, NEW i1, NEW i2, NEW percent \in Nat,
         c1.part \in Nat, c2.part \in Nat, i1.part \in Nat, i2.part \in Nat,
         c1.part <= c2.part, c1.whole = c2.whole, c1.whole \in Nat \ {0},
         i1.part <= i2.part, i1.whole = i2.whole, i1.whole \in Nat \ {0},
         RatioWithin(c2, i1, percent)
  PROVE  RatioWithin(c1, i2, percent)
<1> PICK x \in Nat, y \in Nat, p \in Nat, q \in Nat, m \in Nat, n \in Nat :
      /\ x = c1.part /\ y = c2.part /\ p = i1.part /\ q = i2.part
      /\ m = c1.whole /\ n = i1.whole
  OBVIOUS
<1>1. IF p = 0 THEN y = 0 /\ 100 <= percent ELSE 100 * y * n <= percent * p * m
  BY DEF RatioWithin
<1>2. RatioWithin(c1, i2, percent) <=>
        IF q = 0 THEN x = 0 /\ 100 <= percent ELSE 100 * x * n <= percent * q * m
  BY DEF RatioWithin
<1>3. CASE p = 0
  <2>1. x = 0 /\ 100 * x * n = 0
    BY <1>1, <1>3
  <2>2. percent * q * m \in Nat
    OBVIOUS
  <2> QED BY <1>1, <1>2, <1>3, <2>1, <2>2
<1>4. CASE p # 0
  <2>1. 100 * x <= 100 * y /\ 100 * x \in Nat /\ 100 * y \in Nat
    OBVIOUS
  <2>2. 100 * x * n <= 100 * y * n /\ 100 * x * n \in Nat /\ 100 * y * n \in Nat
    BY <2>1, TimesMonotone
  <2>3. percent * p <= percent * q /\ percent * p \in Nat /\ percent * q \in Nat
    BY TimesMonotone
  <2>4. percent * p * m <= percent * q * m /\ percent * p * m \in Nat /\ percent * q * m \in Nat
    BY <2>3, TimesMonotone
  <2> QED BY <1>1, <1>2, <1>4, <2>2, <2>4
<1> QED BY <1>3, <1>4

\* Doing worse never helps a canary, nor does an incumbent that does better: for
\* all thresholds, whatever is promoted would be with better signals beside a
\* worse incumbent, and whatever is rolled back would be the other way round.
THEOREM VerdictIsMonotone ==
  ASSUME NEW better \in TierSignals, NEW worse \in TierSignals, NoWorse(better, worse),
         NEW weak \in TierSignals, NEW strong \in TierSignals, NoWorse(strong, weak)
  PROVE  /\ EvaluateCanary(worse, strong) = "promote" => EvaluateCanary(better, weak) = "promote"
         /\ EvaluateCanary(better, weak) = "rollback" => EvaluateCanary(worse, strong) = "rollback"
<1> USE ThresholdAssumption DEF TierSignals, NoWorse
<1> PICK n \in Nat, k \in Nat : n = worse.requests /\ k = weak.requests
  OBVIOUS
<1>1. ASSUME worse.healthy, AbsolutelyFit(worse), NoWorseThan(worse, strong)
      PROVE  better.healthy /\ AbsolutelyFit(better) /\ NoWorseThan(better, weak)
  <2>0. /\ ErrorRate(better) = Rate(better.errors, n) /\ ErrorRate(worse) = Rate(worse.errors, n)
        /\ FailureRate(better) = Rate(better.failures, n)
        /\ FailureRate(worse) = Rate(worse.failures, n)
        /\ ErrorRate(strong) = Rate(strong.errors, k) /\ ErrorRate(weak) = Rate(weak.errors, k)
    BY DEF ErrorRate, FailureRate
  <2>1. /\ ErrorRate(better).whole = ErrorRate(worse).whole /\ ErrorRate(better).whole \in Nat \ {0}
        /\ ErrorRate(better).part <= ErrorRate(worse).part
        /\ ErrorRate(better).part \in Nat /\ ErrorRate(worse).part \in Nat
    <3>1. PICK x \in Nat, y \in Nat : x = better.errors /\ y = worse.errors /\ x <= y
      OBVIOUS
    <3>2. ErrorRate(better) = Rate(x, n) /\ ErrorRate(worse) = Rate(y, n)
      BY <2>0, <3>1
    <3> HIDE ThresholdAssumption DEF TierSignals, NoWorse
    <3>3. /\ Rate(x, n).whole = Rate(y, n).whole /\ Rate(x, n).whole \in Nat \ {0}
          /\ Rate(x, n).part <= Rate(y, n).part
          /\ Rate(x, n).part \in Nat /\ Rate(y, n).part \in Nat
      BY <3>1, RateOrdered
    <3> QED BY <3>2, <3>3
  <2>2. /\ FailureRate(better).whole = FailureRate(worse).whole
        /\ FailureRate(better).whole \in Nat \ {0}
        /\ FailureRate(better).part <= FailureRate(worse).part
        /\ FailureRate(better).part \in Nat /\ FailureRate(worse).part \in Nat
    <3>1. PICK x \in Nat, y \in Nat : x = better.failures /\ y = worse.failures /\ x <= y
      OBVIOUS
    <3>2. FailureRate(better) = Rate(x, n) /\ FailureRate(worse) = Rate(y, n)
      BY <2>0, <3>1
    <3> HIDE ThresholdAssumption DEF TierSignals, NoWorse
    <3>3. /\ Rate(x, n).whole = Rate(y, n).whole /\ Rate(x, n).whole \in Nat \ {0}
          /\ Rate(x, n).part <= Rate(y, n).part
          /\ Rate(x, n).part \in Nat /\ Rate(y, n).part \in Nat
      BY <3>1, RateOrdered
    <3> QED BY <3>2, <3>3
  <2>3. /\ ErrorRate(strong).whole = ErrorRate(weak).whole /\ ErrorRate(strong).whole \in Nat \ {0}
        /\ ErrorRate(strong).part <= ErrorRate(weak).part
        /\ ErrorRate(strong).part \in Nat /\ ErrorRate(weak).part \in Nat
    <3>1. PICK x \in Nat, y \in Nat : x = strong.errors /\ y = weak.errors /\ x <= y
      OBVIOUS
    <3>2. ErrorRate(strong) = Rate(x, k) /\ ErrorRate(weak) = Rate(y, k)
      BY <2>0, <3>1
    <3> HIDE ThresholdAssumption DEF TierSignals, NoWorse
    <3>3. /\ Rate(x, k).whole = Rate(y, k).whole /\ Rate(x, k).whole \in Nat \ {0}
          /\ Rate(x, k).part <= Rate(y, k).part
          /\ Rate(x, k).part \in Nat /\ Rate(y, k).part \in Nat
      BY <3>1, RateOrdered
    <3> QED BY <3>2, <3>3
  <2>4. AbsolutelyFit(better)
    <3>1. Within(ErrorRate(better), MaxErrorPercent)
      <4>1. 100 * ErrorRate(worse).part <= MaxErrorPercent * ErrorRate(worse).whole
        BY <1>1 DEF AbsolutelyFit, Within
      <4>2. MaxErrorPercent * ErrorRate(worse).whole \in Nat
        BY <2>1
      <4> QED BY <2>1, <4>1, <4>2 DEF Within
    <3>2. Within(FailureRate(better), MaxFailurePercent)
      <4>1. 100 * FailureRate(worse).part <= MaxFailurePercent * FailureRate(worse).whole
        BY <1>1 DEF AbsolutelyFit, Within
      <4>2. MaxFailurePercent * FailureRate(worse).whole \in Nat
        BY <2>2
      <4> QED BY <2>2, <4>1, <4>2 DEF Within
    <3>3. better.latency <= MaxLatency
      BY <1>1 DEF AbsolutelyFit
    <3> QED BY <3>1, <3>2, <3>3 DEF AbsolutelyFit
  <2>5. RatioWithin(ErrorRate(better), ErrorRate(weak), MaxErrorRatio)
    <3>1. RatioWithin(ErrorRate(worse), ErrorRate(strong), MaxErrorRatio)
      BY <1>1 DEF NoWorseThan
    <3> QED BY <2>1, <2>3, <3>1, RatioMonotone
  <2>6. RatioWithin(Latency(better.latency), Latency(weak.latency), MaxLatencyRatio)
    <3>1. RatioWithin(Latency(worse.latency), Latency(strong.latency), MaxLatencyRatio)
      BY <1>1 DEF NoWorseThan
    <3>2. \A edge \in Nat : Latency(edge).part = edge /\ Latency(edge).whole = 1
      BY DEF Latency
    <3> QED BY <3>1, <3>2, RatioMonotone
  <2> QED BY <1>1, <2>4, <2>5, <2>6 DEF NoWorseThan
<1>2. better.requests = worse.requests
  OBVIOUS
<1> QED BY <1>1, <1>2 DEF EvaluateCanary

(* The operators the steps are built from. *)

\* The readings in order: the canary's five, then production's.
LEMMA ReadingList ==
  /\ Len(Readings) = 10
  /\ \A i \in 1..10 : Readings[i] \in [tier : Tiers, field : Fields]
  /\ Readings[1] = [tier |-> "canary", field |-> "requests"]
  /\ Readings[2] = [tier |-> "canary", field |-> "errors"]
  /\ Readings[3] = [tier |-> "canary", field |-> "failures"]
  /\ Readings[4] = [tier |-> "canary", field |-> "fast"]
  /\ Readings[5] = [tier |-> "canary", field |-> "timed"]
  /\ \A i \in 6..10 : Readings[i].tier = "production"
<1>1. Len(ReadOrder) = 5
  BY DEF ReadOrder
<1>2. \A i \in 1..5 : ReadOrder[i] \in Fields
  BY DEF ReadOrder, Fields
<1>3. Readings = [i \in 1..10 |-> IF i <= 5
                                  THEN [tier |-> "canary", field |-> ReadOrder[i]]
                                  ELSE [tier |-> "production", field |-> ReadOrder[i - 5]]]
  BY <1>1 DEF Readings
<1>4. Len(Readings) = 10
  BY <1>3
<1>5. \A i \in 1..10 : Readings[i] \in [tier : Tiers, field : Fields]
  <2> SUFFICES ASSUME NEW i \in 1..10 PROVE Readings[i] \in [tier : Tiers, field : Fields]
    OBVIOUS
  <2>1. CASE i <= 5
    BY <2>1, <1>2, <1>3 DEF Tiers
  <2>2. CASE ~(i <= 5)
    <3>1. i - 5 \in 1..5
      BY <2>2
    <3> QED BY <2>2, <3>1, <1>2, <1>3 DEF Tiers
  <2> QED BY <2>1, <2>2
<1>6. \A i \in 6..10 : Readings[i].tier = "production"
  BY <1>3
<1>7. /\ Readings[1] = [tier |-> "canary", field |-> "requests"]
      /\ Readings[2] = [tier |-> "canary", field |-> "errors"]
      /\ Readings[3] = [tier |-> "canary", field |-> "failures"]
      /\ Readings[4] = [tier |-> "canary", field |-> "fast"]
      /\ Readings[5] = [tier |-> "canary", field |-> "timed"]
  BY <1>3 DEF ReadOrder
<1> QED BY <1>4, <1>5, <1>6, <1>7

\* A tuple with one more component.
LEMMA JoinTwo ==
  ASSUME NEW a, NEW b
  PROVE  <<a>> \o <<b>> = <<a, b>>
<1> DEFINE S == {a, b}
<1>1. <<a>> \in Seq(S) /\ <<b>> \in Seq(S) /\ <<a, b>> \in Seq(S)
  OBVIOUS
<1>2. <<a>> \o <<b>> \in Seq(S)
  BY <1>1
<1>3. Len(<<a>> \o <<b>>) = 2 /\ Len(<<a, b>>) = 2
  BY <1>1
<1>4. \A i \in 1..2 : (<<a>> \o <<b>>)[i] = <<a, b>>[i]
  BY <1>1
<1> QED BY <1>1, <1>2, <1>3, <1>4, SeqEqual

LEMMA JoinThree ==
  ASSUME NEW a, NEW b, NEW c
  PROVE  <<a, b>> \o <<c>> = <<a, b, c>>
<1> DEFINE S == {a, b, c}
<1>1. <<a, b>> \in Seq(S) /\ <<c>> \in Seq(S) /\ <<a, b, c>> \in Seq(S)
  OBVIOUS
<1>2. <<a, b>> \o <<c>> \in Seq(S)
  BY <1>1
<1>3. Len(<<a, b>> \o <<c>>) = 3 /\ Len(<<a, b, c>>) = 3
  BY <1>1
<1>4. \A i \in 1..3 : (<<a, b>> \o <<c>>)[i] = <<a, b, c>>[i]
  BY <1>1
<1> QED BY <1>1, <1>2, <1>3, <1>4, SeqEqual

LEMMA JoinFour ==
  ASSUME NEW a, NEW b, NEW c, NEW d
  PROVE  <<a, b, c>> \o <<d>> = <<a, b, c, d>>
<1> DEFINE S == {a, b, c, d}
<1>1. <<a, b, c>> \in Seq(S) /\ <<d>> \in Seq(S) /\ <<a, b, c, d>> \in Seq(S)
  OBVIOUS
<1>2. <<a, b, c>> \o <<d>> \in Seq(S)
  BY <1>1
<1>3. Len(<<a, b, c>> \o <<d>>) = 4 /\ Len(<<a, b, c, d>>) = 4
  BY <1>1
<1>4. \A i \in 1..4 : (<<a, b, c>> \o <<d>>)[i] = <<a, b, c, d>>[i]
  BY <1>1
<1> QED BY <1>1, <1>2, <1>3, <1>4, SeqEqual

\* What observe_canary_request still has to do, spelled out.
LEMMA IncrementList ==
  ASSUME NEW request \in [tier : Tiers, outcome : Outcomes, quick : BOOLEAN]
  PROVE  \E T \in Timings :
            Increments(request) \in
              IF request.outcome = "scored"
              THEN {<<{"requests"}, T>>}
              ELSE {<<{"requests"}, T, {"errors"}>>,
                    <<{"requests"}, T, {"errors"}, {"failures"}>>}
<1> DEFINE T == IF request.quick THEN {"fast", "timed"} ELSE {"timed"}
<1>1. T \in Timings
  BY DEF Timings
<1> HIDE DEF T
<1>2. Increments(request) =
        <<{"requests"}>> \o <<T>>
          \o (IF request.outcome = "scored" THEN <<>> ELSE <<{"errors"}>>)
          \o (IF request.outcome = "unreachable" THEN <<{"failures"}>> ELSE <<>>)
  <2>1. <<IF request.quick THEN {"fast", "timed"} ELSE {"timed"}>> = <<T>>
    BY DEF T
  <2> QED BY <2>1 DEF Increments
<1>3. <<{"requests"}>> \o <<T>> = <<{"requests"}, T>>
  BY JoinTwo
<1>4. CASE request.outcome = "scored"
  <2>1. Increments(request) = <<{"requests"}, T>> \o <<>> \o <<>>
    BY <1>2, <1>3, <1>4
  <2>2. <<{"requests"}, T>> \o <<>> = <<{"requests"}, T>>
    OBVIOUS
  <2> QED BY <1>1, <1>4, <2>1, <2>2
<1>5. CASE request.outcome = "refused"
  <2>1. Increments(request) = <<{"requests"}, T>> \o <<{"errors"}>> \o <<>>
    BY <1>2, <1>3, <1>5
  <2>2. <<{"requests"}, T>> \o <<{"errors"}>> = <<{"requests"}, T, {"errors"}>>
    BY JoinThree
  <2>3. <<{"requests"}, T, {"errors"}>> \o <<>> = <<{"requests"}, T, {"errors"}>>
    OBVIOUS
  <2> QED BY <1>1, <1>5, <2>1, <2>2, <2>3
<1>6. CASE request.outcome = "unreachable"
  <2>1. Increments(request) = <<{"requests"}, T>> \o <<{"errors"}>> \o <<{"failures"}>>
    BY <1>2, <1>3, <1>6
  <2>2. <<{"requests"}, T>> \o <<{"errors"}>> = <<{"requests"}, T, {"errors"}>>
    BY JoinThree
  <2>3. <<{"requests"}, T, {"errors"}>> \o <<{"failures"}>>
           = <<{"requests"}, T, {"errors"}, {"failures"}>>
    BY JoinFour
  <2> QED BY <1>1, <1>6, <2>1, <2>2, <2>3
<1> QED BY <1>4, <1>5, <1>6 DEF Outcomes

\* A request that has just been answered owes every count it will make, none
\* of them made; the error if and only if it failed.
LEMMA PendingFresh ==
  ASSUME NEW failed \in BOOLEAN, NEW T \in Timings,
         NEW todo \in IF failed
                      THEN {<<{"requests"}, T, {"errors"}>>,
                            <<{"requests"}, T, {"errors"}, {"failures"}>>}
                      ELSE {<<{"requests"}, T>>}
  PROVE  /\ todo \in Pending(failed)
         /\ {"requests", "timed"} \subseteq Owing(todo)
         /\ "failures" \in Owing(todo) => "errors" \in Owing(todo)
<1>1. todo \in Pending(failed)
  BY DEF Pending
<1>2. CASE todo = <<{"requests"}, T>>
  <2>1. Owing(todo) = {"requests"} \cup T
    BY <1>2 DEF Owing
  <2> QED BY <1>1, <2>1 DEF Timings
<1>3. CASE todo = <<{"requests"}, T, {"errors"}>>
  <2>1. Owing(todo) = {"requests"} \cup T \cup {"errors"}
    BY <1>3 DEF Owing
  <2> QED BY <1>1, <2>1 DEF Timings
<1>4. CASE todo = <<{"requests"}, T, {"errors"}, {"failures"}>>
  <2>1. Owing(todo) = {"requests"} \cup T \cup {"errors"} \cup {"failures"}
    BY <1>4 DEF Owing
  <2> QED BY <1>1, <2>1 DEF Timings
<1> QED BY <1>2, <1>3, <1>4

(* The four counts of observe_canary_request, by what is owed before and after. *)

CountsRequest(todo, failed) ==
    /\ Head(todo) = {"requests"}
    /\ {"requests", "timed"} \subseteq Owing(todo)
    /\ "errors" \in Owing(todo) <=> failed
    /\ "failures" \in Owing(todo) => failed
    /\ Owing(Tail(todo)) = Owing(todo) \ {"requests"}

CountsTiming(todo, failed) ==
    /\ Head(todo) \in Timings
    /\ "requests" \notin Owing(todo) /\ "timed" \in Owing(todo)
    /\ "errors" \in Owing(todo) <=> failed
    /\ "failures" \in Owing(todo) => failed
    /\ Owing(Tail(todo)) = Owing(todo) \ {"fast", "timed"}

CountsError(todo, failed) ==
    /\ Head(todo) = {"errors"} /\ failed
    /\ Owing(todo) \cap {"requests", "timed"} = {} /\ "errors" \in Owing(todo)
    /\ Owing(Tail(todo)) = Owing(todo) \ {"errors"}

CountsFailure(todo) ==
    /\ Head(todo) = {"failures"}
    /\ Owing(todo) = {"failures"} /\ Owing(Tail(todo)) = {}

\* Making one count: it is owed no longer, and everything before it in
\* observe_canary_request has been counted.
LEMMA PendingStep ==
  ASSUME NEW failed \in BOOLEAN, NEW todo \in Pending(failed), todo # <<>>
  PROVE  /\ Tail(todo) \in Pending(failed)
         /\ \/ CountsRequest(todo, failed) \/ CountsTiming(todo, failed)
            \/ CountsError(todo, failed) \/ CountsFailure(todo)
<1> DEFINE R == {"requests"}
           E == {"errors"}
           F == {"failures"}
<1>1. CASE failed /\ todo = <<F>>
  <2>1. Head(todo) = F /\ Tail(todo) = <<>> /\ Owing(todo) = F
    BY <1>1 DEF Owing
  <2>2. Owing(<<>>) = {}
    BY DEF Owing
  <2>3. CountsFailure(todo)
    BY <2>1, <2>2 DEF CountsFailure
  <2>4. Tail(todo) \in Pending(failed)
    BY <2>1 DEF Pending
  <2> QED BY <2>3, <2>4
<1>2. CASE failed /\ todo \in {<<E>>, <<E, F>>}
  <2>1. \E rest \in {<<>>, <<F>>} :
          Head(todo) = E /\ Tail(todo) = rest /\ Owing(todo) = Owing(rest) \cup E
    <3>1. CASE todo = <<E>>
      <4>1. Head(todo) = E /\ Tail(todo) = <<>>
        BY <3>1
      <4>2. Owing(todo) = Owing(<<>>) \cup E
        BY <3>1 DEF Owing
      <4> QED BY <4>1, <4>2
    <3>2. CASE todo = <<E, F>>
      <4>1. Head(todo) = E /\ Tail(todo) = <<F>>
        BY <3>2
      <4>2. Owing(todo) = Owing(<<F>>) \cup E
        BY <3>2 DEF Owing
      <4> QED BY <4>1, <4>2
    <3> QED BY <1>2, <3>1, <3>2
  <2> PICK rest \in {<<>>, <<F>>} :
         Head(todo) = E /\ Tail(todo) = rest /\ Owing(todo) = Owing(rest) \cup E
    BY <2>1
  <2>2. Owing(rest) \subseteq F
    BY DEF Owing
  <2>3. CountsError(todo, failed)
    BY <1>2, <2>2 DEF CountsError
  <2>4. Tail(todo) \in Pending(failed)
    BY <1>2 DEF Pending
  <2> QED BY <2>3, <2>4
<1>3. ASSUME NEW T \in Timings, NEW rest \in {<<>>, <<E>>, <<E, F>>}, failed <=> rest # <<>>,
             todo \in {<<T>>, <<T, E>>, <<T, E, F>>}, Tail(todo) = rest
      PROVE  CountsTiming(todo, failed) /\ Tail(todo) \in Pending(failed)
  <2>1. Head(todo) = T /\ Owing(todo) = Owing(rest) \cup T
    BY <1>3 DEF Owing
  <2>2. Owing(rest) \subseteq E \cup F /\ ("errors" \in Owing(rest) <=> failed)
          /\ ("failures" \in Owing(rest) => failed)
    BY <1>3 DEF Owing
  <2>3. CountsTiming(todo, failed)
    BY <1>3, <2>1, <2>2 DEF CountsTiming, Timings
  <2>4. Tail(todo) \in Pending(failed)
    BY <1>3 DEF Pending
  <2> QED BY <2>3, <2>4
<1>4. ASSUME NEW T \in Timings, NEW rest \in {<<T>>, <<T, E>>, <<T, E, F>>}, failed <=> rest # <<T>>,
             todo \in {<<R, T>>, <<R, T, E>>, <<R, T, E, F>>}, Tail(todo) = rest
      PROVE  CountsRequest(todo, failed) /\ Tail(todo) \in Pending(failed)
  <2>1. Head(todo) = R /\ Owing(todo) = Owing(rest) \cup R
    BY <1>4 DEF Owing
  <2>2. Owing(rest) \subseteq T \cup E \cup F /\ T \subseteq Owing(rest)
          /\ ("errors" \in Owing(rest) <=> failed) /\ ("failures" \in Owing(rest) => failed)
    BY <1>4 DEF Owing, Timings
  <2>3. CountsRequest(todo, failed)
    BY <1>4, <2>1, <2>2 DEF CountsRequest, Timings
  <2>4. Tail(todo) \in Pending(failed)
    <3>1. CASE failed
      <4>1. {<<T, E>>, <<T, E, F>>} \subseteq Pending(failed)
        BY <3>1 DEF Pending
      <4>2. rest \in {<<T, E>>, <<T, E, F>>}
        BY <1>4, <3>1
      <4> QED BY <4>1, <4>2, <1>4
    <3>2. CASE ~failed
      <4>1. <<T>> \in Pending(failed)
        BY <3>2 DEF Pending
      <4> QED BY <4>1, <1>4, <3>2
    <3> QED BY <3>1, <3>2
  <2> QED BY <2>3, <2>4
<1>5. ASSUME NEW T \in Timings, failed, todo \in {<<T, E>>, <<T, E, F>>}
      PROVE  CountsTiming(todo, failed) /\ Tail(todo) \in Pending(failed)
  <2>1. Tail(todo) \in {<<E>>, <<E, F>>}
    <3>1. CASE todo = <<T, E>>
      <4>1. Tail(todo) = <<E>>
        BY <3>1
      <4> QED BY <4>1
    <3>2. CASE todo = <<T, E, F>>
      <4>1. Tail(todo) = <<E, F>>
        BY <3>2
      <4> QED BY <4>1
    <3> QED BY <1>5, <3>1, <3>2
  <2>2. Tail(todo) # <<>>
    BY <2>1
  <2> QED BY <1>3, <1>5, <2>1, <2>2
<1>6. ASSUME NEW T \in Timings, ~failed, todo = <<T>>
      PROVE  CountsTiming(todo, failed) /\ Tail(todo) \in Pending(failed)
  <2>1. Tail(todo) = <<>>
    BY <1>6
  <2> QED BY <1>3, <1>6, <2>1
<1>7. ASSUME NEW T \in Timings, failed, todo \in {<<R, T, E>>, <<R, T, E, F>>}
      PROVE  CountsRequest(todo, failed) /\ Tail(todo) \in Pending(failed)
  <2>1. Tail(todo) \in {<<T, E>>, <<T, E, F>>}
    <3>1. CASE todo = <<R, T, E>>
      <4>1. Tail(todo) = <<T, E>>
        BY <3>1
      <4> QED BY <4>1
    <3>2. CASE todo = <<R, T, E, F>>
      <4>1. Tail(todo) = <<T, E, F>>
        BY <3>2
      <4> QED BY <4>1
    <3> QED BY <1>7, <3>1, <3>2
  <2>2. Tail(todo) # <<T>>
    BY <2>1
  <2> QED BY <1>4, <1>7, <2>1, <2>2
<1>8. ASSUME NEW T \in Timings, ~failed, todo = <<R, T>>
      PROVE  CountsRequest(todo, failed) /\ Tail(todo) \in Pending(failed)
  <2>1. Tail(todo) = <<T>>
    BY <1>8
  <2> QED BY <1>4, <1>8, <2>1
<1>9. CASE failed
  <2>1. \/ todo \in {<<E>>, <<E, F>>, <<F>>}
        \/ \E T \in Timings : todo \in {<<T, E>>, <<T, E, F>>, <<R, T, E>>, <<R, T, E, F>>}
    BY <1>9 DEF Pending
  <2> QED BY <1>1, <1>2, <1>5, <1>7, <1>9, <2>1
<1>10. CASE ~failed
  <2>1. \E T \in Timings : todo \in {<<T>>, <<R, T>>}
    BY <1>10 DEF Pending
  <2> QED BY <1>6, <1>8, <1>10, <2>1
<1> QED BY <1>9, <1>10

(* Threads between two counts. *)

\* What the type invariant says of one thread.
LEMMA ThreadTyped ==
  ASSUME TypeOK, NEW w \in Threads
  PROVE  /\ thread[w].tier \in Tiers /\ thread[w].failed \in BOOLEAN
         /\ thread[w].todo \in Pending(thread[w].failed)
         /\ thread[w] = [tier |-> thread[w].tier, todo |-> thread[w].todo,
                         failed |-> thread[w].failed]
<1>1. PICK f \in BOOLEAN : thread[w] \in [tier : Tiers, todo : Pending(f), failed : {f}]
  BY DEF TypeOK, Handlers
<1> QED BY <1>1

\* A record whose todo is pending is a thread.
LEMMA ThreadUpdated ==
  ASSUME TypeOK, NEW w \in Threads, NEW t \in Tiers, NEW f \in BOOLEAN,
         NEW todo \in Pending(f),
         thread' = [thread EXCEPT ![w] = [tier |-> t, todo |-> todo, failed |-> f]]
  PROVE  thread' \in [Threads -> Handlers]
<1>1. thread \in [Threads -> Handlers]
  BY DEF TypeOK
<1>2. [tier |-> t, todo |-> todo, failed |-> f] \in [tier : Tiers, todo : Pending(f), failed : {f}]
  OBVIOUS
<1>3. [tier |-> t, todo |-> todo, failed |-> f] \in Handlers
  BY <1>2 DEF Handlers
<1> QED BY <1>1, <1>3

\* Any threads can be counted, and are no more than there are.
LEMMA ThreadSets ==
  ASSUME NEW S \in SUBSET Threads
  PROVE  /\ IsFiniteSet(S) /\ Cardinality(S) \in Nat
         /\ Cardinality(S) <= Cardinality(Threads) /\ Cardinality(Threads) \in Nat
<1>1. IsFiniteSet(Threads)
  BY TrafficAssumption
<1> QED BY <1>1, FS_Subset, FS_CardinalityType

\* A set of threads between two counts is finite, and is counted.
LEMMA BetweenFinite ==
  ASSUME NEW t, NEW made, NEW due
  PROVE  /\ Between(t, made, due) \subseteq Threads
         /\ IsFiniteSet(Between(t, made, due))
         /\ Cardinality(Between(t, made, due)) \in Nat
         /\ Cardinality(Between(t, made, due)) <= Cardinality(Threads)
         /\ Cardinality(Threads) \in Nat
<1>1. Between(t, made, due) \subseteq Threads
  BY DEF Between
<1> QED BY <1>1, ThreadSets

\* Two sets of threads that differ at most in w differ in size by w alone.
LEMMA OneMoves ==
  ASSUME NEW w \in Threads, NEW S \in SUBSET Threads, NEW U \in SUBSET Threads,
         \A v \in Threads : v # w => (v \in S <=> v \in U)
  PROVE  /\ Cardinality(S) \in Nat
         /\ Cardinality(U) = Cardinality(S) + (IF w \in U THEN 1 ELSE 0)
                                            - (IF w \in S THEN 1 ELSE 0)
<1>1. IsFiniteSet(S) /\ Cardinality(S) \in Nat
  BY ThreadSets
<1>2. CASE w \in U /\ w \notin S
  <2>1. U = S \cup {w}
    BY <1>2
  <2> QED BY <1>1, <1>2, <2>1, FS_AddElement
<1>3. CASE w \in S /\ w \notin U
  <2>1. U = S \ {w}
    BY <1>3
  <2> QED BY <1>1, <1>3, <2>1, FS_RemoveElement
<1>4. CASE w \in U <=> w \in S
  <2>1. U = S
    BY <1>4
  <2> QED BY <1>1, <1>4, <2>1
<1> QED BY <1>2, <1>3, <1>4

\* One thread at a time: when only w's entry changes, the number of threads
\* between two counts moves by w alone.
LEMMA BetweenMoves ==
  ASSUME NEW w \in Threads, NEW t, NEW made, NEW due,
         \A v \in Threads : v # w => thread'[v] = thread[v]
  PROVE  Cardinality(Between(t, made, due)') =
            Cardinality(Between(t, made, due))
              + (IF w \in Between(t, made, due)' THEN 1 ELSE 0)
              - (IF w \in Between(t, made, due) THEN 1 ELSE 0)
<1> DEFINE S == Between(t, made, due)
           U == Between(t, made, due)'
<1>1. \A v \in Threads : v # w => (v \in S <=> v \in U)
  BY DEF Between, Owed
<1>2. S \in SUBSET Threads /\ U \in SUBSET Threads
  BY DEF Between
<1> HIDE DEF S, U
<1>3. Cardinality(U) = Cardinality(S) + (IF w \in U THEN 1 ELSE 0)
                                      - (IF w \in S THEN 1 ELSE 0)
  BY <1>1, <1>2, OneMoves
<1> QED BY <1>3 DEF S, U

\* A thread that is between two counts keeps the number above zero.
LEMMA BetweenPositive ==
  ASSUME NEW t, NEW made, NEW due, NEW w \in Between(t, made, due)
  PROVE  Cardinality(Between(t, made, due)) >= 1
<1>1. Between(t, made, due) # {}
  OBVIOUS
<1> QED BY <1>1, BetweenFinite, FS_EmptySet

\* What Count does to the thread and to its tier's counters.
LEMMA CountStep ==
  ASSUME TypeOK, NEW w \in Threads, Count(w),
         NEW t, NEW todo, NEW failed,
         t = thread[w].tier, todo = thread[w].todo, failed = thread[w].failed
  PROVE  /\ t \in Tiers /\ failed \in BOOLEAN /\ todo \in Pending(failed) /\ todo # <<>>
         /\ thread' = [thread EXCEPT ![w] = [tier |-> t, todo |-> Tail(todo),
                                             failed |-> failed]]
         /\ thread'[w] = [tier |-> t, todo |-> Tail(todo), failed |-> failed]
         /\ \A v \in Threads : v # w => thread'[v] = thread[v]
         /\ Tail(todo) \in Pending(failed)
         /\ \/ CountsRequest(todo, failed) \/ CountsTiming(todo, failed)
            \/ CountsError(todo, failed) \/ CountsFailure(todo)
         /\ counters' \in [Tiers -> [Fields -> Nat]]
         /\ \A f \in Fields : counters'[t][f] =
               IF f \in Head(todo) THEN counters[t][f] + 1 ELSE counters[t][f]
         /\ \A u \in Tiers : u # t => counters'[u] = counters[u]
<1>1. /\ t \in Tiers /\ failed \in BOOLEAN /\ todo \in Pending(failed)
      /\ thread[w] = [tier |-> t, todo |-> todo, failed |-> failed]
  BY ThreadTyped
<1>2. todo # <<>> /\ thread' = [thread EXCEPT ![w].todo = Tail(todo)]
  BY DEF Count
<1>3. counters' = [counters EXCEPT ![t] =
                     [f \in Fields |-> IF f \in Head(todo) THEN counters[t][f] + 1
                                                           ELSE counters[t][f]]]
  BY DEF Count
<1>4. counters \in [Tiers -> [Fields -> Nat]] /\ DOMAIN thread = Threads
  BY DEF TypeOK
<1>5. [thread[w] EXCEPT !.todo = Tail(todo)] = [tier |-> t, todo |-> Tail(todo), failed |-> failed]
  <2>1. thread[w] \in [tier : {t}, todo : {todo, Tail(todo)}, failed : {failed}]
    BY <1>1
  <2>2. [thread[w] EXCEPT !.todo = Tail(todo)]
           \in [tier : {t}, todo : {Tail(todo)}, failed : {failed}]
    BY <2>1
  <2>3. \A x \in [tier : {t}, todo : {Tail(todo)}, failed : {failed}] :
           x = [tier |-> t, todo |-> Tail(todo), failed |-> failed]
    OBVIOUS
  <2> QED BY <2>2, <2>3
<1>6. /\ thread' = [thread EXCEPT ![w] = [tier |-> t, todo |-> Tail(todo), failed |-> failed]]
      /\ thread'[w] = [tier |-> t, todo |-> Tail(todo), failed |-> failed]
      /\ \A v \in Threads : v # w => thread'[v] = thread[v]
  BY <1>2, <1>4, <1>5
<1>7. /\ Tail(todo) \in Pending(failed)
      /\ \/ CountsRequest(todo, failed) \/ CountsTiming(todo, failed)
         \/ CountsError(todo, failed) \/ CountsFailure(todo)
  BY <1>1, <1>2, PendingStep
<1>8. [f \in Fields |-> IF f \in Head(todo) THEN counters[t][f] + 1 ELSE counters[t][f]]
         \in [Fields -> Nat]
  BY <1>1, <1>4
<1>9. /\ counters' \in [Tiers -> [Fields -> Nat]]
      /\ counters'[t] = [f \in Fields |-> IF f \in Head(todo) THEN counters[t][f] + 1
                                                              ELSE counters[t][f]]
      /\ \A u \in Tiers : u # t => counters'[u] = counters[u]
  BY <1>1, <1>3, <1>4, <1>8
<1> QED BY <1>1, <1>2, <1>6, <1>7, <1>9

(* The counts, one conjunct of the balance at a time. *)

Behind(t, made, due) ==
    counters[t][due] + Cardinality(Between(t, made, due)) <= counters[t][made]

\* The balance, by its parts.
LEMMA BalanceParts ==
  CountersBalance <=>
    /\ hidden = Cardinality(Between("canary", "requests", "errors"))
    /\ \A t \in Tiers : /\ Behind(t, "requests", "timed") /\ Behind(t, "timed", "errors")
                        /\ Behind(t, "errors", "failures")
                        /\ counters[t]["fast"] <= counters[t]["timed"]
BY DEF CountersBalance, Behind

\* A tier that neither counts nor has a thread step is as far behind as before.
LEMMA BehindElsewhere ==
  ASSUME NEW w \in Threads, NEW t \in Tiers, NEW made, NEW due,
         \A v \in Threads : v # w => thread'[v] = thread[v],
         w \notin Between(t, made, due), w \notin Between(t, made, due)',
         counters'[t] = counters[t], Behind(t, made, due)
  PROVE  Behind(t, made, due)'
<1>1. Cardinality(Between(t, made, due)') = Cardinality(Between(t, made, due))
  BY BetweenMoves, BetweenFinite
<1> QED BY <1>1 DEF Behind

\* A tier is as far behind as its counters and the one thread that moves say.
LEMMA BehindMoves ==
  ASSUME TypeOK, NEW w \in Threads, NEW t \in Tiers, NEW made \in Fields, NEW due \in Fields,
         \A v \in Threads : v # w => thread'[v] = thread[v],
         Behind(t, made, due), counters' \in [Tiers -> [Fields -> Nat]],
         counters'[t][due] - counters[t][due]
           + (IF w \in Between(t, made, due)' THEN 1 ELSE 0)
           - (IF w \in Between(t, made, due) THEN 1 ELSE 0)
           <= counters'[t][made] - counters[t][made]
  PROVE  Behind(t, made, due)'
<1>1. /\ counters[t][due] \in Nat /\ counters[t][made] \in Nat
      /\ counters'[t][due] \in Nat /\ counters'[t][made] \in Nat
  BY DEF TypeOK
<1>2. Cardinality(Between(t, made, due)') = Cardinality(Between(t, made, due))
              + (IF w \in Between(t, made, due)' THEN 1 ELSE 0)
              - (IF w \in Between(t, made, due) THEN 1 ELSE 0)
  BY BetweenMoves
<1>3. Cardinality(Between(t, made, due)) \in Nat
  BY BetweenFinite
<1>4. (counters[t][due] + Cardinality(Between(t, made, due)) <= counters[t][made])
  BY DEF Behind
<1>5. counters'[t][due] + Cardinality(Between(t, made, due)') <= counters'[t][made]
  BY <1>1, <1>2, <1>3, <1>4
<1> QED BY <1>5 DEF Behind

\* Which threads are between two counts: membership, spelled out for one thread.
LEMMA BetweenMember ==
  ASSUME NEW w \in Threads, NEW t, NEW made, NEW due
  PROVE  /\ w \in Between(t, made, due) <=>
              thread[w].tier = t /\ made \notin Owing(thread[w].todo) /\ due \in Owing(thread[w].todo)
         /\ w \in Between(t, made, due)' <=>
              thread'[w].tier = t /\ made \notin Owing(thread'[w].todo) /\ due \in Owing(thread'[w].todo)
BY DEF Between, Owed

\* Each count moves its thread past one pair of counters and up to the next.
LEMMA CountBehind ==
  ASSUME TypeOK, CountersBalance, NEW w \in Threads, Count(w),
         NEW t, t = thread[w].tier
  PROVE  /\ Behind(t, "requests", "timed")' /\ Behind(t, "timed", "errors")'
         /\ Behind(t, "errors", "failures")'
         /\ counters'[t]["fast"] <= counters'[t]["timed"]
<1> PICK todo, failed : todo = thread[w].todo /\ failed = thread[w].failed
  OBVIOUS
<1> DEFINE In(made, due) == w \in Between(t, made, due)
           Now(made, due) == w \in Between(t, made, due)'
           Rise(f) == counters'[t][f] - counters[t][f]
<1>1. /\ t \in Tiers /\ failed \in BOOLEAN /\ todo \in Pending(failed)
      /\ thread'[w] = [tier |-> t, todo |-> Tail(todo), failed |-> failed]
      /\ \A v \in Threads : v # w => thread'[v] = thread[v]
      /\ \/ CountsRequest(todo, failed) \/ CountsTiming(todo, failed)
         \/ CountsError(todo, failed) \/ CountsFailure(todo)
      /\ counters' \in [Tiers -> [Fields -> Nat]]
      /\ \A f \in Fields : counters'[t][f] =
            IF f \in Head(todo) THEN counters[t][f] + 1 ELSE counters[t][f]
  BY CountStep
<1>2. \A made, due : /\ In(made, due) <=> made \notin Owing(todo) /\ due \in Owing(todo)
                     /\ Now(made, due) <=> made \notin Owing(Tail(todo)) /\ due \in Owing(Tail(todo))
  <2>1. thread'[w].tier = t /\ thread'[w].todo = Tail(todo)
    BY <1>1
  <2> SUFFICES ASSUME NEW made, NEW due
               PROVE  /\ In(made, due) <=> made \notin Owing(todo) /\ due \in Owing(todo)
                      /\ Now(made, due) <=> made \notin Owing(Tail(todo))
                                               /\ due \in Owing(Tail(todo))
    OBVIOUS
  <2> QED BY <2>1, BetweenMember
<1>3. \A f \in Fields : counters[t][f] \in Nat /\ counters'[t][f] \in Nat
                        /\ Rise(f) = IF f \in Head(todo) THEN 1 ELSE 0
  <2>1. counters[t] \in [Fields -> Nat]
    BY <1>1 DEF TypeOK
  <2> QED BY <1>1, <2>1
<1>4. /\ Behind(t, "requests", "timed") /\ Behind(t, "timed", "errors")
      /\ Behind(t, "errors", "failures") /\ counters[t]["fast"] <= counters[t]["timed"]
  BY <1>1, BalanceParts
<1> HIDE DEF In, Now, Rise
<1>5. \A made, due \in Fields :
         Behind(t, made, due)
           /\ Rise(due) + (IF Now(made, due) THEN 1 ELSE 0) - (IF In(made, due) THEN 1 ELSE 0)
                 <= Rise(made)
         => Behind(t, made, due)'
  <2> SUFFICES ASSUME NEW made \in Fields, NEW due \in Fields, Behind(t, made, due),
                      Rise(due) + (IF Now(made, due) THEN 1 ELSE 0)
                        - (IF In(made, due) THEN 1 ELSE 0) <= Rise(made)
               PROVE  Behind(t, made, due)'
    OBVIOUS
  <2>1. counters'[t][due] - counters[t][due]
           + (IF w \in Between(t, made, due)' THEN 1 ELSE 0)
           - (IF w \in Between(t, made, due) THEN 1 ELSE 0)
           <= counters'[t][made] - counters[t][made]
    BY DEF In, Now, Rise
  <2> QED BY <1>1, <2>1, BehindMoves
<1>6. {"requests", "errors", "failures", "fast", "timed"} \subseteq Fields
  BY DEF Fields
<1>7. /\ Rise("timed") + (IF Now("requests", "timed") THEN 1 ELSE 0)
            - (IF In("requests", "timed") THEN 1 ELSE 0) <= Rise("requests")
      /\ Rise("errors") + (IF Now("timed", "errors") THEN 1 ELSE 0)
            - (IF In("timed", "errors") THEN 1 ELSE 0) <= Rise("timed")
      /\ Rise("failures") + (IF Now("errors", "failures") THEN 1 ELSE 0)
            - (IF In("errors", "failures") THEN 1 ELSE 0) <= Rise("errors")
      /\ Rise("fast") <= Rise("timed")
  <2>1. CASE CountsRequest(todo, failed)
    <3>1. /\ Rise("requests") = 1 /\ Rise("timed") = 0 /\ Rise("errors") = 0
          /\ Rise("failures") = 0 /\ Rise("fast") = 0
      BY <1>3, <1>6, <2>1 DEF CountsRequest
    <3>2. ~Now("timed", "errors") /\ ~Now("errors", "failures")
      BY <1>2, <2>1 DEF CountsRequest
    <3> QED BY <3>1, <3>2
  <2>2. CASE CountsTiming(todo, failed)
    <3>1. /\ Rise("requests") = 0 /\ Rise("timed") = 1 /\ Rise("errors") = 0
          /\ Rise("failures") = 0 /\ Rise("fast") \in 0..1
      BY <1>3, <1>6, <2>2 DEF CountsTiming, Timings
    <3>2. In("requests", "timed") /\ ~Now("requests", "timed") /\ ~Now("errors", "failures")
      BY <1>2, <2>2 DEF CountsTiming
    <3> QED BY <3>1, <3>2
  <2>3. CASE CountsError(todo, failed)
    <3>1. /\ Rise("requests") = 0 /\ Rise("timed") = 0 /\ Rise("errors") = 1
          /\ Rise("failures") = 0 /\ Rise("fast") = 0
      BY <1>3, <1>6, <2>3 DEF CountsError
    <3>2. ~Now("requests", "timed") /\ In("timed", "errors") /\ ~Now("timed", "errors")
      BY <1>2, <2>3 DEF CountsError
    <3> QED BY <3>1, <3>2
  <2>4. CASE CountsFailure(todo)
    <3>1. /\ Rise("requests") = 0 /\ Rise("timed") = 0 /\ Rise("errors") = 0
          /\ Rise("failures") = 1 /\ Rise("fast") = 0
      BY <1>3, <1>6, <2>4 DEF CountsFailure
    <3>2. /\ ~Now("requests", "timed") /\ ~Now("timed", "errors")
          /\ In("errors", "failures") /\ ~Now("errors", "failures")
      BY <1>2, <2>4 DEF CountsFailure
    <3> QED BY <3>1, <3>2
  <2> QED BY <1>1, <2>1, <2>2, <2>3, <2>4
<1>8. counters'[t]["fast"] <= counters'[t]["timed"]
  <2>1. /\ counters[t]["fast"] \in Nat /\ counters[t]["timed"] \in Nat
        /\ counters'[t]["fast"] \in Nat /\ counters'[t]["timed"] \in Nat
    BY <1>3, <1>6
  <2> QED BY <1>4, <1>7, <2>1 DEF Rise
<1>9. /\ Behind(t, "requests", "timed")' /\ Behind(t, "timed", "errors")'
      /\ Behind(t, "errors", "failures")'
  BY <1>4, <1>5, <1>6, <1>7
<1> QED BY <1>8, <1>9

\* hidden counts the canary's failed requests between their request and error.
LEMMA CountHidden ==
  ASSUME TypeOK, CountersBalance, NEW w \in Threads, Count(w)
  PROVE  hidden' = Cardinality(Between("canary", "requests", "errors")')
<1> PICK t, todo, failed : t = thread[w].tier /\ todo = thread[w].todo /\ failed = thread[w].failed
  OBVIOUS
<1> DEFINE before == w \in Between("canary", "requests", "errors")
           after == w \in Between("canary", "requests", "errors")'
<1>1. /\ failed \in BOOLEAN
      /\ thread'[w] = [tier |-> t, todo |-> Tail(todo), failed |-> failed]
      /\ \A v \in Threads : v # w => thread'[v] = thread[v]
      /\ \/ CountsRequest(todo, failed) \/ CountsTiming(todo, failed)
         \/ CountsError(todo, failed) \/ CountsFailure(todo)
  BY CountStep
<1>2. Cardinality(Between("canary", "requests", "errors")') =
         hidden + (IF after THEN 1 ELSE 0) - (IF before THEN 1 ELSE 0)
  BY <1>1, BetweenMoves, BalanceParts
<1>3. hidden' = hidden + Uncovered(t, Head(todo), failed) - Covered(t, Head(todo))
  BY DEF Count
<1>4. /\ before <=> t = "canary" /\ "requests" \notin Owing(todo) /\ "errors" \in Owing(todo)
      /\ after <=> t = "canary" /\ "requests" \notin Owing(Tail(todo))
                                /\ "errors" \in Owing(Tail(todo))
  <2>1. thread'[w].tier = t /\ thread'[w].todo = Tail(todo)
    BY <1>1
  <2> QED BY <2>1, BetweenMember
<1>5. hidden \in Nat
  BY DEF TypeOK
<1> HIDE DEF before, after
<1>6. CASE t # "canary"
  BY <1>2, <1>3, <1>4, <1>5, <1>6 DEF Uncovered, Covered
<1>7. CASE t = "canary" /\ CountsRequest(todo, failed)
  <2>1. ~before /\ (after <=> failed)
    BY <1>4, <1>7 DEF CountsRequest
  <2>2. Covered(t, Head(todo)) = 0 /\ Uncovered(t, Head(todo), failed) = IF failed THEN 1 ELSE 0
    BY <1>7 DEF CountsRequest, Uncovered, Covered
  <2> QED BY <1>1, <1>2, <1>3, <1>5, <2>1, <2>2
<1>8. CASE t = "canary" /\ CountsTiming(todo, failed)
  <2>1. after <=> before
    BY <1>4, <1>8 DEF CountsTiming
  <2>2. Covered(t, Head(todo)) = 0 /\ Uncovered(t, Head(todo), failed) = 0
    BY <1>8 DEF CountsTiming, Timings, Uncovered, Covered
  <2> QED BY <1>2, <1>3, <1>5, <2>1, <2>2
<1>9. CASE t = "canary" /\ CountsError(todo, failed)
  <2>1. before /\ ~after
    BY <1>4, <1>9 DEF CountsError
  <2>2. Covered(t, Head(todo)) = 1 /\ Uncovered(t, Head(todo), failed) = 0
    BY <1>9 DEF CountsError, Uncovered, Covered
  <2> QED BY <1>2, <1>3, <1>5, <2>1, <2>2
<1>10. CASE t = "canary" /\ CountsFailure(todo)
  <2>1. ~before /\ ~after
    BY <1>4, <1>10 DEF CountsFailure
  <2>2. Covered(t, Head(todo)) = 0 /\ Uncovered(t, Head(todo), failed) = 0
    BY <1>10 DEF CountsFailure, Uncovered, Covered
  <2> QED BY <1>2, <1>3, <1>5, <2>1, <2>2
<1> QED BY <1>1, <1>6, <1>7, <1>8, <1>9, <1>10

\* Counting keeps every tier in balance.
LEMMA CountBalances ==
  ASSUME TypeOK, CountersBalance, NEW w \in Threads, Count(w)
  PROVE  CountersBalance'
<1> PICK t, todo, failed : t = thread[w].tier /\ todo = thread[w].todo /\ failed = thread[w].failed
  OBVIOUS
<1>0. /\ t \in Tiers
      /\ thread'[w] = [tier |-> t, todo |-> Tail(todo), failed |-> failed]
      /\ \A v \in Threads : v # w => thread'[v] = thread[v]
      /\ \A u \in Tiers : u # t => counters'[u] = counters[u]
  BY CountStep
<1>1. /\ t \in Tiers /\ \A v \in Threads : v # w => thread'[v] = thread[v]
      /\ thread'[w].tier = t
      /\ \A u \in Tiers : u # t => counters'[u] = counters[u]
  BY <1>0
<1>2. /\ Behind(t, "requests", "timed")' /\ Behind(t, "timed", "errors")'
      /\ Behind(t, "errors", "failures")'
      /\ counters'[t]["fast"] <= counters'[t]["timed"]
  BY CountBehind
<1>3. ASSUME NEW u \in Tiers, u # t
      PROVE  /\ Behind(u, "requests", "timed")' /\ Behind(u, "timed", "errors")'
             /\ Behind(u, "errors", "failures")'
             /\ counters'[u]["fast"] <= counters'[u]["timed"]
  <2>1. \A made, due : w \notin Between(u, made, due) /\ w \notin Between(u, made, due)'
    BY <1>1, <1>3, BetweenMember
  <2>2. counters'[u] = counters[u]
    BY <1>1, <1>3
  <2>3. /\ Behind(u, "requests", "timed") /\ Behind(u, "timed", "errors")
        /\ Behind(u, "errors", "failures") /\ counters[u]["fast"] <= counters[u]["timed"]
    BY BalanceParts
  <2> QED BY <1>1, <2>1, <2>2, <2>3, BehindElsewhere
<1>4. hidden' = Cardinality(Between("canary", "requests", "errors")')
  BY CountHidden
<1>5. \A u \in Tiers : /\ Behind(u, "requests", "timed")' /\ Behind(u, "timed", "errors")'
                       /\ Behind(u, "errors", "failures")'
                       /\ counters'[u]["fast"] <= counters'[u]["timed"]
  BY <1>2, <1>3
<1>6. CountersBalance' <=>
        /\ hidden' = Cardinality(Between("canary", "requests", "errors")')
        /\ \A u \in Tiers : /\ Behind(u, "requests", "timed")' /\ Behind(u, "timed", "errors")'
                            /\ Behind(u, "errors", "failures")'
                            /\ counters'[u]["fast"] <= counters'[u]["timed"]
  BY DEF CountersBalance, Behind
<1> QED BY <1>4, <1>5, <1>6

\* What Answer gives a thread to do.
LEMMA AnswerStep ==
  ASSUME TypeOK, NEW w \in Threads, NEW request \in Traffic, Answer(w, request)
  PROVE  \E f \in BOOLEAN : \E todo \in Pending(f) :
            /\ thread' = [thread EXCEPT ![w] = [tier |-> request.tier, todo |-> todo, failed |-> f]]
            /\ thread'[w] = [tier |-> request.tier, todo |-> todo, failed |-> f]
            /\ {"requests", "timed"} \subseteq Owing(todo)
            /\ "failures" \in Owing(todo) => "errors" \in Owing(todo)
            /\ request.tier \in Tiers
            /\ \A v \in Threads : v # w => thread'[v] = thread[v]
<1>1. request \in [tier : Tiers, outcome : Outcomes, quick : BOOLEAN]
  BY TrafficAssumption
<1> DEFINE f == request.outcome # "scored"
           todo == Increments(request)
<1>2. PICK T \in Timings :
        todo \in IF request.outcome = "scored"
                 THEN {<<{"requests"}, T>>}
                 ELSE {<<{"requests"}, T, {"errors"}>>,
                       <<{"requests"}, T, {"errors"}, {"failures"}>>}
  BY <1>1, IncrementList
<1>3. f \in BOOLEAN
  OBVIOUS
<1>4. todo \in IF f THEN {<<{"requests"}, T, {"errors"}>>,
                          <<{"requests"}, T, {"errors"}, {"failures"}>>}
                    ELSE {<<{"requests"}, T>>}
  BY <1>2
<1>5. thread' = [thread EXCEPT ![w] = [tier |-> request.tier, todo |-> todo, failed |-> f]]
  BY DEF Answer
<1> HIDE DEF f, todo
<1>6. /\ todo \in Pending(f) /\ {"requests", "timed"} \subseteq Owing(todo)
      /\ "failures" \in Owing(todo) => "errors" \in Owing(todo)
  BY <1>3, <1>4, PendingFresh
<1>7. DOMAIN thread = Threads
  BY DEF TypeOK
<1>8. /\ thread'[w] = [tier |-> request.tier, todo |-> todo, failed |-> f]
      /\ \A v \in Threads : v # w => thread'[v] = thread[v]
  BY <1>5, <1>7
<1> QED BY <1>1, <1>3, <1>5, <1>6, <1>8

\* A request that arrives has made no count, so no tier is further behind.
LEMMA AnswerBalances ==
  ASSUME TypeOK, CountersBalance, NEW w \in Threads, NEW request \in Traffic, Answer(w, request)
  PROVE  CountersBalance'
<1>0. PICK f \in BOOLEAN : \E todo \in Pending(f) :
        /\ thread'[w] = [tier |-> request.tier, todo |-> todo, failed |-> f]
        /\ {"requests", "timed"} \subseteq Owing(todo)
        /\ "failures" \in Owing(todo) => "errors" \in Owing(todo)
        /\ \A v \in Threads : v # w => thread'[v] = thread[v]
  BY AnswerStep
<1>1. PICK todo \in Pending(f) :
        /\ thread'[w] = [tier |-> request.tier, todo |-> todo, failed |-> f]
        /\ {"requests", "timed"} \subseteq Owing(todo)
        /\ "failures" \in Owing(todo) => "errors" \in Owing(todo)
        /\ \A v \in Threads : v # w => thread'[v] = thread[v]
  BY <1>0
<1>2. thread[w].todo = <<>> /\ counters' = counters /\ hidden' = hidden
  BY DEF Answer
<1>3. \A t, made, due : w \notin Between(t, made, due)
  <2>1. Owing(<<>>) = {}
    BY DEF Owing
  <2> QED BY <1>2, <2>1, BetweenMember
<1>4. \A t : /\ w \notin Between(t, "requests", "timed")' /\ w \notin Between(t, "timed", "errors")'
             /\ w \notin Between(t, "errors", "failures")' /\ w \notin Between(t, "requests", "errors")'
  <2>1. thread'[w].todo = todo
    BY <1>1
  <2> QED BY <1>1, <2>1, BetweenMember
<1>5. ASSUME NEW t \in Tiers
      PROVE  /\ Behind(t, "requests", "timed")' /\ Behind(t, "timed", "errors")'
             /\ Behind(t, "errors", "failures")'
             /\ counters'[t]["fast"] <= counters'[t]["timed"]
  <2>1. /\ Behind(t, "requests", "timed") /\ Behind(t, "timed", "errors")
        /\ Behind(t, "errors", "failures") /\ counters[t]["fast"] <= counters[t]["timed"]
    BY BalanceParts
  <2>2. counters'[t] = counters[t]
    BY <1>2
  <2> QED BY <1>1, <1>3, <1>4, <2>1, <2>2, BehindElsewhere
<1>6. hidden' = Cardinality(Between("canary", "requests", "errors")')
  <2>1. hidden = Cardinality(Between("canary", "requests", "errors"))
    BY BalanceParts
  <2>2. Cardinality(Between("canary", "requests", "errors")')
           = Cardinality(Between("canary", "requests", "errors"))
    BY <1>1, <1>3, <1>4, BetweenMoves, BetweenFinite
  <2> QED BY <1>2, <2>1, <2>2
<1> QED BY <1>5, <1>6 DEF CountersBalance, Behind

\* The evaluator moves neither the counters nor the threads.
LEMMA EvaluatorBalances ==
  ASSUME CountersBalance, UNCHANGED <<counters, thread, hidden>>
  PROVE  CountersBalance'
<1>1. \A t, made, due : Between(t, made, due)' = Between(t, made, due)
  BY DEF Between, Owed
<1> QED BY <1>1 DEF CountersBalance

(* What a reading can have missed. *)

\* More fast requests among as many make the p95 no longer.
LEMMA P95Antitone ==
  ASSUME NEW a, NEW b, {a.fast, a.timed, b.fast, b.timed} \subseteq Nat,
         a.timed = b.timed, b.fast <= a.fast
  PROVE  P95(a) \in Nat /\ P95(a) <= P95(b)
<1>1. 100 * b.fast <= 100 * a.fast
  OBVIOUS
<1>2. CASE 100 * b.fast >= 95 * b.timed
  BY <1>1, <1>2 DEF P95
<1>3. CASE ~(100 * b.fast >= 95 * b.timed)
  BY <1>1, <1>3 DEF P95
<1> QED BY <1>2, <1>3

\* A window since a clean baseline is what the counters say.
LEMMA CleanWindow ==
  ASSUME NEW now \in [Fields -> Nat]
  PROVE  Delta(now, Zero) = now
<1>1. \A f \in Fields : Zero[f] = 0 /\ now[f] \in Nat
  BY DEF Zero
<1>2. \A f \in Fields : (IF now[f] >= Zero[f] THEN now[f] - Zero[f] ELSE 0) = now[f]
  BY <1>1
<1>3. Delta(now, Zero) = [f \in Fields |-> now[f]]
  BY <1>2 DEF Delta
<1> QED BY <1>3

\* The part of a tier's balance that the readings rely on.
LEMMA CanaryBalance ==
  ASSUME TypeOK, CountersBalance
  PROVE  /\ hidden \in Nat /\ hidden <= Cardinality(Threads) /\ Cardinality(Threads) \in Nat
         /\ \A t \in Tiers : /\ counters[t].failures <= counters[t].errors
                             /\ counters[t].errors <= counters[t].requests
                             /\ counters[t].fast <= counters[t].timed
                             /\ counters[t].timed <= counters[t].requests
<1>1. hidden = Cardinality(Between("canary", "requests", "errors"))
  BY BalanceParts
<1>2. ASSUME NEW t \in Tiers
      PROVE  /\ counters[t].failures <= counters[t].errors
             /\ counters[t].errors <= counters[t].requests
             /\ counters[t].fast <= counters[t].timed
             /\ counters[t].timed <= counters[t].requests
  <2>1. \A f \in Fields : counters[t][f] \in Nat
    BY DEF TypeOK
  <2>2. {"requests", "errors", "failures", "fast", "timed"} \subseteq Fields
    BY DEF Fields
  <2>3. /\ Cardinality(Between(t, "requests", "timed")) \in Nat
        /\ Cardinality(Between(t, "timed", "errors")) \in Nat
        /\ Cardinality(Between(t, "errors", "failures")) \in Nat
    BY BetweenFinite
  <2>4. /\ counters[t]["timed"] + Cardinality(Between(t, "requests", "timed")) <= counters[t]["requests"]
        /\ counters[t]["errors"] + Cardinality(Between(t, "timed", "errors")) <= counters[t]["timed"]
        /\ counters[t]["failures"] + Cardinality(Between(t, "errors", "failures")) <= counters[t]["errors"]
        /\ counters[t]["fast"] <= counters[t]["timed"]
    BY BalanceParts DEF Behind
  <2> QED BY <2>1, <2>2, <2>3, <2>4
<1> QED BY <1>1, <1>2, BetweenFinite

(* Reading one value. *)

\* What ReadInto and Advance do, for whichever store is being filled.
LEMMA ReadStep ==
  ASSUME TypeOK, NEW store, store \in [Tiers -> [Fields -> Nat]], NEW store2,
         NEW r, r = Readings[reader.next],
         store2 = [store EXCEPT ![r.tier][r.field] = counters[r.tier][r.field]]
  PROVE  /\ r \in [tier : Tiers, field : Fields]
         /\ store2 \in [Tiers -> [Fields -> Nat]]
         /\ \A t \in Tiers, f \in Fields :
               store2[t][f] = IF t = r.tier /\ f = r.field THEN counters[t][f] ELSE store[t][f]
<1>1. r \in [tier : Tiers, field : Fields]
  BY ReadingList DEF TypeOK
<1>2. r.tier \in Tiers /\ r.field \in Fields /\ counters[r.tier][r.field] \in Nat
  BY <1>1 DEF TypeOK
<1>3. store2 = [store EXCEPT ![r.tier] = [store[r.tier] EXCEPT ![r.field] = counters[r.tier][r.field]]]
  OBVIOUS
<1>4. [store[r.tier] EXCEPT ![r.field] = counters[r.tier][r.field]] \in [Fields -> Nat]
  BY <1>2
<1>5. store2 \in [Tiers -> [Fields -> Nat]]
  BY <1>2, <1>3, <1>4
<1>6. \A t \in Tiers, f \in Fields :
         store2[t][f] = IF t = r.tier /\ f = r.field THEN counters[t][f] ELSE store[t][f]
  BY <1>2, <1>3
<1> QED BY <1>1, <1>5, <1>6

\* Where the reader is after one value.
LEMMA AdvanceStep ==
  ASSUME TypeOK, Advance
  PROVE  /\ reader' \in [task : {"mark", "idle", "read", "judge"}, next : 1..Len(Readings)]
         /\ reader.next \in 1..10
         /\ IF reader.next < 10
            THEN reader'.task = reader.task /\ reader'.next = reader.next + 1
            ELSE reader'.task = IF reader.task = "mark" THEN "idle" ELSE "judge"
<1>1. Len(Readings) = 10
  BY ReadingList
<1>2. /\ reader.next \in 1..10 /\ reader.task \in {"mark", "idle", "read", "judge"}
      /\ reader \in [task : {"mark", "idle", "read", "judge"}, next : 1..10]
  BY <1>1 DEF TypeOK
<1>3. CASE reader.next < 10
  <2>1. reader' = [reader EXCEPT !.next = reader.next + 1]
    BY <1>1, <1>3 DEF Advance
  <2>2. reader.next + 1 \in 1..10
    BY <1>2, <1>3
  <2> QED BY <1>1, <1>2, <1>3, <2>1, <2>2
<1>4. CASE ~(reader.next < 10)
  <2>1. reader' = [task |-> IF reader.task = "mark" THEN "idle" ELSE "judge", next |-> 1]
    BY <1>1, <1>4 DEF Advance
  <2> QED BY <1>1, <1>2, <1>4, <2>1
<1> QED BY <1>3, <1>4

(* One lemma per action: it keeps the inductive invariant. *)

\* A request that arrives reaches no counter yet.
LEMMA AnswerKeeps ==
  ASSUME EInv, NEW w \in Threads, NEW request \in Traffic, Answer(w, request)
  PROVE  EInv'
<1> USE DEF EInv
<1>0. PICK f \in BOOLEAN : \E todo \in Pending(f) :
        /\ thread' = [thread EXCEPT ![w] = [tier |-> request.tier, todo |-> todo, failed |-> f]]
        /\ thread'[w] = [tier |-> request.tier, todo |-> todo, failed |-> f]
        /\ request.tier \in Tiers
        /\ \A v \in Threads : v # w => thread'[v] = thread[v]
  BY AnswerStep
<1>1. PICK todo \in Pending(f) :
        /\ thread' = [thread EXCEPT ![w] = [tier |-> request.tier, todo |-> todo, failed |-> f]]
        /\ thread'[w] = [tier |-> request.tier, todo |-> todo, failed |-> f]
        /\ request.tier \in Tiers
        /\ \A v \in Threads : v # w => thread'[v] = thread[v]
  BY <1>0
<1>2. /\ UNCHANGED <<counters, baseline, sample, reader, gauge, verdict, hidden, seen>>
      /\ request.tier = "canary" => reader.task # "mark"
  BY DEF Answer
<1>3. TypeOK'
  <2>1. served' \in [Tiers -> Nat]
    BY <1>1 DEF Answer, TypeOK
  <2>2. thread' \in [Threads -> Handlers]
    BY <1>1, ThreadUpdated
  <2> QED BY <1>2, <2>1, <2>2 DEF TypeOK
<1>4. CountersBalance'
  BY AnswerBalances
<1>5. BaselineClean'
  <2>1. thread'[w].tier = request.tier
    BY <1>1
  <2> QED BY <1>1, <1>2, <2>1 DEF BaselineClean
<1>6. ReadingBounds'
  BY <1>2 DEF ReadingBounds, Taken, Signals
<1> QED BY <1>3, <1>4, <1>5, <1>6

\* A counter that grows only loosens the bounds on what was read before.
LEMMA CountKeeps ==
  ASSUME EInv, NEW w \in Threads, Count(w)
  PROVE  EInv'
<1> USE DEF EInv
<1> PICK t, todo, failed : t = thread[w].tier /\ todo = thread[w].todo /\ failed = thread[w].failed
  OBVIOUS
<1>1. /\ t \in Tiers /\ failed \in BOOLEAN /\ todo # <<>>
      /\ thread' = [thread EXCEPT ![w] = [tier |-> t, todo |-> Tail(todo), failed |-> failed]]
      /\ thread'[w] = [tier |-> t, todo |-> Tail(todo), failed |-> failed]
      /\ \A v \in Threads : v # w => thread'[v] = thread[v]
      /\ Tail(todo) \in Pending(failed)
      /\ counters' \in [Tiers -> [Fields -> Nat]]
      /\ \A f \in Fields : counters'[t][f] =
            IF f \in Head(todo) THEN counters[t][f] + 1 ELSE counters[t][f]
      /\ \A u \in Tiers : u # t => counters'[u] = counters[u]
  BY CountStep
<1>2. UNCHANGED <<baseline, sample, reader, gauge, verdict, served, seen>>
  BY DEF Count
<1>3. CountersBalance'
  BY CountBalances
<1>4. TypeOK'
  <2>1. hidden' \in Nat
    <3>1. Between("canary", "requests", "errors")' \subseteq Threads
      BY DEF Between
    <3> QED BY <3>1, CountHidden, ThreadSets
  <2>2. thread' \in [Threads -> Handlers]
    BY <1>1, ThreadUpdated
  <2> QED BY <1>1, <1>2, <2>1, <2>2 DEF TypeOK
<1>5. BaselineClean'
  <2>1. reader.task = "mark" => t # "canary"
    BY <1>1 DEF BaselineClean
  <2>2. thread'[w].tier = t
    BY <1>1
  <2>3. "canary" \in Tiers
    BY DEF Tiers
  <2> QED BY <1>1, <1>2, <2>1, <2>2, <2>3 DEF BaselineClean
<1>6. ReadingBounds'
  <2>1. \A f \in Fields : counters["canary"][f] \in Nat /\ counters'["canary"][f] \in Nat
                            /\ counters["canary"][f] <= counters'["canary"][f]
    <3>1. "canary" \in Tiers /\ counters \in [Tiers -> [Fields -> Nat]]
      BY DEF Tiers, TypeOK
    <3>2. CASE t = "canary"
      <4> SUFFICES ASSUME NEW f \in Fields
                   PROVE  /\ counters["canary"][f] \in Nat /\ counters'["canary"][f] \in Nat
                          /\ counters["canary"][f] <= counters'["canary"][f]
        OBVIOUS
      <4>1. counters["canary"][f] \in Nat /\ counters'["canary"][f] \in Nat
        BY <1>1, <3>1
      <4>2. counters'["canary"][f] =
               IF f \in Head(todo) THEN counters["canary"][f] + 1 ELSE counters["canary"][f]
        BY <1>1, <3>2
      <4> QED BY <4>1, <4>2
    <3>3. CASE t # "canary"
      BY <1>1, <3>1, <3>3
    <3> QED BY <3>2, <3>3
  <2>2. /\ counters["canary"].errors \in Nat /\ counters'["canary"].errors \in Nat
        /\ counters["canary"].errors <= counters'["canary"].errors
        /\ counters["canary"].fast \in Nat /\ counters'["canary"].fast \in Nat
        /\ counters["canary"].fast <= counters'["canary"].fast
    <3>1. "errors" \in Fields /\ "fast" \in Fields
      BY DEF Fields
    <3> QED BY <2>1, <3>1
  <2>3. /\ seen.failed \in Nat /\ Cardinality(Threads) \in Nat
        /\ sample["canary"].errors \in Nat /\ sample["canary"].fast \in Nat
    BY CanaryBalance DEF TypeOK, Tiers, Fields
  <2>4. Taken(1)' =>
          /\ seen'.failed <= sample'["canary"].requests + Cardinality(Threads)
          /\ seen'.failed <= (IF Taken(2)' THEN sample' ELSE counters')["canary"].errors
                                + Cardinality(Threads)
    BY <1>2, <2>2, <2>3 DEF ReadingBounds, Taken
  <2>5. Taken(4)' => sample'["canary"].fast <= counters'["canary"].fast
    BY <1>2, <2>2, <2>3 DEF ReadingBounds, Taken
  <2>6. Taken(5)' => seen'.p95 <= P95(sample'["canary"])
    BY <1>2 DEF ReadingBounds, Taken
  <2>7. verdict' # "none" =>
          /\ reader'.task = "idle"
          /\ verdict' = EvaluateCanary(Signals("canary"), Signals("production"))'
    BY <1>2 DEF ReadingBounds, Signals
  <2> QED BY <2>4, <2>5, <2>6, <2>7 DEF ReadingBounds
<1> QED BY <1>3, <1>4, <1>5, <1>6

\* The baseline of the canary is read while its counters are still zero.
LEMMA MarkKeeps ==
  ASSUME EInv, Mark
  PROVE  EInv'
<1> USE DEF EInv
<1> PICK r : r = Readings[reader.next]
  OBVIOUS
<1>1. /\ UNCHANGED <<counters, thread, sample, gauge, verdict, served, hidden, seen>>
      /\ reader.task = "mark" /\ Advance
      /\ baseline' = [baseline EXCEPT ![r.tier][r.field] = counters[r.tier][r.field]]
  BY DEF Mark, ReadInto
<1> PICK old, new : old = baseline /\ new = baseline'
  OBVIOUS
<1>2. /\ baseline' \in [Tiers -> [Fields -> Nat]]
      /\ \A t \in Tiers, f \in Fields : baseline'[t][f] =
            IF t = r.tier /\ f = r.field THEN counters[t][f] ELSE baseline[t][f]
  <2>1. old \in [Tiers -> [Fields -> Nat]]
    BY DEF TypeOK
  <2>2. new = [old EXCEPT ![r.tier][r.field] = counters[r.tier][r.field]]
    BY <1>1
  <2> QED BY <2>1, <2>2, ReadStep
<1>3. /\ reader' \in [task : {"mark", "idle", "read", "judge"}, next : 1..Len(Readings)]
      /\ reader'.task \in {"mark", "idle"}
  BY <1>1, AdvanceStep
<1>4. TypeOK'
  BY <1>1, <1>2, <1>3 DEF TypeOK
<1>5. CountersBalance'
  BY <1>1, EvaluatorBalances
<1>6. BaselineClean'
  <2>1. baseline["canary"] = Zero /\ counters["canary"] = Zero
    BY <1>1 DEF BaselineClean
  <2>2. "canary" \in Tiers
    BY DEF Tiers
  <2>3. \A f \in Fields : baseline'["canary"][f] = 0
    BY <1>2, <2>1, <2>2 DEF Zero
  <2>4. baseline'["canary"] = Zero
    BY <1>2, <2>2, <2>3 DEF Zero
  <2> QED BY <1>1, <2>4 DEF BaselineClean
<1>7. ReadingBounds'
  <2>1. verdict' = "none"
    BY <1>1 DEF ReadingBounds
  <2>2. \A i : ~Taken(i)'
    BY <1>3, <2>1 DEF Taken
  <2> QED BY <2>1, <2>2 DEF ReadingBounds
<1> QED BY <1>4, <1>5, <1>6, <1>7

\* An evaluation that begins forgets the one before it.
LEMMA BeginEvaluateKeeps ==
  ASSUME EInv, BeginEvaluate
  PROVE  EInv'
<1> USE DEF EInv
<1>1. /\ UNCHANGED <<counters, thread, baseline, gauge, served, hidden>>
      /\ reader.task = "idle" /\ reader' = [task |-> "read", next |-> 1]
      /\ sample' = [t \in Tiers |-> Zero] /\ verdict' = "none" /\ seen' = NothingSeen
  BY DEF BeginEvaluate
<1>2. TypeOK'
  <2>1. sample' \in [Tiers -> [Fields -> Nat]]
    BY <1>1 DEF Zero
  <2>2. seen' \in [failed : Nat, p95 : Nat]
    BY <1>1 DEF NothingSeen
  <2>3. reader' \in [task : {"mark", "idle", "read", "judge"}, next : 1..Len(Readings)]
    BY <1>1, ReadingList
  <2> QED BY <1>1, <2>1, <2>2, <2>3 DEF TypeOK
<1>3. CountersBalance'
  BY <1>1, EvaluatorBalances
<1>4. BaselineClean'
  BY <1>1 DEF BaselineClean
<1>5. ReadingBounds'
  <2>1. ~Taken(1)' /\ ~Taken(4)' /\ ~Taken(5)'
    BY <1>1 DEF Taken
  <2> QED BY <1>1, <2>1 DEF ReadingBounds
<1> QED BY <1>2, <1>3, <1>4, <1>5

\* A verdict is given on everything that was read.
LEMMA JudgeKeeps ==
  ASSUME EInv, Judge
  PROVE  EInv'
<1> USE DEF EInv
<1>1. /\ UNCHANGED <<counters, thread, baseline, sample, gauge, served, hidden, seen>>
      /\ reader.task = "judge" /\ reader' = [task |-> "idle", next |-> 1]
      /\ verdict' = EvaluateCanary(Signals("canary"), Signals("production"))
  BY DEF Judge
<1>2. verdict' \in Verdicts
  BY <1>1 DEF EvaluateCanary, Verdicts
<1>3. TypeOK'
  <2>1. reader' \in [task : {"mark", "idle", "read", "judge"}, next : 1..Len(Readings)]
    BY <1>1, ReadingList
  <2> QED BY <1>1, <1>2, <2>1 DEF TypeOK
<1>4. CountersBalance'
  BY <1>1, EvaluatorBalances
<1>5. BaselineClean'
  BY <1>1 DEF BaselineClean
<1>6. ReadingBounds'
  <2>1. \A i : Taken(i)
    BY <1>1 DEF Taken
  <2>2. verdict' = EvaluateCanary(Signals("canary"), Signals("production"))'
    <3>1. Signals("canary")' = Signals("canary") /\ Signals("production")' = Signals("production")
      BY <1>1 DEF Signals
    <3> QED BY <1>1, <3>1
  <2>3. \A i : Taken(i)'
    BY <1>1, <1>2 DEF Taken, Verdicts
  <2>4. /\ seen.failed <= sample["canary"].requests + Cardinality(Threads)
        /\ seen.failed <= sample["canary"].errors + Cardinality(Threads)
        /\ sample["canary"].fast <= counters["canary"].fast
        /\ seen.p95 <= P95(sample["canary"])
    BY <2>1 DEF ReadingBounds
  <2>5. /\ seen'.failed <= sample'["canary"].requests + Cardinality(Threads)
        /\ seen'.failed <= (IF Taken(2)' THEN sample' ELSE counters')["canary"].errors
                              + Cardinality(Threads)
        /\ sample'["canary"].fast <= counters'["canary"].fast
        /\ seen'.p95 <= P95(sample'["canary"])
    BY <1>1, <2>3, <2>4
  <2> QED BY <1>1, <2>2, <2>5 DEF ReadingBounds
<1> QED BY <1>3, <1>4, <1>5, <1>6

\* The bounds on what happened, one value read after another: the request
\* count comes first and the error count after it, the fast bucket before the
\* whole histogram.
LEMMA ReadBounds ==
  ASSUME EInv, Read
  PROVE  ReadingBounds'
<1> USE DEF EInv
<1> PICK r, n, old, new : /\ n = reader.next /\ r = Readings[n]
                          /\ old = sample["canary"] /\ new = sample'["canary"]
  OBVIOUS
<1> PICK c, live : c = counters["canary"] /\ live = Cardinality(Threads)
  OBVIOUS
<1>1. /\ UNCHANGED <<counters, thread, baseline, gauge, verdict, served, hidden>>
      /\ reader.task = "read" /\ Advance /\ verdict = "none"
  BY DEF Read, ReadingBounds
<1>2. /\ n \in 1..10
      /\ IF n < 10 THEN reader'.task = "read" /\ reader'.next = n + 1
                   ELSE reader'.task = "judge"
  BY <1>1, AdvanceStep
<1>3. \A i \in 1..10 : (Taken(i) <=> i < n) /\ (Taken(i)' <=> i <= n)
  BY <1>1, <1>2 DEF Taken
<1>4. /\ c \in [Fields -> Nat] /\ old \in [Fields -> Nat] /\ new \in [Fields -> Nat]
      /\ \A f \in Fields : new[f] = IF r.tier = "canary" /\ r.field = f THEN c[f] ELSE old[f]
  <2> PICK s, s2 : s = sample /\ s2 = sample'
    OBVIOUS
  <2>1. s \in [Tiers -> [Fields -> Nat]] /\ counters \in [Tiers -> [Fields -> Nat]]
    BY DEF TypeOK
  <2>2. s2 = [s EXCEPT ![r.tier][r.field] = counters[r.tier][r.field]]
    BY DEF Read, ReadInto
  <2>3. /\ r \in [tier : Tiers, field : Fields] /\ s2 \in [Tiers -> [Fields -> Nat]]
        /\ \A t \in Tiers, f \in Fields :
              s2[t][f] = IF t = r.tier /\ f = r.field THEN counters[t][f] ELSE s[t][f]
    BY <2>1, <2>2, ReadStep
  <2>4. "canary" \in Tiers
    BY DEF Tiers
  <2> QED BY <2>1, <2>3, <2>4
<1>5. /\ seen'.failed = IF r.tier = "canary" /\ r.field = "requests"
                        THEN c.errors + hidden ELSE seen.failed
      /\ seen'.p95 = IF r.tier = "canary" /\ r.field = "timed" THEN P95(c) ELSE seen.p95
  <2>1. Delta(counters["canary"], baseline["canary"]) = c
    BY <1>4, CleanWindow DEF BaselineClean
  <2>2. r \in [tier : Tiers, field : Fields]
    BY <1>2, ReadingList
  <2>3. \A f : (r = [tier |-> "canary", field |-> f]) <=> (r.tier = "canary" /\ r.field = f)
    BY <2>2
  <2>4. seen' = [failed |-> IF r = [tier |-> "canary", field |-> "requests"]
                            THEN c.errors + hidden ELSE seen.failed,
                 p95 |-> IF r = [tier |-> "canary", field |-> "timed"] THEN P95(c) ELSE seen.p95]
    BY <1>1, <2>1 DEF Read, See
  <2> QED BY <2>3, <2>4
<1>6. /\ hidden \in Nat /\ hidden <= live /\ live \in Nat
      /\ c.errors <= c.requests /\ c.fast <= c.timed
  BY CanaryBalance DEF Tiers
<1>7. /\ {c.requests, c.errors, c.fast, c.timed} \subseteq Nat
      /\ {old.requests, old.errors, old.fast, old.timed} \subseteq Nat
      /\ seen.failed \in Nat /\ seen.p95 \in Nat
  <2>1. {"requests", "errors", "fast", "timed"} \subseteq Fields
    BY DEF Fields
  <2>2. seen.failed \in Nat /\ seen.p95 \in Nat
    BY DEF TypeOK
  <2> QED BY <1>4, <2>1, <2>2
<1>8. /\ n > 1 => seen.failed <= old.requests + live
      /\ n > 1 => seen.failed <= (IF n > 2 THEN old.errors ELSE c.errors) + live
      /\ n > 4 => old.fast <= c.fast
      /\ n > 5 => seen.p95 <= P95(old)
  <2>1. 1 \in 1..10 /\ 2 \in 1..10 /\ 4 \in 1..10 /\ 5 \in 1..10
    OBVIOUS
  <2> QED BY <1>2, <1>3, <2>1 DEF ReadingBounds
<1>9. /\ seen'.failed <= new.requests + live
      /\ seen'.failed <= (IF 2 <= n THEN new.errors ELSE c.errors) + live
      /\ 4 <= n => new.fast <= c.fast
      /\ 5 <= n => seen'.p95 <= P95(new)
  <2>0. {"requests", "errors", "failures", "fast", "timed"} \subseteq Fields
    BY DEF Fields
  <2>1. CASE n = 1
    <3>1. r.tier = "canary" /\ r.field = "requests"
      BY <2>1, ReadingList
    <3>2. new.requests = c.requests /\ seen'.failed = c.errors + hidden
      BY <1>4, <1>5, <2>0, <3>1
    <3> QED BY <1>6, <1>7, <2>1, <3>2
  <2>2. CASE n = 2
    <3>1. r.tier = "canary" /\ r.field = "errors"
      BY <2>2, ReadingList
    <3>2. new.requests = old.requests /\ new.errors = c.errors /\ seen'.failed = seen.failed
      BY <1>4, <1>5, <2>0, <3>1
    <3> QED BY <1>8, <2>2, <3>2
  <2>3. CASE n = 3
    <3>1. r.tier = "canary" /\ r.field = "failures"
      BY <2>3, ReadingList
    <3>2. new.requests = old.requests /\ new.errors = old.errors /\ seen'.failed = seen.failed
      BY <1>4, <1>5, <2>0, <3>1
    <3> QED BY <1>8, <2>3, <3>2
  <2>4. CASE n = 4
    <3>1. r.tier = "canary" /\ r.field = "fast"
      BY <2>4, ReadingList
    <3>2. /\ new.requests = old.requests /\ new.errors = old.errors /\ new.fast = c.fast
          /\ seen'.failed = seen.failed
      BY <1>4, <1>5, <2>0, <3>1
    <3> QED BY <1>7, <1>8, <2>4, <3>2
  <2>5. CASE n = 5
    <3>1. r.tier = "canary" /\ r.field = "timed"
      BY <2>5, ReadingList
    <3>2. /\ new.requests = old.requests /\ new.errors = old.errors /\ new.fast = old.fast
          /\ new.timed = c.timed /\ seen'.failed = seen.failed /\ seen'.p95 = P95(c)
      BY <1>4, <1>5, <2>0, <3>1
    <3>3. P95(c) <= P95(new)
      BY <1>7, <1>8, <2>5, <3>2, P95Antitone
    <3> QED BY <1>8, <2>5, <3>2, <3>3
  <2>6. CASE n > 5
    <3>1. r.tier = "production"
      BY <1>2, <2>6, ReadingList
    <3>2. \A f \in Fields : new[f] = old[f]
      BY <1>4, <3>1
    <3>3. new = old
      BY <1>4, <3>2
    <3>4. seen'.failed = seen.failed /\ seen'.p95 = seen.p95
      BY <1>5, <3>1
    <3>5. new.requests = old.requests /\ new.errors = old.errors /\ new.fast = old.fast
      BY <3>3
    <3>6. n > 1 /\ n > 2 /\ n > 4 /\ 2 <= n /\ 4 <= n /\ 5 <= n
      BY <1>2, <2>6
    <3> QED BY <1>8, <2>6, <3>3, <3>4, <3>5, <3>6
  <2> QED BY <1>2, <2>1, <2>2, <2>3, <2>4, <2>5, <2>6
<1>10. /\ 1 \in 1..10 /\ 2 \in 1..10 /\ 4 \in 1..10 /\ 5 \in 1..10
       /\ (2 <= n <=> Taken(2)') /\ (4 <= n <=> Taken(4)') /\ (5 <= n <=> Taken(5)')
  BY <1>3
<1>11. counters'["canary"] = c /\ sample'["canary"] = new /\ verdict' = "none"
  BY <1>1
<1>12. /\ seen'.failed <= sample'["canary"].requests + Cardinality(Threads)
       /\ seen'.failed <= (IF Taken(2)' THEN sample' ELSE counters')["canary"].errors
                             + Cardinality(Threads)
       /\ Taken(4)' => sample'["canary"].fast <= counters'["canary"].fast
       /\ Taken(5)' => seen'.p95 <= P95(sample'["canary"])
  BY <1>9, <1>10, <1>11
<1> QED BY <1>11, <1>12 DEF ReadingBounds

\* Reading a value changes the sample, what was seen and the reader.
LEMMA ReadKeeps ==
  ASSUME EInv, Read
  PROVE  EInv'
<1> USE DEF EInv
<1>1. /\ UNCHANGED <<counters, thread, baseline, gauge, verdict, served, hidden>>
      /\ reader.task = "read" /\ Advance
  BY DEF Read
<1>2. TypeOK'
  <2> PICK r, s, s2 : r = Readings[reader.next] /\ s = sample /\ s2 = sample'
    OBVIOUS
  <2>1. s \in [Tiers -> [Fields -> Nat]]
    BY DEF TypeOK
  <2>2. s2 = [s EXCEPT ![r.tier][r.field] = counters[r.tier][r.field]]
    BY DEF Read, ReadInto
  <2>3. s2 \in [Tiers -> [Fields -> Nat]]
    BY <2>1, <2>2, ReadStep
  <2>4. reader' \in [task : {"mark", "idle", "read", "judge"}, next : 1..Len(Readings)]
    BY <1>1, AdvanceStep
  <2>5. seen' \in [failed : Nat, p95 : Nat]
    <3> PICK c : c = counters["canary"]
      OBVIOUS
    <3>1. c \in [Fields -> Nat]
      BY DEF TypeOK, Tiers
    <3>2. Delta(counters["canary"], baseline["canary"]) = c
      BY <3>1, CleanWindow DEF BaselineClean
    <3>3. c.errors \in Nat /\ hidden \in Nat /\ seen.failed \in Nat /\ seen.p95 \in Nat
      BY <3>1 DEF Fields, TypeOK
    <3>4. P95(c) \in Nat
      BY DEF P95
    <3>5. seen' = [failed |-> IF r = [tier |-> "canary", field |-> "requests"]
                              THEN c.errors + hidden ELSE seen.failed,
                   p95 |-> IF r = [tier |-> "canary", field |-> "timed"] THEN P95(c) ELSE seen.p95]
      BY <3>2 DEF Read, See
    <3> QED BY <3>3, <3>4, <3>5
  <2> QED BY <1>1, <2>3, <2>4, <2>5 DEF TypeOK
<1>3. CountersBalance'
  BY <1>1, EvaluatorBalances
<1>4. BaselineClean'
  <2>1. reader'.task # "mark"
    BY <1>1, AdvanceStep
  <2> QED BY <1>1, <2>1 DEF BaselineClean
<1> QED BY <1>2, <1>3, <1>4, ReadBounds

\* At start nothing has been counted, read or owed.
LEMMA InitInvariant == Init => EInv
<1> SUFFICES ASSUME Init PROVE EInv
  OBVIOUS
<1>1. \A w \in Threads : thread[w] = Free
  BY DEF Init
<1>2. \A w \in Threads : thread[w].todo = <<>>
  BY <1>1 DEF Free
<1>3. \A t \in Tiers, f \in Fields : counters[t][f] = 0
  BY DEF Init, Zero
<1>4. TypeOK
  <2>1. /\ counters \in [Tiers -> [Fields -> Nat]] /\ baseline \in [Tiers -> [Fields -> Nat]]
        /\ sample \in [Tiers -> [Fields -> Nat]]
    BY DEF Init, Zero
  <2>2. Free \in Handlers
    <3>1. <<>> \in Pending(FALSE)
      BY DEF Pending
    <3>2. Free \in [tier : Tiers, todo : Pending(FALSE), failed : {FALSE}]
      BY <3>1 DEF Free, Tiers
    <3> QED BY <3>2 DEF Handlers
  <2>3. reader \in [task : {"mark", "idle", "read", "judge"}, next : 1..Len(Readings)]
    BY ReadingList DEF Init
  <2>4. seen \in [failed : Nat, p95 : Nat]
    BY DEF Init, NothingSeen
  <2>5. served \in [Tiers -> Nat]
    BY DEF Init
  <2>6. thread \in [Threads -> Handlers]
    BY <2>2 DEF Init
  <2> QED BY <2>1, <2>3, <2>4, <2>5, <2>6 DEF Init, TypeOK
<1>5. CountersBalance
  <2>1. \A t, made, due : Between(t, made, due) = {}
    <3>1. Owing(<<>>) = {}
      BY DEF Owing
    <3> QED BY <1>2, <3>1 DEF Between, Owed
  <2>2. Cardinality({}) = 0
    BY FS_EmptySet
  <2>3. hidden = Cardinality(Between("canary", "requests", "errors"))
    BY <2>1, <2>2 DEF Init
  <2>4. \A t \in Tiers : /\ Behind(t, "requests", "timed") /\ Behind(t, "timed", "errors")
                         /\ Behind(t, "errors", "failures")
                         /\ counters[t]["fast"] <= counters[t]["timed"]
    <3>1. {"requests", "errors", "failures", "fast", "timed"} \subseteq Fields
      BY DEF Fields
    <3>2. \A t, made, due : Cardinality(Between(t, made, due)) = 0
      BY <2>1, <2>2
    <3>3. \A t \in Tiers : \A made, due \in Fields : Behind(t, made, due)
      BY <1>3, <3>2 DEF Behind
    <3>4. \A t \in Tiers : counters[t]["fast"] = 0 /\ counters[t]["timed"] = 0
      BY <1>3, <3>1
    <3> QED BY <3>1, <3>3, <3>4
  <2> QED BY <2>3, <2>4, BalanceParts
<1>6. BaselineClean
  BY <1>2 DEF Init, BaselineClean, Tiers
<1>7. ReadingBounds
  BY DEF Init, ReadingBounds, Taken
<1> QED BY <1>4, <1>5, <1>6, <1>7 DEF EInv

\* Every step of the specification keeps the invariant.
LEMMA NextKeeps == EInv /\ [Next]_vars => EInv'
<1> SUFFICES ASSUME EInv, [Next]_vars PROVE EInv'
  OBVIOUS
<1>1. ASSUME NEW w \in Threads, NEW request \in Traffic, Answer(w, request) PROVE EInv'
  BY <1>1, AnswerKeeps
<1>2. ASSUME NEW w \in Threads, Count(w) PROVE EInv'
  BY <1>2, CountKeeps
<1>3. CASE UNCHANGED vars
  <2>1. \A t, made, due : Between(t, made, due)' = Between(t, made, due)
    BY <1>3 DEF vars, Between, Owed
  <2>2. TypeOK'
    BY <1>3 DEF vars, EInv, TypeOK
  <2>3. CountersBalance'
    BY <1>3, EvaluatorBalances DEF vars, EInv
  <2>4. BaselineClean'
    BY <1>3 DEF vars, EInv, BaselineClean
  <2>5. ReadingBounds'
    BY <1>3 DEF vars, EInv, ReadingBounds, Taken, Signals
  <2> QED BY <2>2, <2>3, <2>4, <2>5 DEF EInv
<1> QED BY <1>1, <1>2, <1>3, MarkKeeps, BeginEvaluateKeeps, ReadKeeps, JudgeKeeps DEF Next

\* Every reachable state satisfies the inductive invariant.
THEOREM EvidenceInvariant == Spec => []EInv
BY InitInvariant, NextKeeps, PTL DEF Spec

\* However many handler threads count, and wherever an increment is
\* interrupted, the counters of a tier tell a possible story.
THEOREM CountersAlwaysCoherent == Spec => []CountersCoherent
<1>1. EInv => CountersCoherent
  <2> SUFFICES ASSUME EInv PROVE CountersCoherent
    OBVIOUS
  <2>1. TypeOK /\ CountersBalance
    BY DEF EInv
  <2> QED BY <2>1, CanaryBalance DEF CountersCoherent
<1> QED BY <1>1, EvidenceInvariant, PTL

\* What a promote verdict says of the canary's window.
LEMMA PromoteMeans ==
  ASSUME EInv, verdict = "promote"
  PROVE  LET c == sample["canary"]
         IN  /\ {c.requests, c.errors} \subseteq Nat
             /\ Signals("canary").requests = c.requests
             /\ c.requests # 0 => 100 * c.errors <= MaxErrorPercent * c.requests
             /\ P95(c) <= MaxLatency
             /\ seen.failed <= c.requests + Cardinality(Threads)
             /\ seen.failed <= c.errors + Cardinality(Threads)
             /\ seen.p95 <= P95(c)
<1> PICK c, s : c = sample["canary"] /\ s = Signals("canary")
  OBVIOUS
<1>1. c \in [Fields -> Nat]
  BY DEF EInv, TypeOK, Tiers
<1>2. Delta(sample["canary"], baseline["canary"]) = c
  BY <1>1, CleanWindow DEF EInv, BaselineClean
<1>3. s.requests = c.requests /\ s.errors = c.errors /\ s.latency = P95(c)
  BY <1>2 DEF Signals
<1>4. verdict = EvaluateCanary(s, Signals("production"))
  BY DEF EInv, ReadingBounds
<1>5. AbsolutelyFit(s)
  BY <1>4 DEF EvaluateCanary
<1>6. Within(ErrorRate(s), MaxErrorPercent) /\ s.latency <= MaxLatency
  BY <1>5 DEF AbsolutelyFit
<1>7. c.requests # 0 => 100 * c.errors <= MaxErrorPercent * c.requests
  BY <1>3, <1>6 DEF Within, ErrorRate, Rate
<1>8. Taken(1) /\ Taken(2) /\ Taken(5)
  BY DEF Taken
<1>9. /\ seen.failed <= c.requests + Cardinality(Threads)
      /\ seen.failed <= c.errors + Cardinality(Threads)
      /\ seen.p95 <= P95(c)
  BY <1>8 DEF EInv, ReadingBounds
<1>10. {c.requests, c.errors} \subseteq Nat
  BY <1>1 DEF Fields
<1> QED BY <1>3, <1>6, <1>7, <1>9, <1>10

\* For any number of handler threads, a promote verdict has missed at most one
\* failed request for each of them.
THEOREM PromoteMissesFewFailures == Spec => []FailuresNotMissed
<1>1. EInv => FailuresNotMissed
  <2> SUFFICES ASSUME EInv, verdict = "promote"
               PROVE  100 * seen.failed <= MaxErrorPercent * Signals("canary").requests
                                              + 100 * Cardinality(Threads)
    BY DEF FailuresNotMissed
  <2> PICK failed, requests, errors, live :
         /\ failed = seen.failed /\ requests = sample["canary"].requests
         /\ errors = sample["canary"].errors /\ live = Cardinality(Threads)
    OBVIOUS
  <2>1. /\ requests \in Nat /\ errors \in Nat /\ Signals("canary").requests = requests
        /\ requests # 0 => 100 * errors <= MaxErrorPercent * requests
        /\ failed <= requests + live /\ failed <= errors + live
    BY PromoteMeans
  <2>2. failed \in Nat /\ live \in Nat /\ MaxErrorPercent \in Nat
    BY CanaryBalance, ThresholdAssumption DEF EInv, TypeOK
  <2>3. PICK allowed \in Nat : allowed = MaxErrorPercent * requests
    BY <2>1, <2>2
  <2>4. CASE requests = 0
    BY <2>1, <2>2, <2>3, <2>4
  <2>5. CASE requests # 0
    <3>1. 100 * errors <= allowed
      BY <2>1, <2>3, <2>5
    <3>2. 100 * failed <= 100 * errors + 100 * live
      BY <2>1, <2>2
    <3>3. 100 * failed <= allowed + 100 * live
      BY <2>1, <2>2, <3>1, <3>2
    <3> QED BY <2>1, <2>3, <3>3
  <2> QED BY <2>4, <2>5
<1> QED BY <1>1, EvidenceInvariant, PTL

\* A promote verdict never rests on a latency tail that reading the histogram
\* bucket by bucket made look shorter.
THEOREM PromoteSeesSlowTail == Spec => []SlowTailNotMissed
<1>1. EInv => SlowTailNotMissed
  <2> SUFFICES ASSUME EInv, verdict = "promote" PROVE seen.p95 <= MaxLatency
    BY DEF SlowTailNotMissed
  <2>1. seen.p95 <= P95(sample["canary"]) /\ P95(sample["canary"]) <= MaxLatency
    BY PromoteMeans
  <2>2. seen.p95 \in Nat /\ MaxLatency \in Nat /\ P95(sample["canary"]) \in Nat
    BY ThresholdAssumption DEF EInv, TypeOK, P95
  <2> QED BY <2>1, <2>2
<1> QED BY <1>1, EvidenceInvariant, PTL

(* Every request counted was answered. *)

\* One thread at a time: when only w's entry changes, a tier's uncounted requests
\* change by w's alone.
LEMMA UncountedMoves ==
  ASSUME NEW w \in Threads, NEW t, \A v \in Threads : v # w => thread'[v] = thread[v]
  PROVE  /\ Cardinality(Uncounted(t)) \in Nat
         /\ Cardinality(Uncounted(t)') =
               Cardinality(Uncounted(t))
                 + (IF w \in Uncounted(t)' THEN 1 ELSE 0)
                 - (IF w \in Uncounted(t) THEN 1 ELSE 0)
<1> DEFINE S == Uncounted(t)
           U == Uncounted(t)'
<1>1. \A v \in Threads : v # w => (v \in S <=> v \in U)
  BY DEF Uncounted, Owed
<1>2. S \in SUBSET Threads /\ U \in SUBSET Threads
  BY DEF Uncounted
<1> HIDE DEF S, U
<1>3. Cardinality(S) \in Nat
            /\ Cardinality(U) = Cardinality(S) + (IF w \in U THEN 1 ELSE 0)
                                                - (IF w \in S THEN 1 ELSE 0)
  BY <1>1, <1>2, OneMoves
<1> QED BY <1>3 DEF S, U

\* An answered request is one more served and one more uncounted.
LEMMA AnswerIsServed ==
  ASSUME TypeOK, CountedWhenAnswered, NEW w \in Threads, NEW request \in Traffic,
         Answer(w, request)
  PROVE  CountedWhenAnswered'
<1>0. PICK f \in BOOLEAN : \E todo \in Pending(f) :
        /\ thread'[w] = [tier |-> request.tier, todo |-> todo, failed |-> f]
        /\ {"requests", "timed"} \subseteq Owing(todo)
        /\ request.tier \in Tiers
        /\ \A v \in Threads : v # w => thread'[v] = thread[v]
  BY AnswerStep
<1>1. PICK todo \in Pending(f) :
        /\ thread'[w] = [tier |-> request.tier, todo |-> todo, failed |-> f]
        /\ {"requests", "timed"} \subseteq Owing(todo)
        /\ request.tier \in Tiers
        /\ \A v \in Threads : v # w => thread'[v] = thread[v]
  BY <1>0
<1>2. thread[w].todo = <<>> /\ counters' = counters /\ sample' = sample
        /\ served' = [served EXCEPT ![request.tier] = served[request.tier] + 1]
  BY DEF Answer
<1>3. /\ served \in [Tiers -> Nat] /\ sample["canary"].requests \in Nat
      /\ \A t \in Tiers : counters[t].requests \in Nat
  BY DEF TypeOK, Tiers, Fields
<1>4. ASSUME NEW t \in Tiers
      PROVE  counters'[t].requests + Cardinality(Uncounted(t)') = served'[t]
  <2>1. w \notin Uncounted(t)
    <3>1. Owing(<<>>) = {}
      BY DEF Owing
    <3> QED BY <1>2, <3>1 DEF Uncounted, Owed
  <2>2. w \in Uncounted(t)' <=> t = request.tier
    <3>1. thread'[w].tier = request.tier /\ thread'[w].todo = todo
      BY <1>1
    <3> QED BY <1>1, <3>1 DEF Uncounted, Owed
  <2>3. Cardinality(Uncounted(t)) \in Nat
          /\ Cardinality(Uncounted(t)') = Cardinality(Uncounted(t))
                + (IF w \in Uncounted(t)' THEN 1 ELSE 0)
                - (IF w \in Uncounted(t) THEN 1 ELSE 0)
    BY <1>1, UncountedMoves
  <2>4. served'[t] = served[t] + (IF t = request.tier THEN 1 ELSE 0)
    BY <1>2, <1>3
  <2>5. counters[t].requests + Cardinality(Uncounted(t)) = served[t] /\ served[t] \in Nat
    BY <1>3 DEF CountedWhenAnswered
  <2>6. counters'[t].requests = counters[t].requests
    BY <1>2
  <2>7. Cardinality(Uncounted(t)') = Cardinality(Uncounted(t)) + (IF t = request.tier THEN 1 ELSE 0)
    BY <2>1, <2>2, <2>3
  <2> QED BY <1>3, <2>3, <2>4, <2>5, <2>6, <2>7
<1>5. sample'["canary"].requests <= served'["canary"]
  <2>1. served'["canary"] \in {served["canary"], served["canary"] + 1} /\ served["canary"] \in Nat
    BY <1>2, <1>3 DEF Tiers
  <2> QED BY <1>2, <1>3, <2>1 DEF CountedWhenAnswered
<1> QED BY <1>4, <1>5 DEF CountedWhenAnswered

\* The first count of a request, and no other, makes it counted.
LEMMA CountIsServed ==
  ASSUME TypeOK, CountedWhenAnswered, NEW w \in Threads, Count(w)
  PROVE  CountedWhenAnswered'
<1> PICK t, todo, failed : t = thread[w].tier /\ todo = thread[w].todo /\ failed = thread[w].failed
  OBVIOUS
<1>1. /\ t \in Tiers
      /\ thread'[w] = [tier |-> t, todo |-> Tail(todo), failed |-> failed]
      /\ \A v \in Threads : v # w => thread'[v] = thread[v]
      /\ \/ CountsRequest(todo, failed) \/ CountsTiming(todo, failed)
         \/ CountsError(todo, failed) \/ CountsFailure(todo)
      /\ \A f \in Fields : counters'[t][f] =
            IF f \in Head(todo) THEN counters[t][f] + 1 ELSE counters[t][f]
      /\ \A u \in Tiers : u # t => counters'[u] = counters[u]
  BY CountStep
<1>2. UNCHANGED <<served, sample>>
  BY DEF Count
<1>3. \A u \in Tiers : counters[u].requests \in Nat /\ served[u] \in Nat
  BY DEF TypeOK, Fields
<1>4. "requests" \in Head(todo) => "requests" \in Owing(todo) /\ "requests" \notin Owing(Tail(todo))
  BY <1>1 DEF CountsRequest, CountsTiming, CountsError, CountsFailure, Timings
<1>5. "requests" \notin Head(todo) =>
         "requests" \notin Owing(todo) /\ "requests" \notin Owing(Tail(todo))
  BY <1>1 DEF CountsRequest, CountsTiming, CountsError, CountsFailure, Timings
<1>6. ASSUME NEW u \in Tiers
      PROVE  counters'[u].requests + Cardinality(Uncounted(u)') = served'[u]
  <2>1. Cardinality(Uncounted(u)) \in Nat
          /\ Cardinality(Uncounted(u)') = Cardinality(Uncounted(u))
                + (IF w \in Uncounted(u)' THEN 1 ELSE 0)
                - (IF w \in Uncounted(u) THEN 1 ELSE 0)
    BY <1>1, UncountedMoves
  <2>2. /\ w \in Uncounted(u) <=> t = u /\ "requests" \in Owing(todo)
        /\ w \in Uncounted(u)' <=> t = u /\ "requests" \in Owing(Tail(todo))
    <3>1. thread'[w].tier = t /\ thread'[w].todo = Tail(todo)
      BY <1>1
    <3> QED BY <3>1 DEF Uncounted, Owed
  <2>3. counters[u].requests + Cardinality(Uncounted(u)) = served[u]
    BY DEF CountedWhenAnswered
  <2>4. CASE u # t
    BY <1>1, <1>2, <2>1, <2>2, <2>3, <2>4
  <2>5. CASE u = t /\ "requests" \in Head(todo)
    <3>1. counters'[u].requests = counters[u].requests + 1
      BY <1>1, <2>5 DEF Fields
    <3> QED BY <1>2, <1>3, <1>4, <2>1, <2>2, <2>3, <2>5, <3>1
  <2>6. CASE u = t /\ "requests" \notin Head(todo)
    <3>1. counters'[u].requests = counters[u].requests
      BY <1>1, <2>6 DEF Fields
    <3> QED BY <1>2, <1>3, <1>5, <2>1, <2>2, <2>3, <2>6, <3>1
  <2> QED BY <2>4, <2>5, <2>6
<1> QED BY <1>2, <1>6 DEF CountedWhenAnswered

\* What a reading finds counted was answered.
LEMMA EvaluatorIsServed ==
  ASSUME TypeOK, CountedWhenAnswered, Mark \/ BeginEvaluate \/ Read \/ Judge
  PROVE  CountedWhenAnswered'
<1>1. UNCHANGED <<counters, thread, served>>
  BY DEF Mark, BeginEvaluate, Read, Judge
<1>2. \A t : Uncounted(t)' = Uncounted(t)
  BY <1>1 DEF Uncounted, Owed
<1>3. "canary" \in Tiers /\ "requests" \in Fields
  BY DEF Tiers, Fields
<1>4. sample'["canary"].requests \in {sample["canary"].requests, 0, counters["canary"].requests}
  <2>1. CASE Mark \/ Judge
    BY <2>1 DEF Mark, Judge
  <2>2. CASE BeginEvaluate
    BY <1>3, <2>2 DEF BeginEvaluate, Zero
  <2>3. CASE Read
    <3>1. PICK r, store2 : r = Readings[reader.next] /\ store2 = sample'
      OBVIOUS
    <3>2. store2 = [sample EXCEPT ![r.tier][r.field] = counters[r.tier][r.field]]
      BY <2>3, <3>1 DEF Read, ReadInto
    <3>3. sample \in [Tiers -> [Fields -> Nat]]
      BY DEF TypeOK
    <3>4. \A t \in Tiers, f \in Fields :
             store2[t][f] = IF t = r.tier /\ f = r.field THEN counters[t][f] ELSE sample[t][f]
      BY <3>1, <3>2, <3>3, ReadStep
    <3> QED BY <1>3, <3>1, <3>4
  <2> QED BY <2>1, <2>2, <2>3
<1>5. counters["canary"].requests <= served["canary"] /\ 0 <= served["canary"]
  <2>1. Cardinality(Uncounted("canary")) \in Nat
    <3>1. Uncounted("canary") \in SUBSET Threads
      BY DEF Uncounted
    <3> QED BY <3>1, ThreadSets
  <2>2. counters["canary"].requests \in Nat /\ served["canary"] \in Nat
    BY <1>3 DEF TypeOK
  <2>3. counters["canary"].requests + Cardinality(Uncounted("canary")) = served["canary"]
    BY <1>3 DEF CountedWhenAnswered
  <2> QED BY <2>1, <2>2, <2>3
<1> QED BY <1>1, <1>2, <1>4, <1>5 DEF CountedWhenAnswered

LEMMA InitIsServed == Init => CountedWhenAnswered
<1> SUFFICES ASSUME Init PROVE CountedWhenAnswered
  OBVIOUS
<1>1. \A t : Uncounted(t) = {}
  <2>1. Owing(<<>>) = {}
    BY DEF Owing
  <2>2. \A w \in Threads : thread[w].todo = <<>>
    BY DEF Init, Free
  <2> QED BY <2>1, <2>2 DEF Uncounted, Owed
<1>2. \A t \in Tiers : counters[t].requests = 0 /\ sample[t].requests = 0 /\ served[t] = 0
  BY DEF Init, Zero, Fields
<1> QED BY <1>1, <1>2, FS_EmptySet DEF CountedWhenAnswered, Tiers

\* However requests are answered, counted and read side by side, no tier counts a
\* request before it is answered, or twice.
THEOREM CountedRequestsWereAnswered == Spec => []CountedWhenAnswered
<1>1. EInv /\ CountedWhenAnswered /\ [Next]_vars => CountedWhenAnswered'
  <2> SUFFICES ASSUME TypeOK, CountedWhenAnswered, [Next]_vars PROVE CountedWhenAnswered'
    BY DEF EInv
  <2>1. CASE UNCHANGED vars
    BY <2>1 DEF vars, CountedWhenAnswered, Uncounted, Owed
  <2> QED BY <2>1, AnswerIsServed, CountIsServed, EvaluatorIsServed DEF Next
<1> QED BY <1>1, InitIsServed, EvidenceInvariant, PTL DEF Spec

\* No threshold, traffic or timing of the readings promotes a candidate that was
\* not asked as often as a promotion requires.
THEOREM PromotedWasMeasured == Spec => []PromoteIsMeasured
<1>1. EInv /\ CountedWhenAnswered => PromoteIsMeasured
  <2> SUFFICES ASSUME EInv, CountedWhenAnswered, verdict = "promote"
               PROVE  MinRequests <= served["canary"]
    BY DEF PromoteIsMeasured
  <2>1. Signals("canary").requests = sample["canary"].requests
          /\ sample["canary"].requests \in Nat
    BY PromoteMeans
  <2>2. ~(Signals("canary").requests < MinRequests)
    <3>1. verdict = EvaluateCanary(Signals("canary"), Signals("production"))
      BY DEF EInv, ReadingBounds
    <3> QED BY <3>1 DEF EvaluateCanary
  <2>3. MinRequests \in Nat /\ served["canary"] \in Nat
    BY ThresholdAssumption DEF EInv, TypeOK, Tiers
  <2> QED BY <2>1, <2>2, <2>3 DEF CountedWhenAnswered
<1> QED BY <1>1, EvidenceInvariant, CountedRequestsWereAnswered, PTL
=============================================================================

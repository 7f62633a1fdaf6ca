------------------------------ MODULE Serving -------------------------------
(***************************************************************************)
(* One process of the inference API: how ModelService.load (api/model.py)  *)
(* puts a model together from several registry reads while aliases move,   *)
(* how lifespan (api/main.py) starts the router beside it, and how predict *)
(* and ready (api/routes.py) answer with the two, the model servers coming *)
(* and going underneath.                                                   *)
(*                                                                         *)
(* A version stands for its model, its score and its threshold: an answer  *)
(* carries the versions each of its parts came from.  What a request       *)
(* counts is in CanaryEvidence.  In the API process only an in-process     *)
(* controller changes the router after startup (serving/traffic.py).       *)
(***************************************************************************)
EXTENDS CanaryRouter

CONSTANTS
    Threads,        \* handler threads
    Keys,           \* routing buckets, as percentages
    Allocations,    \* canary traffic the configuration may ask for
    Versions,       \* what the registry may hold
    Tagged          \* the versions that recorded a threshold of their own

ASSUME ServingAssumption ==
    /\ Versions \subseteq Nat \ {None} /\ Tagged \subseteq Versions
    /\ Keys \subseteq 0..99 /\ Allocations \subseteq 0..MaxTraffic

VARIABLES
    alias,          \* the version each alias names
    tier,           \* the version each KServe tier serves, 0 while it does not
    remote,         \* is a predictor URL configured
    configured,     \* the configured canary allocation
    stage,          \* how far startup has come
    model,          \* the LoadedModel, field by field
    router,         \* the CanaryRouter of the application
    stopping,       \* is stop between its two assignments
    halted,         \* history: has a stop returned since startup
    thread,         \* what each handler thread is doing
    ready           \* what /ready answered last

config == <<remote, configured>>
world == <<alias, tier>>
control == <<router, stopping, halted>>
vars == <<world, config, stage, model, control, thread, ready>>

Tiers == {"production", "canary"}
MaybeVersion == Versions \cup {None}
Fallback == None       \* FALLBACK_THRESHOLD, reported as such
Loading == {"resolve", "tags", "pipeline", "canary", "start"}
Stages == Loading \cup {"failed", "serving", "unready"}

\* threshold is the version whose tag it is; client, is there a canary client.
Model == [version : MaybeVersion, threshold : MaybeVersion, pipeline : MaybeVersion,
          client : BOOLEAN, candidate : MaybeVersion]
NoModel == [version |-> None, threshold |-> Fallback, pipeline |-> None,
            client |-> FALSE, candidate |-> None]

\* What a thread knows: the tier its request was routed to, the tier and version
\* that scored it, and what its response says.
Thread == [at : {"idle", "route", "share", "score", "answered", "refused"},
           key : Keys \cup {0}, late : BOOLEAN, routed : Tiers, scorer : Tiers,
           score : MaybeVersion, label : Tiers, version : MaybeVersion,
           threshold : MaybeVersion]
Idle == [at |-> "idle", key |-> 0, late |-> FALSE, routed |-> "production",
         scorer |-> "production", score |-> None, label |-> "production",
         version |-> None, threshold |-> Fallback]

Init ==
    /\ alias \in [Tiers -> MaybeVersion]
    /\ tier \in [Tiers -> MaybeVersion]
    /\ remote \in BOOLEAN /\ configured \in Allocations
    /\ stage = "resolve" /\ model = NoModel
    /\ router = FreshRouter /\ stopping = FALSE /\ halted = FALSE
    /\ thread = [w \in Threads |-> Idle]
    /\ ready = FALSE

-----------------------------------------------------------------------------
(* The registry and the model servers: anything may happen to them. *)

MoveAlias(a, v) ==
    /\ alias' = [alias EXCEPT ![a] = v]
    /\ UNCHANGED <<tier, config, stage, model, control, thread, ready>>

\* An InferenceService serves another version, goes away or comes back.
Redeploy(t, v) ==
    /\ tier' = [tier EXCEPT ![t] = v]
    /\ UNCHANGED <<alias, config, stage, model, control, thread, ready>>

-----------------------------------------------------------------------------
(* ModelService.load, a registry read a step. *)

LoadStep(from, to, loaded) ==
    /\ stage = from
    /\ stage' = to
    /\ model' = loaded
    /\ UNCHANGED <<world, config, control, thread, ready>>

\* resolve_production finds the alias.
ResolveProduction ==
    /\ alias["production"] # None
    /\ LoadStep("resolve", "tags", [model EXCEPT !.version = alias["production"]])

\* No alias, no registry, or a pipeline that cannot be loaded: the reason is
\* recorded and nothing is served.
LoadFails == \E from \in {"resolve", "pipeline"} : LoadStep(from, "failed", NoModel)

AfterTags == IF remote THEN "canary" ELSE "pipeline"

\* _version_tags asking for the alias again instead of for the version.
ReadTagsByAlias ==
    \E threshold \in {Fallback} \cup ({alias["production"]} \cap Tagged) :
        LoadStep("tags", AfterTags, [model EXCEPT !.threshold = threshold])

\* _version_tags and _threshold_from: a version without the tag and a read that
\* fails both give the fallback.
ReadTags ==
    \E threshold \in {Fallback} \cup ({model.version} \cap Tagged) :
        LoadStep("tags", AfterTags, [model EXCEPT !.threshold = threshold])

\* In process, the model is loaded by alias, whichever version that names by now.
LoadPipeline ==
    /\ alias["production"] # None
    /\ LoadStep("pipeline", "canary", [model EXCEPT !.pipeline = alias["production"]])

\* _build_canary and _canary_version, whose failure leaves the version unknown.
BuildCanary ==
    \E candidate \in IF configured > 0 THEN {None, alias["canary"]} ELSE {None} :
        LoadStep("canary", "start",
                 [model EXCEPT !.client = configured > 0, !.candidate = candidate])

\* lifespan starts the router by configuration, whether or not a model loaded.
StartServing ==
    /\ stage \in {"start", "failed"}
    /\ stage' = IF stage = "start" THEN "serving" ELSE "unready"
    /\ router' = IF configured > 0 THEN Started(model.candidate, configured) ELSE FreshRouter
    /\ UNCHANGED <<world, config, model, stopping, halted, thread, ready>>

\* A new process, perhaps with another allocation; the rest is lost.
Restart(percent) ==
    /\ configured' = percent
    /\ stage' = "resolve" /\ model' = NoModel
    /\ router' = FreshRouter /\ stopping' = FALSE /\ halted' = FALSE
    /\ thread' = [w \in Threads |-> Idle]
    /\ ready' = FALSE
    /\ UNCHANGED <<world, remote>>

Startup ==
    \/ ResolveProduction \/ LoadFails \/ ReadTags \/ LoadPipeline \/ BuildCanary
    \/ StartServing

-----------------------------------------------------------------------------
(* /ready *)

\* Can this process score: in process, if it loaded; else, if the tier answers.
CanScore == stage = "serving" /\ (remote => tier["production"] # None)

\* Readiness as it was at startup.
ProbeSnapshot ==
    /\ ready' = (stage = "serving")
    /\ UNCHANGED <<world, config, stage, model, control, thread>>

\* readiness: against KServe, the model tier is asked now.
Probe ==
    /\ ready' = CanScore
    /\ UNCHANGED <<world, config, stage, model, control, thread>>

-----------------------------------------------------------------------------
(* InProcessTrafficController.set_traffic *)

Dial(percent) ==
    /\ stage = "serving" /\ ~stopping /\ percent > 0
    /\ router' = Dialled(router, percent)
    /\ UNCHANGED <<world, config, stage, model, stopping, halted, thread, ready>>

\* stop clears `enabled` first, ...
BeginStop ==
    /\ stage = "serving" /\ ~stopping
    /\ router' = [router EXCEPT !.enabled = FALSE]
    /\ stopping' = TRUE
    /\ UNCHANGED <<world, config, stage, model, halted, thread, ready>>

\* ... then the share.
FinishStop ==
    /\ stopping
    /\ router' = [router EXCEPT !.traffic = 0]
    /\ stopping' = FALSE /\ halted' = TRUE
    /\ UNCHANGED <<world, config, stage, model, thread, ready>>

-----------------------------------------------------------------------------
(* predict.  Without a model it answers 503 and changes nothing. *)

ThreadStep(w, from, to) ==
    /\ thread[w].at \in from
    /\ thread' = [thread EXCEPT ![w] = to]
    /\ UNCHANGED <<world, config, stage, model, control, ready>>

Receive(w, key) ==
    /\ stage = "serving"
    /\ ThreadStep(w, {"idle", "answered", "refused"},
                  [Idle EXCEPT !.at = "route", !.key = key, !.late = halted])

\* tier_for that looks at the share alone.
ReadShareOnly(w) ==
    ThreadStep(w, {"route"},
               [thread[w] EXCEPT !.at = "score",
                                 !.routed = IF thread[w].key < router.traffic
                                            THEN "canary" ELSE "production"])

\* tier_for reads the state twice.  First, is the canary active; of the three
\* fields that takes, at most one changes meanwhile, so one reading stands for
\* them.
ReadActive(w) ==
    ThreadStep(w, {"route"},
               [thread[w] EXCEPT !.at = IF Active(router) THEN "share" ELSE "score"])

\* Second, which buckets are the canary's.
ReadShare(w) ==
    ThreadStep(w, {"share"},
               [thread[w] EXCEPT !.at = "score",
                                 !.routed = IF thread[w].key < router.traffic
                                            THEN "canary" ELSE "production"])

\* The tier that scores what was routed to t (predict_with), and its answer.
ScoringTier(t) == IF t = "canary" /\ model.client THEN "canary" ELSE "production"
ScoreOf(t) == IF t = "production" /\ ~remote THEN model.pipeline ELSE tier[t]

\* predict_with that answers from production when the canary cannot.
FallBackTier(t) ==
    IF t = "canary" /\ model.client /\ tier["canary"] # None
    THEN "canary" ELSE "production"

\* _model_info: the canary's version is swapped in, the threshold is not.
Responding(w, scorer) ==
    LET label == IF thread[w].routed = "canary" /\ model.client
                 THEN "canary" ELSE "production"
    IN  [thread[w] EXCEPT
            !.at = "answered", !.scorer = scorer, !.score = ScoreOf(scorer),
            !.label = label, !.threshold = model.threshold,
            !.version = IF label = "canary" THEN model.candidate ELSE model.version]

\* Scoring with the fallback the canary must not have.
ScoreWithFallback(w) ==
    LET scorer == FallBackTier(thread[w].routed)
    IN  ScoreOf(scorer) # None /\ ThreadStep(w, {"score"}, Responding(w, scorer))

Score(w) ==
    LET scorer == ScoringTier(thread[w].routed)
    IN  ScoreOf(scorer) # None /\ ThreadStep(w, {"score"}, Responding(w, scorer))

\* The tier is unreachable or refuses, or the frame cannot be scored: 503, 422.
Refuse(w) == ThreadStep(w, {"score"}, [thread[w] EXCEPT !.at = "refused"])

Handling(w) ==
    \/ \E key \in Keys : Receive(w, key)
    \/ ReadActive(w) \/ ReadShare(w) \/ Score(w) \/ Refuse(w)

Next ==
    \/ \E a \in Tiers, v \in MaybeVersion : MoveAlias(a, v) \/ Redeploy(a, v)
    \/ \E percent \in Allocations : Restart(percent) \/ Dial(percent)
    \/ Startup \/ Probe \/ BeginStop \/ FinishStop
    \/ \E w \in Threads : Handling(w)

Spec == Init /\ [][Next]_vars

\* The kubelet keeps probing /ready.
FairSpec == Spec /\ WF_vars(Probe)

-----------------------------------------------------------------------------
(* Properties *)

TypeOK ==
    /\ alias \in [Tiers -> MaybeVersion] /\ tier \in [Tiers -> MaybeVersion]
    /\ remote \in BOOLEAN /\ configured \in Allocations
    /\ stage \in Stages /\ model \in Model
    /\ router \in Router
    /\ stopping \in BOOLEAN /\ halted \in BOOLEAN /\ ready \in BOOLEAN
    /\ thread \in [Threads -> Thread]

\* A router that offers traffic sits beside a model that has a client for it:
\* load and lifespan decide both from the configuration, at different times.
RouterHasClient ==
    /\ stage = "start" => (model.client <=> configured > 0)
    /\ stage = "serving" /\ router.enabled => model.client

\* The threshold belongs to the version the model is reported under, or is the
\* fallback, however the alias moved between the reads of one load.
ThresholdOfVersion ==
    /\ stage = "resolve" => model.threshold = Fallback
    /\ model.threshold # Fallback => model.threshold = model.version

\* Handler threads run on what startup left them.
ThreadsRunOnModel ==
    \A w \in Threads :
        LET t == thread[w]
        IN  /\ t.at # "idle" => stage = "serving"
            /\ t.at \in {"share", "score", "answered"} /\ t.routed = "canary" => model.client
            /\ t.at = "share" => model.client
            /\ t.at \in {"route", "share"} => t.routed = "production"

\* The router is off for good once a stop has returned: dialling up does not
\* enable it.
StopLasts ==
    stopping \/ halted => stage = "serving" /\ ~router.enabled

\* Stopping is immediate: no request that arrives after a stop has returned is
\* routed to the canary, whatever dials and half-done requests it overlaps.
\* "The next request after this call reaches production."
StopIsImmediate ==
    \A w \in Threads : thread[w].late =>
        halted /\ thread[w].routed = "production" /\ thread[w].at # "share"

\* A failing canary is never masked: what was routed to the canary is scored by
\* it and says so, or is refused, and what says production was scored there.
CanaryNeverMasked ==
    \A w \in Threads : thread[w].at = "answered" =>
        thread[w].scorer = thread[w].routed /\ thread[w].label = thread[w].routed

\* An incumbent's answer is flagged by the threshold of the version it reports
\* or by the declared fallback.
IncumbentOwnThreshold ==
    \A w \in Threads :
        thread[w].at = "answered" /\ thread[w].label = "production" =>
            thread[w].threshold \in {Fallback, thread[w].version}

\* The inductive invariant.
SInv ==
    /\ TypeOK /\ RouterHasClient /\ ThresholdOfVersion /\ ThreadsRunOnModel
    /\ StopLasts /\ StopIsImmediate /\ CanaryNeverMasked /\ IncumbentOwnThreshold

\* Readiness follows the model tier in both directions: neither "reporting ready
\* after the InferenceService had gone away" nor "unready forever because it
\* happened to start first", which a snapshot taken at startup would be.
ReadinessFollowsTier ==
    /\ <>[]CanScore => <>[]ready
    /\ <>[]~CanScore => <>[]~ready

\* The same of every answer, the canary's included: where a version is reported,
\* the threshold is its own or the response says that it is not
\* (_threshold_from).
AnswerOwnThreshold ==
    \A w \in Threads : thread[w].at = "answered" /\ thread[w].version # None =>
        thread[w].threshold \in {Fallback, thread[w].version}
=============================================================================

--------------------------- MODULE CanaryPipeline ---------------------------
(***************************************************************************)
(* The canary life cycle of pipelines/canary_pipeline.py together with the *)
(* two modules it drives: the CanaryRouter of serving/canary.py and the    *)
(* MLflow registry as promotion/registry.py writes it.                     *)
(*                                                                         *)
(* Two kinds of process share the registry:                                *)
(*   - a host keeps one router and calls start_canary, evaluate, complete, *)
(*     rollback on it, as the integration tests and an API-side driver do; *)
(*   - a promoter runs `promote` or `retrain`, whose register_candidate    *)
(*     moves the production alias directly.                                *)
(*                                                                         *)
(* Every registry call is a step of its own, may fail, and may fail after  *)
(* the store has applied it: the code treats any exception as "not done".  *)
(* What the gates and the canary verdict compute is left to the modules    *)
(* Promotion and CanaryVerdict; here a candidate that reaches              *)
(* register_candidate has passed, and a verdict may be anything.           *)
(***************************************************************************)
EXTENDS CanaryRouter, FiniteSets

CONSTANTS
    Hosts,          \* processes holding a router across calls
    Promoters,      \* processes running a direct promotion
    MaxVersion,     \* bound: versions the registry numbers
    MaxDecisions,   \* bound: decision objects a host keeps at once
    Allocations     \* traffic percentages callers ask for

ASSUME BoundsAssumption ==
    MaxVersion \in Nat /\ MaxDecisions \in Nat /\ Allocations \subseteq Nat

ASSUME ProcessAssumption == Hosts \cap Promoters = {}

VARIABLES
    registered,     \* how many versions the registry has numbered
    alias,          \* the version each registry alias names, 0 for none
    router,         \* the CanaryState held by each process
    decisions,      \* the CanaryDecision objects each host still holds
    pc,             \* where each process is in the call it is making
    job,            \* the version and alias that call is about
    rolledBack,     \* the versions some rollback has withdrawn
    named,          \* the versions production has named so far
    unheard         \* those whose complete was answered by an error all the same

\* What only the properties look at.
history == <<rolledBack, named, unheard>>
vars == <<registered, alias, router, decisions, pc, job, history>>

Versions == 1..MaxVersion
Processes == Hosts \cup Promoters
Aliases == {"production", "canary"}
Labels == {"idle", "register", "alias", "open", "move", "clear", "stop"}
Job == [version : Nat, target : Aliases]
NoJob == [version |-> None, target |-> "canary"]

-----------------------------------------------------------------------------
Init ==
    /\ registered = 0
    /\ alias = [a \in Aliases |-> None]
    /\ router = [p \in Processes |-> FreshRouter]
    /\ decisions = [p \in Processes |-> {}]
    /\ pc = [p \in Processes |-> "idle"]
    /\ job = [p \in Processes |-> NoJob]
    /\ rolledBack = {} /\ named = {} /\ unheard = {}

Goto(p, label) == pc' = [pc EXCEPT ![p] = label]

\* The call returns or raises: its locals are gone.
Return(p) == Goto(p, "idle") /\ job' = [job EXCEPT ![p] = NoJob]

\* For the history: what production names from now on.
Naming == named' = named \cup ({alias'["production"]} \ {None})

\* A registry write that answered with an error may or may not have happened.
MaybePointed(a, v) == alias' \in {alias, [alias EXCEPT ![a] = v]}

(* register_candidate, shared by start_canary and run_promotion. *)

\* The gates have passed; start_canary registers under the canary alias.
BeginStart(h) ==
    /\ pc[h] = "idle"
    /\ Goto(h, "register")
    /\ UNCHANGED <<registered, alias, router, decisions, job, history>>

\* run_promotion with no alias given registers under the production alias.
BeginPromotion(p) ==
    /\ pc[p] = "idle"
    /\ Goto(p, "register")
    /\ job' = [job EXCEPT ![p].target = "production"]
    /\ UNCHANGED <<registered, alias, router, decisions, history>>

RegisterModel(p) ==
    /\ pc[p] = "register"
    /\ registered < MaxVersion
    /\ registered' = registered + 1
    /\ job' = [job EXCEPT ![p].version = registered + 1]
    /\ Goto(p, "alias")
    /\ UNCHANGED <<alias, router, decisions, history>>

\* Any exception returns (None, None); the version may be left behind.
RegisterModelFails(p) ==
    /\ pc[p] = "register"
    /\ registered' \in {registered, registered + 1} \cap (0..MaxVersion)
    /\ Return(p)
    /\ UNCHANGED <<alias, router, decisions, history>>

SetAlias(p) ==
    /\ pc[p] = "alias"
    /\ alias' = [alias EXCEPT ![job[p].target] = job[p].version]
    /\ Naming
    /\ IF job[p].target = "canary" THEN Goto(p, "open") /\ UNCHANGED job ELSE Return(p)
    /\ UNCHANGED <<registered, router, decisions, rolledBack, unheard>>

SetAliasFails(p) ==
    /\ pc[p] = "alias"
    /\ MaybePointed(job[p].target, job[p].version)
    /\ Naming
    /\ Return(p)
    /\ UNCHANGED <<registered, router, decisions, rolledBack, unheard>>

(* start_canary, once the version is known. *)

\* CanaryState refuses an impossible allocation, after the registration.
OpenTraffic(h, percent) ==
    /\ pc[h] = "open"
    /\ router' = IF ValidTraffic(percent)
                 THEN [router EXCEPT ![h] = Started(job[h].version, percent)]
                 ELSE router
    /\ Return(h)
    /\ UNCHANGED <<registered, alias, decisions, history>>

Dial(h, percent) ==
    /\ pc[h] = "idle"
    /\ router' = [router EXCEPT ![h] = Dialled(@, percent)]
    /\ UNCHANGED <<registered, alias, decisions, pc, job, history>>

(* evaluate: no side effects but the decision object it returns. *)
Evaluate(h, verdict) ==
    /\ pc[h] = "idle"
    /\ Cardinality(decisions[h]) < MaxDecisions
    /\ decisions' = [decisions EXCEPT ![h] =
                        @ \cup {[verdict |-> verdict, candidate |-> router[h].candidate]}]
    /\ UNCHANGED <<registered, alias, router, pc, job, history>>

(* complete *)

BeginComplete(h, d) ==
    /\ pc[h] = "idle"
    /\ MayComplete(router[h], d)
    /\ job' = [job EXCEPT ![h] = [version |-> VersionToPromote(router[h], d),
                                  target |-> "production"]]
    /\ Goto(h, "move")
    /\ UNCHANGED <<registered, alias, router, decisions, history>>

MoveProduction(p) ==
    /\ pc[p] = "move"
    /\ alias' = [alias EXCEPT !["production"] = job[p].version]
    /\ Naming
    /\ Goto(p, "clear")
    /\ UNCHANGED <<registered, router, decisions, job, rolledBack, unheard>>

\* CanaryStateError: the router is left running.
MoveProductionFails(p) ==
    /\ pc[p] = "move"
    /\ MaybePointed("production", job[p].version)
    /\ Naming
    /\ unheard' = IF alias' = alias THEN unheard ELSE unheard \cup {job[p].version}
    /\ Return(p)
    /\ UNCHANGED <<registered, router, decisions, rolledBack>>

\* A failure to clear is logged and ignored.  The alias is deleted by name,
\* whichever version it names by now.
ClearCanaryAlias(p) ==
    /\ pc[p] = "clear"
    /\ MaybePointed("canary", None)
    /\ Goto(p, "stop")
    /\ UNCHANGED <<registered, router, decisions, job, history>>

\* The stop forgotten once production has moved.
ReturnStillRunning(p) ==
    /\ pc[p] = "stop"
    /\ Return(p)
    /\ UNCHANGED <<registered, alias, router, decisions, history>>

FinishComplete(p) ==
    /\ pc[p] = "stop"
    /\ router' = [router EXCEPT ![p] = Stopped(@)]
    /\ Return(p)
    /\ UNCHANGED <<registered, alias, decisions, history>>

(* rollback: the router stops and the registry is not written. *)

Withdrawn(r) == IF r.enabled /\ r.candidate # None THEN {r.candidate} ELSE {}

\* rollback takes whatever decision it is handed and reads only its reason.
Rollback(h) ==
    /\ pc[h] = "idle"
    /\ decisions[h] # {}
    /\ router' = [router EXCEPT ![h] = Stopped(@)]
    /\ rolledBack' = rolledBack \cup Withdrawn(router[h])
    /\ UNCHANGED <<registered, alias, decisions, pc, job, named, unheard>>

\* The process dies between any two steps and comes back with nothing.
Crash(p) ==
    /\ Return(p)
    /\ router' = [router EXCEPT ![p] = FreshRouter]
    /\ decisions' = [decisions EXCEPT ![p] = {}]
    /\ UNCHANGED <<registered, alias, history>>

-----------------------------------------------------------------------------
Registering(p) ==
    RegisterModel(p) \/ RegisterModelFails(p) \/ SetAlias(p) \/ SetAliasFails(p)

Completing(p) ==
    \/ MoveProduction(p) \/ MoveProductionFails(p)
    \/ ClearCanaryAlias(p) \/ FinishComplete(p)

HostStep(h) ==
    \/ BeginStart(h) \/ Registering(h) \/ Completing(h) \/ Rollback(h)
    \/ \E percent \in Allocations : OpenTraffic(h, percent) \/ Dial(h, percent)
    \/ \E verdict \in Verdicts : Evaluate(h, verdict)
    \/ \E d \in decisions[h] : BeginComplete(h, d)

PromoterStep(p) == BeginPromotion(p) \/ Registering(p)

Next ==
    \/ \E h \in Hosts : HostStep(h)
    \/ \E p \in Promoters : PromoterStep(p)
    \/ \E p \in Processes : Crash(p)

Spec == Init /\ [][Next]_vars

-----------------------------------------------------------------------------
(* Properties *)

TypeOK ==
    /\ registered \in 0..MaxVersion
    /\ alias \in [Aliases -> 0..MaxVersion]
    /\ router \in [Processes -> Router]
    /\ decisions \in [Processes -> SUBSET Decision]
    /\ pc \in [Processes -> Labels]
    /\ job \in [Processes -> Job]
    /\ rolledBack \subseteq Versions /\ named \subseteq Versions /\ unheard \subseteq Versions

\* A version between its registration and the first request it may receive.
Pending(p, v) == pc[p] \in {"alias", "open"} /\ job[p].version = v

\* A version some enabled router holds; a dial-up could give it traffic.
InTrial(p, v) == router[p].enabled /\ router[p].candidate = v

Holds(p, v) == Pending(p, v) \/ InTrial(p, v)

\* No version is in the hands of two processes: evidence and rollback for
\* one canary can never be about a canary another process is running.
OneOwner ==
    \A v \in Versions : \A p, q \in Processes :
        Holds(p, v) /\ Holds(q, v) => p = q

\* A router that is enabled runs a version the registry numbered, and what a
\* complete is about to install is what its router runs.
RouterMatchesRegistry ==
    \A p \in Processes :
        /\ router[p].enabled => router[p].candidate \in 1..registered
        /\ pc[p] \in {"alias", "open"} => job[p].version \in 1..registered
        /\ pc[p] = "alias" => ~InTrial(p, job[p].version)
        /\ pc[p] = "open" => ~InTrial(p, job[p].version)
        /\ pc[p] = "move" => InTrial(p, job[p].version)

\* A rolled-back version is out for good: no router will ever offer it a
\* request again, a later dial-up of the same router included (stop clears
\* `enabled`, which set_traffic does not set; start_canary registers anew).
RolledBackNotServed ==
    \A v \in rolledBack : v \in 1..registered /\ \A p \in Processes : ~Holds(p, v)

\* rollback reports that "the production alias was never moved".  Of a version it
\* withdrew that is so, at any time before and after and whoever else writes,
\* unless the registry answered the move by an error and yet carried it out: then
\* complete raised, its canary stayed open, and the report is wrong.
RollbackReportIsTrue == rolledBack \cap named \subseteq unheard

\* What a version still in somebody's hands tells of the past: a pending one was
\* never production, and a router may run one that was only if the answer was
\* lost, or if the complete that moved the alias is about to stop that router.
MovesEndTrials ==
    /\ alias["production"] \in named \cup {None}
    /\ named \subseteq 1..registered
    /\ \A v \in named : \A p \in Processes :
          /\ ~Pending(p, v)
          /\ InTrial(p, v) => v \in unheard \/ pc[p] \in {"clear", "stop"}

\* The inductive invariant.
IInv ==
    /\ TypeOK /\ OneOwner /\ RouterMatchesRegistry /\ RolledBackNotServed
    /\ RollbackReportIsTrue /\ MovesEndTrials

\* A version whose canary was rolled back never becomes production, whatever
\* promote decisions from before are replayed, however many canaries and
\* direct promotions run beside it, and wherever a process crashed.
RolledBackNeverInstalled ==
    [][alias'["production"] # alias["production"]
          => alias'["production"] \notin rolledBack]_vars

\* Production moves only to newer versions.  complete's docstring promises
\* it; it holds while one host is the only writer of the registry.
ProductionMovesForward ==
    [][alias'["production"] >= alias["production"]]_vars

\* How far a version has come, for the abstract specification.
Stage ==
    [v \in Versions |->
        IF v > registered THEN "absent"
        ELSE IF \E p \in Processes : Pending(p, v) THEN "gated"
        ELSE IF \E p \in Processes : InTrial(p, v) THEN "trial"
        ELSE "ended"]

Release == INSTANCE GatedRelease
    WITH Versions <- Versions, stage <- Stage, production <- alias["production"]

\* The pipeline keeps the promise of GatedRelease: production only ever moves
\* to a version whose one chance is not over, so no decision outlives it.
ImplementsGatedRelease == Release!Spec
=============================================================================

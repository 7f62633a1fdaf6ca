---------------------------- MODULE PlatformView ----------------------------
(***************************************************************************)
(* The dashboard's view of the platform: the endpoints of api/platform.py  *)
(* that put several reads of MLflow together (/model, /promotions, /drift, *)
(* /events), over a store that other processes write meanwhile.  Each read *)
(* may fail; a failed search is an empty list to the code that asked.      *)
(*                                                                         *)
(* A page is what one handler has read and will show.  The three search    *)
(* limits are constants, since what a limit cuts off is what matters.      *)
(***************************************************************************)
EXTENDS TrackingStore, FiniteSetsExt

CONSTANTS
    Handlers,           \* the threads that answer requests
    TrainedLimit,       \* runs searched for models
    CandidateLimit,     \* retrained candidates searched
    EventLimit,         \* runs listed as events
    MaxRuns,            \* bound: runs started
    MaxVersion          \* bound: versions registered

ASSUME ViewAssumption ==
    /\ {TrainedLimit, CandidateLimit, EventLimit} \subseteq Nat \ {0}
    /\ {MaxRuns, MaxVersion} \subseteq Nat

VARIABLE page

vars == <<storeVars, page>>

Endpoints == {"none", "model", "promotions", "drift", "events"}
Labels == {"done", "alias", "versions", "resolve", "trained", "check", "candidates",
           "incumbent", "promoted", "registered", "events"}

\* registered: the versions it read; named and marked: the version shown as
\* production and the rows so marked; check, candidate and linked: what /drift
\* joins; promoted and other: runs shown as registered, and as not.
\* lost says that a read failed.  since is no part of the code: how many versions
\* there were when the request came, the runs that were then tagged as what it
\* asks for, and what the alias has named from then on.
Page == [endpoint : Endpoints, at : Labels, available : BOOLEAN, lost : BOOLEAN,
         registered : Seq(Nat), named : Nat, marked : SUBSET Nat, check : Nat,
         candidate : Nat, linked : BOOLEAN, promoted : SUBSET Nat, other : SUBSET Nat,
         since : [versions : Nat, tagged : SUBSET Nat, named : SUBSET Nat]]

Empty(endpoint, at, since) ==
    [endpoint |-> endpoint, at |-> at, available |-> FALSE, lost |-> FALSE,
     registered |-> <<>>, named |-> 0, marked |-> {}, check |-> 0, candidate |-> 0,
     linked |-> FALSE, promoted |-> {}, other |-> {}, since |-> since]

Idle == Empty("none", "done", [versions |-> 0, tagged |-> {}, named |-> {}])

\* A run tagged as what the endpoint asks for.
AskedFor(endpoint, run) ==
    \/ endpoint = "promotions" /\ run.model
    \/ endpoint = "drift" /\ run.model /\ run.event # 0

Fresh(endpoint, at) ==
    Empty(endpoint, at, [versions |-> Len(versions), named |-> {production},
                         tagged |-> {i \in DOMAIN runs : AskedFor(endpoint, runs[i])}])

Init == StoreInit /\ page = [t \in Handlers |-> Idle]

TypeOK ==
    /\ runs \in Seq(Run) /\ versions \in Seq(Nat) /\ production \in Nat
    /\ page \in [Handlers -> Page]

-----------------------------------------------------------------------------
(* The searches of _Mlflow: newest first, cut at a limit. *)

Newest(limit, chosen) == {i \in chosen : Cardinality({k \in chosen : k > i}) < limit}
Recent(limit) == Newest(limit, {i \in DOMAIN runs : runs[i].type # "study"})
OfType(type, limit) == Newest(limit, {i \in DOMAIN runs : runs[i].type = type})

\* Runs of the type that training runs would have, had they one.
RunsTypedTraining(limit) == OfType("training", limit)

\* training_runs: the limit is applied before the tag is looked at.
TrainingRuns(limit) == {i \in Recent(limit) : runs[i].model}

Listed(run, registered) == \E v \in DOMAIN registered : registered[v] = run

(* One read of a handler. *)

Ask(t, endpoint, first) ==
    /\ page[t].at = "done"
    /\ page' = [page EXCEPT ![t] = Fresh(endpoint, first)]
    /\ UNCHANGED storeVars

Read(t, at, result) ==
    /\ page[t].at = at
    /\ page' = [page EXCEPT ![t] = result]
    /\ UNCHANGED storeVars

Done(t) == [page[t] EXCEPT !.at = "done"]
Lost(t, at) == [page[t] EXCEPT !.at = at, !.lost = TRUE]

\* /model: production_model.  Whatever fails, nothing is shown.
ReadProduction(t) ==
    \/ production # 0
       /\ Read(t, "alias", [Done(t) EXCEPT !.available = TRUE, !.named = production])
    \/ production = 0 /\ Read(t, "alias", Done(t))
    \/ Read(t, "alias", Lost(t, "done"))

\* /promotions.  Some backends list the aliases of a version, some do not.
ReadVersions(t) ==
    \/ versions = <<>> /\ Read(t, "versions", Done(t))
    \/ /\ versions # <<>>
       /\ \E shown \in {0, production} :
             Read(t, "versions",
                  [page[t] EXCEPT !.available = TRUE, !.registered = versions,
                                  !.named = shown, !.marked = {shown} \ {0},
                                  !.at = IF shown = 0 THEN "resolve" ELSE "trained"])
    \/ Read(t, "versions", Lost(t, "done"))

\* The newest version read is taken for production.
ResolveNewest(t) ==
    LET newest == Len(page[t].registered) IN
    Read(t, "resolve", [page[t] EXCEPT !.named = newest, !.marked = {newest},
                                       !.at = "trained"])

\* Without an alias in the list the registry is asked for it.
ResolveAlias(t) ==
    \/ Read(t, "resolve",
            [page[t] EXCEPT !.named = production,
                            !.marked = {production} \cap DOMAIN page[t].registered,
                            !.at = "trained"])
    \/ Read(t, "resolve", Lost(t, "trained"))

ReadTrained(t) ==
    \/ Read(t, "trained",
            [Done(t) EXCEPT
                !.other = {i \in TrainingRuns(TrainedLimit) : ~Listed(i, page[t].registered)}])
    \/ Read(t, "trained", Lost(t, "done"))

\* /drift: drift, the newest check first.
ReadCheck(t) ==
    LET checks == OfType("drift_check", 1) IN
    \/ checks = {} /\ Read(t, "check", Done(t))
    \/ /\ checks # {}
       /\ Read(t, "check", [page[t] EXCEPT !.available = TRUE, !.check = Max(checks),
                                           !.at = "candidates"])
    \/ Read(t, "check", Lost(t, "done"))

\* The newest candidate is this check's.
JoinNewest(t, candidates) ==
    [page[t] EXCEPT !.candidate = Max(candidates), !.linked = TRUE, !.at = "incumbent"]

\* A candidate of this check, or the newest of another, and then so marked.
JoinCandidate(t, candidates) ==
    LET caused == {i \in candidates : runs[i].event = runs[page[t].check].event} IN
    [page[t] EXCEPT !.candidate = Max(IF caused # {} THEN caused ELSE candidates),
                    !.linked = caused # {}, !.at = "incumbent"]

ReadCandidates(t) ==
    LET candidates == OfType("retraining_candidate", CandidateLimit) IN
    \/ candidates = {} /\ Read(t, "candidates", Done(t))
    \/ candidates # {} /\ Read(t, "candidates", JoinCandidate(t, candidates))
    \/ Read(t, "candidates", Lost(t, "done"))

ReadIncumbent(t) ==
    \/ Read(t, "incumbent", [page[t] EXCEPT !.named = production, !.at = "promoted"])
    \/ Read(t, "incumbent", Lost(t, "promoted"))

\* A run is shown as promoted only while the alias names its version.
PresentProduction(t, shown, registered) ==
    LET named == {i \in shown : production # 0 /\ versions[production] = i} IN
    [Done(t) EXCEPT !.promoted = named, !.other = shown \ named]

\* What is shown of runs, given the versions a handler has read.
Present(t, shown, registered) ==
    [Done(t) EXCEPT !.promoted = {i \in shown : Listed(i, registered)},
                    !.other = {i \in shown : ~Listed(i, registered)}]

ReadPromoted(t) ==
    \/ Read(t, "promoted", Present(t, {page[t].candidate}, versions))
    \/ Read(t, "promoted", [Present(t, {page[t].candidate}, <<>>) EXCEPT !.lost = TRUE])

\* /events: events.  An empty answer and a failed one go on alike.
ReadRegistered(t) ==
    \/ Read(t, "registered", [page[t] EXCEPT !.registered = versions, !.at = "events"])
    \/ Read(t, "registered", Lost(t, "events"))

ReadEvents(t) ==
    \/ Read(t, "events",
            [Present(t, TrainingRuns(EventLimit), page[t].registered) EXCEPT
                !.available = TRUE])
    \/ Read(t, "events", Lost(t, "done"))

Answer(t) ==
    \/ Ask(t, "model", "alias") \/ ReadProduction(t)
    \/ Ask(t, "promotions", "versions") \/ ReadVersions(t) \/ ResolveAlias(t) \/ ReadTrained(t)
    \/ Ask(t, "drift", "check") \/ ReadCheck(t) \/ ReadCandidates(t)
    \/ ReadIncumbent(t) \/ ReadPromoted(t)
    \/ Ask(t, "events", "registered") \/ ReadRegistered(t) \/ ReadEvents(t)

\* The others write.  What the alias names now, every request under way has lived
\* through; what was answered has been sent.
Write ==
    /\ StoreNext /\ Len(runs') <= MaxRuns /\ Len(versions') <= MaxVersion
    /\ page' = [t \in Handlers |->
                  IF page[t].at = "done" THEN Idle
                  ELSE [page[t] EXCEPT !.since.named = @ \cup {production'}]]

Next == Write \/ \E t \in Handlers : Answer(t)

Spec == Init /\ [][Next]_vars

-----------------------------------------------------------------------------
(* The properties: what is on a finished page, p. *)

Shown(p, endpoint) == p.at = "done" /\ p.endpoint = endpoint /\ p.available

\* A version of the run existed when the request came.
WasListed(p, run) == \E v \in 1..p.since.versions : versions[v] = run

NamesProduction(p) ==
    /\ Shown(p, "model") => p.named \in p.since.named \ {0}
    /\ Shown(p, "promotions") =>
          /\ p.named # 0 => p.named \in p.since.named
          /\ p.marked = {p.named} \cap DOMAIN p.registered

\* The version shown as production was production at some moment of the request,
\* and of the versions listed with it that one and no other is marked, though
\* list and alias may be two reads (production_model, promotions).
ProductionShownWasNamed == \A t \in Handlers : NamesProduction(page[t])

ShowsRegistration(p) ==
    Shown(p, "drift") \/ Shown(p, "events") =>
        /\ \A i \in p.promoted : Listed(i, versions)
        /\ ~p.lost => \A i \in p.other : ~WasListed(p, i)

\* A run shown as promoted is registered; one shown as rejected, or as not
\* registered, was not when the request came, unless a read failed
\* (drift, events).
RegistrationShownTruthfully == \A t \in Handlers : ShowsRegistration(page[t])

CountsUnregistered(p) ==
    Shown(p, "promotions") /\ ~p.lost =>
        /\ \A i \in p.since.tagged \cap Recent(TrainedLimit) :
              Listed(i, versions) \/ i \in p.other
        /\ \A i \in p.other : runs[i].model /\ ~WasListed(p, i)

\* Unless a read failed, the candidates counted as never registered include every
\* model that was trained before the request and is not registered after it, as
\* far as the search reaches; and none that was registered before (promotions).
DenominatorIsHonest == \A t \in Handlers : CountsUnregistered(page[t])

LinkIsTrue(p) == p.linked => runs[p.candidate].event = runs[p.check].event

NoneMissed(p) ==
    ~p.linked =>
        \A i \in p.since.tagged \cap OfType("retraining_candidate", CandidateLimit) :
            runs[i].event # runs[p.check].event

JoinsItsCheck(p) == LinkIsTrue(p) /\ (~p.lost => NoneMissed(p))

\* The retraining shown as caused by the check is that check's.  Unless a read
\* failed, one that the check had caused before the request is found, as far as
\* the search reaches, whatever was retrained since (drift).
RetrainingJoinsItsCheck ==
    \A t \in Handlers : Shown(page[t], "drift") => JoinsItsCheck(page[t])

-----------------------------------------------------------------------------
(* The inductive invariant: what a handler has read stays true while others write. *)

StoreSound ==
    /\ production \in 0..Len(versions)
    /\ \A v \in DOMAIN versions : versions[v] \in DOMAIN runs /\ runs[versions[v]].model
    /\ \A i \in DOMAIN runs :
          /\ runs[i].type \in {"drift_check", "study"} => ~runs[i].model
          /\ runs[i].type = "drift_check" => runs[i].event # 0
          /\ runs[i].model /\ runs[i].event # 0 => runs[i].type = "retraining_candidate"

\* Which read follows which, and what is on the page by then.
Ordered(p) ==
    /\ p.at = "alias" => p.endpoint = "model"
    /\ p.at \in {"versions", "resolve", "trained"} => p.endpoint = "promotions"
    /\ p.at \in {"check", "candidates", "incumbent", "promoted"} => p.endpoint = "drift"
    /\ p.at \in {"registered", "events"} => p.endpoint = "events"
    /\ p.at \in {"alias", "versions", "check", "registered", "events"} => ~p.available
    /\ p.check # 0 => p.check \in DOMAIN runs /\ runs[p.check].type = "drift_check"
    /\ p.at \in {"candidates", "incumbent", "promoted"} => p.check # 0
    /\ p.at \in {"incumbent", "promoted"} => p.candidate \in DOMAIN runs
    /\ p.at \in {"alias", "versions", "check", "candidates", "registered", "events"} =>
          ~p.linked /\ p.promoted = {} /\ p.other = {}

\* The versions it has read are the first of those there are now, and those that
\* were there when the request came are among them.
VersionsKept(p) ==
    /\ Len(p.registered) <= Len(versions)
    /\ \A v \in DOMAIN p.registered : p.registered[v] = versions[v]
    /\ p.since.versions <= Len(versions)
    /\ p.at \in {"resolve", "trained", "events"} /\ ~p.lost =>
          p.since.versions <= Len(p.registered)

ReadsSound(p) ==
    /\ p.at # "done" => production \in p.since.named
    /\ p.at \in {"resolve", "trained"} =>
          /\ p.named # 0 => p.named \in p.since.named
          /\ p.marked = {p.named} \cap DOMAIN p.registered
    /\ \A i \in p.since.tagged :
          /\ i \in DOMAIN runs /\ runs[i].model
          /\ p.endpoint = "drift" => runs[i].event # 0
    /\ p.at \in {"incumbent", "promoted"} => LinkIsTrue(p) /\ NoneMissed(p)

PagesSound ==
    \A t \in Handlers :
        Ordered(page[t]) /\ VersionsKept(page[t]) /\ ReadsSound(page[t])

ViewInv ==
    /\ TypeOK /\ StoreSound /\ PagesSound
    /\ ProductionShownWasNamed /\ RegistrationShownTruthfully
    /\ DenominatorIsHonest /\ RetrainingJoinsItsCheck
=============================================================================

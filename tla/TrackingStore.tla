--------------------------- MODULE TrackingStore ----------------------------
(***************************************************************************)
(* What the commands that write to MLflow promise to those that only read  *)
(* it: runs are added and marked for what they are, a mark is never taken  *)
(* back, a version comes from a run that produced a model and keeps it,    *)
(* and the production alias names a version that exists.  ModelCycle       *)
(* implements this; the dashboard of PlatformView relies on it.            *)
(***************************************************************************)
EXTENDS Naturals, Sequences

CONSTANT Events     \* the ids of drift events

ASSUME EventsAssumption == 0 \notin Events

VARIABLES
    runs,       \* in the order they were started
    versions,   \* the run of each registered version
    production  \* the version the production alias names, 0 for none

storeVars == <<runs, versions, production>>

\* The tags a reader looks for: run_type; whether model_name is there; and
\* drift_event_id, 0 without.  A study's runs are in an experiment of their own.
\* A canary decision is like a run that was never marked to who looks for these.
Types == {"none", "drift_check", "retraining_candidate", "study"}
Run == [type : Types, model : BOOLEAN, event : {0} \cup Events]
Tagged(type, model, event) == [type |-> type, model |-> model, event |-> event]
Blank == Tagged("none", FALSE, 0)

StoreInit == runs = <<>> /\ versions = <<>> /\ production = 0

StartRun(type) ==
    /\ runs' = Append(runs, Tagged(type, FALSE, 0))
    /\ UNCHANGED <<versions, production>>

Mark(i, run) ==
    /\ runs' = [runs EXCEPT ![i] = run]
    /\ UNCHANGED <<versions, production>>

MarkCheck(i, event) ==
    runs[i] = Blank /\ Mark(i, Tagged("drift_check", FALSE, event))

MarkModel(i) ==
    runs[i] = Blank /\ Mark(i, Tagged("none", TRUE, 0))

\* Two tags, one after the other; the second may never come.
MarkCandidate(i) ==
    /\ runs[i].model /\ runs[i].type = "none"
    /\ Mark(i, Tagged("retraining_candidate", TRUE, runs[i].event))

LinkCandidate(i, event) ==
    /\ runs[i].model /\ runs[i].event = 0
    /\ Mark(i, Tagged("retraining_candidate", TRUE, event))

RegisterRun(i) ==
    /\ runs[i].model
    /\ versions' = Append(versions, i)
    /\ UNCHANGED <<runs, production>>

MoveAlias(version) ==
    /\ production' = version
    /\ UNCHANGED <<runs, versions>>

StoreNext ==
    \/ \E type \in {"none", "study"} : StartRun(type)
    \/ \E i \in DOMAIN runs :
          \/ MarkModel(i) \/ MarkCandidate(i) \/ RegisterRun(i)
          \/ \E event \in Events : MarkCheck(i, event) \/ LinkCandidate(i, event)
    \/ \E version \in DOMAIN versions : MoveAlias(version)

StoreSpec == StoreInit /\ [][StoreNext]_storeVars
=============================================================================

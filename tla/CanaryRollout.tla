--------------------------- MODULE CanaryRollout ----------------------------
(***************************************************************************)
(* Ending a canary from the command line.  `canary --action rollback` and  *)
(* `--action decide` (cli.py) run in a process of their own: the router    *)
(* they build is not the one any replica routes by, and what they do to    *)
(* live traffic they do with a KubernetesTrafficController                 *)
(* (serving/traffic.py) - write the ConfigMap, restart the Deployment,     *)
(* wait for it.  A replica reads its allocation when its container starts  *)
(* and its model, once, right after (api/main.py, api/model.py).           *)
(*                                                                         *)
(* Around the commands: people who open a canary with the same two kubectl *)
(* steps, rollouts for other reasons, containers that restart, a registry  *)
(* that comes and goes, and any kubectl call failing, applied or not.      *)
(***************************************************************************)
EXTENDS CanaryRouter, FiniteSets

CONSTANTS
    Operators,      \* shells a command may be run from
    Slots,          \* room for pods, the surge included
    Replicas,       \* replicas of the Deployment
    Allocations,    \* percentages a canary is opened with
    LocalPercents,  \* what an operator's own configuration may say
    MaxVersion,     \* bound: versions registered
    MaxGeneration,  \* bound: restarts of the Deployment
    MaxCrashes      \* bound: containers that restart on their own

ASSUME RolloutAssumption ==
    /\ {MaxVersion, MaxGeneration, MaxCrashes, Replicas} \subseteq Nat
    /\ IsFiniteSet(Slots) /\ Replicas < Cardinality(Slots)
    /\ Allocations \subseteq 1..MaxTraffic /\ LocalPercents \subseteq 0..MaxTraffic

VARIABLES
    setting,        \* the allocation in the ConfigMap
    template,       \* how often the Deployment was restarted
    pods,           \* what each slot runs
    crashes,        \* how many containers restarted on their own
    registryUp,     \* does MLflow answer
    registered,     \* versions registered
    alias,          \* the version each alias names
    measured,       \* has the canary tier ever answered a request
    pc,             \* where each operator's command is
    installing,     \* the version that command is making production
    reopened        \* was the canary opened again since it wrote its zero

cluster == <<setting, template, pods, crashes>>
registry == <<registryUp, registered, alias>>
commands == <<pc, installing, reopened>>
vars == <<cluster, registry, measured, commands>>

Phases == {"absent", "starting", "ready", "unready"}
Pod == [phase : Phases, generation : Nat, traffic : 0..MaxTraffic, candidate : Nat]
Absent == [phase |-> "absent", generation |-> 0, traffic |-> 0, candidate |-> None]
Aliases == {"production", "canary"}
Labels == {"idle", "move", "clear", "patch", "restart", "status", "done"}

Running == {s \in Slots : pods[s].phase # "absent"}
Ready == {s \in Slots : pods[s].phase = "ready"}
Updated == {s \in Running : pods[s].generation = template}

\* The slots of the replicas the Deployment begins with.
FirstPods == CHOOSE S \in SUBSET Slots : Cardinality(S) = Replicas

\* Version 1 is production, served by every replica; nothing is on trial.
Init ==
    /\ setting = 0 /\ template = 0 /\ crashes = 0
    /\ pods = [s \in Slots |-> IF s \in FirstPods THEN [Absent EXCEPT !.phase = "ready"]
                                                ELSE Absent]
    /\ registryUp = TRUE /\ registered = 1
    /\ alias = [a \in Aliases |-> IF a = "production" THEN 1 ELSE None]
    /\ measured = FALSE
    /\ pc = [o \in Operators |-> "idle"]
    /\ installing = [o \in Operators |-> None]
    /\ reopened = [o \in Operators |-> FALSE]

-----------------------------------------------------------------------------
(* The cluster: one surge pod, none unavailable (21-api-deployment.yaml). *)

\* A container starts: its environment is the ConfigMap as it now is.
StartContainer(s, generation) ==
    pods' = [pods EXCEPT ![s] = [phase |-> "starting", generation |-> generation,
                                 traffic |-> setting, candidate |-> None]]

CreatePod(s) ==
    /\ s \notin Running
    /\ Cardinality(Running) <= Replicas /\ Cardinality(Updated) < Replicas
    /\ StartContainer(s, template)
    /\ UNCHANGED <<setting, template, crashes, registry, measured, commands>>

\* lifespan: the model is resolved, and the router started if there is traffic
\* to route.
BecomeReady(s) ==
    /\ pods[s].phase = "starting" /\ registryUp
    /\ pods' = [pods EXCEPT ![s].phase = "ready",
                            ![s].candidate = IF pods[s].traffic > 0
                                             THEN alias["canary"] ELSE None]
    /\ measured' = (measured \/ pods[s].traffic > 0)
    /\ UNCHANGED <<setting, template, crashes, registry, commands>>

\* The one attempt to load failed; /ready answers 503 from here on.
StartUnready(s) ==
    /\ pods[s].phase = "starting" /\ ~registryUp
    /\ pods' = [pods EXCEPT ![s].phase = "unready"]
    /\ UNCHANGED <<setting, template, crashes, registry, measured, commands>>

RemovePod(s) ==
    /\ s \in Running \ Updated
    /\ s \in Ready => Cardinality(Ready) > Replicas
    /\ pods' = [pods EXCEPT ![s] = Absent]
    /\ UNCHANGED <<setting, template, crashes, registry, measured, commands>>

\* A container that dies is started again in its pod, as a new process.
RestartContainer(s) ==
    /\ s \in Running /\ crashes < MaxCrashes
    /\ crashes' = crashes + 1
    /\ StartContainer(s, pods[s].generation)
    /\ UNCHANGED <<setting, template, registry, measured, commands>>

\* The Deployment controller and kubelet.
ClusterStep ==
    \E s \in Slots :
        CreatePod(s) \/ BecomeReady(s) \/ StartUnready(s) \/ RemovePod(s) \/ RestartContainer(s)

-----------------------------------------------------------------------------
(* People and the registry. *)

\* start_canary, elsewhere: a candidate is registered under the canary alias.
RegisterCanary ==
    /\ registryUp /\ registered < MaxVersion
    /\ registered' = registered + 1
    /\ alias' = [alias EXCEPT !["canary"] = registered + 1]
    /\ UNCHANGED <<cluster, registryUp, measured, commands>>

PatchByHand(percent) ==
    /\ setting' = percent
    /\ reopened' = [o \in Operators |-> TRUE]
    /\ UNCHANGED <<template, pods, crashes, registry, measured, pc, installing>>

\* Opening a canary, or a rollout for any other reason.
RestartByHand ==
    /\ template < MaxGeneration
    /\ template' = template + 1
    /\ UNCHANGED <<setting, pods, crashes, registry, measured, commands>>

RegistryComesOrGoes ==
    /\ registryUp' = ~registryUp
    /\ UNCHANGED <<cluster, registered, alias, measured, commands>>

-----------------------------------------------------------------------------
(* command_canary *)

Goto(o, label) == pc' = [pc EXCEPT ![o] = label]

\* The preconditions of complete, as this command meets them: the router was
\* started a moment ago from its own arguments.
MayCompleteFromCommand(candidate, percent) ==
    MayComplete(Started(candidate, percent), [verdict |-> "promote", candidate |-> candidate])

\* A command that acts has read its signals; one that could not has raised.
\* There is no promote verdict without requests the canary answered.
DecidePromote(o, candidate, percent) ==
    /\ pc[o] \in {"idle", "done"} /\ measured
    /\ MayCompleteFromCommand(candidate, percent)
    /\ installing' = [installing EXCEPT ![o] = candidate]
    /\ Goto(o, "move")
    /\ UNCHANGED <<cluster, registry, measured, reopened>>

\* `rollback` whatever the verdict, or `decide` on a rollback verdict.
BeginRollback(o) ==
    /\ pc[o] \in {"idle", "done"}
    /\ Goto(o, "patch")
    /\ UNCHANGED <<cluster, registry, measured, installing, reopened>>

\* The command ends, by returning or by raising.
Exit(o, label) == Goto(o, label) /\ installing' = [installing EXCEPT ![o] = None]

MoveProduction(o) ==
    /\ pc[o] = "move" /\ registryUp
    /\ alias' = [alias EXCEPT !["production"] = installing[o]]
    /\ Goto(o, "clear")
    /\ UNCHANGED <<cluster, registryUp, registered, measured, installing, reopened>>

\* CanaryStateError, whether or not the registry applied the write.
MoveProductionFails(o) ==
    /\ pc[o] = "move"
    /\ \/ UNCHANGED alias
       \/ registryUp /\ alias' = [alias EXCEPT !["production"] = installing[o]]
    /\ Exit(o, "idle")
    /\ UNCHANGED <<cluster, registryUp, registered, measured, reopened>>

\* Failing to clear is ignored.
ClearCanaryAlias(o) ==
    /\ pc[o] = "clear"
    /\ \/ UNCHANGED alias
       \/ registryUp /\ alias' = [alias EXCEPT !["canary"] = None]
    /\ Goto(o, "patch")
    /\ UNCHANGED <<cluster, registryUp, registered, measured, installing, reopened>>

(* KubernetesTrafficController.set_traffic(0.0) *)

PatchConfigMap(o) ==
    /\ pc[o] = "patch"
    /\ setting' = 0
    /\ reopened' = [reopened EXCEPT ![o] = FALSE]
    /\ Goto(o, "restart")
    /\ UNCHANGED <<template, pods, crashes, registry, measured, installing>>

\* Patching the ConfigMap taken for the whole of the change.
SkipRestart(o) ==
    /\ pc[o] = "restart"
    /\ Goto(o, "status")
    /\ UNCHANGED <<cluster, registry, measured, installing, reopened>>

RestartDeployment(o) ==
    /\ pc[o] = "restart" /\ template < MaxGeneration
    /\ template' = template + 1
    /\ Goto(o, "status")
    /\ UNCHANGED <<setting, pods, crashes, registry, measured, installing, reopened>>

\* The rollout assumed to land once it is asked for.
ReturnUnwaited(o) ==
    /\ pc[o] = "status"
    /\ Exit(o, "done")
    /\ UNCHANGED <<cluster, registry, measured, reopened>>

\* `kubectl rollout status`: every replica is of the newest template and ready,
\* and no older one is left.
AwaitRollout(o) ==
    /\ pc[o] = "status"
    /\ Running = Updated /\ Updated \subseteq Ready /\ Cardinality(Updated) >= Replicas
    /\ Exit(o, "done")
    /\ UNCHANGED <<cluster, registry, measured, reopened>>

\* TrafficControlError: no kubectl, a refusal or a timeout.  The call that
\* failed may still have been carried out.
KubectlFails(o) ==
    /\ pc[o] \in {"patch", "restart", "status"}
    /\ \/ UNCHANGED <<setting, template>>
       \/ pc[o] = "patch" /\ setting' = 0 /\ UNCHANGED template
       \/ pc[o] = "restart" /\ template < MaxGeneration /\ template' = template + 1
             /\ UNCHANGED setting
    /\ Exit(o, "idle")
    /\ UNCHANGED <<pods, crashes, registry, measured, reopened>>

Command(o) ==
    \/ \E candidate \in 1..registered, percent \in LocalPercents :
          DecidePromote(o, candidate, percent)
    \/ BeginRollback(o)
    \/ MoveProduction(o) \/ MoveProductionFails(o) \/ ClearCanaryAlias(o)
    \/ PatchConfigMap(o) \/ RestartDeployment(o) \/ AwaitRollout(o) \/ KubectlFails(o)

-----------------------------------------------------------------------------
Next ==
    \/ ClusterStep
    \/ RegisterCanary \/ RestartByHand \/ RegistryComesOrGoes
    \/ \E percent \in Allocations : PatchByHand(percent)
    \/ \E o \in Operators : Command(o)

Spec == Init /\ [][Next]_vars

\* The controllers of the cluster keep working; nobody has to run a command,
\* and a command may fail or be left at any point.
ClusterFairness ==
    \A s \in Slots :
        WF_vars(CreatePod(s)) /\ WF_vars(BecomeReady(s)) /\ WF_vars(RemovePod(s))

FairSpec == Spec /\ ClusterFairness

-----------------------------------------------------------------------------
(* Properties *)

TypeOK ==
    /\ setting \in 0..MaxTraffic
    /\ template \in Nat /\ crashes \in Nat /\ registered \in Nat
    /\ pods \in [Slots -> Pod]
    /\ alias \in [Aliases -> Nat]
    /\ {registryUp, measured} \subseteq BOOLEAN
    /\ pc \in [Operators -> Labels]
    /\ installing \in [Operators -> Nat]
    /\ reopened \in [Operators -> BOOLEAN]

\* What a command that wrote its zero can rely on while nobody opens a canary:
\* the ConfigMap still says zero, ...
ZeroStays ==
    \A o \in Operators :
        pc[o] \in {"restart", "status", "done"} /\ ~reopened[o] => setting = 0

\* ... every pod of the newest template, however many rollouts came since and
\* whatever containers restarted, started after the zero was written, ...
RestartedPodsAreDrained ==
    \A o \in Operators :
        pc[o] = "status" /\ ~reopened[o] =>
            \A s \in Updated : pods[s].traffic = 0

\* ... and once the command has returned, no pod routes a request to the canary
\* or ever will: "the caller learns that the rollback landed rather than
\* assuming it".
RollbackLanded ==
    \A o \in Operators :
        pc[o] = "done" /\ ~reopened[o] => \A s \in Running : pods[s].traffic = 0

\* No pod is of a template that does not exist yet.
GenerationsExist == \A s \in Slots : pods[s].generation <= template

\* The inductive invariant.
RInv == TypeOK /\ GenerationsExist /\ ZeroStays /\ RestartedPodsAreDrained /\ RollbackLanded

\* A rollback whose restart was issued takes effect, even if the command that
\* issued it times out or is killed - as long as the registry answers the pods
\* that start meanwhile.  (Without it a new pod never becomes ready and, with no
\* replica allowed to be unavailable, the old ones keep routing to the canary.)
RollbackTakesEffect ==
    []registryUp =>
        \A o \in Operators :
            pc[o] = "status" ~> (reopened[o] \/ \A s \in Running : pods[s].traffic = 0)

\* complete "refuses unless all three hold - the decision says `promote`, a
\* canary is still running, and [...]" (docs/canary.md): production moves only
\* while some replica still routes requests to the canary.
CompletesRunningCanary ==
    [][alias'["production"] # alias["production"] =>
          \E s \in Ready : pods[s].traffic > 0]_vars
=============================================================================

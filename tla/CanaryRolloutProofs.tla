-------------------------- MODULE CanaryRolloutProofs -----------------------
(***************************************************************************)
(* Proofs about CanaryRollout for any number of shells, pods, rollouts,    *)
(* container restarts and registered versions.                             *)
(***************************************************************************)
EXTENDS CanaryRollout, TLAPS

\* A cluster without a canary to begin with.
LEMMA InitInvariant == Init => RInv
<1> SUFFICES ASSUME Init PROVE RInv
    OBVIOUS
<1>1. TypeOK
  <2>1. Absent \in Pod /\ [Absent EXCEPT !.phase = "ready"] \in Pod
    BY DEF Absent, Pod, Phases, None, MaxTraffic
  <2>2. pods \in [Slots -> Pod]
    BY <2>1 DEF Init
  <2>3. alias \in [Aliases -> Nat] /\ setting \in 0..MaxTraffic
    BY DEF Init, None, MaxTraffic
  <2>4. pc \in [Operators -> Labels] /\ reopened \in [Operators -> BOOLEAN]
    BY DEF Init, Labels
  <2>5. installing \in [Operators -> Nat]
    BY DEF Init, None
  <2> QED BY <2>2, <2>3, <2>4, <2>5 DEF Init, TypeOK
<1>2. GenerationsExist
  BY DEF Init, GenerationsExist, Absent
<1>3. ZeroStays /\ RestartedPodsAreDrained /\ RollbackLanded
  BY DEF Init, ZeroStays, RestartedPodsAreDrained, RollbackLanded
<1> QED BY <1>1, <1>2, <1>3 DEF RInv

(* One lemma per action: it keeps the inductive invariant. *)

\* A new pod reads the ConfigMap as it is, which is zero for any command
\* still relying on it.
LEMMA CreatePodKeeps ==
  ASSUME RInv, NEW s \in Slots, CreatePod(s)
  PROVE  RInv'
<1> USE RolloutAssumption DEF RInv, TypeOK
<1>1. TypeOK'
  BY DEF CreatePod, StartContainer, registry, commands, Pod, Phases, None
<1>2. GenerationsExist'
  BY DEF CreatePod, StartContainer, registry, commands, GenerationsExist,
     Pod
<1>3. ZeroStays'
  BY DEF CreatePod, StartContainer, registry, commands, ZeroStays
<1>4. RestartedPodsAreDrained'
  BY DEF CreatePod, StartContainer, registry, commands,
     RestartedPodsAreDrained, ZeroStays, GenerationsExist, Updated, Running,
     Pod
<1>5. RollbackLanded'
  BY DEF CreatePod, StartContainer, registry, commands, RollbackLanded,
     RestartedPodsAreDrained, ZeroStays, Updated, Running, Pod
<1> QED BY <1>1, <1>2, <1>3, <1>4, <1>5

\* A pod keeps the allocation it started with.
LEMMA BecomeReadyKeeps ==
  ASSUME RInv, NEW s \in Slots, BecomeReady(s)
  PROVE  RInv'
<1> USE RolloutAssumption DEF RInv, TypeOK
<1>1. TypeOK'
  <2>1. pods[s] \in Pod /\ alias["canary"] \in Nat
    BY DEF Aliases
  <2>2. [pods[s] EXCEPT !.phase = "ready",
                        !.candidate = IF pods[s].traffic > 0 THEN alias["canary"] ELSE None] \in Pod
    BY <2>1 DEF Pod, Phases, None
  <2>3. pods' \in [Slots -> Pod]
    BY <2>2 DEF BecomeReady
  <2>4. measured' \in BOOLEAN
    BY DEF BecomeReady
  <2> QED BY <2>3, <2>4 DEF BecomeReady, cluster, registry, commands
<1>2. GenerationsExist'
  BY DEF BecomeReady, registry, commands, GenerationsExist, Pod
<1>3. ZeroStays'
  BY DEF BecomeReady, registry, commands, ZeroStays
<1>4. RestartedPodsAreDrained'
  BY DEF BecomeReady, registry, commands, RestartedPodsAreDrained,
     ZeroStays, GenerationsExist, Updated, Running, Pod
<1>5. RollbackLanded'
  BY DEF BecomeReady, registry, commands, RollbackLanded,
     RestartedPodsAreDrained, ZeroStays, Updated, Running, Pod
<1> QED BY <1>1, <1>2, <1>3, <1>4, <1>5

\* So does one that could not load its model.
LEMMA StartUnreadyKeeps ==
  ASSUME RInv, NEW s \in Slots, StartUnready(s)
  PROVE  RInv'
<1> USE RolloutAssumption DEF RInv, TypeOK
<1>1. TypeOK'
  BY DEF StartUnready, registry, commands, Pod, Phases
<1>2. GenerationsExist'
  BY DEF StartUnready, registry, commands, GenerationsExist, Pod
<1>3. ZeroStays'
  BY DEF StartUnready, registry, commands, ZeroStays
<1>4. RestartedPodsAreDrained'
  BY DEF StartUnready, registry, commands, RestartedPodsAreDrained,
     ZeroStays, GenerationsExist, Updated, Running, Pod
<1>5. RollbackLanded'
  BY DEF StartUnready, registry, commands, RollbackLanded,
     RestartedPodsAreDrained, ZeroStays, Updated, Running, Pod
<1> QED BY <1>1, <1>2, <1>3, <1>4, <1>5

\* A slot that is empty routes nothing.
LEMMA RemovePodKeeps ==
  ASSUME RInv, NEW s \in Slots, RemovePod(s)
  PROVE  RInv'
<1> USE RolloutAssumption DEF RInv, TypeOK
<1>1. TypeOK'
  BY DEF RemovePod, registry, commands, Pod, Phases, Absent, None,
     MaxTraffic
<1>2. GenerationsExist'
  BY DEF RemovePod, registry, commands, GenerationsExist, Absent, Pod
<1>3. ZeroStays'
  BY DEF RemovePod, registry, commands, ZeroStays
<1>4. RestartedPodsAreDrained'
  BY DEF RemovePod, registry, commands, RestartedPodsAreDrained, ZeroStays,
     GenerationsExist, Updated, Running, Pod, Absent
<1>5. RollbackLanded'
  BY DEF RemovePod, registry, commands, RollbackLanded,
     RestartedPodsAreDrained, ZeroStays, Updated, Running, Pod, Absent
<1> QED BY <1>1, <1>2, <1>3, <1>4, <1>5

\* A restarted container, of whatever generation, reads the ConfigMap anew.
LEMMA RestartContainerKeeps ==
  ASSUME RInv, NEW s \in Slots, RestartContainer(s)
  PROVE  RInv'
<1> USE RolloutAssumption DEF RInv, TypeOK
<1>1. TypeOK'
  BY DEF RestartContainer, StartContainer, registry, commands, Pod, Phases,
     None
<1>2. GenerationsExist'
  BY DEF RestartContainer, StartContainer, registry, commands,
     GenerationsExist, Pod
<1>3. ZeroStays'
  BY DEF RestartContainer, StartContainer, registry, commands, ZeroStays
<1>4. RestartedPodsAreDrained'
  BY DEF RestartContainer, StartContainer, registry, commands,
     RestartedPodsAreDrained, ZeroStays, GenerationsExist, Updated, Running,
     Pod
<1>5. RollbackLanded'
  BY DEF RestartContainer, StartContainer, registry, commands,
     RollbackLanded, RestartedPodsAreDrained, ZeroStays, Updated, Running, Pod
<1> QED BY <1>1, <1>2, <1>3, <1>4, <1>5

\* Registering touches no allocation.
LEMMA RegisterCanaryKeeps ==
  ASSUME RInv, RegisterCanary
  PROVE  RInv'
<1> USE RolloutAssumption DEF RInv, TypeOK
<1>1. TypeOK'
  BY DEF RegisterCanary, cluster, commands, Aliases
<1>2. GenerationsExist'
  BY DEF RegisterCanary, cluster, commands, GenerationsExist
<1>3. ZeroStays'
  BY DEF RegisterCanary, cluster, commands, ZeroStays
<1>4. RestartedPodsAreDrained'
  BY DEF RegisterCanary, cluster, commands, RestartedPodsAreDrained,
     ZeroStays, GenerationsExist, Updated, Running
<1>5. RollbackLanded'
  BY DEF RegisterCanary, cluster, commands, RollbackLanded,
     RestartedPodsAreDrained, ZeroStays, Updated, Running
<1> QED BY <1>1, <1>2, <1>3, <1>4, <1>5

\* Opening a canary ends what any command may rely on.
LEMMA PatchByHandKeeps ==
  ASSUME RInv, NEW percent \in Allocations, PatchByHand(percent)
  PROVE  RInv'
<1> USE RolloutAssumption DEF RInv, TypeOK
<1>1. TypeOK'
  BY DEF PatchByHand, registry, MaxTraffic
<1>2. GenerationsExist'
  BY DEF PatchByHand, registry, GenerationsExist
<1>3. ZeroStays'
  BY DEF PatchByHand, registry, ZeroStays
<1>4. RestartedPodsAreDrained'
  BY DEF PatchByHand, registry, RestartedPodsAreDrained, ZeroStays,
     GenerationsExist, Updated, Running
<1>5. RollbackLanded'
  BY DEF PatchByHand, registry, RollbackLanded, RestartedPodsAreDrained,
     ZeroStays, Updated, Running
<1> QED BY <1>1, <1>2, <1>3, <1>4, <1>5

\* A rollout for another reason has no pods yet.
LEMMA RestartByHandKeeps ==
  ASSUME RInv, RestartByHand
  PROVE  RInv'
<1> USE RolloutAssumption DEF RInv, TypeOK
<1>1. TypeOK'
  BY DEF RestartByHand, registry, commands
<1>2. GenerationsExist'
  BY DEF RestartByHand, registry, commands, GenerationsExist, Pod
<1>3. ZeroStays'
  BY DEF RestartByHand, registry, commands, ZeroStays
<1>4. RestartedPodsAreDrained'
  BY DEF RestartByHand, registry, commands, RestartedPodsAreDrained,
     ZeroStays, GenerationsExist, Updated, Running
<1>5. RollbackLanded'
  BY DEF RestartByHand, registry, commands, RollbackLanded,
     RestartedPodsAreDrained, ZeroStays, Updated, Running
<1> QED BY <1>1, <1>2, <1>3, <1>4, <1>5

\* The registry holds no allocation.
LEMMA RegistryComesOrGoesKeeps ==
  ASSUME RInv, RegistryComesOrGoes
  PROVE  RInv'
<1> USE RolloutAssumption DEF RInv, TypeOK
<1>1. TypeOK'
  BY DEF RegistryComesOrGoes, cluster, commands
<1>2. GenerationsExist'
  BY DEF RegistryComesOrGoes, cluster, commands, GenerationsExist
<1>3. ZeroStays'
  BY DEF RegistryComesOrGoes, cluster, commands, ZeroStays
<1>4. RestartedPodsAreDrained'
  BY DEF RegistryComesOrGoes, cluster, commands, RestartedPodsAreDrained,
     ZeroStays, GenerationsExist, Updated, Running
<1>5. RollbackLanded'
  BY DEF RegistryComesOrGoes, cluster, commands, RollbackLanded,
     RestartedPodsAreDrained, ZeroStays, Updated, Running
<1> QED BY <1>1, <1>2, <1>3, <1>4, <1>5

\* A new command relies on nothing yet.
LEMMA DecidePromoteKeeps ==
  ASSUME RInv, NEW o \in Operators, NEW candidate \in 1..registered, NEW percent \in LocalPercents,
         DecidePromote(o, candidate, percent)
  PROVE  RInv'
<1> USE RolloutAssumption DEF RInv, TypeOK
<1>1. TypeOK'
  BY DEF DecidePromote, Goto, cluster, registry, Labels
<1>2. GenerationsExist'
  BY DEF DecidePromote, Goto, cluster, registry, GenerationsExist
<1>3. ZeroStays'
  BY DEF DecidePromote, Goto, cluster, registry, ZeroStays, Labels
<1>4. RestartedPodsAreDrained'
  BY DEF DecidePromote, Goto, cluster, registry, RestartedPodsAreDrained,
     ZeroStays, GenerationsExist, Updated, Running, Labels
<1>5. RollbackLanded'
  BY DEF DecidePromote, Goto, cluster, registry, RollbackLanded,
     RestartedPodsAreDrained, ZeroStays, Updated, Running, Labels
<1> QED BY <1>1, <1>2, <1>3, <1>4, <1>5

\* Nor does a rollback before it wrote its zero.
LEMMA BeginRollbackKeeps ==
  ASSUME RInv, NEW o \in Operators, BeginRollback(o)
  PROVE  RInv'
<1> USE RolloutAssumption DEF RInv, TypeOK
<1>1. TypeOK'
  BY DEF BeginRollback, Goto, cluster, registry, Labels
<1>2. GenerationsExist'
  BY DEF BeginRollback, Goto, cluster, registry, GenerationsExist
<1>3. ZeroStays'
  BY DEF BeginRollback, Goto, cluster, registry, ZeroStays, Labels
<1>4. RestartedPodsAreDrained'
  BY DEF BeginRollback, Goto, cluster, registry, RestartedPodsAreDrained,
     ZeroStays, GenerationsExist, Updated, Running, Labels
<1>5. RollbackLanded'
  BY DEF BeginRollback, Goto, cluster, registry, RollbackLanded,
     RestartedPodsAreDrained, ZeroStays, Updated, Running, Labels
<1> QED BY <1>1, <1>2, <1>3, <1>4, <1>5

\* Moving the alias touches no allocation.
LEMMA MoveProductionKeeps ==
  ASSUME RInv, NEW o \in Operators, MoveProduction(o)
  PROVE  RInv'
<1> USE RolloutAssumption DEF RInv, TypeOK
<1>1. TypeOK'
  BY DEF MoveProduction, Goto, cluster, Labels, Aliases
<1>2. GenerationsExist'
  BY DEF MoveProduction, Goto, cluster, GenerationsExist
<1>3. ZeroStays'
  BY DEF MoveProduction, Goto, cluster, ZeroStays, Labels
<1>4. RestartedPodsAreDrained'
  BY DEF MoveProduction, Goto, cluster, RestartedPodsAreDrained, ZeroStays,
     GenerationsExist, Updated, Running, Labels
<1>5. RollbackLanded'
  BY DEF MoveProduction, Goto, cluster, RollbackLanded,
     RestartedPodsAreDrained, ZeroStays, Updated, Running, Labels
<1> QED BY <1>1, <1>2, <1>3, <1>4, <1>5

\* Failing to move it neither.
LEMMA MoveProductionFailsKeeps ==
  ASSUME RInv, NEW o \in Operators, MoveProductionFails(o)
  PROVE  RInv'
<1> USE RolloutAssumption DEF RInv, TypeOK
<1>1. TypeOK'
  BY DEF MoveProductionFails, Exit, cluster, Goto, Labels, Aliases, None
<1>2. GenerationsExist'
  BY DEF MoveProductionFails, Exit, cluster, Goto, GenerationsExist
<1>3. ZeroStays'
  BY DEF MoveProductionFails, Exit, cluster, Goto, ZeroStays, Labels
<1>4. RestartedPodsAreDrained'
  BY DEF MoveProductionFails, Exit, cluster, Goto, RestartedPodsAreDrained,
     ZeroStays, GenerationsExist, Updated, Running, Labels
<1>5. RollbackLanded'
  BY DEF MoveProductionFails, Exit, cluster, Goto, RollbackLanded,
     RestartedPodsAreDrained, ZeroStays, Updated, Running, Labels
<1> QED BY <1>1, <1>2, <1>3, <1>4, <1>5

\* Nor does clearing the canary's alias.
LEMMA ClearCanaryAliasKeeps ==
  ASSUME RInv, NEW o \in Operators, ClearCanaryAlias(o)
  PROVE  RInv'
<1> USE RolloutAssumption DEF RInv, TypeOK
<1>1. TypeOK'
  BY DEF ClearCanaryAlias, Goto, cluster, Labels, Aliases, None
<1>2. GenerationsExist'
  BY DEF ClearCanaryAlias, Goto, cluster, GenerationsExist
<1>3. ZeroStays'
  BY DEF ClearCanaryAlias, Goto, cluster, ZeroStays, Labels
<1>4. RestartedPodsAreDrained'
  BY DEF ClearCanaryAlias, Goto, cluster, RestartedPodsAreDrained,
     ZeroStays, GenerationsExist, Updated, Running, Labels
<1>5. RollbackLanded'
  BY DEF ClearCanaryAlias, Goto, cluster, RollbackLanded,
     RestartedPodsAreDrained, ZeroStays, Updated, Running, Labels
<1> QED BY <1>1, <1>2, <1>3, <1>4, <1>5

\* The zero is written: what every other command relied on is still so.
LEMMA PatchConfigMapKeeps ==
  ASSUME RInv, NEW o \in Operators, PatchConfigMap(o)
  PROVE  RInv'
<1> USE RolloutAssumption DEF RInv, TypeOK
<1>1. TypeOK'
  BY DEF PatchConfigMap, Goto, registry, Labels, MaxTraffic
<1>2. GenerationsExist'
  BY DEF PatchConfigMap, Goto, registry, GenerationsExist
<1>3. ZeroStays'
  BY DEF PatchConfigMap, Goto, registry, ZeroStays, Labels
<1>4. RestartedPodsAreDrained'
  BY DEF PatchConfigMap, Goto, registry, RestartedPodsAreDrained, ZeroStays,
     GenerationsExist, Updated, Running, Labels
<1>5. RollbackLanded'
  BY DEF PatchConfigMap, Goto, registry, RollbackLanded,
     RestartedPodsAreDrained, ZeroStays, Updated, Running, Labels
<1> QED BY <1>1, <1>2, <1>3, <1>4, <1>5

\* No pod is of the template the restart makes.
LEMMA RestartDeploymentKeeps ==
  ASSUME RInv, NEW o \in Operators, RestartDeployment(o)
  PROVE  RInv'
<1> USE RolloutAssumption DEF RInv, TypeOK
<1>1. TypeOK'
  BY DEF RestartDeployment, Goto, registry, Labels
<1>2. GenerationsExist'
  BY DEF RestartDeployment, Goto, registry, GenerationsExist, Pod
<1>3. ZeroStays'
  BY DEF RestartDeployment, Goto, registry, ZeroStays, Labels
<1>4. RestartedPodsAreDrained'
  BY DEF RestartDeployment, Goto, registry, RestartedPodsAreDrained,
     ZeroStays, GenerationsExist, Updated, Running, Labels
<1>5. RollbackLanded'
  BY DEF RestartDeployment, Goto, registry, RollbackLanded,
     RestartedPodsAreDrained, ZeroStays, Updated, Running, Labels
<1> QED BY <1>1, <1>2, <1>3, <1>4, <1>5

\* Only pods of the newest template are left, and they are drained.
LEMMA AwaitRolloutKeeps ==
  ASSUME RInv, NEW o \in Operators, AwaitRollout(o)
  PROVE  RInv'
<1> USE RolloutAssumption DEF RInv, TypeOK
<1>1. TypeOK'
  BY DEF AwaitRollout, Exit, cluster, registry, Goto, Labels, None
<1>2. GenerationsExist'
  BY DEF AwaitRollout, Exit, cluster, registry, Goto, GenerationsExist
<1>3. ZeroStays'
  BY DEF AwaitRollout, Exit, cluster, registry, Goto, ZeroStays, Labels
<1>4. RestartedPodsAreDrained'
  BY DEF AwaitRollout, Exit, cluster, registry, Goto,
     RestartedPodsAreDrained, ZeroStays, GenerationsExist, Updated, Running,
     Labels
<1>5. RollbackLanded'
  BY DEF AwaitRollout, Exit, cluster, registry, Goto, RollbackLanded,
     RestartedPodsAreDrained, ZeroStays, Updated, Running, Labels
<1> QED BY <1>1, <1>2, <1>3, <1>4, <1>5

\* A failed call leaves the command relying on nothing, and others with a
\* zero or a template without pods.
LEMMA KubectlFailsKeeps ==
  ASSUME RInv, NEW o \in Operators, KubectlFails(o)
  PROVE  RInv'
<1> USE RolloutAssumption DEF RInv, TypeOK
<1>1. TypeOK'
  BY DEF KubectlFails, Exit, registry, Goto, Labels, None, MaxTraffic
<1>2. GenerationsExist'
  BY DEF KubectlFails, Exit, registry, Goto, GenerationsExist, Pod
<1>3. ZeroStays'
  BY DEF KubectlFails, Exit, registry, Goto, ZeroStays, Labels
<1>4. RestartedPodsAreDrained'
  BY DEF KubectlFails, Exit, registry, Goto, RestartedPodsAreDrained,
     ZeroStays, GenerationsExist, Updated, Running, Labels
<1>5. RollbackLanded'
  BY DEF KubectlFails, Exit, registry, Goto, RollbackLanded,
     RestartedPodsAreDrained, ZeroStays, Updated, Running, Labels
<1> QED BY <1>1, <1>2, <1>3, <1>4, <1>5

(* The invariant. *)

\* Every step of the cluster, of people and of every command keeps RInv.
LEMMA StepKeeps == RInv /\ [Next]_vars => RInv'
<1> SUFFICES ASSUME RInv, [Next]_vars PROVE RInv'
    OBVIOUS
<1>1. CASE ClusterStep
  BY <1>1, CreatePodKeeps, BecomeReadyKeeps, StartUnreadyKeeps, RemovePodKeeps,
     RestartContainerKeeps DEF ClusterStep
<1>2. CASE RegisterCanary \/ RestartByHand \/ RegistryComesOrGoes
  BY <1>2, RegisterCanaryKeeps, RestartByHandKeeps, RegistryComesOrGoesKeeps
<1>3. CASE \E percent \in Allocations : PatchByHand(percent)
  BY <1>3, PatchByHandKeeps
<1>4. CASE \E o \in Operators : Command(o)
  <2>1. PICK o \in Operators : Command(o)
    BY <1>4
  <2> QED BY <2>1, DecidePromoteKeeps, BeginRollbackKeeps, MoveProductionKeeps,
             MoveProductionFailsKeeps, ClearCanaryAliasKeeps, PatchConfigMapKeeps,
             RestartDeploymentKeeps, AwaitRolloutKeeps, KubectlFailsKeeps DEF Command
<1>5. CASE UNCHANGED vars
  BY <1>5 DEF vars, cluster, registry, commands, RInv, TypeOK, GenerationsExist,
     ZeroStays, RestartedPodsAreDrained, RollbackLanded, Updated, Running
<1> QED BY <1>1, <1>2, <1>3, <1>4, <1>5 DEF Next

\* The inductive invariant holds of every behaviour of cluster and commands.
THEOREM Landing == Spec => []RInv
<1>1. Init => RInv
  BY InitInvariant
<1>2. RInv /\ [Next]_vars => RInv'
  BY StepKeeps
<1> QED BY <1>1, <1>2, PTL DEF Spec

\* A rollback that returned has landed: until someone opens a canary again, no
\* pod routes a request to the candidate, through any number of rollouts,
\* container restarts, registry outages and other commands.
THEOREM ReturnedMeansDrained == Spec => []RollbackLanded
<1>1. RInv => RollbackLanded
  BY DEF RInv
<1> QED BY <1>1, Landing, PTL
=============================================================================

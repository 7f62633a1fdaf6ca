------------------------ MODULE CanaryPipelineProofs ------------------------
(***************************************************************************)
(* Proofs about CanaryPipeline for every number of hosts and promoters and *)
(* every bound.  IInv is shown inductive with one lemma per action; what   *)
(* the action properties and the refinement need is read off IInv.         *)
(***************************************************************************)
EXTENDS CanaryPipeline, TLAPS

(* Helpers *)

\* A step in which no process gains a version keeps the two conjuncts that
\* are about several processes.  Only a registration gains one.
LEMMA NoNewHolder ==
  ASSUME IInv, TypeOK', rolledBack' = rolledBack, registered <= registered',
         \A v \in Versions, q \in Processes : Holds(q, v)' => Holds(q, v)
  PROVE  OneOwner' /\ RolledBackNotServed'
<1>1. OneOwner'
  BY DEF IInv, OneOwner, Versions
<1>2. RolledBackNotServed'
  BY BoundsAssumption DEF IInv, RolledBackNotServed, TypeOK, Versions
<1> QED BY <1>1, <1>2

\* The history says nothing new of a version that nobody takes up and that
\* production does not come to name, as long as its complete does not return with
\* the router still running.
LEMMA NothingMoves ==
  ASSUME IInv, TypeOK', UNCHANGED history, registered <= registered',
         alias'["production"] = alias["production"],
         \A v \in Versions, q \in Processes :
            /\ Pending(q, v)' => Pending(q, v)
            /\ InTrial(q, v)' => InTrial(q, v)
            /\ InTrial(q, v)' /\ pc[q] \in {"clear", "stop"} => pc'[q] \in {"clear", "stop"}
  PROVE  RollbackReportIsTrue' /\ MovesEndTrials'
<1>1. RollbackReportIsTrue'
  BY DEF IInv, RollbackReportIsTrue, history
<1>2. alias'["production"] \in named' \cup {None} /\ named' \subseteq 1..registered'
  BY BoundsAssumption DEF IInv, MovesEndTrials, TypeOK, history
<1>3. ASSUME NEW v \in named', NEW q \in Processes
      PROVE  /\ ~Pending(q, v)'
             /\ InTrial(q, v)' => v \in unheard' \/ pc'[q] \in {"clear", "stop"}
  <2>1. v \in named /\ v \in Versions
    BY DEF IInv, TypeOK, history
  <2> QED BY <2>1 DEF IInv, MovesEndTrials, history
<1> QED BY <1>1, <1>2, <1>3 DEF MovesEndTrials

\* Production names numbered versions or none.
LEMMA NamingTyped ==
  ASSUME named \subseteq Versions, alias' \in [Aliases -> 0..MaxVersion], Naming
  PROVE  named' \subseteq Versions
<1>1. alias'["production"] \in 0..MaxVersion
  BY DEF Aliases
<1>2. alias'["production"] \in Versions \cup {None}
  BY <1>1, BoundsAssumption DEF Versions, None
<1> QED BY <1>2 DEF Naming

\* Production comes to name a version its mover holds: everything the history
\* says stays true if the mover is then about to stop its router, or no longer
\* holds the version, or did not hear that it has moved.
LEMMA HolderMoves ==
  ASSUME IInv, TypeOK', NEW p \in Processes, NEW v \in Versions, Holds(p, v),
         alias'["production"] \in {alias["production"], v}, Naming,
         UNCHANGED <<registered, router, rolledBack>>,
         unheard \subseteq unheard',
         \A q \in Processes : q # p => pc'[q] = pc[q] /\ job'[q] = job[q],
         \A u \in Versions : Pending(p, u)' =>
            Pending(p, u) /\ alias'["production"] = alias["production"],
         InTrial(p, v) => v \in unheard' \/ pc'[p] \in {"clear", "stop"}
                          \/ alias'["production"] = alias["production"],
         pc[p] \notin {"clear", "stop"}
  PROVE  RollbackReportIsTrue' /\ MovesEndTrials'
<1>0. v \in 1..registered /\ v \notin rolledBack
      /\ \A q \in Processes : q # p => ~Holds(q, v)
  BY BoundsAssumption
  DEF IInv, TypeOK, RouterMatchesRegistry, RolledBackNotServed, OneOwner, Holds, Pending,
      InTrial, Versions
<1>1. named' \subseteq named \cup {v}
      /\ (alias'["production"] = alias["production"] => named' = named)
      /\ alias'["production"] \in named' \cup {None}
  BY DEF IInv, MovesEndTrials, Naming
<1>2. RollbackReportIsTrue'
  BY <1>0, <1>1 DEF IInv, RollbackReportIsTrue
<1>3. named' \subseteq 1..registered'
  BY <1>0, <1>1 DEF IInv, MovesEndTrials
<1>4. ASSUME NEW u \in named', NEW q \in Processes
      PROVE  /\ ~Pending(q, u)'
             /\ InTrial(q, u)' => u \in unheard' \/ pc'[q] \in {"clear", "stop"}
  <2>1. u \in Versions
    BY DEF TypeOK
  <2>2. InTrial(q, u)' <=> InTrial(q, u)
    BY DEF InTrial
  <2>3. CASE q = p
    BY <1>1, <2>1, <2>2, <2>3 DEF IInv, MovesEndTrials
  <2>4. CASE q # p
    <3>1. Pending(q, u)' <=> Pending(q, u)
      BY <2>4 DEF Pending
    <3> QED BY <1>0, <1>1, <2>2, <2>4, <3>1 DEF IInv, MovesEndTrials, Holds
  <2> QED BY <2>3, <2>4
<1> QED BY <1>1, <1>2, <1>3, <1>4 DEF MovesEndTrials

\* What stop and set_traffic return is again a router state: in particular
\* no allocation above the cap gets in by a dial-up.
LEMMA RouterTyped ==
  ASSUME NEW r \in Router, NEW percent \in Nat
  PROVE  Stopped(r) \in Router /\ Dialled(r, percent) \in Router
<1>1. Stopped(r) \in Router
  BY DEF Stopped, Router, MaxTraffic
<1>2. CASE percent = 0
  BY <1>1, <1>2 DEF Dialled
<1>3. CASE percent # 0 /\ ValidTraffic(percent)
  BY <1>1, <1>3 DEF Dialled, ValidTraffic, Router, MaxTraffic
<1>4. CASE percent # 0 /\ ~ValidTraffic(percent)
  BY <1>1, <1>4 DEF Dialled
<1> QED BY <1>1, <1>2, <1>3, <1>4

\* The version a process is about to point an alias at is a numbered one.
LEMMA JobTyped ==
  ASSUME IInv, NEW p \in Processes
  PROVE  /\ job[p].target \in Aliases
         /\ pc[p] \in {"alias", "open", "move"} => job[p].version \in Versions
BY BoundsAssumption DEF IInv, TypeOK, Job, Versions, RouterMatchesRegistry, InTrial

\* The store starts empty and every process idle.
LEMMA InitInvariant == Init => IInv
<1> SUFFICES ASSUME Init PROVE IInv
    OBVIOUS
<1> USE BoundsAssumption
<1>1. TypeOK
  BY DEF Init, TypeOK, Aliases, Labels, Job, NoJob, Router, FreshRouter, None,
      MaxTraffic, Versions
<1>2. OneOwner
  BY DEF Init, OneOwner, Holds, Pending, InTrial, FreshRouter
<1>3. RouterMatchesRegistry
  BY DEF Init, RouterMatchesRegistry, InTrial, FreshRouter
<1>4. RolledBackNotServed
  BY DEF Init, RolledBackNotServed
<1>5. RollbackReportIsTrue /\ MovesEndTrials
  BY DEF Init, RollbackReportIsTrue, MovesEndTrials, Aliases
<1> QED BY <1>1, <1>2, <1>3, <1>4, <1>5 DEF IInv

(* One lemma per action: it keeps the inductive invariant. *)

LEMMA BeginStartKeeps ==
  ASSUME IInv, NEW p \in Processes, BeginStart(p)
  PROVE  IInv'
<1> USE BoundsAssumption DEF IInv, history
<1>1. TypeOK'
  BY DEF BeginStart, Goto, TypeOK, Labels, Job, Aliases, Router, Versions
<1>2. RouterMatchesRegistry'
  BY DEF BeginStart, Goto, TypeOK, RouterMatchesRegistry, Labels, Job, Router,
      InTrial
<1>3. \A v \in Versions, q \in Processes : Holds(q, v)' => Holds(q, v)
  BY DEF BeginStart, Goto, TypeOK, RouterMatchesRegistry, Labels, Job, Router,
      Holds, Pending, InTrial
<1>4. rolledBack' = rolledBack /\ registered <= registered'
  BY DEF BeginStart, TypeOK, Versions
<1>5. RollbackReportIsTrue' /\ MovesEndTrials'
  <2>1. UNCHANGED history /\ alias'["production"] = alias["production"]
    BY DEF BeginStart, TypeOK
  <2>2. \A v \in Versions, q \in Processes :
          /\ Pending(q, v)' => Pending(q, v)
          /\ InTrial(q, v)' => InTrial(q, v)
          /\ InTrial(q, v)' /\ pc[q] \in {"clear", "stop"} => pc'[q] \in {"clear", "stop"}
    BY DEF BeginStart, Goto, TypeOK, RouterMatchesRegistry, Labels, Job, Router, Pending, InTrial
  <2> QED BY <1>1, <1>4, <2>1, <2>2, NothingMoves
<1> QED BY <1>1, <1>2, <1>3, <1>4, <1>5, NoNewHolder

LEMMA BeginPromotionKeeps ==
  ASSUME IInv, NEW p \in Processes, BeginPromotion(p)
  PROVE  IInv'
<1> USE BoundsAssumption DEF IInv, history
<1>1. TypeOK'
  BY DEF BeginPromotion, Goto, TypeOK, Labels, Job, Aliases, Router, Versions
<1>2. RouterMatchesRegistry'
  BY DEF BeginPromotion, Goto, TypeOK, RouterMatchesRegistry, Labels, Job,
      Router, InTrial
<1>3. \A v \in Versions, q \in Processes : Holds(q, v)' => Holds(q, v)
  BY DEF BeginPromotion, Goto, TypeOK, RouterMatchesRegistry, Labels, Job,
      Router, Holds, Pending, InTrial
<1>4. rolledBack' = rolledBack /\ registered <= registered'
  BY DEF BeginPromotion, TypeOK, Versions
<1>5. RollbackReportIsTrue' /\ MovesEndTrials'
  <2>1. UNCHANGED history /\ alias'["production"] = alias["production"]
    BY DEF BeginPromotion, TypeOK
  <2>2. \A v \in Versions, q \in Processes :
          /\ Pending(q, v)' => Pending(q, v)
          /\ InTrial(q, v)' => InTrial(q, v)
          /\ InTrial(q, v)' /\ pc[q] \in {"clear", "stop"} => pc'[q] \in {"clear", "stop"}
    BY DEF BeginPromotion, Goto, TypeOK, RouterMatchesRegistry, Labels, Job, Router, Pending, InTrial
  <2> QED BY <1>1, <1>4, <2>1, <2>2, NothingMoves
<1> QED BY <1>1, <1>2, <1>3, <1>4, <1>5, NoNewHolder

LEMMA RegisterModelFailsKeeps ==
  ASSUME IInv, NEW p \in Processes, RegisterModelFails(p)
  PROVE  IInv'
<1> USE BoundsAssumption DEF IInv, history
<1>1. TypeOK'
  BY DEF RegisterModelFails, Goto, TypeOK, Labels, Job, Aliases, Router,
      Versions, Return, NoJob, None
<1>2. RouterMatchesRegistry'
  BY DEF RegisterModelFails, Goto, TypeOK, RouterMatchesRegistry, Labels, Job,
      Router, InTrial, Return, NoJob, None
<1>3. \A v \in Versions, q \in Processes : Holds(q, v)' => Holds(q, v)
  BY DEF RegisterModelFails, Goto, TypeOK, RouterMatchesRegistry, Labels, Job,
      Router, Holds, Pending, InTrial, Return, NoJob, None
<1>4. rolledBack' = rolledBack /\ registered <= registered'
  BY DEF RegisterModelFails, TypeOK, Versions
<1>5. RollbackReportIsTrue' /\ MovesEndTrials'
  <2>1. UNCHANGED history /\ alias'["production"] = alias["production"]
    BY DEF RegisterModelFails, TypeOK
  <2>2. \A v \in Versions, q \in Processes :
          /\ Pending(q, v)' => Pending(q, v)
          /\ InTrial(q, v)' => InTrial(q, v)
          /\ InTrial(q, v)' /\ pc[q] \in {"clear", "stop"} => pc'[q] \in {"clear", "stop"}
    BY DEF RegisterModelFails, Goto, TypeOK, RouterMatchesRegistry, Labels, Job, Router, Pending, InTrial, Return, NoJob, None
  <2> QED BY <1>1, <1>4, <2>1, <2>2, NothingMoves
<1> QED BY <1>1, <1>2, <1>3, <1>4, <1>5, NoNewHolder

LEMMA SetAliasKeeps ==
  ASSUME IInv, NEW p \in Processes, SetAlias(p)
  PROVE  IInv'
<1> USE BoundsAssumption DEF IInv, history
<1>1. TypeOK'
  <2>1. alias' \in [Aliases -> 0..MaxVersion]
    BY JobTyped DEF SetAlias, TypeOK, Versions
  <2>2. named' \subseteq Versions
    BY <2>1, NamingTyped DEF SetAlias, TypeOK
  <2> QED
    BY <2>1, <2>2 DEF SetAlias, Goto, Return, NoJob, None, TypeOK, Labels, Job, Aliases
<1>2. RouterMatchesRegistry'
  BY DEF SetAlias, Goto, TypeOK, RouterMatchesRegistry, Labels, Job, Router,
      InTrial, Return, NoJob, None
<1>3. \A v \in Versions, q \in Processes : Holds(q, v)' => Holds(q, v)
  BY DEF SetAlias, Goto, TypeOK, RouterMatchesRegistry, Labels, Job, Router,
      Holds, Pending, InTrial, Return, NoJob, None
<1>4. rolledBack' = rolledBack /\ registered <= registered'
  BY DEF SetAlias, TypeOK, Versions
<1> DEFINE v == job[p].version
<1>5. RollbackReportIsTrue' /\ MovesEndTrials'
  <2>1. v \in Versions /\ Holds(p, v)
    BY JobTyped DEF SetAlias, Holds, Pending, RouterMatchesRegistry
  <2>2. /\ alias'["production"] \in {alias["production"], v}
        /\ Naming /\ UNCHANGED <<registered, router, rolledBack>>
        /\ unheard \subseteq unheard'
    BY JobTyped DEF SetAlias, TypeOK, Aliases, MaybePointed
  <2>3. /\ \A q \in Processes : q # p => pc'[q] = pc[q] /\ job'[q] = job[q]
        /\ \A u \in Versions : Pending(p, u)' =>
              Pending(p, u) /\ alias'["production"] = alias["production"]
        /\ pc[p] \notin {"clear", "stop"}
    BY DEF SetAlias, Goto, Return, NoJob, None, TypeOK, Pending, Versions,
           Aliases, MaybePointed, Labels, Job
  <2>4. InTrial(p, v) => v \in unheard' \/ pc'[p] \in {"clear", "stop"}
                         \/ alias'["production"] = alias["production"]
    BY JobTyped DEF SetAlias, Goto, Return, TypeOK, RouterMatchesRegistry, MaybePointed, Aliases
  <2> HIDE DEF v
  <2> QED BY <1>1, <2>1, <2>2, <2>3, <2>4, HolderMoves
<1> QED BY <1>1, <1>2, <1>3, <1>4, <1>5, NoNewHolder

LEMMA SetAliasFailsKeeps ==
  ASSUME IInv, NEW p \in Processes, SetAliasFails(p)
  PROVE  IInv'
<1> USE BoundsAssumption DEF IInv, history
<1>1. TypeOK'
  <2>1. alias' \in [Aliases -> 0..MaxVersion]
    BY JobTyped DEF SetAliasFails, MaybePointed, TypeOK, Versions
  <2>2. named' \subseteq Versions
    BY <2>1, NamingTyped DEF SetAliasFails, TypeOK
  <2> QED
    BY <2>1, <2>2 DEF SetAliasFails, Goto, Return, NoJob, None, TypeOK, Labels, Job, Aliases
<1>2. RouterMatchesRegistry'
  BY DEF SetAliasFails, Goto, TypeOK, RouterMatchesRegistry, Labels, Job, Router,
      InTrial, Return, NoJob, None, MaybePointed
<1>3. \A v \in Versions, q \in Processes : Holds(q, v)' => Holds(q, v)
  BY DEF SetAliasFails, Goto, TypeOK, RouterMatchesRegistry, Labels, Job, Router,
      Holds, Pending, InTrial, Return, NoJob, None, MaybePointed
<1>4. rolledBack' = rolledBack /\ registered <= registered'
  BY DEF SetAliasFails, TypeOK, Versions
<1> DEFINE v == job[p].version
<1>5. RollbackReportIsTrue' /\ MovesEndTrials'
  <2>1. v \in Versions /\ Holds(p, v)
    BY JobTyped DEF SetAliasFails, Holds, Pending, RouterMatchesRegistry
  <2>2. /\ alias'["production"] \in {alias["production"], v}
        /\ Naming /\ UNCHANGED <<registered, router, rolledBack>>
        /\ unheard \subseteq unheard'
    BY JobTyped DEF SetAliasFails, TypeOK, Aliases, MaybePointed
  <2>3. /\ \A q \in Processes : q # p => pc'[q] = pc[q] /\ job'[q] = job[q]
        /\ \A u \in Versions : Pending(p, u)' =>
              Pending(p, u) /\ alias'["production"] = alias["production"]
        /\ pc[p] \notin {"clear", "stop"}
    BY DEF SetAliasFails, Goto, Return, NoJob, None, TypeOK, Pending, Versions,
           Aliases, MaybePointed, Labels, Job
  <2>4. InTrial(p, v) => v \in unheard' \/ pc'[p] \in {"clear", "stop"}
                         \/ alias'["production"] = alias["production"]
    BY JobTyped DEF SetAliasFails, Goto, Return, TypeOK, RouterMatchesRegistry, MaybePointed, Aliases
  <2> HIDE DEF v
  <2> QED BY <1>1, <2>1, <2>2, <2>3, <2>4, HolderMoves
<1> QED BY <1>1, <1>2, <1>3, <1>4, <1>5, NoNewHolder

LEMMA DialKeeps ==
  ASSUME IInv, NEW p \in Processes, NEW percent \in Allocations, Dial(p, percent)
  PROVE  IInv'
<1> USE BoundsAssumption DEF IInv, history
<1>1. TypeOK'
  BY RouterTyped DEF Dial, TypeOK
<1>2. RouterMatchesRegistry'
  BY DEF Dial, Goto, TypeOK, RouterMatchesRegistry, Labels, Job, Router, InTrial,
      Dialled, Stopped, ValidTraffic, MaxTraffic
<1>3. \A v \in Versions, q \in Processes : Holds(q, v)' => Holds(q, v)
  BY DEF Dial, Goto, TypeOK, RouterMatchesRegistry, Labels, Job, Router, Holds,
      Pending, InTrial, Dialled, Stopped, ValidTraffic, MaxTraffic
<1>4. rolledBack' = rolledBack /\ registered <= registered'
  BY DEF Dial, TypeOK, Versions
<1>5. RollbackReportIsTrue' /\ MovesEndTrials'
  <2>1. UNCHANGED history /\ alias'["production"] = alias["production"]
    BY DEF Dial, TypeOK
  <2>2. \A v \in Versions, q \in Processes :
          /\ Pending(q, v)' => Pending(q, v)
          /\ InTrial(q, v)' => InTrial(q, v)
          /\ InTrial(q, v)' /\ pc[q] \in {"clear", "stop"} => pc'[q] \in {"clear", "stop"}
    BY DEF Dial, Goto, TypeOK, RouterMatchesRegistry, Labels, Job, Router, Pending, InTrial, Dialled, Stopped, ValidTraffic, MaxTraffic
  <2> QED BY <1>1, <1>4, <2>1, <2>2, NothingMoves
<1> QED BY <1>1, <1>2, <1>3, <1>4, <1>5, NoNewHolder

LEMMA EvaluateKeeps ==
  ASSUME IInv, NEW p \in Processes, NEW verdict \in Verdicts, Evaluate(p, verdict)
  PROVE  IInv'
<1> USE BoundsAssumption DEF IInv, history
<1>1. TypeOK'
  BY DEF Evaluate, Goto, TypeOK, Labels, Job, Aliases, Router, Versions, Decision
<1>2. RouterMatchesRegistry'
  BY DEF Evaluate, Goto, TypeOK, RouterMatchesRegistry, Labels, Job, Router,
      InTrial, Decision
<1>3. \A v \in Versions, q \in Processes : Holds(q, v)' => Holds(q, v)
  BY DEF Evaluate, Goto, TypeOK, RouterMatchesRegistry, Labels, Job, Router,
      Holds, Pending, InTrial, Decision
<1>4. rolledBack' = rolledBack /\ registered <= registered'
  BY DEF Evaluate, TypeOK, Versions
<1>5. RollbackReportIsTrue' /\ MovesEndTrials'
  <2>1. UNCHANGED history /\ alias'["production"] = alias["production"]
    BY DEF Evaluate, TypeOK
  <2>2. \A v \in Versions, q \in Processes :
          /\ Pending(q, v)' => Pending(q, v)
          /\ InTrial(q, v)' => InTrial(q, v)
          /\ InTrial(q, v)' /\ pc[q] \in {"clear", "stop"} => pc'[q] \in {"clear", "stop"}
    BY DEF Evaluate, Goto, TypeOK, RouterMatchesRegistry, Labels, Job, Router, Pending, InTrial, Decision
  <2> QED BY <1>1, <1>4, <2>1, <2>2, NothingMoves
<1> QED BY <1>1, <1>2, <1>3, <1>4, <1>5, NoNewHolder

LEMMA BeginCompleteKeeps ==
  ASSUME IInv, NEW p \in Processes, NEW d \in decisions[p], BeginComplete(p, d)
  PROVE  IInv'
<1> USE BoundsAssumption DEF IInv, history
<1>1. TypeOK'
  BY DEF BeginComplete, Goto, TypeOK, Labels, Job, Aliases, Router, Versions,
      MayComplete, VersionToPromote, Active, Decision, None
<1>2. RouterMatchesRegistry'
  BY DEF BeginComplete, Goto, TypeOK, RouterMatchesRegistry, Labels, Job, Router,
      InTrial, MayComplete, VersionToPromote, Active, Decision, None
<1>3. \A v \in Versions, q \in Processes : Holds(q, v)' => Holds(q, v)
  BY DEF BeginComplete, Goto, TypeOK, RouterMatchesRegistry, Labels, Job, Router,
      Holds, Pending, InTrial, MayComplete, VersionToPromote, Active,
      Decision, None
<1>4. rolledBack' = rolledBack /\ registered <= registered'
  BY DEF BeginComplete, TypeOK, Versions
<1>5. RollbackReportIsTrue' /\ MovesEndTrials'
  <2>1. UNCHANGED history /\ alias'["production"] = alias["production"]
    BY DEF BeginComplete, TypeOK
  <2>2. \A v \in Versions, q \in Processes :
          /\ Pending(q, v)' => Pending(q, v)
          /\ InTrial(q, v)' => InTrial(q, v)
          /\ InTrial(q, v)' /\ pc[q] \in {"clear", "stop"} => pc'[q] \in {"clear", "stop"}
    BY DEF BeginComplete, Goto, TypeOK, RouterMatchesRegistry, Labels, Job, Router, Pending, InTrial, MayComplete, VersionToPromote, Active, Decision, None
  <2> QED BY <1>1, <1>4, <2>1, <2>2, NothingMoves
<1> QED BY <1>1, <1>2, <1>3, <1>4, <1>5, NoNewHolder

LEMMA MoveProductionKeeps ==
  ASSUME IInv, NEW p \in Processes, MoveProduction(p)
  PROVE  IInv'
<1> USE BoundsAssumption DEF IInv, history
<1>1. TypeOK'
  <2>1. alias' \in [Aliases -> 0..MaxVersion]
    BY JobTyped DEF MoveProduction, TypeOK, Aliases, Versions
  <2>2. named' \subseteq Versions
    BY <2>1, NamingTyped DEF MoveProduction, TypeOK
  <2> QED
    BY <2>1, <2>2 DEF MoveProduction, Goto, TypeOK, Labels
<1>2. RouterMatchesRegistry'
  BY DEF MoveProduction, Goto, TypeOK, RouterMatchesRegistry, Labels, Job,
      Router, InTrial
<1>3. \A v \in Versions, q \in Processes : Holds(q, v)' => Holds(q, v)
  BY DEF MoveProduction, Goto, TypeOK, RouterMatchesRegistry, Labels, Job,
      Router, Holds, Pending, InTrial
<1>4. rolledBack' = rolledBack /\ registered <= registered'
  BY DEF MoveProduction, TypeOK, Versions
<1> DEFINE v == job[p].version
<1>5. RollbackReportIsTrue' /\ MovesEndTrials'
  <2>1. v \in Versions /\ Holds(p, v)
    BY JobTyped DEF MoveProduction, Holds, Pending, RouterMatchesRegistry
  <2>2. /\ alias'["production"] \in {alias["production"], v}
        /\ Naming /\ UNCHANGED <<registered, router, rolledBack>>
        /\ unheard \subseteq unheard'
    BY JobTyped DEF MoveProduction, TypeOK, Aliases, MaybePointed
  <2>3. /\ \A q \in Processes : q # p => pc'[q] = pc[q] /\ job'[q] = job[q]
        /\ \A u \in Versions : Pending(p, u)' =>
              Pending(p, u) /\ alias'["production"] = alias["production"]
        /\ pc[p] \notin {"clear", "stop"}
    BY DEF MoveProduction, Goto, Return, NoJob, None, TypeOK, Pending, Versions,
           Aliases, MaybePointed, Labels, Job
  <2>4. InTrial(p, v) => v \in unheard' \/ pc'[p] \in {"clear", "stop"}
                         \/ alias'["production"] = alias["production"]
    BY JobTyped DEF MoveProduction, Goto, Return, TypeOK, RouterMatchesRegistry, MaybePointed, Aliases
  <2> HIDE DEF v
  <2> QED BY <1>1, <2>1, <2>2, <2>3, <2>4, HolderMoves
<1> QED BY <1>1, <1>2, <1>3, <1>4, <1>5, NoNewHolder

LEMMA MoveProductionFailsKeeps ==
  ASSUME IInv, NEW p \in Processes, MoveProductionFails(p)
  PROVE  IInv'
<1> USE BoundsAssumption DEF IInv, history
<1>1. TypeOK'
  <2>1. alias' \in [Aliases -> 0..MaxVersion]
    BY JobTyped DEF MoveProductionFails, MaybePointed, TypeOK, Versions
  <2>2. named' \subseteq Versions
    BY <2>1, NamingTyped DEF MoveProductionFails, TypeOK
  <2>3. unheard' \subseteq Versions
    BY JobTyped DEF MoveProductionFails, TypeOK
  <2> QED
    BY <2>1, <2>2, <2>3 DEF MoveProductionFails, Goto, Return, NoJob, None, TypeOK, Labels, Job,
        Aliases
<1>2. RouterMatchesRegistry'
  BY DEF MoveProductionFails, Goto, TypeOK, RouterMatchesRegistry, Labels, Job,
      Router, InTrial, Return, NoJob, None, MaybePointed
<1>3. \A v \in Versions, q \in Processes : Holds(q, v)' => Holds(q, v)
  BY DEF MoveProductionFails, Goto, TypeOK, RouterMatchesRegistry, Labels, Job,
      Router, Holds, Pending, InTrial, Return, NoJob, None, MaybePointed
<1>4. rolledBack' = rolledBack /\ registered <= registered'
  BY DEF MoveProductionFails, TypeOK, Versions
<1> DEFINE v == job[p].version
<1>5. RollbackReportIsTrue' /\ MovesEndTrials'
  <2>1. v \in Versions /\ Holds(p, v)
    BY JobTyped DEF MoveProductionFails, Holds, Pending, RouterMatchesRegistry
  <2>2. /\ alias'["production"] \in {alias["production"], v}
        /\ Naming /\ UNCHANGED <<registered, router, rolledBack>>
        /\ unheard \subseteq unheard'
    BY JobTyped DEF MoveProductionFails, TypeOK, Aliases, MaybePointed
  <2>3. /\ \A q \in Processes : q # p => pc'[q] = pc[q] /\ job'[q] = job[q]
        /\ \A u \in Versions : Pending(p, u)' =>
              Pending(p, u) /\ alias'["production"] = alias["production"]
        /\ pc[p] \notin {"clear", "stop"}
    BY DEF MoveProductionFails, Goto, Return, NoJob, None, TypeOK, Pending, Versions,
           Aliases, MaybePointed, Labels, Job
  <2>4. InTrial(p, v) => v \in unheard' \/ pc'[p] \in {"clear", "stop"}
                         \/ alias'["production"] = alias["production"]
    BY JobTyped DEF MoveProductionFails, Goto, Return, TypeOK, RouterMatchesRegistry, MaybePointed, Aliases
  <2> HIDE DEF v
  <2> QED BY <1>1, <2>1, <2>2, <2>3, <2>4, HolderMoves
<1> QED BY <1>1, <1>2, <1>3, <1>4, <1>5, NoNewHolder

LEMMA ClearCanaryAliasKeeps ==
  ASSUME IInv, NEW p \in Processes, ClearCanaryAlias(p)
  PROVE  IInv'
<1> USE BoundsAssumption DEF IInv, history
<1>1. TypeOK'
  BY DEF ClearCanaryAlias, Goto, TypeOK, Labels, Job, Aliases, Router, Versions,
      MaybePointed, None
<1>2. RouterMatchesRegistry'
  BY DEF ClearCanaryAlias, Goto, TypeOK, RouterMatchesRegistry, Labels, Job,
      Router, InTrial, MaybePointed, None
<1>3. \A v \in Versions, q \in Processes : Holds(q, v)' => Holds(q, v)
  BY DEF ClearCanaryAlias, Goto, TypeOK, RouterMatchesRegistry, Labels, Job,
      Router, Holds, Pending, InTrial, MaybePointed, None
<1>4. rolledBack' = rolledBack /\ registered <= registered'
  BY DEF ClearCanaryAlias, TypeOK, Versions
<1>5. RollbackReportIsTrue' /\ MovesEndTrials'
  <2>1. UNCHANGED history /\ alias'["production"] = alias["production"]
    BY DEF ClearCanaryAlias, TypeOK, MaybePointed, Aliases
  <2>2. \A v \in Versions, q \in Processes :
          /\ Pending(q, v)' => Pending(q, v)
          /\ InTrial(q, v)' => InTrial(q, v)
          /\ InTrial(q, v)' /\ pc[q] \in {"clear", "stop"} => pc'[q] \in {"clear", "stop"}
    BY DEF ClearCanaryAlias, Goto, TypeOK, RouterMatchesRegistry, Labels, Job, Router, Pending, InTrial, MaybePointed, None, Aliases
  <2> QED BY <1>1, <1>4, <2>1, <2>2, NothingMoves
<1> QED BY <1>1, <1>2, <1>3, <1>4, <1>5, NoNewHolder

LEMMA FinishCompleteKeeps ==
  ASSUME IInv, NEW p \in Processes, FinishComplete(p)
  PROVE  IInv'
<1> USE BoundsAssumption DEF IInv, history
<1>1. TypeOK'
  BY RouterTyped DEF FinishComplete, Goto, Return, NoJob, None, TypeOK, Labels, Job,
      Aliases
<1>2. RouterMatchesRegistry'
  BY DEF FinishComplete, Goto, TypeOK, RouterMatchesRegistry, Labels, Job,
      Router, InTrial, Return, NoJob, None, Stopped, MaxTraffic
<1>3. \A v \in Versions, q \in Processes : Holds(q, v)' => Holds(q, v)
  BY DEF FinishComplete, Goto, TypeOK, RouterMatchesRegistry, Labels, Job,
      Router, Holds, Pending, InTrial, Return, NoJob, None, Stopped,
      MaxTraffic
<1>4. rolledBack' = rolledBack /\ registered <= registered'
  BY DEF FinishComplete, TypeOK, Versions
<1>5. RollbackReportIsTrue' /\ MovesEndTrials'
  <2>1. UNCHANGED history /\ alias'["production"] = alias["production"]
    BY DEF FinishComplete, TypeOK
  <2>2. \A v \in Versions, q \in Processes :
          /\ Pending(q, v)' => Pending(q, v)
          /\ InTrial(q, v)' => InTrial(q, v)
          /\ InTrial(q, v)' /\ pc[q] \in {"clear", "stop"} => pc'[q] \in {"clear", "stop"}
    BY DEF FinishComplete, Goto, TypeOK, RouterMatchesRegistry, Labels, Job, Router, Pending, InTrial, Return, NoJob, None, Stopped, MaxTraffic
  <2> QED BY <1>1, <1>4, <2>1, <2>2, NothingMoves
<1> QED BY <1>1, <1>2, <1>3, <1>4, <1>5, NoNewHolder

LEMMA CrashKeeps ==
  ASSUME IInv, NEW p \in Processes, Crash(p)
  PROVE  IInv'
<1> USE BoundsAssumption DEF IInv, history
<1>1. TypeOK'
  BY DEF Crash, Goto, TypeOK, Labels, Job, Aliases, Router, Versions, Return,
      NoJob, None, FreshRouter, MaxTraffic
<1>2. RouterMatchesRegistry'
  BY DEF Crash, Goto, TypeOK, RouterMatchesRegistry, Labels, Job, Router,
      InTrial, Return, NoJob, None, FreshRouter, MaxTraffic
<1>3. \A v \in Versions, q \in Processes : Holds(q, v)' => Holds(q, v)
  BY DEF Crash, Goto, TypeOK, RouterMatchesRegistry, Labels, Job, Router, Holds,
      Pending, InTrial, Return, NoJob, None, FreshRouter, MaxTraffic
<1>4. rolledBack' = rolledBack /\ registered <= registered'
  BY DEF Crash, TypeOK, Versions
<1>5. RollbackReportIsTrue' /\ MovesEndTrials'
  <2>1. UNCHANGED history /\ alias'["production"] = alias["production"]
    BY DEF Crash, TypeOK
  <2>2. \A v \in Versions, q \in Processes :
          /\ Pending(q, v)' => Pending(q, v)
          /\ InTrial(q, v)' => InTrial(q, v)
          /\ InTrial(q, v)' /\ pc[q] \in {"clear", "stop"} => pc'[q] \in {"clear", "stop"}
    BY DEF Crash, Goto, TypeOK, RouterMatchesRegistry, Labels, Job, Router, Pending, InTrial, Return, NoJob, None, FreshRouter, MaxTraffic
  <2> QED BY <1>1, <1>4, <2>1, <2>2, NothingMoves
<1> QED BY <1>1, <1>2, <1>3, <1>4, <1>5, NoNewHolder

LEMMA RegisterModelKeeps ==
  ASSUME IInv, NEW p \in Processes, RegisterModel(p)
  PROVE  IInv'
<1> USE BoundsAssumption DEF IInv, history
<1>1. TypeOK'
  BY DEF RegisterModel, Goto, TypeOK, Labels, Job, Aliases, Router, Versions
<1>2. RouterMatchesRegistry'
  BY DEF RegisterModel, Goto, TypeOK, RouterMatchesRegistry, Labels, Job, Router,
      InTrial
<1> DEFINE fresh == registered + 1
<1>3. \A v \in Versions, q \in Processes :
        Holds(q, v)' => Holds(q, v) \/ (v = fresh /\ q = p)
  BY DEF RegisterModel, Goto, TypeOK, Labels, Job, Router, Holds, Pending, InTrial
<1>4. \A q \in Processes : ~Holds(q, fresh)
  BY DEF TypeOK, RouterMatchesRegistry, Holds, Pending, InTrial
<1>5. OneOwner'
  BY <1>3, <1>4 DEF OneOwner, Versions
<1>6. RolledBackNotServed'
  BY <1>3 DEF RegisterModel, RolledBackNotServed, TypeOK, Versions
<1>7. RollbackReportIsTrue' /\ MovesEndTrials'
  <2>1. /\ UNCHANGED <<alias, router, history>> /\ registered' = fresh
        /\ \A q \in Processes : pc[q] \in {"clear", "stop"} => pc'[q] = pc[q]
    BY DEF RegisterModel, Goto, TypeOK
  <2>2. RollbackReportIsTrue' /\ named' \subseteq 1..registered'
        /\ alias'["production"] \in named' \cup {None}
    BY <2>1 DEF RollbackReportIsTrue, MovesEndTrials, TypeOK
  <2>3. \A v \in named, q \in Processes : v # fresh /\ (Pending(q, v)' => Pending(q, v))
    BY <2>1 DEF RegisterModel, Goto, Pending, MovesEndTrials, TypeOK, Job, Labels
  <2>4. \A v \in named, q \in Processes : InTrial(q, v)' <=> InTrial(q, v)
    BY <2>1 DEF InTrial
  <2> QED BY <2>1, <2>2, <2>3, <2>4 DEF MovesEndTrials
<1> QED BY <1>1, <1>2, <1>5, <1>6, <1>7

LEMMA OpenTrafficKeeps ==
  ASSUME IInv, NEW p \in Processes, NEW percent \in Allocations,
         OpenTraffic(p, percent)
  PROVE  IInv'
<1> USE BoundsAssumption DEF IInv, history
<1>1. TypeOK'
  BY DEF OpenTraffic, Goto, TypeOK, Labels, Job, Aliases, Router, Versions, Return,
      NoJob, None, Started, ValidTraffic, MaxTraffic
<1>2. RouterMatchesRegistry'
  <2>1. \A q \in Processes : q # p =>
           router'[q] = router[q] /\ pc'[q] = pc[q] /\ job'[q] = job[q]
    BY DEF OpenTraffic, Goto, Return, TypeOK
  <2>2. pc'[p] = "idle" /\ registered' = registered
    BY DEF OpenTraffic, Goto, Return, TypeOK
  <2>3. router'[p].enabled => router'[p].candidate \in 1..registered
    BY DEF OpenTraffic, Started, TypeOK, RouterMatchesRegistry
  <2> QED
    BY <2>1, <2>2, <2>3 DEF RouterMatchesRegistry, InTrial
<1>3. \A v \in Versions, q \in Processes : Holds(q, v)' => Holds(q, v)
  BY DEF OpenTraffic, Goto, TypeOK, Labels, Job, Router, Holds, Pending, InTrial,
      Return, NoJob, None, Started
<1>4. rolledBack' = rolledBack /\ registered <= registered'
  BY DEF OpenTraffic, TypeOK
<1>5. RollbackReportIsTrue' /\ MovesEndTrials'
  <2>1. /\ UNCHANGED <<registered, alias, history>> /\ pc'[p] = "idle"
        /\ pc[p] = "open"
        /\ \A q \in Processes : q # p =>
              router'[q] = router[q] /\ pc'[q] = pc[q] /\ job'[q] = job[q]
    BY DEF OpenTraffic, Goto, Return, TypeOK
  <2>2. RollbackReportIsTrue' /\ named' \subseteq 1..registered'
        /\ alias'["production"] \in named' \cup {None}
    BY <2>1 DEF RollbackReportIsTrue, MovesEndTrials
  <2>3. ASSUME NEW v \in named, InTrial(p, v)' PROVE v \in unheard
    <3>1. InTrial(p, v) \/ Pending(p, v)
      BY <2>1, <2>3 DEF OpenTraffic, Started, InTrial, Pending, TypeOK, Router
    <3> QED BY <2>1, <3>1 DEF MovesEndTrials
  <2>4. \A v \in named, q \in Processes : q # p =>
          (Pending(q, v)' <=> Pending(q, v)) /\ (InTrial(q, v)' <=> InTrial(q, v))
    BY <2>1 DEF Pending, InTrial
  <2> QED BY <2>1, <2>2, <2>3, <2>4 DEF MovesEndTrials, Pending
<1> QED BY <1>1, <1>2, <1>3, <1>4, <1>5, NoNewHolder

LEMMA RollbackKeeps ==
  ASSUME IInv, NEW p \in Processes, Rollback(p)
  PROVE  IInv'
<1> USE BoundsAssumption DEF IInv, history
<1>1. TypeOK'
  <2>1. Withdrawn(router[p]) \subseteq Versions
    BY DEF Withdrawn, RouterMatchesRegistry, TypeOK, Versions
  <2>2. Stopped(router[p]) \in Router
    BY RouterTyped DEF TypeOK
  <2> QED
    BY <2>1, <2>2 DEF Rollback, TypeOK
<1>2. RouterMatchesRegistry'
  BY DEF Rollback, TypeOK, RouterMatchesRegistry, Labels, Router, InTrial, Stopped
<1>3. \A v \in Versions, q \in Processes : Holds(q, v)' => Holds(q, v)
  BY DEF Rollback, TypeOK, Router, Holds, Pending, InTrial, Stopped
<1>4. OneOwner'
  BY <1>3 DEF OneOwner
<1>5. \A v \in Withdrawn(router[p]) :
         v \in 1..registered /\ \A q \in Processes : ~Holds(q, v)'
  <2> SUFFICES ASSUME NEW v \in Withdrawn(router[p])
               PROVE  v \in 1..registered /\ \A q \in Processes : ~Holds(q, v)'
      OBVIOUS
  <2>1. InTrial(p, v) /\ v \in 1..registered /\ v \in Versions
    BY DEF Withdrawn, InTrial, RouterMatchesRegistry, TypeOK, Versions
  <2>2. \A q \in Processes : Holds(q, v)' => q = p
    BY <1>3, <2>1 DEF OneOwner, Holds
  <2>3. ~Holds(p, v)'
    BY <2>1 DEF Rollback, Holds, Pending, InTrial, TypeOK, Router, Stopped
  <2> QED BY <2>1, <2>2, <2>3
<1>6. RolledBackNotServed'
  <2>1. \A v \in rolledBack, q \in Processes : ~Holds(q, v)'
    BY <1>3 DEF RolledBackNotServed, TypeOK, Versions
  <2> QED
    BY <1>5, <2>1 DEF RolledBackNotServed, Rollback
<1>7. RollbackReportIsTrue'
  <2>1. pc[p] = "idle" /\ UNCHANGED <<named, unheard>>
        /\ rolledBack' = rolledBack \cup Withdrawn(router[p])
    BY DEF Rollback
  <2>2. \A v \in Withdrawn(router[p]) : InTrial(p, v)
    BY DEF Withdrawn, InTrial
  <2> QED BY <2>1, <2>2 DEF RollbackReportIsTrue, MovesEndTrials
<1>8. MovesEndTrials'
  BY DEF Rollback, MovesEndTrials, Pending, InTrial, Stopped, TypeOK
<1> QED BY <1>1, <1>2, <1>4, <1>6, <1>7, <1>8

(* The invariant. *)

\* Every step of the pipeline, a stutter included, keeps IInv.
LEMMA StepKeeps == IInv /\ [Next]_vars => IInv'
<1> SUFFICES ASSUME IInv, [Next]_vars PROVE IInv'
    OBVIOUS
<1> USE DEF Processes
<1>1. ASSUME NEW p \in Processes, Registering(p) PROVE IInv'
  BY <1>1, RegisterModelKeeps, RegisterModelFailsKeeps, SetAliasKeeps,
     SetAliasFailsKeeps DEF Registering
<1>2. ASSUME NEW h \in Hosts, HostStep(h) PROVE IInv'
  <2>1. CASE BeginStart(h)    BY <2>1, BeginStartKeeps
  <2>2. CASE Registering(h)   BY <2>2, <1>1
  <2>3. CASE Completing(h)
    BY <2>3, MoveProductionKeeps, MoveProductionFailsKeeps, ClearCanaryAliasKeeps,
       FinishCompleteKeeps DEF Completing
  <2>4. CASE Rollback(h)      BY <2>4, RollbackKeeps
  <2>5. ASSUME NEW percent \in Allocations, OpenTraffic(h, percent) PROVE IInv'
    BY <2>5, OpenTrafficKeeps
  <2>6. ASSUME NEW percent \in Allocations, Dial(h, percent) PROVE IInv'
    BY <2>6, DialKeeps
  <2>7. ASSUME NEW verdict \in Verdicts, Evaluate(h, verdict) PROVE IInv'
    BY <2>7, EvaluateKeeps
  <2>8. ASSUME NEW d \in decisions[h], BeginComplete(h, d) PROVE IInv'
    BY <2>8, BeginCompleteKeeps
  <2> QED
    BY <1>2, <2>1, <2>2, <2>3, <2>4, <2>5, <2>6, <2>7, <2>8 DEF HostStep
<1>3. ASSUME NEW p \in Promoters, PromoterStep(p) PROVE IInv'
  BY <1>1, <1>3, BeginPromotionKeeps DEF PromoterStep
<1>4. ASSUME NEW p \in Processes, Crash(p) PROVE IInv'
  BY <1>4, CrashKeeps
<1>5. CASE UNCHANGED vars
  BY <1>5 DEF vars, history, IInv, TypeOK, OneOwner, RouterMatchesRegistry,
      RolledBackNotServed, RollbackReportIsTrue, MovesEndTrials, Holds, Pending, InTrial
<1> QED BY <1>2, <1>3, <1>4, <1>5 DEF Next

\* The inductive invariant holds of every behaviour: one owner per version,
\* routers and pending jobs matching the registry, no rolled-back version within
\* reach of a request, and none that production ever knowingly named.  It is what complete's guards rest on.
THEOREM Invariant == Spec => []IInv
<1>1. Init => IInv
  BY InitInvariant
<1>2. IInv /\ [Next]_vars => IInv'
  BY StepKeeps
<1> QED BY <1>1, <1>2, PTL DEF Spec

\* The type invariant: registry aliases name numbered versions and every
\* router keeps an allocation that leaves the incumbent some traffic.
THEOREM TypeCorrect == Spec => []TypeOK
<1>1. IInv => TypeOK
  BY DEF IInv
<1> QED BY <1>1, Invariant, PTL

\* What a rollback reports, that production was never moved to the version it
\* withdraws, is wrong of no version but one whose move was applied and answered by
\* an error: any other complete that moved the alias also stopped its router, or
\* died with it, and nobody else could hold the version (rollback, complete).
THEOREM ReportsAreTrue == Spec => []RollbackReportIsTrue
<1>1. IInv => RollbackReportIsTrue
  BY DEF IInv
<1> QED BY <1>1, Invariant, PTL

(* Where the production alias moves. *)

\* The production alias moves only in a step of a process that holds the
\* version it moves to: the version it has just registered, or the one its
\* running router offers traffic to.
LEMMA InstallerHolds ==
  ASSUME IInv, [Next]_vars, alias'["production"] # alias["production"]
  PROVE  /\ alias'["production"] \in Versions
         /\ \E p \in Processes : Holds(p, alias'["production"])
         /\ registered' = registered /\ rolledBack' = rolledBack
<1> DEFINE Goal ==
      /\ alias'["production"] \in Versions
      /\ \E p \in Processes : Holds(p, alias'["production"])
      /\ registered' = registered /\ rolledBack' = rolledBack
<1> USE BoundsAssumption DEF Processes
<1>1. ASSUME NEW p \in Processes, SetAlias(p) \/ SetAliasFails(p) PROVE Goal
  BY <1>1 DEF SetAlias, SetAliasFails, MaybePointed, IInv, TypeOK, Aliases, Versions,
      RouterMatchesRegistry, Holds, Pending, Job
<1>2. ASSUME NEW p \in Processes, MoveProduction(p) \/ MoveProductionFails(p)
      PROVE  Goal
  BY <1>2 DEF MoveProduction, MoveProductionFails, MaybePointed, IInv, TypeOK, Aliases,
      Versions, RouterMatchesRegistry, Holds, InTrial
<1>3. ASSUME NEW p \in Processes, ClearCanaryAlias(p) PROVE FALSE
  BY <1>3 DEF ClearCanaryAlias, MaybePointed, IInv, TypeOK, Aliases
<1>4. ASSUME NEW h \in Hosts, HostStep(h) PROVE Goal
  BY <1>1, <1>2, <1>3, <1>4 DEF HostStep, Registering, Completing, BeginStart,
      RegisterModel, RegisterModelFails, FinishComplete, Rollback, OpenTraffic, Dial,
      Evaluate, BeginComplete
<1>5. ASSUME NEW p \in Promoters, PromoterStep(p) PROVE Goal
  BY <1>1, <1>5 DEF PromoterStep, BeginPromotion, Registering, RegisterModel,
      RegisterModelFails
<1>6. ASSUME NEW p \in Processes, Crash(p) PROVE FALSE
  BY <1>6 DEF Crash
<1> QED BY <1>4, <1>5, <1>6 DEF Next, vars

\* A rolled-back version never becomes production, for any number of hosts
\* and direct promotions: whoever moves the alias holds the version
\* (InstallerHolds), and nobody holds a rolled-back one (IInv).
THEOREM RolledBackStaysOut == Spec => RolledBackNeverInstalled
<1>1. IInv /\ [Next]_vars =>
        [alias'["production"] # alias["production"]
           => alias'["production"] \notin rolledBack]_vars
  BY InstallerHolds DEF IInv, RolledBackNotServed
<1> QED BY <1>1, Invariant, PTL DEF Spec, RolledBackNeverInstalled

(* The refinement. *)

\* No step takes a version back: nothing becomes pending again, only a
\* version some process held can be in trial, and numbers are never reused.
LEMMA NothingReopened ==
  ASSUME IInv, [Next]_vars, NEW v \in Versions, v <= registered
  PROVE  /\ v <= registered'
         /\ \A q \in Processes : Pending(q, v)' => Pending(q, v)
         /\ \A q \in Processes : InTrial(q, v)' => Holds(q, v)
<1> DEFINE Goal == /\ v <= registered'
                   /\ \A q \in Processes : Pending(q, v)' => Pending(q, v)
                   /\ \A q \in Processes : InTrial(q, v)' => Holds(q, v)
<1> USE BoundsAssumption DEF IInv, Processes, Versions, TypeOK, Holds, Pending, InTrial
<1>1. ASSUME NEW p \in Processes, Registering(p) PROVE Goal
  <2>1. CASE RegisterModel(p)
    BY <2>1 DEF RegisterModel, Goto, Job
  <2>2. CASE RegisterModelFails(p)
    BY <2>2 DEF RegisterModelFails, Goto, Return
  <2>3. CASE SetAlias(p) \/ SetAliasFails(p)
    BY <2>3 DEF SetAlias, SetAliasFails, Goto, Return
  <2> QED BY <1>1, <2>1, <2>2, <2>3 DEF Registering
<1>2. ASSUME NEW p \in Processes, Completing(p) PROVE Goal
  BY <1>2 DEF Completing, MoveProduction, MoveProductionFails, ClearCanaryAlias,
      FinishComplete, Goto, Return, Stopped
<1>3. ASSUME NEW p \in Processes, BeginStart(p) \/ BeginPromotion(p) \/ Rollback(p)
      PROVE  Goal
  BY <1>3 DEF BeginStart, BeginPromotion, Rollback, Goto, Stopped
<1>4. ASSUME NEW p \in Processes, NEW percent \in Allocations,
             OpenTraffic(p, percent) \/ Dial(p, percent)
      PROVE  Goal
  BY <1>4 DEF OpenTraffic, Dial, Dialled, Started, Stopped, Goto, Return, Router
<1>5. ASSUME NEW p \in Processes, NEW d, BeginComplete(p, d) PROVE Goal
  BY <1>5 DEF BeginComplete, Goto
<1>6. ASSUME NEW p \in Processes, NEW verdict, Evaluate(p, verdict) PROVE Goal
  BY <1>6 DEF Evaluate
<1>7. ASSUME NEW p \in Processes, Crash(p) PROVE Goal
  BY <1>7 DEF Crash, Return, Goto, FreshRouter
<1>8. CASE UNCHANGED vars
  BY <1>8 DEF vars
<1> QED
  BY <1>1, <1>2, <1>3, <1>4, <1>5, <1>6, <1>7, <1>8 DEF Next, HostStep, PromoterStep

\* Read through Stage, every step moves versions only forward.
LEMMA StagesMoveForward ==
  ASSUME IInv, [Next]_vars PROVE Release!Forward
<1>1. Stage' \in [Versions -> Release!Stages]
  BY DEF Stage, Release!Stages
<1>2. ASSUME NEW v \in Versions
      PROVE  Release!Rank[Stage[v]] <= Release!Rank[Stage'[v]]
  <2>1. CASE v > registered
    BY <1>1, <2>1 DEF Stage, Release!Rank, Release!Stages
  <2>2. CASE v <= registered
    <3>1. /\ ~(v > registered) /\ ~(v > registered')
          /\ \A q \in Processes : Pending(q, v)' => Pending(q, v)
          /\ \A q \in Processes : InTrial(q, v)' => Holds(q, v)
      BY <2>2, NothingReopened, StepKeeps, BoundsAssumption DEF IInv, TypeOK, Versions
    <3>2. CASE \E q \in Processes : Pending(q, v)
      BY <3>1, <3>2 DEF Stage, Release!Rank
    <3>3. CASE ~\E q \in Processes : Pending(q, v)
      BY <3>1, <3>3 DEF Stage, Release!Rank, Holds, Pending, InTrial
    <3> QED BY <3>2, <3>3
  <2> QED BY <2>1, <2>2, BoundsAssumption DEF IInv, TypeOK, Versions
<1> QED BY <1>1, <1>2 DEF Release!Forward

\* The pipeline implements GatedRelease: what the production alias names
\* changes only to a version that is still open, and nothing is reopened.
\* This is why replaying an old promote decision can install nothing old.
THEOREM Refinement == Spec => ImplementsGatedRelease
<1>1. Init => Release!Init
  BY BoundsAssumption
     DEF Init, Release!Init, Stage, Versions, Aliases, None
<1>2. IInv /\ [Next]_vars => [Release!Next]_<<Stage, alias["production"]>>
  <2> SUFFICES ASSUME IInv, [Next]_vars
               PROVE  Release!Next
      OBVIOUS
  <2>1. Release!Forward
    BY StagesMoveForward
  <2>2. CASE alias'["production"] = alias["production"]
    BY <2>1, <2>2 DEF Release!Next, Release!Progress
  <2>3. CASE alias'["production"] # alias["production"]
    <3>1. PICK p \in Processes : Holds(p, alias'["production"])
      BY <2>3, InstallerHolds
    <3>2. alias'["production"] \in Versions /\ alias'["production"] <= registered
      BY <2>3, <3>1, InstallerHolds, BoundsAssumption
         DEF IInv, TypeOK, RouterMatchesRegistry, Holds, Pending, InTrial, Versions
    <3>3. Release!Open(alias'["production"])
      BY <3>1, <3>2, BoundsAssumption
         DEF Release!Open, Stage, Holds, IInv, TypeOK, Versions
    <3> QED
      BY <2>1, <3>2, <3>3 DEF Release!Next, Release!Install
  <2> QED BY <2>2, <2>3
<1> QED BY <1>1, <1>2, Invariant, PTL DEF Spec, ImplementsGatedRelease, Release!Spec

\* A version whose chance is over and that is not production never is again,
\* however many promote decisions about it are still in somebody's hands.
THEOREM ReplacedForGood ==
  ASSUME NEW CONSTANT v \in Versions
  PROVE  Spec => []((Stage[v] = "ended" /\ alias["production"] # v)
                      => [](alias["production"] # v))
<1> DEFINE Over == Stage[v] = "ended" /\ alias["production"] # v
<1>1. Over /\ IInv /\ [Next]_vars => Over'
  <2> SUFFICES ASSUME Over, IInv, [Next]_vars PROVE Over'
    OBVIOUS
  <2>1. Stage'[v] \in Release!Stages /\ Release!Rank[Stage[v]] <= Release!Rank[Stage'[v]]
    BY StagesMoveForward DEF Release!Forward
  <2>2. Stage'[v] = "ended"
    BY <2>1 DEF Release!Rank, Release!Stages
  <2>3. ASSUME alias'["production"] = v PROVE FALSE
    <3>1. PICK p \in Processes : Holds(p, v)
      BY <2>3, InstallerHolds
    <3> QED BY <3>1, BoundsAssumption DEF Stage, Holds, IInv, TypeOK, Versions
  <2> QED BY <2>2, <2>3
<1>2. Over => alias["production"] # v
  OBVIOUS
<1> HIDE DEF Over
<1>3. Spec => [](Over => [](alias["production"] # v))
  BY <1>1, <1>2, Invariant, PTL DEF Spec
<1> QED BY <1>3 DEF Over

(* One host, no direct promotion. *)

\* What one lone host keeps: production never names a newer version than its
\* registration in progress or its running canary.
SoloInv(h) ==
    /\ alias["production"] <= registered
    /\ router[h].enabled => alias["production"] <= router[h].candidate
    /\ pc[h] \in {"alias", "open"} => alias["production"] <= job[h].version
    /\ pc[h] \in {"idle", "register", "alias", "open"} => job[h].target = "canary"

\* SoloInv is inductive next to IInv, and gives the direction of every move.
LEMMA SoloStep ==
  ASSUME NEW h, Hosts = {h}, Promoters = {}, IInv, SoloInv(h), [Next]_vars
  PROVE  SoloInv(h)' /\ alias'["production"] >= alias["production"]
<1> DEFINE Goal == SoloInv(h)' /\ alias'["production"] >= alias["production"]
<1> USE BoundsAssumption DEF IInv, Processes, Versions, TypeOK, SoloInv, Aliases
<1>0. h \in Processes
  OBVIOUS
<1>1. CASE Registering(h)
  BY <1>0, <1>1 DEF Registering, RegisterModel, RegisterModelFails, SetAlias,
      SetAliasFails, MaybePointed, Goto, Return, NoJob, None, Job, Router,
      RouterMatchesRegistry, InTrial
<1>2. CASE Completing(h)
  BY <1>0, <1>2 DEF Completing, MoveProduction, MoveProductionFails, ClearCanaryAlias,
      FinishComplete, MaybePointed, Goto, Return, NoJob, None, Stopped, Job, Router,
      RouterMatchesRegistry, InTrial
<1>3. CASE BeginStart(h) \/ Rollback(h)
  BY <1>0, <1>3 DEF BeginStart, Rollback, Goto, Stopped, Job, Router
<1>4. ASSUME NEW percent \in Allocations, OpenTraffic(h, percent) \/ Dial(h, percent)
      PROVE  Goal
  BY <1>0, <1>4 DEF OpenTraffic, Dial, Dialled, Started, Stopped, Goto, Return, NoJob,
      Router, Job
<1>5. ASSUME NEW d, BeginComplete(h, d) PROVE Goal
  BY <1>0, <1>5 DEF BeginComplete, Goto, Job, Router
<1>6. ASSUME NEW verdict, Evaluate(h, verdict) PROVE Goal
  BY <1>0, <1>6 DEF Evaluate
<1>7. CASE Crash(h)
  BY <1>0, <1>7 DEF Crash, Return, Goto, NoJob, FreshRouter
<1>8. CASE UNCHANGED vars
  BY <1>0, <1>8 DEF vars
<1> QED
  BY <1>1, <1>2, <1>3, <1>4, <1>5, <1>6, <1>7, <1>8 DEF Next, HostStep

\* Completing canaries moves production only to newer versions, as complete
\* promises, as long as one host is the only writer of the registry.
THEOREM SoloMovesForward ==
  ASSUME NEW h, Hosts = {h}, Promoters = {}
  PROVE  Spec => ProductionMovesForward
<1>1. Init => SoloInv(h)
  BY DEF Init, SoloInv, FreshRouter, NoJob, Aliases, None, Processes
<1>2. IInv /\ SoloInv(h) /\ [Next]_vars =>
        SoloInv(h)' /\ [alias'["production"] >= alias["production"]]_vars
  BY SoloStep
<1> QED BY <1>1, <1>2, Invariant, PTL DEF Spec, ProductionMovesForward
=============================================================================

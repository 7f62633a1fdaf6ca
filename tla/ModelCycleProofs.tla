--------------------------- MODULE ModelCycleProofs ---------------------------
(***************************************************************************)
(* Proofs about ModelCycle for any number of processes, any register and   *)
(* any configurations: the inductive invariant, the properties that follow *)
(* from it, and that the commands keep what TrackingStore promises.        *)
(*                                                                         *)
(* A step of process j leaves everybody else's part of the invariant alone *)
(* because it only adds runs, or changes a run that j has open or in hand; *)
(* Grow says so, and the lemmas on the actions show their own part.        *)
(***************************************************************************)
EXTENDS ModelCycle, FiniteSetTheorems, SequenceTheorems, WellFoundedInduction, TLAPS

(* The rows a model may be trained on, for every register and configuration. *)

\* A set of natural numbers that is not empty has a smallest.
LEMMA Smallest ==
  ASSUME NEW T, T \subseteq Nat, T # {}
  PROVE  \E x \in T : \A y \in T : x <= y
<1> DEFINE R == OpToRel(<, Nat)
<1>1. \E x \in T : \A y \in T : ~ (<<y, x>> \in R)
  <2>1. IsWellFoundedOn(R, Nat)
    BY NatLessThanWellFounded, Zenon
  <2> HIDE DEF R
  <2> QED BY <2>1, WFMin
<1>2. \A x, y \in Nat : y < x => <<y, x>> \in R
  BY DEF OpToRel
<1> HIDE DEF R
<1>3. PICK x \in T : \A y \in T : ~ (<<y, x>> \in R)
  BY <1>1
<1>4. \A y \in T : ~ (y < x)
  BY <1>2, <1>3
<1>5. \A y \in T : y \in Nat /\ x \in Nat
  BY <1>3
<1>6. \A y \in T : x <= y
  BY <1>4, <1>5
<1> QED BY <1>3, <1>6

\* Sorted by their starts and each pair of neighbours in order, every window ends
\* before every later one starts.
LEMMA EndsBefore ==
  ASSUME NEW split \in [SplitNames -> Window],
         \A c, d \in SplitNames : Neighbours(split, c, d) => split[d].start > split[c].end,
         NEW a \in SplitNames, NEW b \in SplitNames, a # b,
         split[a].start <= split[b].start
  PROVE  split[a].end < split[b].start
<1>1. \A c \in SplitNames : split[c].start \in Nat /\ split[c].end \in Nat
  BY DEF Window
<1>2. CASE split[a].start = split[b].start
  <2>1. Neighbours(split, a, b)
    BY <1>1, <1>2 DEF Neighbours
  <2> QED BY <1>1, <2>1
<1>3. CASE split[a].start < split[b].start
  <2> DEFINE later == {split[d].start : d \in {c \in SplitNames :
                                                 split[a].start < split[c].start}}
  <2>1. later \subseteq Nat /\ split[b].start \in later
    BY <1>1, <1>3
  <2>2. PICK first \in later : \A start \in later : first <= start
    BY <2>1, Smallest
  <2>3. PICK d \in SplitNames : first = split[d].start /\ split[a].start < split[d].start
    BY <2>2
  <2>4. \A c \in SplitNames :
           split[a].start < split[c].start => split[d].start <= split[c].start
    BY <2>2, <2>3
  <2> HIDE DEF later
  <2>5. Neighbours(split, a, d)
    BY <1>1, <2>3, <2>4 DEF Neighbours
  <2>6. split[a].end < split[d].start /\ split[d].start <= split[b].start
    BY <1>1, <1>3, <2>4, <2>5
  <2> QED BY <1>1, <2>6
<1> QED BY <1>1, <1>2, <1>3

\* No row is in two splits, although make_splits compares neighbours only
\* (_assert_ordered_and_disjoint, splitting.py).
THEOREM SplitsApart ==
  ASSUME NEW cfg \in DataSetting, WindowsOrdered(cfg),
         NEW a \in SplitNames, NEW b \in SplitNames, a # b, NEW row \in Row
  PROVE  ~(InWindow(row, cfg.split[a]) /\ InWindow(row, cfg.split[b]))
<1>1. /\ cfg.split \in [SplitNames -> Window] /\ row.approved \in Nat
      /\ \A c, d \in SplitNames :
            Neighbours(cfg.split, c, d) => cfg.split[d].start > cfg.split[c].end
  BY DEF DataSetting, Row, WindowsOrdered
<1> DEFINE split == cfg.split
<1>2. \A c \in SplitNames : split[c].start \in Nat /\ split[c].end \in Nat
  BY <1>1 DEF Window
<1>3. split[a].end < split[b].start \/ split[b].end < split[a].start
  <2> HIDE DEF split
  <2>1. split[a].start <= split[b].start \/ split[b].start <= split[a].start
    BY <1>2
  <2>2. CASE split[a].start <= split[b].start
    BY <1>1, <2>2, EndsBefore DEF split
  <2>3. CASE split[b].start <= split[a].start
    BY <1>1, <2>3, EndsBefore DEF split
  <2> QED BY <2>1, <2>2, <2>3
<1> HIDE DEF split
<1>4. ~(/\ split[a].start <= row.approved /\ row.approved <= split[a].end
        /\ split[b].start <= row.approved /\ row.approved <= split[b].end)
  BY <1>1, <1>2, <1>3
<1> QED BY <1>4 DEF InWindow, split

\* A row's outcome was known by the end of observation.
Known(row, cfg) ==
    HorizonEnd(row, cfg) <= cfg.observation_end
        /\ LabelAvailable(row, cfg) <= cfg.observation_end

\* A charge-off that counts is within the horizon, so whatever can be observed has
\* a label (label_rows, restrict_to_observable, preprocessing.py).
LEMMA ObservableIsKnown ==
  ASSUME NEW cfg \in DataSetting, NEW row \in Row, Observable(row, cfg)
  PROVE  Known(row, cfg)
<1>1. /\ row.approved \in Nat /\ row.disbursed \in Nat \cup {-1}
      /\ row.charged_off \in Nat \cup {-1}
      /\ cfg.horizon \in Nat /\ cfg.observation_end \in Nat
  BY DEF Row, DataSetting, Dates, Missing
<1>2. HorizonEnd(row, cfg) \in Nat
  BY <1>1 DEF HorizonEnd, Disbursed, Missing
<1> QED BY <1>1, <1>2 DEF Observable, Known, LabelAvailable, Target, Missing

\* Preparing leaves only rows whose outcome is known.
LEMMA PreparedIsKnown ==
  ASSUME NEW cfg \in DataSetting, NEW lines, NEW row \in Prepare(cfg, lines)
  PROVE  row \in Row /\ Known(row, cfg)
<1>1. row \in Row /\ Observable(row, cfg)
  BY RegisterAssumption DEF Prepare
<1> QED BY <1>1, ObservableIsKnown

\* The rows of the training split: known, and in no split a model is judged on.
LEMMA TrainRowsSound ==
  ASSUME NEW cfg \in DataSetting, NEW lines, WindowsOrdered(cfg),
         NEW row \in Split(Prepare(cfg, lines), cfg, "train")
  PROVE  /\ row \in Row /\ Known(row, cfg)
         /\ \A name \in EvaluationSplits : ~InWindow(row, cfg.split[name])
<1>1. row \in Prepare(cfg, lines) /\ InWindow(row, cfg.split["train"])
  BY DEF Split, SliceWindow
<1>2. row \in Row /\ Known(row, cfg)
  BY <1>1, PreparedIsKnown
<1>3. ASSUME NEW name \in EvaluationSplits PROVE ~InWindow(row, cfg.split[name])
  <2>1. name \in SplitNames /\ "train" \in SplitNames /\ name # "train"
    BY DEF EvaluationSplits, SplitNames
  <2> QED BY <1>1, <1>2, <2>1, SplitsApart
<1> QED BY <1>2, <1>3

LEMMA PerturbedRow ==
  ASSUME NEW real \in Row, NEW term \in Nat, NEW row,
         row = [real EXCEPT !.inputs = "perturbed", !.term = term]
  PROVE  /\ row \in Row /\ row.approved = real.approved /\ row.disbursed = real.disbursed
         /\ row.charged_off = real.charged_off /\ row.status = real.status
BY DEF Row

LEMMA LongerTerm ==
  ASSUME NEW real \in Row
  PROVE  real.term + 24 \in Nat
<1>1. real.term \in Nat
  BY DEF Row
<1> QED BY <1>1

\* A scenario moves neither dates nor outcomes, so the rows it perturbs are known as
\* they were (apply_scenario, windows.py).
LEMMA WindowRowsKnown ==
  ASSUME NEW cfg \in DataSetting, NEW lines, NEW window, NEW scenario,
         NEW row \in CurrentWindow(Prepare(cfg, lines), window, scenario)
  PROVE  row \in Row /\ Known(row, cfg)
<1>1. CASE scenario = "none"
  <2>1. row \in Prepare(cfg, lines)
    BY <1>1 DEF CurrentWindow, ApplyScenario, SliceWindow
  <2> QED BY <2>1, PreparedIsKnown
<1>2. CASE scenario # "none"
  <2>1. PICK real \in SliceWindow(Prepare(cfg, lines), window) :
           row = [real EXCEPT !.inputs = "perturbed", !.term = @ + 24]
    BY <1>2 DEF CurrentWindow, ApplyScenario
  <2>2. real \in Row /\ Known(real, cfg)
    BY <2>1, PreparedIsKnown DEF SliceWindow
  <2>3. /\ row \in Row /\ row.approved = real.approved /\ row.disbursed = real.disbursed
        /\ row.charged_off = real.charged_off /\ row.status = real.status
    BY <2>1, <2>2, PerturbedRow, LongerTerm
  <2> QED BY <2>2, <2>3
          DEF Known, HorizonEnd, Disbursed, LabelAvailable, Target
<1> QED BY <1>1, <1>2

-----------------------------------------------------------------------------
(* The verdict of a drift check. *)

\* What b shows is at least as far from the reference as what a shows, and b
\* has not lost the data that a had.
NoCalmer(b, a) ==
    /\ b.kind = a.kind /\ b.reference = a.reference
    /\ b.psi >= a.psi /\ (a.moved => b.moved)
    /\ a.kind = "numeric" /\ b.current = "empty" => a.current = "empty"

\* Drift is not overlooked for being larger: a check that detects drift detects
\* it in every window whose features are no calmer, under every threshold that is
\* no stricter.  A numeric column that is missing altogether is the exception
\* NoCalmer makes: it has not drifted, however far the column had moved.
THEOREM DriftIsMonotone ==
  ASSUME NEW calm \in [Features -> Reading], NEW wild \in [Features -> Reading],
         \A f \in Features : NoCalmer(wild[f], calm[f]),
         NEW strict, NEW loose,
         {strict.threshold_psi, loose.threshold_psi, strict.min_drifted_features,
          loose.min_drifted_features} \subseteq Nat,
         loose.threshold_psi <= strict.threshold_psi,
         loose.min_drifted_features <= strict.min_drifted_features,
         DriftDetected(calm, strict)
  PROVE  DriftDetected(wild, loose)
<1> DEFINE Found(readings, cfg) == {f \in Features : Drifted(readings[f], cfg)}
<1>1. ASSUME NEW f \in Features, Drifted(calm[f], strict)
      PROVE  Drifted(wild[f], loose)
  <2> PICK a \in Reading, b \in Reading : a = calm[f] /\ b = wild[f] /\ NoCalmer(b, a)
    OBVIOUS
  <2> PICK low \in Nat, high \in Nat :
        low = loose.threshold_psi /\ high = strict.threshold_psi /\ low <= high
    OBVIOUS
  <2>1. CASE a.kind = "numeric"
    <3>1. NumericPsi(a) <= NumericPsi(b) /\ NumericPsi(a) \in Nat /\ NumericPsi(b) \in Nat
      BY <2>1 DEF NumericPsi, NoCalmer, Reading, Major
    <3>2. NumericPsi(a) >= high
      BY <1>1, <2>1 DEF Drifted
    <3>3. NumericPsi(b) >= low
      BY <3>1, <3>2
    <3> QED BY <2>1, <3>3 DEF Drifted, NoCalmer
  <2>2. CASE a.kind # "numeric"
    <3>1. a.psi >= high /\ a.psi \in Nat /\ b.psi \in Nat /\ b.psi >= a.psi
      BY <1>1, <2>2 DEF Drifted, CategoricalPsi, NoCalmer, Reading
    <3>2. b.psi >= low
      BY <3>1
    <3> QED BY <2>2, <3>2 DEF Drifted, CategoricalPsi, NoCalmer
  <2> QED BY <2>1, <2>2
<1>2. Found(calm, strict) \subseteq Found(wild, loose) /\ IsFiniteSet(Found(wild, loose))
  <2>1. Found(wild, loose) \subseteq Features
    OBVIOUS
  <2> QED BY <1>1, <2>1, FS_Subset, ReadingAssumption
<1> HIDE DEF Found
<1>3. /\ Cardinality(Found(calm, strict)) <= Cardinality(Found(wild, loose))
      /\ Cardinality(Found(calm, strict)) \in Nat /\ Cardinality(Found(wild, loose)) \in Nat
  BY <1>2, FS_Subset, FS_CardinalityType
<1>4. Cardinality(Found(calm, strict)) >= strict.min_drifted_features
  BY DEF Found, DriftDetected
<1>5. Cardinality(Found(wild, loose)) >= loose.min_drifted_features
  BY <1>3, <1>4
<1> QED BY <1>5 DEF Found, DriftDetected

(* The invariant, process by process and run by run. *)

JobInv(j) ==
    /\ OpenRunOwned(j) /\ JobOrdered(j) /\ WindowSound(j)
    /\ RecordSound(j) /\ CandidateSound(j) /\ HandsApart(j)

LineageOf(i) ==
    runs[i].event # 0 /\ runs[i].kind # "check" =>
        /\ runs[i].kind = "training" /\ runs[i].event \in DOMAIN events
        /\ runs[i].window # {}
        /\ runs[i].window = CurrentWindow(Prepare(Setting[runs[i].config], runs[i].lines),
                                events[runs[i].event].window,
                                events[runs[i].event].scenario)

RunInv(i) ==
    /\ runs[i].kind = "training" =>
          /\ runs[i].exam = Exam(runs[i].config, runs[i].lines)
          /\ runs[i].status = "FINISHED" => runs[i].logged = LogCalls
          /\ runs[i].event # 0 => runs[i].logged = LogCalls
          /\ SoundRows(runs[i].config, runs[i].trained, runs[i].window)
    /\ runs[i].kind = "check" => runs[i].event \in DOMAIN events
    /\ runs[i].kind \in {"study", "trial"} => runs[i].event = 0
    /\ LineageOf(i)
    /\ runs[i].kind = "trial" =>
          /\ runs[i].status = "FINISHED" => runs[i].completed
          /\ runs[i].status = "FAILED" => ~runs[i].completed

StoreInv ==
    /\ Len(events) <= MaxEvents /\ production \in 0..Len(versions)
    /\ \A v \in DOMAIN versions : versions[v] \in TrainingRuns /\ Complete(versions[v])

LEMMA Apart ==
  CInv <=> /\ TypeOK /\ StoreInv
           /\ \A i \in DOMAIN runs : RunInv(i)
           /\ \A j \in Jobs : JobInv(j)
<1>1. CInv => TypeOK /\ StoreInv
  BY DEF CInv, StoreInv, RunsSound, RegisteredIsComplete
<1>2. CInv => \A i \in DOMAIN runs : RunInv(i)
  BY DEF CInv, RunsSound, RunInv, TrainedOnMatureUnseenRows, LineageIsTrue, LineageOf,
         TrialsShownTruthfully, TrainingRuns
<1>3. CInv => \A j \in Jobs : JobInv(j)
  BY DEF CInv, JobsSound, JobInv
<1>4. ASSUME TypeOK, StoreInv, \A i \in DOMAIN runs : RunInv(i), \A j \in Jobs : JobInv(j)
      PROVE  CInv
  <2>1. RunsSound /\ RegisteredIsComplete /\ production \in 0..Len(versions)
    BY <1>4 DEF StoreInv, RunsSound, RunInv, RegisteredIsComplete
  <2>2. TrainedOnMatureUnseenRows /\ TrialsShownTruthfully
    BY <1>4 DEF RunInv, TrainedOnMatureUnseenRows, TrialsShownTruthfully, TrainingRuns
  <2>3. LineageIsTrue
    BY <1>4 DEF RunInv, LineageIsTrue, LineageOf, TrainingRuns
  <2>4. JobsSound
    BY <1>4 DEF JobInv, JobsSound
  <2> QED BY <1>4, <2>1, <2>2, <2>3, <2>4 DEF CInv
<1> QED BY <1>1, <1>2, <1>3, <1>4

LEMMA ApartNext ==
  ASSUME TypeOK', StoreInv', \A i \in DOMAIN runs' : RunInv(i)', \A j \in Jobs : JobInv(j)'
  PROVE  CInv'
<1>1. RunsSound' /\ RegisteredIsComplete' /\ (production \in 0..Len(versions))'
  BY DEF StoreInv, RunsSound, RunInv, RegisteredIsComplete
<1>2. TrainedOnMatureUnseenRows' /\ TrialsShownTruthfully'
  BY DEF RunInv, TrainedOnMatureUnseenRows, TrialsShownTruthfully, TrainingRuns
<1>3. LineageIsTrue'
  BY DEF RunInv, LineageIsTrue, LineageOf, TrainingRuns
<1>4. JobsSound'
  BY DEF JobInv, JobsSound
<1> QED BY <1>1, <1>2, <1>3, <1>4 DEF CInv

(* What a step leaves alone. *)

Static(old, new) ==
    /\ new.kind = old.kind /\ new.config = old.config /\ new.lines = old.lines
    /\ new.trained = old.trained /\ new.window = old.window /\ new.exam = old.exam
    /\ new.completed = old.completed

RunKept(old, new) ==
    /\ Static(old, new)
    /\ old.kind = "training" /\ old.status = "FINISHED" /\ old.logged = LogCalls =>
          new.status = "FINISHED" /\ new.logged = LogCalls

\* Processes other than j are where they were, and so are the runs they hold.
Grow(j) ==
    /\ runs' \in Seq(Run) /\ DOMAIN runs \subseteq DOMAIN runs'
    /\ \A i \in DOMAIN runs : RunKept(runs[i], runs'[i])
    /\ \A k \in Jobs \ {j} : pc'[k] = pc[k] /\ job'[k] = job[k] /\ active'[k] = active[k]
    /\ \A k \in Jobs \ {j} :
          active[k].inner # 0 => runs'[active[k].inner].status = runs[active[k].inner].status
    /\ \A k \in Jobs \ {j} :
          InHand(k) # 0 => runs'[InHand(k)].event = runs[InHand(k)].event
    /\ \/ active'[j].inner \in {0, active[j].inner}
       \/ active'[j].inner \notin DOMAIN runs
    /\ InHand(j)' \in {0, InHand(j)} \/ InHand(j)' \notin DOMAIN runs
    /\ DOMAIN events \subseteq DOMAIN events'
    /\ \A e \in DOMAIN events : events'[e] = events[e]
    /\ Len(versions) <= Len(versions') /\ Len(versions) \in Nat /\ Len(versions') \in Nat

\* The rows a process works on are those of its own configuration.
LEMMA RowsStay ==
  ASSUME NEW k \in Jobs, job'[k].config = job[k].config, job'[k].lines = job[k].lines
  PROVE  RowsOf(k)' = RowsOf(k)
BY DEF RowsOf

\* A window stays that of its event.
LEMMA WindowStays ==
  ASSUME NEW k \in Jobs, WindowSound(k), JobOrdered(k),
         job'[k].config = job[k].config, job'[k].lines = job[k].lines,
         job'[k].event = job[k].event, job'[k].window = job[k].window,
         \A e \in DOMAIN events : events'[e] = events[e]
  PROVE  WindowSound(k)'
<1>1. RowsOf(k)' = RowsOf(k)
  BY RowsStay
<1>2. job[k].event # 0 => events'[job[k].event] = events[job[k].event]
  BY DEF JobOrdered
<1> QED BY <1>1, <1>2 DEF WindowSound, RebuiltWindow, MayRetrainOn

\* A step of j leaves to another process what it had.
LEMMA OthersKeep ==
  ASSUME CInv, NEW j \in Jobs, Grow(j), NEW k \in Jobs \ {j}
  PROVE  JobInv(k)'
<1>1. /\ JobInv(k) /\ JobInv(j) /\ TypeOK
      /\ \A i \in DOMAIN runs : RunInv(i)
      /\ \A h \in Jobs : JobInv(h)
  BY Apart
<1>2. pc'[k] = pc[k] /\ job'[k] = job[k] /\ active'[k] = active[k]
  BY DEF Grow
<1>3. \A i \in DOMAIN runs : i \in DOMAIN runs' /\ RunKept(runs[i], runs'[i])
  BY DEF Grow
<1>4. KindOf(k)' = KindOf(k) /\ InHand(k)' = InHand(k) /\ LastCompleted(k)' = LastCompleted(k)
  BY <1>2 DEF KindOf, InHand, LastCompleted, Completed
<1>5. OpenRunOwned(k)'
  <2>1. OpenRunOwned(k) /\ OpenRunOwned(j)
    BY <1>1 DEF JobInv
  <2>2. ASSUME active[k].inner # 0
        PROVE  /\ active[k].inner \in DOMAIN runs'
               /\ runs'[active[k].inner].status = "RUNNING"
               /\ \A h \in Jobs \ {k} : active'[h].inner # active[k].inner
    <3>1. active[k].inner \in DOMAIN runs /\ runs[active[k].inner].status = "RUNNING"
          /\ \A h \in Jobs \ {k} : active[h].inner # active[k].inner
      BY <2>1, <2>2 DEF OpenRunOwned
    <3>2. active'[j].inner # active[k].inner
      BY <2>2, <3>1 DEF Grow
    <3>3. \A h \in Jobs \ {j} : active'[h] = active[h]
      BY DEF Grow
    <3> QED BY <1>3, <2>2, <3>1, <3>2, <3>3 DEF Grow
  <2>3. pc[k] = "log" =>
           /\ active[k].inner = job[k].record.run
           /\ Describes(job[k].record.run, job[k].record, k)'
    BY <1>2, <1>3, <1>4, <2>1 DEF OpenRunOwned, Describes, RunKept, Static
  <2>4. pc[k] = "trial_log" =>
           /\ runs'[active[k].inner].kind = "trial"
           /\ runs'[active[k].inner].completed = LastCompleted(k)
    BY <1>3, <2>1 DEF OpenRunOwned, RunKept, Static
  <2>5. active[k].study # 0 =>
           active[k].study \in DOMAIN runs' /\ runs'[active[k].study].kind = "study"
    BY <1>3, <2>1 DEF OpenRunOwned, RunKept, Static
  <2> QED BY <1>2, <1>4, <2>1, <2>2, <2>3, <2>4, <2>5 DEF OpenRunOwned
<1>6. JobOrdered(k)'
  BY <1>1, <1>2 DEF JobInv, JobOrdered, Grow
<1>7. WindowSound(k)'
  BY <1>1, <1>2, WindowStays DEF JobInv, Grow
<1>8. RecordSound(k)'
  <2>1. RecordSound(k)
    BY <1>1 DEF JobInv
  <2>2. ASSUME Describes(job[k].record.run, job[k].record, k), Complete(job[k].record.run),
               KindOf(k) = "training"
        PROVE  Describes(job[k].record.run, job[k].record, k)' /\ Complete(job[k].record.run)'
    BY <1>2, <1>3, <1>4, <2>2 DEF Describes, Complete, RunKept, Static
  <2> QED BY <1>2, <1>4, <2>1, <2>2 DEF RecordSound
<1>9. CandidateSound(k)'
  <2>1. CandidateSound(k)
    BY <1>1 DEF JobInv
  <2>2. \A i \in TrainingRuns : i \in TrainingRuns'
    BY <1>3 DEF TrainingRuns, RunKept, Static
  <2>3. \A i \in TrainingRuns : Complete(i) => Complete(i)'
    BY <1>3 DEF TrainingRuns, Complete, RunKept
  <2>4. \A i \in TrainingRuns : /\ runs'[i].config = runs[i].config
                                /\ runs'[i].lines = runs[i].lines
                                /\ runs'[i].window = runs[i].window
    BY <1>3 DEF TrainingRuns, RunKept, Static
  <2>5. \A v \in 0..Len(versions) : v \in 0..Len(versions')
    BY DEF Grow
  <2> QED BY <1>2, <2>1, <2>2, <2>3, <2>4, <2>5 DEF CandidateSound
<1>10. HandsApart(k)'
  <2>1. HandsApart(k) /\ HandsApart(j)
    BY <1>1 DEF JobInv
  <2>2. ASSUME InHand(k) # 0
        PROVE  /\ InHand(k) \in DOMAIN runs'
               /\ InHand(k) \in TrainingRuns' => runs'[InHand(k)].event = 0
               /\ \A h \in Jobs \ {k} : InHand(h)' # InHand(k)
    <3>1. /\ InHand(k) \in DOMAIN runs
          /\ InHand(k) \in TrainingRuns => runs[InHand(k)].event = 0
          /\ \A h \in Jobs \ {k} : InHand(h) # InHand(k)
      BY <2>1, <2>2 DEF HandsApart
    <3>2. InHand(j)' # InHand(k)
      BY <2>2, <3>1 DEF Grow
    <3>3. \A h \in Jobs \ {j} : InHand(h)' = InHand(h)
      BY DEF Grow, InHand
    <3>4. InHand(k) \in TrainingRuns' => InHand(k) \in TrainingRuns
      BY <1>3, <3>1 DEF TrainingRuns, RunKept, Static
    <3> QED BY <1>3, <2>2, <3>1, <3>2, <3>3, <3>4 DEF Grow
  <2> QED BY <1>4, <2>2 DEF HandsApart
<1> QED BY <1>5, <1>6, <1>7, <1>8, <1>9, <1>10 DEF JobInv

(* Types. *)

LEMMA SettingTyped ==
  ASSUME NEW config \in Configs
  PROVE  Setting[config] \in DataSetting
BY TrainingAssumption

LEMMA RowsTyped ==
  ASSUME NEW config \in Configs, NEW lines, NEW name, NEW window, NEW scenario
  PROVE  /\ Split(Prepare(Setting[config], lines), Setting[config], name) \in SUBSET Row
         /\ CurrentWindow(Prepare(Setting[config], lines), window, scenario) \in SUBSET Row
<1>1. Setting[config] \in DataSetting
  BY SettingTyped
<1>2. Split(Prepare(Setting[config], lines), Setting[config], name) \subseteq Row
  BY <1>1, PreparedIsKnown DEF Split, SliceWindow
<1>3. CurrentWindow(Prepare(Setting[config], lines), window, scenario) \subseteq Row
  BY <1>1, WindowRowsKnown
<1> QED BY <1>2, <1>3

LEMMA NewJobTyped ==
  ASSUME NEW command \in Commands, NEW config \in Configs, NEW lines \in Lines,
         NEW force \in BOOLEAN, NEW event \in Nat, NEW role \in Roles
  PROVE  NewJob(command, config, lines, force, event, role) \in Job
<1>1. NoRecord \in Record /\ {} \in SUBSET Row /\ <<>> \in Seq(BOOLEAN)
  BY DEF NoRecord, Record
<1> QED BY <1>1 DEF NewJob, Job

LEMMA NoJobTyped == NoJob \in Job
<1>1. (CHOOSE c \in Configs : TRUE) \in Configs /\ (CHOOSE n \in Lines : TRUE) \in Lines
  BY TrainingAssumption
<1>2. "none" \in Commands /\ "none" \in Roles
  BY DEF Commands, Roles
<1> QED BY <1>1, <1>2, NewJobTyped DEF NoJob

(* Steps of a process that leave the server and the registry alone. *)

OnlyJob(j) ==
    /\ pc' \in [Jobs -> Labels] /\ job' \in [Jobs -> Job]
    /\ active' \in [Jobs -> [study : Nat, inner : Nat]]
    /\ \A k \in Jobs \ {j} : pc'[k] = pc[k] /\ job'[k] = job[k] /\ active'[k] = active[k]

LEMMA QuietKeeps ==
  ASSUME CInv, NEW j \in Jobs, OnlyJob(j), UNCHANGED <<runs, registryVars>>,
         active'[j].inner \in {0, active[j].inner}, InHand(j)' \in {0, InHand(j)},
         JobInv(j)'
  PROVE  CInv'
<1>1. TypeOK /\ StoreInv /\ \A i \in DOMAIN runs : RunInv(i)
  BY Apart
<1>2. /\ runs' = runs /\ events' = events /\ versions' = versions
      /\ production' = production
  BY DEF registryVars
<1>3. TypeOK'
  BY <1>1, <1>2 DEF TypeOK, OnlyJob
<1>4. Grow(j)
  <2>1. runs \in Seq(Run) /\ Len(versions) \in Nat
    BY <1>1 DEF TypeOK
  <2> QED BY <1>2, <2>1 DEF Grow, OnlyJob, RunKept, Static
<1>5. StoreInv'
  BY <1>1, <1>2 DEF StoreInv, TrainingRuns, Complete
<1>6. \A i \in DOMAIN runs' : RunInv(i)'
  BY <1>1, <1>2 DEF RunInv, LineageOf
<1>7. \A k \in Jobs : JobInv(k)'
  BY <1>4, OthersKeep
<1> QED BY <1>3, <1>5, <1>6, <1>7, ApartNext

\* A process that has nothing in hand breaks nothing.
LEMMA WithoutJob ==
  ASSUME NEW j \in Jobs, job'[j] = NoJob, pc'[j] \in {"idle", "exit"},
         active'[j].inner = 0, Len(versions') \in Nat,
         active'[j].study # 0 =>
            active'[j].study \in DOMAIN runs' /\ runs'[active'[j].study].kind = "study"
  PROVE  JobInv(j)' /\ InHand(j)' = 0
<1>1. /\ job'[j].event = 0 /\ job'[j].window = {} /\ job'[j].role = "none"
      /\ job'[j].candidate.run = 0 /\ job'[j].compared = 0 /\ job'[j].version = 0
      /\ job'[j].tracker = 0
  BY DEF NoJob, NewJob, NoRecord
<1>2. InHand(j)' = 0
  BY DEF InHand
<1>3. OpenRunOwned(j)'
  BY DEF OpenRunOwned, Studying
<1>4. JobOrdered(j)' /\ WindowSound(j)'
  BY <1>1 DEF JobOrdered, WindowSound, Recording
<1>5. RecordSound(j)'
  BY <1>1 DEF RecordSound, Recording, Judging
<1>6. CandidateSound(j)' /\ HandsApart(j)'
  BY <1>1, <1>2 DEF CandidateSound, HandsApart
<1> QED BY <1>2, <1>3, <1>4, <1>5, <1>6 DEF JobInv

\* A command starts.
LEMMA LaunchKeeps ==
  ASSUME CInv, NEW j \in Jobs, NEW command \in Commands, NEW config \in Configs,
         NEW lines \in Lines, NEW force \in BOOLEAN, NEW event \in {0} \cup DOMAIN events,
         NEW role \in Roles, NEW label \in Labels,
         Launch(j, command, config, lines, force, event, role, label),
         UNCHANGED <<runs, active, registryVars>>,
         \/ label = "check" /\ role = "check"
         \/ label = "decide" /\ role = "check" /\ event # 0
         \/ label = "train" /\ role \in {"plain", "candidate"} /\ command # "retrain"
         \/ label = "enter" /\ role = "none"
  PROVE  CInv'
<1>1. TypeOK /\ JobInv(j) /\ StoreInv
  BY Apart
<1>2. event \in Nat
  BY <1>1 DEF TypeOK
<1> DEFINE work == NewJob(command, config, lines, force, event, role)
<1>3. work \in Job
  BY <1>2, NewJobTyped
<1>4. /\ pc[j] = "idle" /\ pc' = [pc EXCEPT ![j] = label]
      /\ job' = [job EXCEPT ![j] = work] /\ active' = active
      /\ runs' = runs /\ versions' = versions /\ events' = events
  BY DEF Launch, Goto, registryVars
<1>5. /\ work.event = event /\ work.window = {} /\ work.role = role
      /\ work.candidate.run = 0 /\ work.compared = 0 /\ work.version = 0
      /\ work.tracker = 0 /\ work.command = command
  BY DEF NewJob, NoRecord
<1> HIDE DEF work
<1>6. OnlyJob(j) /\ pc'[j] = label /\ job'[j] = work
  BY <1>1, <1>3, <1>4 DEF TypeOK, OnlyJob
<1>7. OpenRunOwned(j) /\ active[j].inner = 0
  BY <1>1, <1>4 DEF JobInv, OpenRunOwned
<1>8. OpenRunOwned(j)'
  BY <1>4, <1>5, <1>6, <1>7 DEF OpenRunOwned, Studying
<1>9. InHand(j)' = 0
  BY <1>6 DEF InHand
<1>10. JobOrdered(j)' /\ WindowSound(j)'
  BY <1>4, <1>5, <1>6 DEF JobOrdered, WindowSound, Recording
<1>11. RecordSound(j)'
  BY <1>5, <1>6 DEF RecordSound, Recording, Judging
<1>12. Len(versions) \in Nat
  BY <1>1 DEF TypeOK
<1>13. CandidateSound(j)' /\ HandsApart(j)'
  BY <1>4, <1>5, <1>6, <1>9, <1>12 DEF CandidateSound, HandsApart
<1>14. JobInv(j)'
  BY <1>8, <1>10, <1>11, <1>13 DEF JobInv
<1> QED BY <1>4, <1>6, <1>9, <1>14, QuietKeeps

\* A command is over and has no run open.
LEMMA LeaveKeeps ==
  ASSUME CInv, NEW j \in Jobs, Leave(j), UNCHANGED <<runs, active, registryVars>>,
         pc[j] \notin {"log", "trial_log"}
  PROVE  CInv'
<1>1. TypeOK /\ JobInv(j)
  BY Apart
<1>2. /\ pc' = [pc EXCEPT ![j] = "exit"] /\ job' = [job EXCEPT ![j] = NoJob]
      /\ active' = active /\ runs' = runs /\ versions' = versions
  BY DEF Leave, Goto, registryVars
<1>3. OnlyJob(j) /\ pc'[j] = "exit" /\ job'[j] = NoJob
  BY <1>1, <1>2, NoJobTyped DEF TypeOK, OnlyJob, Labels
<1>4. /\ active[j].inner = 0 /\ Len(versions) \in Nat
      /\ active[j].study # 0 =>
            active[j].study \in DOMAIN runs /\ runs[active[j].study].kind = "study"
  BY <1>1 DEF JobInv, OpenRunOwned, TypeOK
<1>5. JobInv(j)' /\ InHand(j)' = 0
  BY <1>2, <1>3, <1>4, WithoutJob
<1> QED BY <1>2, <1>3, <1>4, <1>5, QuietKeeps

LEMMA KillKeeps ==
  ASSUME CInv, NEW j \in Jobs, Kill(j), UNCHANGED registryVars
  PROVE  CInv'
<1>1. TypeOK
  BY Apart
<1>2. /\ pc' = [pc EXCEPT ![j] = "idle"] /\ job' = [job EXCEPT ![j] = NoJob]
      /\ active' = [active EXCEPT ![j] = Inactive] /\ runs' = runs /\ versions' = versions
  BY DEF Kill, Goto, registryVars
<1>3. /\ OnlyJob(j) /\ pc'[j] = "idle" /\ job'[j] = NoJob
      /\ active'[j].inner = 0 /\ active'[j].study = 0
  <2>1. Inactive \in [study : Nat, inner : Nat] /\ Inactive.inner = 0 /\ Inactive.study = 0
    BY DEF Inactive
  <2> QED BY <1>1, <1>2, <2>1, NoJobTyped DEF TypeOK, OnlyJob, Labels
<1>4. Len(versions') \in Nat
  BY <1>1, <1>2 DEF TypeOK
<1>5. JobInv(j)' /\ InHand(j)' = 0
  BY <1>3, <1>4, WithoutJob
<1>6. UNCHANGED <<runs, registryVars>>
  BY <1>2
<1> QED BY <1>3, <1>5, <1>6, QuietKeeps

\* A step between two runs: the process has none open before or after it.
LEMMA BetweenRuns ==
  ASSUME CInv, NEW j \in Jobs, NEW label \in Labels, NEW work \in Job,
         pc[j] \notin {"log", "trial_log"}, label \notin {"log", "trial_log"},
         pc' = [pc EXCEPT ![j] = label], job' = [job EXCEPT ![j] = work],
         UNCHANGED <<runs, active, registryVars>>,
         label = "saved" => work.record.run = 0,
         label = "tag" => work.candidate.run \in {0, InHand(j)},
         label \in Studying /\ work.tracker # 0 => active[j].study = work.tracker,
         JobOrdered(j)', WindowSound(j)', RecordSound(j)', CandidateSound(j)'
  PROVE  CInv'
<1>1. TypeOK /\ JobInv(j)
  BY Apart
<1>2. /\ runs' = runs /\ active' = active /\ versions' = versions /\ events' = events
      /\ production' = production
  BY DEF registryVars
<1>3. OnlyJob(j) /\ pc'[j] = label /\ job'[j] = work
  BY <1>1, <1>2 DEF TypeOK, OnlyJob
<1>4. OpenRunOwned(j) /\ active[j].inner = 0
  BY <1>1 DEF JobInv, OpenRunOwned
<1>5. OpenRunOwned(j)'
  BY <1>2, <1>3, <1>4 DEF OpenRunOwned
<1>6. InHand(j)' \in {0, InHand(j)}
  BY <1>3 DEF InHand
<1>7. HandsApart(j)'
  <2>1. HandsApart(j) /\ \A k \in Jobs \ {j} : InHand(k)' = InHand(k)
    BY <1>1, <1>3 DEF JobInv, InHand, OnlyJob
  <2>2. ASSUME InHand(j)' # 0
        PROVE  /\ InHand(j)' \in DOMAIN runs'
               /\ InHand(j)' \in TrainingRuns' => runs'[InHand(j)'].event = 0
               /\ \A k \in Jobs \ {j} : InHand(k)' # InHand(j)'
    <3>1. InHand(j)' = InHand(j) /\ InHand(j) # 0
      BY <1>6, <2>2
    <3>2. TrainingRuns' = TrainingRuns
      BY <1>2 DEF TrainingRuns
    <3> QED BY <1>2, <2>1, <3>1, <3>2 DEF HandsApart
  <2> QED BY <2>2 DEF HandsApart
<1>8. JobInv(j)'
  BY <1>5, <1>7 DEF JobInv
<1> QED BY <1>2, <1>3, <1>4, <1>6, <1>8, QuietKeeps

\* What the rows of a training show, wherever they come from.
LEMMA TrainedSound ==
  ASSUME TypeOK, NEW j \in Jobs, WindowSound(j), WindowsOrdered(Setting[job[j].config])
  PROVE  SoundRows(job[j].config, TrainedOn(j), Extra(j))
<1> DEFINE cfg == Setting[job[j].config]
<1>1. job[j].config \in Configs
  BY DEF TypeOK, Job
<1>2. cfg \in DataSetting
  BY <1>1, SettingTyped
<1>3. \A row \in Extra(j) :
         /\ Known(row, cfg) /\ row.approved <= LabelMaturityEnd(cfg)
         /\ \A name \in EvaluationSplits : ~InWindow(row, cfg.split[name])
  <2>1. CASE Extra(j) = {}
    BY <2>1
  <2>2. CASE Extra(j) # {}
    <3>1. Extra(j) = RebuiltWindow(j) /\ MayRetrainOn(Extra(j), j)
      BY <2>2 DEF Extra, WindowSound
    <3>2. \A row \in Extra(j) : Known(row, cfg)
      BY <1>2, <3>1, WindowRowsKnown DEF RebuiltWindow, RowsOf
    <3> QED BY <3>1, <3>2 DEF MayRetrainOn, LabelsMatured, DisjointFromEvaluation
  <2> QED BY <2>1, <2>2
<1>4. \A row \in Split(RowsOf(j), cfg, "train") :
         /\ Known(row, cfg)
         /\ \A name \in EvaluationSplits : ~InWindow(row, cfg.split[name])
  BY <1>2, TrainRowsSound DEF RowsOf
<1> HIDE DEF cfg
<1>5. \A row \in TrainedOn(j) :
         /\ Known(row, cfg)
         /\ \A name \in EvaluationSplits : ~InWindow(row, cfg.split[name])
  BY <1>3, <1>4 DEF TrainedOn, cfg
<1> QED BY <1>3, <1>5 DEF SoundRows, Known, cfg

LEMMA TrainKeeps ==
  ASSUME CInv, NEW j \in Jobs, Train(j), UNCHANGED registryVars
  PROVE  CInv'
<1>1. TypeOK /\ JobInv(j)
  BY Apart
<1> DEFINE record == [run |-> 0, trained |-> TrainedOn(j), window |-> Extra(j),
                      exam |-> JudgedOn(j)]
           work == [job[j] EXCEPT !.record = record]
<1>2. job[j] \in Job /\ job[j].config \in Configs /\ job[j].window \in SUBSET Row
  BY <1>1 DEF TypeOK, Job
<1>3. Extra(j) \in SUBSET Row /\ TrainedOn(j) \in SUBSET Row /\ JudgedOn(j) \in SUBSET Row
  BY <1>2, RowsTyped DEF Extra, TrainedOn, JudgedOn, RowsOf
<1>4. record \in Record
  BY <1>3 DEF Record
<1>5. /\ record.run = 0 /\ record.trained = TrainedOn(j) /\ record.window = Extra(j)
      /\ record.exam = JudgedOn(j)
  OBVIOUS
<1>6. /\ pc[j] = "train" /\ pc' = [pc EXCEPT ![j] = "open"]
      /\ job' = [job EXCEPT ![j] = work] /\ UNCHANGED <<runs, active, registryVars>>
      /\ SplitsUsable(RowsOf(j), Setting[job[j].config])
  <2>1. job' = [job EXCEPT ![j].record = record]
    BY DEF Train
  <2> HIDE DEF record
  <2> QED BY <2>1 DEF Train, Goto
<1>7. SoundRows(job[j].config, TrainedOn(j), Extra(j))
  BY <1>1, <1>6, TrainedSound DEF JobInv, SplitsUsable
<1>8. JudgedOn(j) = Exam(job[j].config, job[j].lines)
  BY DEF JudgedOn, Exam, RowsOf
<1> HIDE DEF record
<1>9. /\ work \in Job /\ work.record = record
      /\ work.command = job[j].command /\ work.config = job[j].config
      /\ work.lines = job[j].lines /\ work.event = job[j].event
      /\ work.window = job[j].window /\ work.role = job[j].role
      /\ work.candidate = job[j].candidate /\ work.compared = job[j].compared
      /\ work.version = job[j].version /\ work.tracker = job[j].tracker
  BY <1>2, <1>4 DEF Job
<1> HIDE DEF work
<1>10. pc'[j] = "open" /\ job'[j] = work
  BY <1>1, <1>6 DEF TypeOK
<1>11. events' = events /\ versions' = versions /\ runs' = runs
  BY DEF registryVars, Train
<1>12. KindOf(j)' = "training"
  BY <1>1, <1>6, <1>9, <1>10 DEF JobInv, JobOrdered, KindOf
<1>13. JobOrdered(j)'
  BY <1>1, <1>6, <1>9, <1>10, <1>11 DEF JobInv, JobOrdered, Recording
<1>14. WindowSound(j)'
  BY <1>1, <1>9, <1>10, <1>11, WindowStays DEF JobInv
<1>15. RecordSound(j)'
  BY <1>1, <1>5, <1>6, <1>7, <1>8, <1>9, <1>10, <1>12 DEF JobInv, RecordSound, Recording, Judging, Extra
<1>16. CandidateSound(j)'
  <2>1. TrainingRuns' = TrainingRuns /\ \A i : Complete(i)' <=> Complete(i)
    BY <1>11 DEF TrainingRuns, Complete
  <2> QED BY <1>1, <1>9, <1>10, <1>11, <2>1 DEF JobInv, CandidateSound
<1>17. "open" \in Labels
  BY DEF Labels
<1> QED
  BY <1>6, <1>9, <1>13, <1>14, <1>15, <1>16, <1>17, BetweenRuns DEF Studying

\* The candidate and what it is compared with stay what they were.
LEMMA CandidateStays ==
  ASSUME NEW j \in Jobs, CandidateSound(j), UNCHANGED <<runs, versions>>,
         pc'[j] # "alias",
         job'[j].config = job[j].config, job'[j].lines = job[j].lines,
         job'[j].window = job[j].window \/ job[j].candidate.run = 0,
         job'[j].candidate = job[j].candidate,
         job'[j].compared \in {0, job[j].compared}, job'[j].version = job[j].version
  PROVE  CandidateSound(j)'
<1>1. TrainingRuns' = TrainingRuns /\ \A i : Complete(i)' <=> Complete(i)
  BY DEF TrainingRuns, Complete
<1> QED BY <1>1 DEF CandidateSound

LEMMA SaveBootstrapKeeps ==
  ASSUME CInv, NEW j \in Jobs, SaveBootstrap(j)
  PROVE  CInv'
<1>1. TypeOK /\ JobInv(j)
  BY Apart
<1>2. /\ job[j] \in Job /\ job' = [job EXCEPT ![j] = job[j]] /\ job' = job
      /\ pc' = [pc EXCEPT ![j] = "gates"] /\ pc'[j] = "gates"
      /\ pc[j] = "saved" /\ job[j].role = "bootstrap"
      /\ UNCHANGED <<runs, active, registryVars>>
  BY <1>1 DEF TypeOK, SaveBootstrap, Goto
<1>3. /\ JobOrdered(j) /\ WindowSound(j) /\ RecordSound(j) /\ CandidateSound(j)
      /\ events' = events /\ runs' = runs /\ versions' = versions
  BY <1>1, <1>2 DEF JobInv, registryVars
<1>4. JobOrdered(j)'
  BY <1>2, <1>3 DEF JobOrdered, Recording
<1>5. WindowSound(j)'
  BY <1>2, <1>3, WindowStays
<1>6. RecordSound(j)'
  BY <1>2, <1>3 DEF RecordSound, Recording, Judging, KindOf
<1>7. CandidateSound(j)'
  BY <1>2, <1>3, CandidateStays
<1>8. "gates" \in Labels
  BY DEF Labels
<1> QED BY <1>2, <1>4, <1>5, <1>6, <1>7, <1>8, BetweenRuns DEF Studying

LEMMA PassGatesKeeps ==
  ASSUME CInv, NEW j \in Jobs, PassGates(j)
  PROVE  CInv'
<1>1. TypeOK /\ JobInv(j)
  BY Apart
<1>2. /\ job[j] \in Job /\ job' = [job EXCEPT ![j] = job[j]] /\ job' = job
      /\ pc' = [pc EXCEPT ![j] = "register"] /\ pc'[j] = "register" /\ pc[j] = "gates"
      /\ UNCHANGED <<runs, active, registryVars>>
  BY <1>1 DEF TypeOK, PassGates, Goto
<1>3. /\ JobOrdered(j) /\ WindowSound(j) /\ RecordSound(j) /\ CandidateSound(j)
      /\ events' = events /\ runs' = runs /\ versions' = versions
  BY <1>1, <1>2 DEF JobInv, registryVars
<1>4. JobOrdered(j)'
  BY <1>2, <1>3 DEF JobOrdered, Recording
<1>5. WindowSound(j)'
  BY <1>2, <1>3, WindowStays
<1>6. RecordSound(j)'
  BY <1>2, <1>3 DEF RecordSound, Recording, Judging, KindOf
<1>7. CandidateSound(j)'
  BY <1>2, <1>3, CandidateStays
<1>8. "register" \in Labels
  BY DEF Labels
<1> QED BY <1>2, <1>4, <1>5, <1>6, <1>7, <1>8, BetweenRuns DEF Studying

LEMMA BootstrapKeeps ==
  ASSUME CInv, NEW j \in Jobs, Bootstrap(j)
  PROVE  CInv'
<1> DEFINE work == [job[j] EXCEPT !.compared = 0, !.role = "bootstrap"]
<1>1. TypeOK /\ JobInv(j)
  BY Apart
<1>2. /\ work \in Job /\ work.role = "bootstrap" /\ work.compared = 0
      /\ work.config = job[j].config /\ work.lines = job[j].lines
      /\ work.event = job[j].event /\ work.window = job[j].window
      /\ work.candidate = job[j].candidate /\ work.version = job[j].version
      /\ work.tracker = job[j].tracker
  BY <1>1 DEF TypeOK, Job, Roles
<1>3. /\ job' = [job EXCEPT ![j] = work] /\ pc' = [pc EXCEPT ![j] = "train"]
      /\ pc[j] = "resolve" /\ UNCHANGED <<runs, active, registryVars>>
  BY DEF Bootstrap, Goto
<1> HIDE DEF work
<1>4. pc'[j] = "train" /\ job'[j] = work
  BY <1>1, <1>3 DEF TypeOK
<1>5. /\ JobOrdered(j) /\ WindowSound(j) /\ RecordSound(j) /\ CandidateSound(j)
      /\ events' = events /\ runs' = runs /\ versions' = versions
  BY <1>1, <1>3 DEF JobInv, registryVars
<1>6. JobOrdered(j)'
  BY <1>2, <1>4, <1>5 DEF JobOrdered, Recording
<1>7. WindowSound(j)'
  BY <1>2, <1>4, <1>5, WindowStays
<1>8. RecordSound(j)'
  BY <1>2, <1>3, <1>4, <1>5 DEF RecordSound, Recording, Judging, KindOf
<1>9. CandidateSound(j)'
  BY <1>2, <1>4, <1>5, CandidateStays
<1>10. "train" \in Labels
  BY DEF Labels
<1> QED BY <1>2, <1>3, <1>6, <1>7, <1>8, <1>9, <1>10, BetweenRuns DEF Studying

LEMMA MetricsFromRegistryKeeps ==
  ASSUME CInv, NEW j \in Jobs, MetricsFromRegistry(j)
  PROVE  CInv'
<1> DEFINE incumbent == versions[production]
           work == [job[j] EXCEPT !.compared = incumbent]
<1>1. TypeOK /\ JobInv(j) /\ StoreInv
  BY Apart
<1>2. incumbent \in TrainingRuns /\ incumbent \in Nat /\ incumbent # 0
  <2>1. production # 0 /\ production \in 0..Len(versions) /\ versions \in Seq(Nat)
    BY <1>1 DEF MetricsFromRegistry, StoreInv, TypeOK
  <2>2. production \in DOMAIN versions
    BY <2>1
  <2>3. incumbent \in TrainingRuns /\ incumbent \in Nat
    BY <1>1, <2>1, <2>2 DEF StoreInv
  <2>4. runs \in Seq(Run)
    BY <1>1 DEF TypeOK
  <2> QED BY <2>3, <2>4 DEF TrainingRuns
<1>3. job' = [job EXCEPT ![j] = work] /\ pc' = [pc EXCEPT ![j] = "gates"]
      /\ pc[j] = "resolve" /\ UNCHANGED <<runs, active, registryVars>>
  <2>1. job' = [job EXCEPT ![j].compared = incumbent]
    BY DEF MetricsFromRegistry
  <2> HIDE DEF incumbent
  <2> QED BY <2>1 DEF MetricsFromRegistry, Goto
<1> HIDE DEF incumbent
<1>4. /\ work \in Job /\ work.role = job[j].role /\ work.compared = incumbent
      /\ work.config = job[j].config /\ work.lines = job[j].lines
      /\ work.event = job[j].event /\ work.window = job[j].window
      /\ work.candidate = job[j].candidate /\ work.version = job[j].version
      /\ work.tracker = job[j].tracker
  BY <1>1, <1>2 DEF TypeOK, Job
<1> HIDE DEF work
<1>5. pc'[j] = "gates" /\ job'[j] = work
  BY <1>1, <1>3 DEF TypeOK
<1>6. /\ JobOrdered(j) /\ WindowSound(j) /\ RecordSound(j) /\ CandidateSound(j)
      /\ events' = events /\ runs' = runs /\ versions' = versions
  BY <1>1, <1>3 DEF JobInv, registryVars
<1>7. JobOrdered(j)'
  BY <1>4, <1>5, <1>6 DEF JobOrdered, Recording
<1>8. WindowSound(j)'
  BY <1>4, <1>5, <1>6, WindowStays
<1>9. RecordSound(j)'
  BY <1>2, <1>3, <1>4, <1>5, <1>6 DEF RecordSound, Recording, Judging, KindOf
<1>10. CandidateSound(j)'
  <2>1. TrainingRuns' = TrainingRuns /\ \A i : Complete(i)' <=> Complete(i)
    BY <1>6 DEF TrainingRuns, Complete
  <2> QED BY <1>2, <1>4, <1>5, <1>6, <2>1 DEF CandidateSound
<1>11. "gates" \in Labels
  BY DEF Labels
<1> QED
  BY <1>3, <1>4, <1>7, <1>8, <1>9, <1>10, <1>11, BetweenRuns DEF Studying

\* A check made for a retraining is decided upon.
LEMMA SaveCheckKeeps ==
  ASSUME CInv, NEW j \in Jobs, SaveCheck(j)
  PROVE  CInv'
<1>1. TypeOK /\ JobInv(j)
  BY Apart
<1>2. CASE job[j].command = "drift"
  BY <1>2, LeaveKeeps DEF SaveCheck
<1>3. CASE job[j].command # "drift"
  <2>1. /\ job[j] \in Job /\ job' = [job EXCEPT ![j] = job[j]] /\ job' = job
        /\ pc' = [pc EXCEPT ![j] = "decide"] /\ pc'[j] = "decide"
        /\ pc[j] = "saved" /\ job[j].role = "check"
        /\ UNCHANGED <<runs, active, registryVars>>
    BY <1>1, <1>3 DEF TypeOK, SaveCheck, Goto
  <2>2. /\ JobOrdered(j) /\ WindowSound(j) /\ RecordSound(j) /\ CandidateSound(j)
        /\ events' = events /\ runs' = runs /\ versions' = versions
    BY <1>1, <2>1 DEF JobInv, registryVars
  <2>3. JobOrdered(j)'
    BY <2>1, <2>2 DEF JobOrdered, Recording
  <2>4. WindowSound(j)'
    BY <2>1, <2>2, WindowStays
  <2>5. RecordSound(j)'
    BY <2>1, <2>2 DEF RecordSound, Recording, Judging, KindOf
  <2>6. CandidateSound(j)'
    BY <2>1, <2>2, CandidateStays
  <2>7. "decide" \in Labels
    BY DEF Labels
  <2> QED BY <2>1, <2>3, <2>4, <2>5, <2>6, <2>7, BetweenRuns DEF Studying
<1> QED BY <1>2, <1>3

LEMMA RetrainKeeps ==
  ASSUME CInv, NEW j \in Jobs, Retrain(j)
  PROVE  CInv'
<1> DEFINE rows == RebuiltWindow(j)
           work == [job[j] EXCEPT !.window = rows, !.role = "candidate", !.record = NoRecord]
<1>1. TypeOK /\ JobInv(j)
  BY Apart
<1>2. job[j] \in Job /\ job[j].config \in Configs /\ NoRecord \in Record
  BY <1>1 DEF TypeOK, Job, NoRecord, Record
<1>3. rows \in SUBSET Row /\ MayRetrainOn(rows, j) /\ rows # {}
  BY <1>2, RowsTyped DEF Retrain, RebuiltWindow, RowsOf, MayRetrainOn
<1>4. /\ job' = [job EXCEPT ![j] = work] /\ pc' = [pc EXCEPT ![j] = "train"]
      /\ pc[j] = "decide" /\ UNCHANGED <<runs, active, registryVars>>
  <2>1. job' = [job EXCEPT ![j].window = rows, ![j].role = "candidate", ![j].record = NoRecord]
    BY DEF Retrain
  <2> HIDE DEF rows
  <2> QED BY <2>1 DEF Retrain, Goto
<1> HIDE DEF rows
<1>5. /\ work \in Job /\ work.role = "candidate" /\ work.compared = job[j].compared
      /\ work.config = job[j].config /\ work.lines = job[j].lines
      /\ work.event = job[j].event /\ work.window = rows
      /\ work.candidate = job[j].candidate /\ work.version = job[j].version
      /\ work.tracker = job[j].tracker
  BY <1>2, <1>3 DEF Job, Roles
<1> HIDE DEF work
<1>6. pc'[j] = "train" /\ job'[j] = work
  BY <1>1, <1>4 DEF TypeOK
<1>7. /\ JobOrdered(j) /\ WindowSound(j) /\ RecordSound(j) /\ CandidateSound(j)
      /\ events' = events /\ runs' = runs /\ versions' = versions
  BY <1>1, <1>4 DEF JobInv, registryVars
<1>8. job[j].candidate.run = 0 /\ job[j].event # 0 /\ job[j].role = "check"
  BY <1>4, <1>7 DEF JobOrdered
<1>9. JobOrdered(j)'
  BY <1>3, <1>5, <1>6, <1>7, <1>8 DEF JobOrdered, Recording
<1>10. WindowSound(j)'
  <2>1. RebuiltWindow(j)' = rows
    <3>1. RowsOf(j)' = RowsOf(j)
      BY <1>5, <1>6, RowsStay
    <3> QED BY <1>5, <1>6, <1>7, <3>1 DEF rows, RebuiltWindow
  <2>2. MayRetrainOn(rows, j)'
    <3>1. RowsOf(j)' = RowsOf(j)
      BY <1>5, <1>6, RowsStay
    <3>2. rows' = rows
      BY <2>1 DEF rows
    <3> QED BY <1>3, <1>5, <1>6, <3>1, <3>2 DEF MayRetrainOn
  <2>3. rows' = rows
    BY <2>1 DEF rows
  <2> QED BY <1>5, <1>6, <1>8, <2>1, <2>2, <2>3 DEF WindowSound
<1>11. RecordSound(j)'
  BY <1>5, <1>6 DEF RecordSound, Recording, Judging
<1>12. CandidateSound(j)'
  BY <1>5, <1>6, <1>7, <1>8, CandidateStays
<1>13. "train" \in Labels
  BY DEF Labels
<1> QED
  BY <1>4, <1>5, <1>9, <1>10, <1>11, <1>12, <1>13, BetweenRuns DEF Studying

LEMMA SaveCandidateKeeps ==
  ASSUME CInv, NEW j \in Jobs, SaveCandidate(j)
  PROVE  CInv'
<1> DEFINE work == [job[j] EXCEPT !.candidate = job[j].record]
           label == IF job[j].command = "retrain" THEN "tag" ELSE "resolve"
<1>1. TypeOK /\ JobInv(j)
  BY Apart
<1>2. job[j] \in Job /\ job[j].record \in Record
  BY <1>1 DEF TypeOK, Job
<1>3. /\ work \in Job /\ work.role = job[j].role /\ work.compared = job[j].compared
      /\ work.config = job[j].config /\ work.lines = job[j].lines
      /\ work.event = job[j].event /\ work.window = job[j].window
      /\ work.candidate = job[j].record /\ work.version = job[j].version
      /\ work.tracker = job[j].tracker
  BY <1>2 DEF Job
<1>4. /\ job' = [job EXCEPT ![j] = work] /\ pc' = [pc EXCEPT ![j] = label]
      /\ pc[j] = "saved" /\ job[j].role = "candidate"
      /\ UNCHANGED <<runs, active, registryVars>>
  BY DEF SaveCandidate, Goto
<1>5. label \in {"tag", "resolve"} /\ (label = "tag" <=> job[j].command = "retrain")
  OBVIOUS
<1> HIDE DEF work, label
<1>6. pc'[j] = label /\ job'[j] = work
  BY <1>1, <1>4 DEF TypeOK
<1>7. /\ JobOrdered(j) /\ WindowSound(j) /\ RecordSound(j) /\ CandidateSound(j)
      /\ events' = events /\ runs' = runs /\ versions' = versions
  BY <1>1, <1>4 DEF JobInv, registryVars
<1>8. JobOrdered(j)'
  BY <1>3, <1>4, <1>5, <1>6, <1>7 DEF JobOrdered, Recording
<1>9. WindowSound(j)'
  BY <1>3, <1>6, <1>7, WindowStays
<1>10. KindOf(j) = "training"
  BY <1>4 DEF KindOf
<1>11. RecordSound(j)'
  <2>1. job[j].record.exam = Exam(job[j].config, job[j].lines)
    BY <1>4, <1>7, <1>10 DEF RecordSound, Recording
  <2> QED BY <1>3, <1>4, <1>5, <1>6, <2>1 DEF RecordSound, Recording, Judging
<1>12. CandidateSound(j)'
  <2>1. job[j].record.run # 0 =>
           /\ job[j].record.run \in TrainingRuns /\ Complete(job[j].record.run)
           /\ runs[job[j].record.run].config = job[j].config
           /\ runs[job[j].record.run].lines = job[j].lines
           /\ runs[job[j].record.run].window = job[j].window
    BY <1>4, <1>7, <1>10 DEF RecordSound, Describes, Recording, TrainingRuns
  <2>2. TrainingRuns' = TrainingRuns /\ \A i : Complete(i)' <=> Complete(i)
    BY <1>7 DEF TrainingRuns, Complete
  <2> QED BY <1>3, <1>5, <1>6, <1>7, <2>1, <2>2 DEF CandidateSound
<1>13. label \in Labels /\ InHand(j) = job[j].record.run
  BY <1>4, <1>5 DEF Labels, InHand
<1> QED
  BY <1>3, <1>4, <1>5, <1>8, <1>9, <1>11, <1>12, <1>13, BetweenRuns DEF Studying

LEMMA SaveBaselineKeeps ==
  ASSUME CInv, NEW j \in Jobs, SaveBaseline(j), UNCHANGED registryVars
  PROVE  CInv'
<1> DEFINE work == [job[j] EXCEPT !.role = "tuned"]
<1>1. TypeOK /\ JobInv(j)
  BY Apart
<1>2. /\ work \in Job /\ work.role = "tuned" /\ work.compared = job[j].compared
      /\ work.config = job[j].config /\ work.lines = job[j].lines
      /\ work.event = job[j].event /\ work.window = job[j].window
      /\ work.candidate = job[j].candidate /\ work.version = job[j].version
      /\ work.tracker = job[j].tracker
  BY <1>1 DEF TypeOK, Job, Roles
<1>3. /\ job' = [job EXCEPT ![j] = work] /\ pc' = [pc EXCEPT ![j] = "train"]
      /\ pc[j] = "saved" /\ UNCHANGED <<runs, active, registryVars>>
  BY DEF SaveBaseline, Goto
<1> HIDE DEF work
<1>4. pc'[j] = "train" /\ job'[j] = work
  BY <1>1, <1>3 DEF TypeOK
<1>5. /\ JobOrdered(j) /\ WindowSound(j) /\ RecordSound(j) /\ CandidateSound(j)
      /\ events' = events /\ runs' = runs /\ versions' = versions
  BY <1>1, <1>3 DEF JobInv, registryVars
<1>6. JobOrdered(j)'
  BY <1>2, <1>4, <1>5 DEF JobOrdered, Recording
<1>7. WindowSound(j)'
  BY <1>2, <1>4, <1>5, WindowStays
<1>8. RecordSound(j)'
  BY <1>2, <1>4 DEF RecordSound, Recording, Judging
<1>9. CandidateSound(j)'
  BY <1>2, <1>4, <1>5, CandidateStays
<1>10. "train" \in Labels
  BY DEF Labels
<1> QED BY <1>2, <1>3, <1>6, <1>7, <1>8, <1>9, <1>10, BetweenRuns DEF Studying

(* The study, between its runs. *)

\* A study that goes on is at a trial.
LEMMA StudyGoesOn ==
  ASSUME CInv, NEW j \in Jobs, NEW work \in Job, NEW label \in {"trial", "trial_open", "exit_study"},
         pc[j] \in {"enter", "trial", "trial_open"},
         pc' = [pc EXCEPT ![j] = label], job' = [job EXCEPT ![j] = work],
         UNCHANGED <<runs, active, registryVars>>,
         work.role = job[j].role, work.compared = job[j].compared,
         work.config = job[j].config, work.lines = job[j].lines,
         work.event = job[j].event, work.window = job[j].window,
         work.candidate = job[j].candidate, work.version = job[j].version,
         work.tracker = job[j].tracker,
         label = "trial_open" => work.tracker # 0
  PROVE  CInv'
<1>1. TypeOK /\ JobInv(j)
  BY Apart
<1>2. pc'[j] = label /\ job'[j] = work /\ label \in Labels
  BY <1>1 DEF TypeOK, Labels
<1>3. /\ OpenRunOwned(j) /\ JobOrdered(j) /\ WindowSound(j) /\ RecordSound(j)
      /\ CandidateSound(j) /\ events' = events /\ runs' = runs /\ versions' = versions
  BY <1>1 DEF JobInv, registryVars
<1>4. JobOrdered(j)'
  BY <1>2, <1>3 DEF JobOrdered, Recording
<1>5. WindowSound(j)'
  BY <1>2, <1>3, WindowStays
<1>6. RecordSound(j)'
  BY <1>2, <1>3 DEF RecordSound, Recording, Judging
<1>7. CandidateSound(j)'
  BY <1>2, <1>3, CandidateStays
<1>8. work.tracker # 0 => active[j].study = work.tracker
  BY <1>3 DEF OpenRunOwned, Studying, JobOrdered
<1> QED BY <1>2, <1>4, <1>5, <1>6, <1>7, <1>8, BetweenRuns

LEMMA RunTrialKeeps ==
  ASSUME CInv, NEW j \in Jobs, RunTrial(j), UNCHANGED registryVars
  PROVE  CInv'
<1>1. TypeOK /\ JobInv(j)
  BY Apart
<1>2. PICK completed \in BOOLEAN :
         job' = [job EXCEPT ![j].trials = Append(@, completed)]
  BY DEF RunTrial
<1> DEFINE trials == Append(job[j].trials, completed)
           work == [job[j] EXCEPT !.trials = trials]
           label == IF job[j].tracker # 0 THEN "trial_open" ELSE "trial"
<1>3. trials \in Seq(BOOLEAN)
  BY <1>1 DEF TypeOK, Job
<1>4. /\ job' = [job EXCEPT ![j] = work] /\ pc' = [pc EXCEPT ![j] = label]
      /\ pc[j] = "trial" /\ UNCHANGED <<runs, active, registryVars>>
  <2>1. job' = [job EXCEPT ![j].trials = trials]
    BY <1>2
  <2> HIDE DEF trials
  <2> QED BY <2>1 DEF RunTrial, Goto
<1> HIDE DEF trials
<1>5. /\ work \in Job /\ work.role = job[j].role /\ work.compared = job[j].compared
      /\ work.config = job[j].config /\ work.lines = job[j].lines
      /\ work.event = job[j].event /\ work.window = job[j].window
      /\ work.candidate = job[j].candidate /\ work.version = job[j].version
      /\ work.tracker = job[j].tracker
  BY <1>1, <1>3 DEF TypeOK, Job
<1>6. label \in {"trial", "trial_open"} /\ (label = "trial_open" => job[j].tracker # 0)
  OBVIOUS
<1> HIDE DEF work, label
<1> QED BY <1>4, <1>5, <1>6, StudyGoesOn

LEMMA RaiseInStudyKeeps ==
  ASSUME CInv, NEW j \in Jobs, RaiseInStudy(j), UNCHANGED registryVars
  PROVE  CInv'
<1> DEFINE work == [job[j] EXCEPT !.raised = TRUE]
<1>1. TypeOK /\ JobInv(j)
  BY Apart
<1>2. /\ work \in Job /\ work.role = job[j].role /\ work.compared = job[j].compared
      /\ work.config = job[j].config /\ work.lines = job[j].lines
      /\ work.event = job[j].event /\ work.window = job[j].window
      /\ work.candidate = job[j].candidate /\ work.version = job[j].version
      /\ work.tracker = job[j].tracker
  BY <1>1 DEF TypeOK, Job
<1>3. /\ job' = [job EXCEPT ![j] = work] /\ pc' = [pc EXCEPT ![j] = "exit_study"]
      /\ pc[j] = "trial" /\ UNCHANGED <<runs, active, registryVars>>
  BY DEF RaiseInStudy, Goto
<1> HIDE DEF work
<1> QED BY <1>2, <1>3, StudyGoesOn

LEMMA FinishStudyKeeps ==
  ASSUME CInv, NEW j \in Jobs, FinishStudy(j), UNCHANGED registryVars
  PROVE  CInv'
<1>1. TypeOK /\ pc[j] = "trial"
  BY Apart DEF FinishStudy
<1>2. job[j] \in Job /\ job' = [job EXCEPT ![j] = job[j]]
  BY <1>1 DEF FinishStudy, TypeOK
<1> QED BY <1>1, <1>2, StudyGoesOn DEF FinishStudy, Goto

\* The tracker stays as it is, and so does what the server holds.
LEMMA StudyUntracked ==
  ASSUME CInv, NEW j \in Jobs, pc[j] \in {"enter", "trial_open"}, Goto(j, "trial"),
         UNCHANGED <<runs, active, job, registryVars>>
  PROVE  CInv'
<1>1. TypeOK /\ JobInv(j)
  BY Apart
<1>2. job[j] \in Job /\ job' = [job EXCEPT ![j] = job[j]] /\ pc'[j] = "trial"
  BY <1>1 DEF TypeOK, Goto
<1> QED BY <1>2, StudyGoesOn DEF Goto

\* Without a run to close: on to the training of the baseline.
LEMMA LeaveStudyUntracked ==
  ASSUME CInv, NEW j \in Jobs, CloseStudy(j), job[j].tracker = 0, UNCHANGED registryVars
  PROVE  CInv'
<1>1. CASE Leave(j)
  BY <1>1, LeaveKeeps DEF CloseStudy
<1>2. CASE Goto(j, "train") /\ job' = [job EXCEPT ![j].role = "baseline", ![j].trials = <<>>]
  <2> DEFINE none == <<>>
             work == [job[j] EXCEPT !.role = "baseline", !.trials = none]
  <2>1. TypeOK /\ JobInv(j) /\ none \in Seq(BOOLEAN)
    BY Apart
  <2>11. job' = [job EXCEPT ![j].role = "baseline", ![j].trials = none]
    BY <1>2
  <2> HIDE DEF none
  <2>2. /\ work \in Job /\ work.role = "baseline" /\ work.compared = job[j].compared
        /\ work.config = job[j].config /\ work.lines = job[j].lines
        /\ work.event = job[j].event /\ work.window = job[j].window
        /\ work.candidate = job[j].candidate /\ work.version = job[j].version
        /\ work.tracker = job[j].tracker
    BY <2>1 DEF TypeOK, Job, Roles
  <2>3. /\ job' = [job EXCEPT ![j] = work] /\ pc' = [pc EXCEPT ![j] = "train"]
        /\ pc[j] = "exit_study" /\ UNCHANGED <<runs, active, registryVars>>
    BY <1>2, <2>11 DEF CloseStudy, Goto
  <2> HIDE DEF work
  <2>4. pc'[j] = "train" /\ job'[j] = work
    BY <2>1, <2>3 DEF TypeOK
  <2>5. /\ JobOrdered(j) /\ WindowSound(j) /\ RecordSound(j) /\ CandidateSound(j)
        /\ events' = events /\ runs' = runs /\ versions' = versions
    BY <2>1, <2>3 DEF JobInv, registryVars
  <2>6. JobOrdered(j)'
    BY <2>2, <2>4, <2>5 DEF JobOrdered, Recording
  <2>7. WindowSound(j)'
    BY <2>2, <2>4, <2>5, WindowStays
  <2>8. RecordSound(j)'
    BY <2>2, <2>4 DEF RecordSound, Recording, Judging
  <2>9. CandidateSound(j)'
    BY <2>2, <2>4, <2>5, CandidateStays
  <2>10. "train" \in Labels
    BY DEF Labels
  <2> QED BY <2>2, <2>3, <2>6, <2>7, <2>8, <2>9, <2>10, BetweenRuns DEF Studying
<1> QED BY <1>1, <1>2 DEF CloseStudy

(* Steps that create a run. *)

LEMMA Added ==
  ASSUME CInv, NEW j \in Jobs, NEW kind \in Kinds, NEW completed \in BOOLEAN,
         CreateRun(j, kind, completed)
  PROVE  /\ Len(runs) + 1 \in Nat \ {0} /\ Len(runs) + 1 \notin DOMAIN runs
         /\ runs' \in Seq(Run) /\ DOMAIN runs' = DOMAIN runs \cup {Len(runs) + 1}
         /\ \A i \in DOMAIN runs : runs'[i] = runs[i]
         /\ runs'[Len(runs) + 1] = Created(j, kind, completed)
<1>1. TypeOK
  BY Apart
<1> DEFINE run == Created(j, kind, completed)
<1>2. run \in Run
  <2>1. /\ job[j].record \in Record /\ job[j].config \in Configs /\ job[j].lines \in Lines
        /\ job[j].event \in Nat
    BY <1>1 DEF TypeOK, Job
  <2>2. 0 \in 0..LogCalls /\ "RUNNING" \in Statuses
    BY TrainingAssumption DEF Statuses
  <2> QED BY <2>1, <2>2 DEF Created, Run, Record
<1>3. runs \in Seq(Run) /\ runs' = Append(runs, run)
  BY <1>1 DEF TypeOK, CreateRun
<1> HIDE DEF run
<1>4. /\ runs' \in Seq(Run) /\ Len(runs') = Len(runs) + 1 /\ runs'[Len(runs) + 1] = run
      /\ \A i \in 1..Len(runs) : runs'[i] = runs[i]
  BY <1>2, <1>3, AppendProperties
<1>5. Len(runs) \in Nat /\ DOMAIN runs = 1..Len(runs) /\ DOMAIN runs' = 1..(Len(runs) + 1)
  BY <1>3, <1>4, LenProperties
<1> QED BY <1>4, <1>5 DEF run

\* What a process had in hand it still has, if what it is compared with stays.
LEMMA CandidateKept ==
  ASSUME NEW j \in Jobs, CandidateSound(j), versions' = versions, pc'[j] # "alias",
         \A i \in DOMAIN runs : i \in DOMAIN runs' /\ RunKept(runs[i], runs'[i]),
         job'[j].config = job[j].config, job'[j].lines = job[j].lines,
         job'[j].window = job[j].window, job'[j].candidate = job[j].candidate,
         job'[j].compared = job[j].compared, job'[j].version = job[j].version
  PROVE  CandidateSound(j)'
<1>1. \A i \in TrainingRuns : i \in TrainingRuns' /\ (Complete(i) => Complete(i)')
  BY DEF TrainingRuns, RunKept, Static, Complete
<1>2. \A i \in TrainingRuns : /\ runs'[i].config = runs[i].config
                              /\ runs'[i].lines = runs[i].lines
                              /\ runs'[i].window = runs[i].window
  BY DEF TrainingRuns, RunKept, Static
<1> QED BY <1>1, <1>2 DEF CandidateSound

LEMMA AddKeeps ==
  ASSUME CInv, NEW j \in Jobs, NEW kind \in Kinds, NEW completed \in BOOLEAN,
         CreateRun(j, kind, completed), OnlyJob(j), UNCHANGED registryVars,
         kind = "check" => job[j].event \in DOMAIN events,
         kind = "training" =>
            /\ job[j].record.exam = Exam(job[j].config, job[j].lines)
            /\ SoundRows(job[j].config, job[j].record.trained, job[j].record.window),
         active'[j].inner \in {0, Len(runs) + 1},
         InHand(j)' \in {0, InHand(j), Len(runs) + 1},
         JobInv(j)'
  PROVE  CInv'
<1>1. /\ TypeOK /\ StoreInv /\ \A i \in DOMAIN runs : RunInv(i)
      /\ \A k \in Jobs : JobInv(k)
  BY Apart
<1>2. /\ Len(runs) + 1 \in Nat \ {0} /\ Len(runs) + 1 \notin DOMAIN runs
      /\ runs' \in Seq(Run) /\ DOMAIN runs' = DOMAIN runs \cup {Len(runs) + 1}
      /\ \A i \in DOMAIN runs : runs'[i] = runs[i]
      /\ runs'[Len(runs) + 1] = Created(j, kind, completed)
  BY Added
<1>3. events' = events /\ versions' = versions /\ production' = production
  BY DEF registryVars
<1>4. TypeOK'
  BY <1>1, <1>2, <1>3 DEF TypeOK, OnlyJob
<1>5. \A k \in Jobs : /\ active[k].inner # 0 => active[k].inner \in DOMAIN runs
                      /\ InHand(k) # 0 => InHand(k) \in DOMAIN runs
  BY <1>1 DEF JobInv, OpenRunOwned, HandsApart
<1>6. Grow(j)
  <2>1. Len(versions) \in Nat
    BY <1>1 DEF TypeOK
  <2>2. \A i \in DOMAIN runs : RunKept(runs[i], runs'[i])
    BY <1>2 DEF RunKept, Static
  <2>3. /\ \A k \in Jobs \ {j} : active[k].inner # 0 =>
               runs'[active[k].inner].status = runs[active[k].inner].status
        /\ \A k \in Jobs \ {j} : InHand(k) # 0 => runs'[InHand(k)].event = runs[InHand(k)].event
    BY <1>2, <1>5
  <2>4. /\ active'[j].inner = 0 \/ active'[j].inner \notin DOMAIN runs
        /\ InHand(j)' \in {0, InHand(j)} \/ InHand(j)' \notin DOMAIN runs
    BY <1>2
  <2>5. \A k \in Jobs \ {j} : pc'[k] = pc[k] /\ job'[k] = job[k] /\ active'[k] = active[k]
    BY DEF OnlyJob
  <2>6. /\ DOMAIN events \subseteq DOMAIN events' /\ \A e \in DOMAIN events : events'[e] = events[e]
        /\ Len(versions) <= Len(versions') /\ Len(versions) \in Nat /\ Len(versions') \in Nat
    BY <1>3, <2>1
  <2>7. runs' \in Seq(Run) /\ DOMAIN runs \subseteq DOMAIN runs'
    BY <1>2
  <2> QED BY <2>2, <2>3, <2>4, <2>5, <2>6, <2>7 DEF Grow
<1>7. StoreInv'
  <2>1. \A v \in DOMAIN versions : versions[v] \in TrainingRuns' /\ Complete(versions[v])'
    BY <1>1, <1>2, <1>3 DEF StoreInv, TrainingRuns, Complete
  <2> QED BY <1>1, <1>3, <2>1 DEF StoreInv
<1>8. \A i \in DOMAIN runs' : RunInv(i)'
  <2>1. ASSUME NEW i \in DOMAIN runs
        PROVE  RunInv(i)'
    BY <1>1, <1>2, <1>3 DEF RunInv, LineageOf
  <2>2. ASSUME NEW i, i = Len(runs) + 1
        PROVE  RunInv(i)'
    <3>1. /\ runs'[i].kind = kind /\ runs'[i].status = "RUNNING"
          /\ runs'[i].config = job[j].config /\ runs'[i].lines = job[j].lines
          /\ runs'[i].exam = job[j].record.exam /\ runs'[i].trained = job[j].record.trained
          /\ runs'[i].window = job[j].record.window
          /\ runs'[i].event = IF kind = "check" THEN job[j].event ELSE 0
      BY <1>2, <2>2 DEF Created
    <3>2. LineageOf(i)'
      BY <3>1 DEF LineageOf
    <3> QED BY <1>3, <3>1, <3>2 DEF RunInv
  <2> QED BY <1>2, <2>1, <2>2
<1>9. \A k \in Jobs : JobInv(k)'
  BY <1>6, OthersKeep
<1> QED BY <1>4, <1>7, <1>8, <1>9, ApartNext

LEMMA OpenRunKeeps ==
  ASSUME CInv, NEW j \in Jobs, OpenRun(j), UNCHANGED registryVars
  PROVE  CInv'
<1> DEFINE new == Len(runs) + 1
           kind == KindOf(j)
           record == [job[j].record EXCEPT !.run = new]
           work == [job[j] EXCEPT !.record = record]
<1>1. TypeOK /\ JobInv(j) /\ \A k \in Jobs : JobInv(k)
  BY Apart
<1>2. kind \in Kinds /\ kind \in {"check", "training"}
  BY DEF KindOf, Kinds
<1>3. CreateRun(j, kind, TRUE)
  BY DEF OpenRun
<1>4. /\ new \in Nat \ {0} /\ new \notin DOMAIN runs
      /\ DOMAIN runs' = DOMAIN runs \cup {new}
      /\ \A i \in DOMAIN runs : runs'[i] = runs[i]
      /\ runs'[new] = Created(j, kind, TRUE)
  BY <1>2, <1>3, Added
<1> HIDE DEF kind
<1>5. /\ pc[j] = "open" /\ pc' = [pc EXCEPT ![j] = "log"] /\ active[j] = Inactive
      /\ active' = [active EXCEPT ![j].inner = new]
      /\ job' = [job EXCEPT ![j].record.run = new]
  BY DEF OpenRun, Goto
<1> HIDE DEF new
<1>6. job[j] \in Job /\ job[j].record \in Record
  BY <1>1 DEF TypeOK, Job
<1>7. /\ record \in Record /\ record.run = new /\ record.trained = job[j].record.trained
      /\ record.window = job[j].record.window /\ record.exam = job[j].record.exam
  BY <1>4, <1>6 DEF Record
<1>8. job' = [job EXCEPT ![j] = work]
  BY <1>5
<1> HIDE DEF record
<1>9. /\ work \in Job /\ work.record = record
      /\ work.command = job[j].command /\ work.config = job[j].config
      /\ work.lines = job[j].lines /\ work.event = job[j].event
      /\ work.window = job[j].window /\ work.role = job[j].role
      /\ work.candidate = job[j].candidate /\ work.compared = job[j].compared
      /\ work.version = job[j].version /\ work.tracker = job[j].tracker
  BY <1>6, <1>7 DEF Job
<1> HIDE DEF work
<1>10. /\ OnlyJob(j) /\ pc'[j] = "log" /\ job'[j] = work
       /\ active'[j].inner = new /\ active'[j].study = 0
  <2>1. active \in [Jobs -> [study : Nat, inner : Nat]] /\ pc \in [Jobs -> Labels]
        /\ job \in [Jobs -> Job] /\ active[j].study = 0
    BY <1>1, <1>5 DEF TypeOK, Inactive
  <2>2. pc' \in [Jobs -> Labels]
    BY <1>5, <2>1 DEF Labels
  <2>3. active' \in [Jobs -> [study : Nat, inner : Nat]] /\ active'[j].inner = new
        /\ active'[j].study = 0
    BY <1>4, <1>5, <2>1
  <2>4. job' \in [Jobs -> Job] /\ job'[j] = work
    BY <1>8, <1>9, <2>1
  <2>5. \A k \in Jobs \ {j} : pc'[k] = pc[k] /\ job'[k] = job[k] /\ active'[k] = active[k]
    BY <1>5, <1>8, <2>1
  <2> QED BY <1>5, <2>1, <2>2, <2>3, <2>4, <2>5 DEF OnlyJob
<1>11. events' = events /\ versions' = versions
  BY DEF registryVars
<1>12. KindOf(j)' = kind
  BY <1>9, <1>10 DEF KindOf, kind
<1>13. /\ JobOrdered(j) /\ WindowSound(j) /\ RecordSound(j) /\ CandidateSound(j)
  BY <1>1 DEF JobInv
<1>14. \A k \in Jobs : active[k].inner # new /\ InHand(k) # new
  BY <1>1, <1>4 DEF JobInv, OpenRunOwned, HandsApart
<1>15. \A k \in Jobs \ {j} : active'[k].inner # new /\ InHand(k)' # new
  BY <1>10, <1>14 DEF OnlyJob, InHand
<1>16. InHand(j)' = new
  BY <1>7, <1>9, <1>10 DEF InHand
<1>17. /\ runs'[new].status = "RUNNING" /\ runs'[new].kind = kind
       /\ runs'[new].config = job[j].config /\ runs'[new].lines = job[j].lines
       /\ runs'[new].window = job[j].record.window
       /\ kind = "training" => runs'[new].event = 0
  BY <1>4 DEF Created
<1>18. OpenRunOwned(j)'
  <2>2. Describes(job[j].record.run, job[j].record, j)'
    BY <1>4, <1>7, <1>9, <1>10, <1>12, <1>17 DEF Describes
  <2> QED BY <1>4, <1>7, <1>9, <1>10, <1>15, <1>17, <2>2 DEF OpenRunOwned, Studying
<1>19. JobOrdered(j)'
  BY <1>5, <1>9, <1>10, <1>11, <1>13 DEF JobOrdered, Recording
<1>20. WindowSound(j)'
  BY <1>9, <1>10, <1>11, <1>13, WindowStays
<1>21. RecordSound(j)'
  BY <1>5, <1>7, <1>9, <1>10, <1>12, <1>13 DEF RecordSound, Recording, Judging, kind
<1>22. CandidateSound(j)'
  <2>1. \A i \in DOMAIN runs : i \in DOMAIN runs' /\ RunKept(runs[i], runs'[i])
    BY <1>4 DEF RunKept, Static
  <2> QED BY <1>9, <1>10, <1>11, <1>13, <2>1, CandidateKept
<1>23. HandsApart(j)'
  <2>1. new \in TrainingRuns' => runs'[new].event = 0
    BY <1>17 DEF TrainingRuns
  <2> QED BY <1>4, <1>15, <1>16, <2>1 DEF HandsApart
<1>24. JobInv(j)'
  BY <1>18, <1>19, <1>20, <1>21, <1>22, <1>23 DEF JobInv
<1>25. kind = "check" => job[j].event \in DOMAIN events
  BY <1>5, <1>13 DEF JobOrdered, Recording, kind, KindOf
<1>26. kind = "training" =>
            /\ job[j].record.exam = Exam(job[j].config, job[j].lines)
            /\ SoundRows(job[j].config, job[j].record.trained, job[j].record.window)
  BY <1>5, <1>13 DEF RecordSound, Recording, kind
<1> QED
  BY <1>2, <1>3, <1>10, <1>16, <1>24, <1>25, <1>26, AddKeeps DEF new

\* A run is created that the process does not, or need not, know of.
LEMMA BetweenRunsAdding ==
  ASSUME CInv, NEW j \in Jobs, NEW label \in Labels, NEW work \in Job,
         NEW kind \in Kinds, NEW completed \in BOOLEAN, CreateRun(j, kind, completed),
         pc[j] \notin {"log", "trial_log"}, label \notin {"log", "trial_log", "tag"},
         label = "saved" => work.record.run = 0,
         pc' = [pc EXCEPT ![j] = label], job' = [job EXCEPT ![j] = work],
         UNCHANGED registryVars,
         kind = "check" => job[j].event \in DOMAIN events,
         kind = "training" =>
            /\ job[j].record.exam = Exam(job[j].config, job[j].lines)
            /\ SoundRows(job[j].config, job[j].record.trained, job[j].record.window),
         \/ active' = active
         \/ kind = "study" /\ active' = [active EXCEPT ![j].study = Len(runs) + 1],
         label \in Studying /\ work.tracker # 0 => active'[j].study = work.tracker,
         JobOrdered(j)', WindowSound(j)', RecordSound(j)', CandidateSound(j)'
  PROVE  CInv'
<1>1. TypeOK /\ OpenRunOwned(j)
  BY Apart DEF JobInv
<1>2. /\ Len(runs) + 1 \in Nat \ {0} /\ DOMAIN runs' = DOMAIN runs \cup {Len(runs) + 1}
      /\ \A i \in DOMAIN runs : runs'[i] = runs[i]
      /\ runs'[Len(runs) + 1].kind = kind
  <2>1. Created(j, kind, completed).kind = kind
    BY DEF Created
  <2> QED BY <2>1, Added
<1>3. /\ OnlyJob(j) /\ pc'[j] = label /\ job'[j] = work
      /\ active'[j].inner = active[j].inner
      /\ \/ active'[j].study = active[j].study
         \/ kind = "study" /\ active'[j].study = Len(runs) + 1
  <2>1. active \in [Jobs -> [study : Nat, inner : Nat]] /\ pc \in [Jobs -> Labels]
        /\ job \in [Jobs -> Job]
    BY <1>1 DEF TypeOK
  <2>2. pc' \in [Jobs -> Labels] /\ job' \in [Jobs -> Job] /\ pc'[j] = label /\ job'[j] = work
    BY <2>1
  <2>3. /\ active' \in [Jobs -> [study : Nat, inner : Nat]]
        /\ active'[j].inner = active[j].inner
        /\ \/ active'[j].study = active[j].study
           \/ kind = "study" /\ active'[j].study = Len(runs) + 1
        /\ \A k \in Jobs \ {j} : active'[k] = active[k]
    <3>1. CASE active' = active
      BY <2>1, <3>1
    <3>2. CASE kind = "study" /\ active' = [active EXCEPT ![j].study = Len(runs) + 1]
      <4> DEFINE new == Len(runs) + 1
      <4>1. new \in Nat /\ active' = [active EXCEPT ![j].study = new]
        BY <1>2, <3>2
      <4> HIDE DEF new
      <4>2. /\ active' \in [Jobs -> [study : Nat, inner : Nat]]
            /\ active'[j].inner = active[j].inner /\ active'[j].study = new
            /\ \A k \in Jobs \ {j} : active'[k] = active[k]
        BY <2>1, <4>1
      <4> QED BY <3>2, <4>2 DEF new
    <3> QED BY <3>1, <3>2
  <2>4. \A k \in Jobs \ {j} : pc'[k] = pc[k] /\ job'[k] = job[k]
    BY <2>1
  <2> QED BY <2>2, <2>3, <2>4 DEF OnlyJob
<1>4. active'[j].inner = 0
  BY <1>1, <1>3 DEF OpenRunOwned
<1>5. InHand(j)' = 0
  BY <1>3 DEF InHand
<1>6. OpenRunOwned(j)'
  <2>1. active'[j].study # 0 =>
           active'[j].study \in DOMAIN runs' /\ runs'[active'[j].study].kind = "study"
    BY <1>1, <1>2, <1>3 DEF OpenRunOwned
  <2> QED BY <1>3, <1>4, <2>1 DEF OpenRunOwned
<1>7. JobInv(j)'
  BY <1>5, <1>6 DEF JobInv, HandsApart
<1> QED BY <1>3, <1>4, <1>5, <1>7, AddKeeps

LEMMA OpenRunFailsKeeps ==
  ASSUME CInv, NEW j \in Jobs, OpenRunFails(j), UNCHANGED registryVars
  PROVE  CInv'
<1> DEFINE record == [job[j].record EXCEPT !.run = 0]
           work == [job[j] EXCEPT !.record = record]
<1>1. TypeOK /\ JobInv(j)
  BY Apart
<1>2. job[j] \in Job /\ job[j].record \in Record
  BY <1>1 DEF TypeOK, Job
<1>3. /\ record \in Record /\ record.run = 0 /\ record.trained = job[j].record.trained
      /\ record.window = job[j].record.window /\ record.exam = job[j].record.exam
  BY <1>2 DEF Record
<1>4. /\ pc[j] = "open" /\ pc' = [pc EXCEPT ![j] = "saved"] /\ active' = active
      /\ job' = [job EXCEPT ![j] = work]
  BY DEF OpenRunFails, Goto, Unlogged
<1> HIDE DEF record
<1>5. /\ work \in Job /\ work.record = record
      /\ work.command = job[j].command /\ work.config = job[j].config
      /\ work.lines = job[j].lines /\ work.event = job[j].event
      /\ work.window = job[j].window /\ work.role = job[j].role
      /\ work.candidate = job[j].candidate /\ work.compared = job[j].compared
      /\ work.version = job[j].version /\ work.tracker = job[j].tracker
  BY <1>2, <1>3 DEF Job
<1> HIDE DEF work
<1>6. pc'[j] = "saved" /\ job'[j] = work
  BY <1>1, <1>4 DEF TypeOK
<1>7. /\ events' = events /\ versions' = versions
      /\ JobOrdered(j) /\ WindowSound(j) /\ RecordSound(j) /\ CandidateSound(j)
  BY <1>1 DEF registryVars, JobInv
<1>8. JobOrdered(j)'
  BY <1>4, <1>5, <1>6, <1>7 DEF JobOrdered, Recording
<1>9. WindowSound(j)'
  BY <1>5, <1>6, <1>7, WindowStays
<1>10. KindOf(j)' = KindOf(j)
  BY <1>5, <1>6 DEF KindOf
<1>11. RecordSound(j)'
  BY <1>3, <1>4, <1>5, <1>6, <1>7, <1>10 DEF RecordSound, Recording, Judging
<1>12. "saved" \in Labels /\ "saved" \notin Studying
  BY DEF Labels, Studying
<1>13. CASE UNCHANGED runs
  <2>1. CandidateSound(j)'
    BY <1>5, <1>6, <1>7, <1>13, CandidateStays
  <2> QED BY <1>3, <1>4, <1>5, <1>8, <1>9, <1>11, <1>12, <1>13, <2>1, BetweenRuns
<1>14. CASE CreateRun(j, KindOf(j), TRUE)
  <2> DEFINE kind == KindOf(j)
  <2>1. kind \in Kinds /\ kind \in {"check", "training"}
    BY DEF KindOf, Kinds
  <2>2. \A i \in DOMAIN runs : i \in DOMAIN runs' /\ RunKept(runs[i], runs'[i])
    BY <1>14, <2>1, Added DEF RunKept, Static
  <2>3. CandidateSound(j)'
    BY <1>5, <1>6, <1>7, <2>2, CandidateKept
  <2>4. kind = "check" => job[j].event \in DOMAIN events
    BY <1>4, <1>7 DEF JobOrdered, Recording, KindOf
  <2>5. kind = "training" =>
            /\ job[j].record.exam = Exam(job[j].config, job[j].lines)
            /\ SoundRows(job[j].config, job[j].record.trained, job[j].record.window)
    BY <1>4, <1>7 DEF RecordSound, Recording
  <2>6. CreateRun(j, kind, TRUE)
    BY <1>14
  <2> HIDE DEF kind
  <2> QED
    BY <1>3, <1>4, <1>5, <1>8, <1>9, <1>11, <1>12, <2>1, <2>3, <2>4, <2>5, <2>6,
       BetweenRunsAdding
<1> QED BY <1>13, <1>14 DEF OpenRunFails, CreateRunFails

\* A run of the study is created, and the study goes on without it, or begins.
LEMMA StudyAdds ==
  ASSUME CInv, NEW j \in Jobs, NEW work \in Job, NEW kind \in {"study", "trial"},
         NEW completed \in BOOLEAN, CreateRun(j, kind, completed),
         pc[j] \in {"enter", "trial_open"},
         Goto(j, "trial"), job' = [job EXCEPT ![j] = work], UNCHANGED registryVars,
         work.role = job[j].role, work.compared = job[j].compared,
         work.config = job[j].config, work.lines = job[j].lines,
         work.event = job[j].event, work.window = job[j].window,
         work.candidate = job[j].candidate, work.version = job[j].version,
         \/ active' = active
         \/ kind = "study" /\ active' = [active EXCEPT ![j].study = Len(runs) + 1],
         work.tracker # 0 => active'[j].study = work.tracker
  PROVE  CInv'
<1>1. TypeOK /\ JobInv(j)
  BY Apart
<1>2. pc' = [pc EXCEPT ![j] = "trial"] /\ pc'[j] = "trial" /\ job'[j] = work
  BY <1>1 DEF TypeOK, Goto
<1>3. /\ JobOrdered(j) /\ WindowSound(j) /\ RecordSound(j)
      /\ CandidateSound(j) /\ events' = events /\ versions' = versions
  BY <1>1 DEF JobInv, registryVars
<1>4. JobOrdered(j)'
  BY <1>2, <1>3 DEF JobOrdered, Recording
<1>5. WindowSound(j)'
  BY <1>2, <1>3, WindowStays
<1>6. RecordSound(j)'
  BY <1>2, <1>3 DEF RecordSound, Recording, Judging
<1>7. kind \in Kinds /\ "trial" \in Labels
  BY DEF Kinds, Labels
<1>8. CandidateSound(j)'
  <2>1. \A i \in DOMAIN runs : i \in DOMAIN runs' /\ RunKept(runs[i], runs'[i])
    BY <1>7, Added DEF RunKept, Static
  <2> QED BY <1>2, <1>3, <2>1, CandidateKept
<1>9. pc[j] \notin {"log", "trial_log"} /\ kind \notin {"check", "training"}
  OBVIOUS
<1> DEFINE label == "trial"
<1>10. label \in Labels /\ label \notin {"log", "trial_log", "tag", "saved"}
       /\ pc' = [pc EXCEPT ![j] = label]
  BY <1>2, <1>7
<1> HIDE DEF label
<1> QED BY <1>4, <1>5, <1>6, <1>7, <1>8, <1>9, <1>10, BetweenRunsAdding

LEMMA EnterStudyKeeps ==
  ASSUME CInv, NEW j \in Jobs, EnterStudy(j), UNCHANGED registryVars
  PROVE  CInv'
<1> DEFINE new == Len(runs) + 1
           work == [job[j] EXCEPT !.tracker = new]
<1>1. TypeOK /\ CreateRun(j, "study", TRUE)
  BY Apart DEF EnterStudy
<1>2. new \in Nat
  BY <1>1 DEF TypeOK
<1>3. /\ pc[j] = "enter" /\ Goto(j, "trial")
      /\ active' = [active EXCEPT ![j].study = new]
      /\ job' = [job EXCEPT ![j].tracker = new]
  BY DEF EnterStudy
<1> HIDE DEF new
<1>4. active'[j].study = new /\ job' = [job EXCEPT ![j] = work]
  BY <1>1, <1>3 DEF TypeOK
<1>5. /\ work \in Job /\ work.tracker = new
      /\ work.config = job[j].config
      /\ work.lines = job[j].lines /\ work.event = job[j].event
      /\ work.window = job[j].window /\ work.role = job[j].role
      /\ work.candidate = job[j].candidate /\ work.compared = job[j].compared
      /\ work.version = job[j].version
  BY <1>1, <1>2 DEF TypeOK, Job
<1> HIDE DEF work
<1> QED BY <1>1, <1>3, <1>4, <1>5, StudyAdds DEF new

LEMMA EnterStudyFailsKeeps ==
  ASSUME CInv, NEW j \in Jobs, EnterStudyFails(j), UNCHANGED registryVars
  PROVE  CInv'
<1>1. TypeOK /\ JobInv(j)
  BY Apart
<1>2. /\ job[j] \in Job /\ job' = [job EXCEPT ![j] = job[j]] /\ pc[j] = "enter"
      /\ Goto(j, "trial") /\ UNCHANGED <<active, job>> /\ job[j].tracker = 0
  BY <1>1 DEF TypeOK, EnterStudyFails, JobInv, JobOrdered
<1>3. CASE UNCHANGED runs
  BY <1>2, <1>3, StudyUntracked
<1>4. CASE CreateRun(j, "study", TRUE)
  BY <1>2, <1>4, StudyAdds
<1> QED BY <1>3, <1>4 DEF EnterStudyFails, CreateRunFails

LEMMA EnterStudyLeaksKeeps ==
  ASSUME CInv, NEW j \in Jobs, EnterStudyLeaks(j), UNCHANGED registryVars
  PROVE  CInv'
<1>1. TypeOK /\ JobInv(j)
  BY Apart
<1>2. /\ job[j] \in Job /\ job' = [job EXCEPT ![j] = job[j]] /\ pc[j] = "enter"
      /\ Goto(j, "trial") /\ active' = [active EXCEPT ![j].study = Len(runs) + 1]
      /\ CreateRun(j, "study", TRUE) /\ job[j].tracker = 0
  BY <1>1 DEF TypeOK, EnterStudyLeaks, JobInv, JobOrdered
<1> QED BY <1>2, StudyAdds

LEMMA OpenTrialFailsKeeps ==
  ASSUME CInv, NEW j \in Jobs, OpenTrialFails(j), UNCHANGED registryVars
  PROVE  CInv'
<1>1. TypeOK /\ JobInv(j)
  BY Apart
<1>2. /\ job[j] \in Job /\ job' = [job EXCEPT ![j] = job[j]] /\ pc[j] = "trial_open"
      /\ Goto(j, "trial") /\ UNCHANGED <<active, job>>
      /\ job[j].tracker # 0 => active[j].study = job[j].tracker
  BY <1>1 DEF TypeOK, OpenTrialFails, JobInv, OpenRunOwned, Studying
<1>3. CASE UNCHANGED runs
  BY <1>2, <1>3, StudyUntracked
<1>4. CASE CreateRun(j, "trial", LastCompleted(j))
  <2>1. LastCompleted(j) \in BOOLEAN
    BY DEF LastCompleted
  <2> QED BY <1>2, <1>4, <2>1, StudyAdds
<1> QED BY <1>3, <1>4 DEF OpenTrialFails, CreateRunFails

LEMMA OpenTrialKeeps ==
  ASSUME CInv, NEW j \in Jobs, OpenTrial(j), UNCHANGED registryVars
  PROVE  CInv'
<1> DEFINE new == Len(runs) + 1
           completed == LastCompleted(j)
<1>1. TypeOK /\ JobInv(j) /\ \A k \in Jobs : JobInv(k)
  BY Apart
<1>2. completed \in BOOLEAN /\ "trial" \in Kinds /\ CreateRun(j, "trial", completed)
  BY DEF LastCompleted, Kinds, OpenTrial
<1> HIDE DEF completed
<1>3. /\ new \in Nat \ {0} /\ new \notin DOMAIN runs
      /\ DOMAIN runs' = DOMAIN runs \cup {new}
      /\ \A i \in DOMAIN runs : runs'[i] = runs[i]
      /\ runs'[new] = Created(j, "trial", completed)
  BY <1>2, Added
<1>4. /\ pc[j] = "trial_open" /\ pc' = [pc EXCEPT ![j] = "trial_log"] /\ job' = job
      /\ active' = [active EXCEPT ![j].inner = new]
  BY DEF OpenTrial, Goto
<1> HIDE DEF new
<1>5. /\ OnlyJob(j) /\ pc'[j] = "trial_log" /\ active'[j].inner = new
      /\ active'[j].study = active[j].study
  <2>1. /\ active \in [Jobs -> [study : Nat, inner : Nat]] /\ pc \in [Jobs -> Labels]
        /\ job \in [Jobs -> Job]
    BY <1>1 DEF TypeOK
  <2>2. pc' \in [Jobs -> Labels] /\ job' \in [Jobs -> Job]
    BY <1>4, <2>1 DEF Labels
  <2>3. active' \in [Jobs -> [study : Nat, inner : Nat]] /\ active'[j].inner = new
        /\ active'[j].study = active[j].study
    BY <1>3, <1>4, <2>1
  <2>4. \A k \in Jobs \ {j} : pc'[k] = pc[k] /\ job'[k] = job[k] /\ active'[k] = active[k]
    BY <1>4, <2>1
  <2> QED BY <1>4, <2>1, <2>2, <2>3, <2>4 DEF OnlyJob
<1>6. /\ events' = events /\ versions' = versions
      /\ OpenRunOwned(j) /\ JobOrdered(j) /\ WindowSound(j) /\ RecordSound(j)
      /\ CandidateSound(j)
  BY <1>1 DEF registryVars, JobInv
<1>7. \A k \in Jobs \ {j} : active'[k].inner # new
  BY <1>1, <1>3, <1>5 DEF JobInv, OpenRunOwned, OnlyJob
<1>8. /\ runs'[new].status = "RUNNING" /\ runs'[new].kind = "trial"
      /\ runs'[new].completed = completed
  BY <1>3 DEF Created
<1>9. LastCompleted(j)' = completed /\ InHand(j)' = 0
  BY <1>4, <1>5 DEF LastCompleted, Completed, completed, InHand
<1>10. OpenRunOwned(j)'
  <2>1. active'[j].study # 0 =>
           active'[j].study \in DOMAIN runs' /\ runs'[active'[j].study].kind = "study"
    BY <1>3, <1>5, <1>6 DEF OpenRunOwned
  <2>2. job'[j].tracker # 0 => active'[j].study = job'[j].tracker
    BY <1>4, <1>5, <1>6 DEF OpenRunOwned, Studying
  <2> QED BY <1>3, <1>5, <1>7, <1>8, <1>9, <2>1, <2>2 DEF OpenRunOwned
<1>11. JobOrdered(j)'
  BY <1>4, <1>5, <1>6 DEF JobOrdered, Recording
<1>12. WindowSound(j)'
  BY <1>4, <1>6, WindowStays
<1>13. RecordSound(j)'
  BY <1>4, <1>5, <1>6 DEF RecordSound, Recording, Judging
<1>14. CandidateSound(j)'
  <2>1. \A i \in DOMAIN runs : i \in DOMAIN runs' /\ RunKept(runs[i], runs'[i])
    BY <1>3 DEF RunKept, Static
  <2> QED BY <1>4, <1>5, <1>6, <2>1, CandidateKept
<1>15. JobInv(j)'
  BY <1>9, <1>10, <1>11, <1>12, <1>13, <1>14 DEF JobInv, HandsApart
<1> DEFINE kind == "trial"
<1>16. kind \in Kinds /\ kind \notin {"check", "training"} /\ CreateRun(j, kind, completed)
  BY <1>2
<1> HIDE DEF kind
<1> QED BY <1>2, <1>5, <1>9, <1>15, <1>16, AddKeeps DEF new

(* Steps that change a run of one's own. *)

LEMMA ModifyKeeps ==
  ASSUME CInv, NEW j \in Jobs, NEW r \in DOMAIN runs, NEW run \in Run,
         runs' = [runs EXCEPT ![r] = run], OnlyJob(j), UNCHANGED registryVars,
         RunKept(runs[r], run),
         \A k \in Jobs \ {j} : active[k].inner # r,
         run.event = runs[r].event \/ \A k \in Jobs \ {j} : InHand(k) # r,
         active'[j].inner \in {0, active[j].inner}, InHand(j)' \in {0, InHand(j)},
         RunInv(r)', JobInv(j)'
  PROVE  CInv'
<1>1. /\ TypeOK /\ StoreInv /\ \A i \in DOMAIN runs : RunInv(i)
      /\ \A k \in Jobs : JobInv(k)
  BY Apart
<1>2. /\ runs' \in Seq(Run) /\ DOMAIN runs' = DOMAIN runs /\ runs'[r] = run
      /\ \A i \in DOMAIN runs : i # r => runs'[i] = runs[i]
  <2>1. runs \in Seq(Run)
    BY <1>1 DEF TypeOK
  <2> QED BY <2>1
<1>3. events' = events /\ versions' = versions /\ production' = production
  BY DEF registryVars
<1>4. TypeOK'
  BY <1>1, <1>2, <1>3 DEF TypeOK, OnlyJob
<1>5. \A k \in Jobs : /\ active[k].inner # 0 => active[k].inner \in DOMAIN runs
                      /\ InHand(k) # 0 => InHand(k) \in DOMAIN runs
  BY <1>1 DEF JobInv, OpenRunOwned, HandsApart
<1>6. \A i \in DOMAIN runs : RunKept(runs[i], runs'[i])
  BY <1>2 DEF RunKept, Static
<1>7. Grow(j)
  <2>1. Len(versions) \in Nat
    BY <1>1 DEF TypeOK
  <2>2. /\ \A k \in Jobs \ {j} : active[k].inner # 0 =>
               runs'[active[k].inner].status = runs[active[k].inner].status
        /\ \A k \in Jobs \ {j} : InHand(k) # 0 => runs'[InHand(k)].event = runs[InHand(k)].event
    BY <1>2, <1>5
  <2>3. \A k \in Jobs \ {j} : pc'[k] = pc[k] /\ job'[k] = job[k] /\ active'[k] = active[k]
    BY DEF OnlyJob
  <2>4. /\ DOMAIN events \subseteq DOMAIN events' /\ \A e \in DOMAIN events : events'[e] = events[e]
        /\ Len(versions) <= Len(versions') /\ Len(versions) \in Nat /\ Len(versions') \in Nat
    BY <1>3, <2>1
  <2> QED BY <1>2, <1>6, <2>2, <2>3, <2>4 DEF Grow
<1>8. StoreInv'
  <2>1. \A v \in DOMAIN versions : versions[v] \in TrainingRuns' /\ Complete(versions[v])'
    <3>1. \A v \in DOMAIN versions : versions[v] \in TrainingRuns /\ Complete(versions[v])
      BY <1>1 DEF StoreInv
    <3> QED BY <1>2, <1>3, <1>6, <3>1 DEF TrainingRuns, Complete, RunKept, Static
  <2> QED BY <1>1, <1>3, <2>1 DEF StoreInv
<1>9. \A i \in DOMAIN runs' : RunInv(i)'
  <2>1. ASSUME NEW i \in DOMAIN runs, i # r
        PROVE  RunInv(i)'
    BY <1>1, <1>2, <1>3, <2>1 DEF RunInv, LineageOf
  <2> QED BY <1>2, <2>1
<1>10. \A k \in Jobs : JobInv(k)'
  BY <1>7, OthersKeep
<1> QED BY <1>4, <1>8, <1>9, <1>10, ApartNext

\* How a run ends says nothing about what it was trained on.
LEMMA EndsSound ==
  ASSUME NEW r, RunInv(r), UNCHANGED events, Static(runs[r], runs'[r]),
         runs'[r].event = runs[r].event,
         runs[r].kind = "training" =>
            /\ runs'[r].status = "FINISHED" => runs'[r].logged = LogCalls
            /\ runs'[r].event # 0 => runs'[r].logged = LogCalls,
         runs[r].kind = "trial" =>
            /\ runs'[r].status = "FINISHED" => runs'[r].completed
            /\ runs'[r].status = "FAILED" => ~runs'[r].completed
  PROVE  RunInv(r)'
<1>1. LineageOf(r)'
  BY DEF LineageOf, RunInv, Static
<1> QED BY <1>1 DEF RunInv, Static

\* A process that logs has its run to itself.
LEMMA LogsOwnRun ==
  ASSUME CInv, NEW j \in Jobs, pc[j] = "log"
  PROVE  /\ active[j].inner = job[j].record.run /\ active[j].inner # 0
         /\ active[j].inner \in DOMAIN runs /\ runs[active[j].inner] \in Run
         /\ runs[active[j].inner].kind = KindOf(j)
         /\ runs[active[j].inner].config = job[j].config
         /\ runs[active[j].inner].lines = job[j].lines
         /\ runs[active[j].inner].window = job[j].record.window
         /\ runs[active[j].inner].status = "RUNNING"
         /\ runs[active[j].inner].kind = "training" => runs[active[j].inner].event = 0
         /\ InHand(j) = active[j].inner
         /\ \A k \in Jobs \ {j} : active[k].inner # active[j].inner
         /\ \A k \in Jobs \ {j} : InHand(k) # active[j].inner
<1>1. TypeOK /\ OpenRunOwned(j) /\ HandsApart(j)
  BY Apart DEF JobInv
<1>2. /\ active[j].inner = job[j].record.run /\ active[j].inner # 0
      /\ Describes(active[j].inner, job[j].record, j)
      /\ InHand(j) = active[j].inner
  BY <1>1 DEF OpenRunOwned, InHand
<1>3. runs \in Seq(Run)
  BY <1>1 DEF TypeOK
<1>4. runs[active[j].inner].kind = "training" => runs[active[j].inner].event = 0
  BY <1>1, <1>2 DEF HandsApart, TrainingRuns, Describes
<1>5. \A k \in Jobs \ {j} : InHand(k) # active[j].inner
  BY <1>1, <1>2 DEF HandsApart
<1> QED BY <1>1, <1>2, <1>3, <1>4, <1>5 DEF OpenRunOwned, Describes

LEMMA EndLogKeeps ==
  ASSUME CInv, NEW j \in Jobs, pc[j] = "log", NEW run \in Run, NEW work \in Job,
         runs' = [runs EXCEPT ![active[j].inner] = run],
         Static(runs[active[j].inner], run),
         run.event = runs[active[j].inner].event,
         run.status = "FINISHED" => run.logged = LogCalls,
         active' = [active EXCEPT ![j].inner = 0], Goto(j, "saved"),
         job' = [job EXCEPT ![j] = work],
         work.record.trained = job[j].record.trained,
         work.record.window = job[j].record.window, work.record.exam = job[j].record.exam,
         \/ work.record.run = 0
         \/ work.record.run = active[j].inner /\ run.status = "FINISHED",
         work.command = job[j].command, work.config = job[j].config,
         work.lines = job[j].lines, work.event = job[j].event,
         work.window = job[j].window, work.role = job[j].role,
         work.candidate = job[j].candidate, work.compared = job[j].compared,
         work.version = job[j].version, UNCHANGED registryVars
  PROVE  CInv'
<1>0. PICK r : r = active[j].inner
  OBVIOUS
<1>1. TypeOK /\ JobInv(j) /\ \A i \in DOMAIN runs : RunInv(i)
  BY Apart
<1>2. /\ r # 0 /\ r \in DOMAIN runs /\ runs[r] \in Run /\ runs[r].kind = KindOf(j)
      /\ runs[r].config = job[j].config /\ runs[r].lines = job[j].lines
      /\ runs[r].window = job[j].record.window /\ runs[r].status = "RUNNING"
      /\ runs[r].kind = "training" => runs[r].event = 0
      /\ InHand(j) = r
      /\ \A k \in Jobs \ {j} : active[k].inner # r
      /\ \A k \in Jobs \ {j} : InHand(k) # r
  BY <1>0, LogsOwnRun
<1>3. runs' = [runs EXCEPT ![r] = run] /\ active' = [active EXCEPT ![j].inner = 0]
  BY <1>0
<1>4. runs'[r] = run /\ DOMAIN runs' = DOMAIN runs /\ \A i \in DOMAIN runs : i # r => runs'[i] = runs[i]
  BY <1>1, <1>2, <1>3 DEF TypeOK
<1>5. /\ OnlyJob(j) /\ pc'[j] = "saved" /\ job'[j] = work
      /\ active'[j].inner = 0 /\ active'[j].study = active[j].study
  <2>1. /\ active \in [Jobs -> [study : Nat, inner : Nat]] /\ pc \in [Jobs -> Labels]
        /\ job \in [Jobs -> Job]
    BY <1>1 DEF TypeOK
  <2>2. /\ pc' \in [Jobs -> Labels] /\ job' \in [Jobs -> Job] /\ pc'[j] = "saved"
        /\ job'[j] = work /\ \A k \in Jobs \ {j} : pc'[k] = pc[k] /\ job'[k] = job[k]
    BY <2>1 DEF Labels, Goto
  <2>3. /\ active' \in [Jobs -> [study : Nat, inner : Nat]] /\ active'[j].inner = 0
        /\ active'[j].study = active[j].study
        /\ \A k \in Jobs \ {j} : active'[k] = active[k]
    BY <1>3, <2>1
  <2> QED BY <2>2, <2>3 DEF OnlyJob
<1>6. /\ events' = events /\ versions' = versions
      /\ OpenRunOwned(j) /\ JobOrdered(j) /\ WindowSound(j) /\ RecordSound(j)
      /\ CandidateSound(j)
  BY <1>1 DEF registryVars, JobInv
<1>7. RunKept(runs[r], run) /\ Static(runs[r], run) /\ run.event = runs[r].event
  BY <1>0, <1>2 DEF RunKept
<1>8. \A i \in DOMAIN runs : i \in DOMAIN runs' /\ RunKept(runs[i], runs'[i])
  BY <1>4, <1>7 DEF RunKept, Static
<1>9. KindOf(j)' = KindOf(j) /\ KindOf(j) \in {"check", "training"}
  BY <1>5 DEF KindOf
<1>10. RunInv(r)'
  <2>1. runs[r].kind # "trial"
    BY <1>2, <1>9
  <2> QED BY <1>1, <1>2, <1>4, <1>6, <1>7, <2>1, EndsSound
<1>11. OpenRunOwned(j)'
  <2>1. active'[j].study # 0 =>
           active'[j].study \in DOMAIN runs' /\ runs'[active'[j].study].kind = "study"
    BY <1>5, <1>6, <1>8 DEF OpenRunOwned, RunKept, Static
  <2> QED BY <1>5, <2>1 DEF OpenRunOwned, Studying
<1>12. JobOrdered(j)'
  BY <1>5, <1>6 DEF JobOrdered, Recording
<1>13. WindowSound(j)'
  BY <1>5, <1>6, WindowStays
<1>14. RecordSound(j)'
  <2>1. CASE work.record.run = 0
    BY <1>5, <1>6, <1>9, <2>1 DEF RecordSound, Recording, Judging
  <2>2. CASE work.record.run = r /\ run.status = "FINISHED"
    <3>1. Describes(job[j].record.run, job[j].record, j)' /\ Complete(job[j].record.run)'
      BY <1>2, <1>4, <1>5, <1>7, <1>9, <2>2 DEF Describes, Complete, Static
    <3> QED BY <1>5, <1>6, <1>9, <3>1 DEF RecordSound, Recording, Judging
  <2> QED BY <1>0, <2>1, <2>2
<1>15. CandidateSound(j)'
  BY <1>5, <1>6, <1>8, CandidateKept
<1>16. InHand(j)' \in {0, r} /\ InHand(j)' \in {0, InHand(j)}
  BY <1>0, <1>2, <1>5 DEF InHand
<1>17. HandsApart(j)'
  <2>1. \A k \in Jobs \ {j} : InHand(k)' = InHand(k)
    BY <1>5 DEF OnlyJob, InHand
  <2>2. r \in TrainingRuns' => runs'[r].event = 0
    BY <1>2, <1>4, <1>7 DEF TrainingRuns, Static
  <2> QED BY <1>2, <1>4, <1>16, <2>1, <2>2 DEF HandsApart
<1>18. JobInv(j)'
  BY <1>11, <1>12, <1>13, <1>14, <1>15, <1>17 DEF JobInv
<1> QED BY <1>2, <1>3, <1>5, <1>7, <1>10, <1>16, <1>18, ModifyKeeps

LEMMA LogCallKeeps ==
  ASSUME CInv, NEW j \in Jobs, LogCall(j), UNCHANGED registryVars
  PROVE  CInv'
<1>0. PICK r : r = active[j].inner
  OBVIOUS
<1> DEFINE logged == runs[r].logged + 1
           run == [runs[r] EXCEPT !.logged = logged]
<1>1. TypeOK /\ JobInv(j) /\ pc[j] = "log" /\ \A i \in DOMAIN runs : RunInv(i)
  BY Apart DEF LogCall
<1>2. /\ r # 0 /\ r \in DOMAIN runs /\ runs[r] \in Run /\ runs[r].kind = KindOf(j)
      /\ r = job[j].record.run
      /\ runs[r].status = "RUNNING"
      /\ runs[r].kind = "training" => runs[r].event = 0
      /\ InHand(j) = r
      /\ \A k \in Jobs \ {j} : active[k].inner # r
      /\ \A k \in Jobs \ {j} : InHand(k) # r
  BY <1>0, <1>1, LogsOwnRun
<1>3. runs[r].logged < LogCalls /\ runs' = [runs EXCEPT ![r].logged = @ + 1]
      /\ active' = active /\ pc' = pc /\ job' = job
  BY <1>0 DEF LogCall
<1>4. runs' = [runs EXCEPT ![r] = run]
  BY <1>3
<1>5. logged \in 0..LogCalls
  <2>1. runs[r].logged \in 0..LogCalls
    BY <1>2 DEF Run
  <2> QED BY <1>3, <2>1, TrainingAssumption
<1> HIDE DEF logged
<1>6. run \in Run /\ Static(runs[r], run) /\ run.event = runs[r].event /\ run.status = "RUNNING"
  BY <1>2, <1>5 DEF Run, Static
<1> HIDE DEF run
<1>7. runs'[r] = run /\ DOMAIN runs' = DOMAIN runs /\ \A i \in DOMAIN runs : i # r => runs'[i] = runs[i]
  BY <1>1, <1>2, <1>4 DEF TypeOK
<1>8. RunKept(runs[r], run)
  BY <1>2, <1>6 DEF RunKept
<1>9. OnlyJob(j)
  BY <1>1, <1>3 DEF OnlyJob, TypeOK
<1>10. /\ events' = events /\ versions' = versions
       /\ OpenRunOwned(j) /\ JobOrdered(j) /\ WindowSound(j) /\ RecordSound(j)
       /\ CandidateSound(j)
  BY <1>1 DEF registryVars, JobInv
<1>11. \A i \in DOMAIN runs : i \in DOMAIN runs' /\ RunKept(runs[i], runs'[i])
  BY <1>7, <1>8 DEF RunKept, Static
<1>12. RunInv(r)'
  <2>1. runs[r].kind # "trial"
    BY <1>2 DEF KindOf
  <2> QED BY <1>1, <1>2, <1>6, <1>7, <1>10, <2>1, EndsSound
<1>13. KindOf(j)' = KindOf(j) /\ InHand(j)' = r
  BY <1>2, <1>3 DEF KindOf, InHand
<1>14. OpenRunOwned(j)'
  <2>1. active'[j].study # 0 =>
           active'[j].study \in DOMAIN runs' /\ runs'[active'[j].study].kind = "study"
    BY <1>3, <1>10, <1>11 DEF OpenRunOwned, RunKept, Static
  <2>2. Describes(job[j].record.run, job[j].record, j)
    BY <1>1, <1>10 DEF OpenRunOwned
  <2>3. Describes(job[j].record.run, job[j].record, j)'
    BY <1>3, <1>11, <1>13, <2>2 DEF Describes, RunKept, Static
  <2>4. runs'[r].status = "RUNNING" /\ r \in DOMAIN runs' /\ pc'[j] = "log" /\ active'[j].inner = r
        /\ active' = active /\ r = job'[j].record.run
    BY <1>0, <1>1, <1>2, <1>3, <1>6, <1>7
  <2> QED BY <1>2, <2>1, <2>3, <2>4 DEF OpenRunOwned, Studying
<1>15. JobOrdered(j)'
  BY <1>1, <1>3, <1>10 DEF JobOrdered, Recording
<1>16. WindowSound(j)'
  BY <1>3, <1>10, WindowStays
<1>17. RecordSound(j)'
  BY <1>1, <1>3, <1>10, <1>13 DEF RecordSound, Recording, Judging
<1>18. CandidateSound(j)'
  BY <1>1, <1>3, <1>10, <1>11, CandidateKept
<1>19. HandsApart(j)'
  <2>1. \A k \in Jobs \ {j} : InHand(k)' = InHand(k)
    BY <1>3 DEF InHand
  <2>2. r \in TrainingRuns' => runs'[r].event = 0
    BY <1>2, <1>6, <1>7 DEF TrainingRuns, Static
  <2> QED BY <1>2, <1>7, <1>13, <2>1, <2>2 DEF HandsApart
<1>20. JobInv(j)'
  BY <1>14, <1>15, <1>16, <1>17, <1>18, <1>19 DEF JobInv
<1>21. active'[j].inner \in {0, active[j].inner} /\ InHand(j)' \in {0, InHand(j)}
  BY <1>0, <1>2, <1>3, <1>13
<1> QED BY <1>2, <1>4, <1>6, <1>8, <1>9, <1>12, <1>20, <1>21, ModifyKeeps

\* The record without its run.
LEMMA UnloggedWork ==
  ASSUME CInv, NEW j \in Jobs, job' = Unlogged(j)
  PROVE  \E work \in Job :
            /\ job' = [job EXCEPT ![j] = work] /\ work.record.run = 0
            /\ work.record.trained = job[j].record.trained
            /\ work.record.window = job[j].record.window
            /\ work.record.exam = job[j].record.exam
            /\ work.command = job[j].command /\ work.config = job[j].config
            /\ work.lines = job[j].lines /\ work.event = job[j].event
            /\ work.window = job[j].window /\ work.role = job[j].role
            /\ work.candidate = job[j].candidate /\ work.compared = job[j].compared
            /\ work.version = job[j].version
<1> DEFINE record == [job[j].record EXCEPT !.run = 0]
           work == [job[j] EXCEPT !.record = record]
<1>1. job[j] \in Job /\ job[j].record \in Record
  BY Apart DEF TypeOK, Job
<1>2. /\ record \in Record /\ record.run = 0 /\ record.trained = job[j].record.trained
      /\ record.window = job[j].record.window /\ record.exam = job[j].record.exam
  BY <1>1 DEF Record
<1>3. job' = [job EXCEPT ![j] = work]
  BY DEF Unlogged
<1> HIDE DEF record
<1>4. /\ work \in Job /\ work.record = record
      /\ work.command = job[j].command /\ work.config = job[j].config
      /\ work.lines = job[j].lines /\ work.event = job[j].event
      /\ work.window = job[j].window /\ work.role = job[j].role
      /\ work.candidate = job[j].candidate /\ work.compared = job[j].compared
      /\ work.version = job[j].version
  BY <1>1, <1>2 DEF Job
<1> HIDE DEF work
<1> QED BY <1>2, <1>3, <1>4

LEMMA LogCallFailsKeeps ==
  ASSUME CInv, NEW j \in Jobs, LogCallFails(j), UNCHANGED registryVars
  PROVE  CInv'
<1>0. PICK r : r = active[j].inner
  OBVIOUS
<1>1. PICK status \in {"FAILED", "RUNNING"}, logged \in {runs[r].logged, runs[r].logged + 1} :
         runs' = [runs EXCEPT ![r] = [runs[r] EXCEPT !.status = status, !.logged = logged]]
  BY <1>0 DEF LogCallFails
<1> DEFINE run == [runs[r] EXCEPT !.status = status, !.logged = logged]
<1>2. pc[j] = "log" /\ runs[r].logged < LogCalls /\ runs[r] \in Run
  BY <1>0, LogsOwnRun DEF LogCallFails
<1>3. runs' = [runs EXCEPT ![active[j].inner] = run]
  BY <1>0, <1>1
<1>4. logged \in 0..LogCalls
  <2>1. runs[r].logged \in 0..LogCalls
    BY <1>2 DEF Run
  <2> QED BY <1>1, <1>2, <2>1, TrainingAssumption
<1>5. /\ run \in Run /\ Static(runs[r], run) /\ run.event = runs[r].event
      /\ run.status # "FINISHED"
  BY <1>2, <1>4 DEF Run, Static, Statuses
<1> HIDE DEF run
<1>6. /\ active' = [active EXCEPT ![j].inner = 0] /\ Goto(j, "saved") /\ job' = Unlogged(j)
  BY DEF LogCallFails
<1> QED BY <1>0, <1>2, <1>3, <1>5, <1>6, UnloggedWork, EndLogKeeps

LEMMA CloseRunKeeps ==
  ASSUME CInv, NEW j \in Jobs, CloseRun(j), UNCHANGED registryVars
  PROVE  CInv'
<1>0. PICK r : r = active[j].inner
  OBVIOUS
<1> DEFINE run == [runs[r] EXCEPT !.status = "FINISHED"]
<1>1. /\ pc[j] = "log" /\ runs[r].logged = LogCalls /\ runs[r] \in Run
      /\ r = job[j].record.run
  BY <1>0, LogsOwnRun DEF CloseRun
<1>2. runs' = [runs EXCEPT ![active[j].inner] = run]
  BY <1>0 DEF CloseRun
<1>3. /\ run \in Run /\ Static(runs[r], run) /\ run.event = runs[r].event
      /\ run.status = "FINISHED" /\ run.logged = LogCalls
  BY <1>1 DEF Run, Static, Statuses
<1> HIDE DEF run
<1>4. job[j] \in Job /\ job' = [job EXCEPT ![j] = job[j]]
  BY Apart DEF TypeOK, CloseRun
<1>5. /\ active' = [active EXCEPT ![j].inner = 0] /\ Goto(j, "saved")
  BY DEF CloseRun
<1> QED BY <1>0, <1>1, <1>2, <1>3, <1>4, <1>5, EndLogKeeps

LEMMA CloseRunFailsKeeps ==
  ASSUME CInv, NEW j \in Jobs, CloseRunFails(j), UNCHANGED registryVars
  PROVE  CInv'
<1>0. PICK r : r = active[j].inner
  OBVIOUS
<1>1. PICK status \in {"FINISHED", "RUNNING"} :
         runs' = [runs EXCEPT ![active[j].inner].status = status]
  BY DEF CloseRunFails
<1> DEFINE run == [runs[r] EXCEPT !.status = status]
<1>2. pc[j] = "log" /\ runs[r].logged = LogCalls /\ runs[r] \in Run
  BY <1>0, LogsOwnRun DEF CloseRunFails
<1>3. runs' = [runs EXCEPT ![active[j].inner] = run]
  BY <1>0, <1>1
<1>4. /\ run \in Run /\ Static(runs[r], run) /\ run.event = runs[r].event
      /\ run.logged = LogCalls
  BY <1>2 DEF Run, Static, Statuses
<1> HIDE DEF run
<1>5. /\ active' = [active EXCEPT ![j].inner = 0] /\ Goto(j, "saved") /\ job' = Unlogged(j)
  BY DEF CloseRunFails
<1> QED BY <1>0, <1>2, <1>3, <1>4, <1>5, UnloggedWork, EndLogKeeps

LEMMA CloseTrialKeeps ==
  ASSUME CInv, NEW j \in Jobs, CloseTrial(j), UNCHANGED registryVars
  PROVE  CInv'
<1>0. PICK r : r = active[j].inner
  OBVIOUS
<1>1. PICK logged \in {0, LogCalls}, status \in {EndedAsTrial(j), "RUNNING"} :
         runs' = [runs EXCEPT ![r] = [@ EXCEPT !.status = status, !.logged = logged]]
  BY <1>0 DEF CloseTrial
<1> DEFINE run == [runs[r] EXCEPT !.status = status, !.logged = logged]
<1>2. /\ TypeOK /\ JobInv(j) /\ \A i \in DOMAIN runs : RunInv(i)
      /\ OpenRunOwned(j) /\ JobOrdered(j) /\ WindowSound(j) /\ RecordSound(j)
      /\ CandidateSound(j)
  BY Apart DEF JobInv
<1>3. /\ pc[j] = "trial_log" /\ r # 0 /\ r \in DOMAIN runs /\ runs[r].kind = "trial"
      /\ runs[r].status = "RUNNING" /\ runs[r].completed = LastCompleted(j)
      /\ \A k \in Jobs \ {j} : active[k].inner # r
  BY <1>0, <1>2 DEF OpenRunOwned, CloseTrial
<1>4. runs[r] \in Run /\ logged \in 0..LogCalls
  BY <1>2, <1>3, TrainingAssumption DEF TypeOK
<1>5. /\ run \in Run /\ Static(runs[r], run) /\ run.event = runs[r].event
      /\ run.status = status
  BY <1>4 DEF Run, Static, Statuses, EndedAsTrial
<1>6. runs' = [runs EXCEPT ![r] = run]
  BY <1>1
<1> HIDE DEF run
<1>7. runs'[r] = run /\ DOMAIN runs' = DOMAIN runs /\ \A i \in DOMAIN runs : i # r => runs'[i] = runs[i]
  BY <1>2, <1>3, <1>6 DEF TypeOK
<1>8. RunKept(runs[r], run)
  BY <1>3, <1>5 DEF RunKept
<1>9. \A i \in DOMAIN runs : i \in DOMAIN runs' /\ RunKept(runs[i], runs'[i])
  BY <1>7, <1>8 DEF RunKept, Static
<1>10. /\ active' = [active EXCEPT ![j].inner = 0] /\ pc' = [pc EXCEPT ![j] = "trial"]
       /\ job' = job
  BY DEF CloseTrial, Goto
<1>11. /\ OnlyJob(j) /\ pc'[j] = "trial" /\ active'[j].inner = 0
       /\ active'[j].study = active[j].study
  BY <1>2, <1>10 DEF TypeOK, OnlyJob, Labels
<1>12. events' = events /\ versions' = versions
  BY DEF registryVars
<1>13. RunInv(r)'
  <2>1. /\ run.status = "FINISHED" => run.completed
        /\ run.status = "FAILED" => ~run.completed
    BY <1>3, <1>5 DEF EndedAsTrial, Static
  <2> QED BY <1>2, <1>3, <1>5, <1>7, <1>12, <2>1, EndsSound
<1>14. OpenRunOwned(j)'
  <2>1. active'[j].study # 0 =>
           active'[j].study \in DOMAIN runs' /\ runs'[active'[j].study].kind = "study"
    BY <1>2, <1>9, <1>11 DEF OpenRunOwned, RunKept, Static
  <2>2. job'[j].tracker # 0 => active'[j].study = job'[j].tracker
    BY <1>2, <1>3, <1>10, <1>11 DEF OpenRunOwned, Studying
  <2> QED BY <1>11, <2>1, <2>2 DEF OpenRunOwned
<1>15. JobOrdered(j)'
  BY <1>2, <1>3, <1>10, <1>11, <1>12 DEF JobOrdered, Recording
<1>16. WindowSound(j)'
  BY <1>2, <1>10, <1>12, WindowStays
<1>17. RecordSound(j)'
  BY <1>2, <1>3, <1>10, <1>11 DEF RecordSound, Recording, Judging
<1>18. CandidateSound(j)'
  BY <1>2, <1>9, <1>10, <1>11, <1>12, CandidateKept
<1>19. InHand(j)' = 0
  BY <1>11 DEF InHand
<1>20. JobInv(j)'
  BY <1>14, <1>15, <1>16, <1>17, <1>18, <1>19 DEF JobInv, HandsApart
<1> QED BY <1>3, <1>5, <1>6, <1>8, <1>11, <1>13, <1>19, <1>20, ModifyKeeps

\* A study's run is nobody's open run, and says nothing of what was trained.
LEMMA StudyRunEnds ==
  ASSUME CInv, NEW j \in Jobs, NEW status \in Statuses, active[j].study # 0,
         runs' = [runs EXCEPT ![active[j].study].status = status],
         OnlyJob(j), UNCHANGED registryVars,
         active'[j].inner \in {0, active[j].inner}, InHand(j)' \in {0, InHand(j)},
         (\A i \in DOMAIN runs : i \in DOMAIN runs' /\ RunKept(runs[i], runs'[i]))
            => JobInv(j)'
  PROVE  CInv'
<1>0. PICK r : r = active[j].study
  OBVIOUS
<1> DEFINE run == [runs[r] EXCEPT !.status = status]
<1>1. /\ TypeOK /\ \A i \in DOMAIN runs : RunInv(i)
      /\ \A k \in Jobs : OpenRunOwned(k)
  BY Apart DEF JobInv
<1>2. r \in DOMAIN runs /\ runs[r].kind = "study" /\ runs[r] \in Run
  BY <1>0, <1>1 DEF OpenRunOwned, TypeOK
<1>3. /\ run \in Run /\ Static(runs[r], run) /\ run.event = runs[r].event
  BY <1>2 DEF Run, Static
<1>4. runs' = [runs EXCEPT ![r] = run]
  BY <1>0
<1> HIDE DEF run
<1>5. runs'[r] = run /\ DOMAIN runs' = DOMAIN runs /\ \A i \in DOMAIN runs : i # r => runs'[i] = runs[i]
  BY <1>1, <1>2, <1>4 DEF TypeOK
<1>6. RunKept(runs[r], run)
  BY <1>2, <1>3 DEF RunKept
<1>7. \A i \in DOMAIN runs : i \in DOMAIN runs' /\ RunKept(runs[i], runs'[i])
  BY <1>5, <1>6 DEF RunKept, Static
<1>8. \A k \in Jobs : active[k].inner # r
  <2>1. ASSUME NEW k \in Jobs, active[k].inner = r, r # 0
        PROVE  FALSE
    <3>1. OpenRunOwned(k)
      BY <1>1
    <3>2. CASE pc[k] = "log"
      BY <1>2, <2>1, <3>1, <3>2 DEF OpenRunOwned, Describes, KindOf
    <3>3. CASE pc[k] = "trial_log"
      BY <1>2, <2>1, <3>1, <3>3 DEF OpenRunOwned
    <3> QED BY <2>1, <3>1, <3>2, <3>3 DEF OpenRunOwned
  <2> QED BY <1>0, <2>1
<1>9. RunInv(r)'
  <2>1. events' = events
    BY DEF registryVars
  <2> QED BY <1>1, <1>2, <1>3, <1>5, <2>1, EndsSound
<1> QED BY <1>2, <1>3, <1>4, <1>6, <1>7, <1>8, <1>9, ModifyKeeps

LEMMA CloseStudyKeeps ==
  ASSUME CInv, NEW j \in Jobs, CloseStudy(j), UNCHANGED registryVars
  PROVE  CInv'
<1>1. CASE job[j].tracker = 0
  BY <1>1, LeaveStudyUntracked
<1>2. CASE job[j].tracker # 0
  <2>1. PICK status \in {IF job[j].raised THEN "FAILED" ELSE "FINISHED", "RUNNING"} :
           runs' = [runs EXCEPT ![active[j].study].status = status]
    BY <1>2 DEF CloseStudy
  <2>2. /\ TypeOK /\ OpenRunOwned(j) /\ JobOrdered(j) /\ WindowSound(j)
        /\ RecordSound(j) /\ CandidateSound(j) /\ events' = events /\ versions' = versions
    BY Apart DEF JobInv, registryVars
  <2>3. /\ pc[j] = "exit_study" /\ active[j].study # 0 /\ active[j].inner = 0
        /\ status \in Statuses
    BY <1>2, <2>2 DEF CloseStudy, OpenRunOwned, Studying, Statuses
  <2>4. /\ active' \in [Jobs -> [study : Nat, inner : Nat]]
        /\ active'[j].study = 0 /\ active'[j].inner = 0
        /\ \A k \in Jobs \ {j} : active'[k] = active[k]
    <3>1. active' = [active EXCEPT ![j].study = 0]
      BY <1>2 DEF CloseStudy
    <3>2. active \in [Jobs -> [study : Nat, inner : Nat]]
      BY <2>2 DEF TypeOK
    <3> QED BY <2>3, <3>1, <3>2
  <2>5. CASE Leave(j)
    <3>1. /\ pc' = [pc EXCEPT ![j] = "exit"] /\ job' = [job EXCEPT ![j] = NoJob]
      BY <2>5 DEF Leave, Goto
    <3>2. OnlyJob(j) /\ pc'[j] = "exit" /\ job'[j] = NoJob
      BY <2>2, <2>4, <3>1, NoJobTyped DEF TypeOK, OnlyJob, Labels
    <3>3. Len(versions') \in Nat
      BY <2>2 DEF TypeOK
    <3>4. JobInv(j)' /\ InHand(j)' = 0
      BY <2>4, <3>2, <3>3, WithoutJob
    <3> QED BY <2>1, <2>3, <2>4, <3>2, <3>4, StudyRunEnds
  <2>6. CASE Goto(j, "train") /\ job' = [job EXCEPT ![j].role = "baseline", ![j].trials = <<>>]
    <3> DEFINE none == <<>>
               work == [job[j] EXCEPT !.role = "baseline", !.trials = none]
    <3>1. none \in Seq(BOOLEAN)
      OBVIOUS
    <3>2. job' = [job EXCEPT ![j].role = "baseline", ![j].trials = none]
      BY <2>6
    <3> HIDE DEF none
    <3>3. /\ work \in Job /\ work.role = "baseline" /\ work.compared = job[j].compared
          /\ work.config = job[j].config /\ work.lines = job[j].lines
          /\ work.event = job[j].event /\ work.window = job[j].window
          /\ work.candidate = job[j].candidate /\ work.version = job[j].version
          /\ work.tracker = job[j].tracker
      BY <2>2, <3>1 DEF TypeOK, Job, Roles
    <3>4. job' = [job EXCEPT ![j] = work] /\ pc' = [pc EXCEPT ![j] = "train"]
      BY <2>6, <3>2 DEF Goto
    <3> HIDE DEF work
    <3>5. /\ OnlyJob(j) /\ pc'[j] = "train" /\ job'[j] = work
      <4>1. /\ pc' \in [Jobs -> Labels] /\ pc'[j] = "train"
            /\ \A k \in Jobs \ {j} : pc'[k] = pc[k]
        BY <2>2, <3>4 DEF TypeOK, Labels
      <4>2. /\ job' \in [Jobs -> Job] /\ job'[j] = work
            /\ \A k \in Jobs \ {j} : job'[k] = job[k]
        BY <2>2, <3>3, <3>4 DEF TypeOK
      <4> QED BY <2>4, <4>1, <4>2 DEF OnlyJob
    <3>6. JobOrdered(j)'
      BY <2>2, <3>3, <3>5 DEF JobOrdered, Recording
    <3>7. WindowSound(j)'
      BY <2>2, <3>3, <3>5, WindowStays
    <3>8. RecordSound(j)'
      BY <3>3, <3>5 DEF RecordSound, Recording, Judging
    <3>9. OpenRunOwned(j)' /\ InHand(j)' = 0
      BY <2>4, <3>5 DEF OpenRunOwned, InHand, Studying
    <3>10. ASSUME \A i \in DOMAIN runs : i \in DOMAIN runs' /\ RunKept(runs[i], runs'[i])
           PROVE  JobInv(j)'
      <4>1. CandidateSound(j)'
        BY <2>2, <3>3, <3>5, <3>10, CandidateKept
      <4> QED BY <3>6, <3>7, <3>8, <3>9, <4>1 DEF JobInv, HandsApart
    <3> QED BY <2>1, <2>3, <2>4, <3>5, <3>9, <3>10, StudyRunEnds
  <2> QED BY <2>5, <2>6 DEF CloseStudy
<1> QED BY <1>1, <1>2

LEMMA ExitKeeps ==
  ASSUME CInv, NEW j \in Jobs, Exit(j), UNCHANGED registryVars
  PROVE  CInv'
<1>1. /\ TypeOK /\ OpenRunOwned(j) /\ JobOrdered(j) /\ WindowSound(j)
      /\ RecordSound(j) /\ CandidateSound(j) /\ events' = events /\ versions' = versions
  BY Apart DEF JobInv, registryVars
<1>2. /\ pc[j] = "exit" /\ pc' = [pc EXCEPT ![j] = "idle"] /\ job' = job
      /\ active' = [active EXCEPT ![j] = Inactive]
  BY DEF Exit, Goto
<1>3. active[j].inner = 0
  BY <1>1, <1>2 DEF OpenRunOwned
<1>4. /\ OnlyJob(j) /\ pc'[j] = "idle" /\ active'[j].inner = 0 /\ active'[j].study = 0
  <2>1. Inactive \in [study : Nat, inner : Nat] /\ Inactive.inner = 0 /\ Inactive.study = 0
    BY DEF Inactive
  <2> QED BY <1>1, <1>2, <2>1 DEF TypeOK, OnlyJob, Labels
<1>5. JobOrdered(j)'
  BY <1>1, <1>2, <1>4 DEF JobOrdered, Recording
<1>6. WindowSound(j)'
  BY <1>1, <1>2, WindowStays
<1>7. RecordSound(j)'
  BY <1>1, <1>2, <1>4 DEF RecordSound, Recording, Judging
<1>8. OpenRunOwned(j)' /\ InHand(j)' = 0
  BY <1>4 DEF OpenRunOwned, InHand, Studying
<1>9. ASSUME \A i \in DOMAIN runs : i \in DOMAIN runs' /\ RunKept(runs[i], runs'[i])
      PROVE  JobInv(j)'
  <2>1. CandidateSound(j)'
    BY <1>1, <1>2, <1>4, <1>9, CandidateKept
  <2> QED BY <1>5, <1>6, <1>7, <1>8, <2>1 DEF JobInv, HandsApart
<1>10. CASE active[j].study # 0 /\ runs' = [runs EXCEPT ![active[j].study].status = "FINISHED"]
  <2>1. "FINISHED" \in Statuses
    BY DEF Statuses
  <2> QED BY <1>4, <1>8, <1>9, <1>10, <2>1, StudyRunEnds
<1>11. CASE UNCHANGED runs
  <2>1. JobInv(j)'
    BY <1>9, <1>11 DEF RunKept, Static
  <2> QED BY <1>4, <1>8, <1>11, <2>1, QuietKeeps
<1> QED BY <1>3, <1>10, <1>11 DEF Exit

LEMMA TagCandidateKeeps ==
  ASSUME CInv, NEW j \in Jobs, TagCandidate(j)
  PROVE  CInv'
<1>0. PICK r : r = job[j].candidate.run
  OBVIOUS
<1>1. /\ TypeOK /\ OpenRunOwned(j) /\ JobOrdered(j) /\ WindowSound(j) /\ HandsApart(j)
      /\ RecordSound(j) /\ CandidateSound(j) /\ events' = events /\ versions' = versions
      /\ \A i \in DOMAIN runs : RunInv(i) /\ runs[i] \in Run
      /\ \A k \in Jobs : OpenRunOwned(k)
  BY Apart DEF JobInv, registryVars, TagCandidate, TypeOK
<1>2. /\ pc[j] = "tag" /\ pc' = [pc EXCEPT ![j] = "resolve"] /\ job' = job
      /\ job[j] \in Job /\ job' = [job EXCEPT ![j] = job[j]]
      /\ UNCHANGED <<active, registryVars>>
  BY <1>1 DEF TagCandidate, Goto, TypeOK
<1>3. OnlyJob(j) /\ pc'[j] = "resolve" /\ "resolve" \in Labels
  BY <1>1, <1>2 DEF TypeOK, OnlyJob, Labels
<1>4. JobOrdered(j)'
  BY <1>1, <1>2, <1>3 DEF JobOrdered, Recording
<1>5. WindowSound(j)'
  BY <1>1, <1>2, WindowStays
<1>6. RecordSound(j)'
  BY <1>1, <1>2, <1>3 DEF RecordSound, Recording, Judging
<1>7. CASE UNCHANGED runs
  <2>1. CandidateSound(j)'
    BY <1>1, <1>2, <1>3, <1>7, CandidateStays
  <2> QED BY <1>2, <1>3, <1>4, <1>5, <1>6, <1>7, <2>1, BetweenRuns DEF Studying
<1>8. CASE r # 0 /\ runs' = [runs EXCEPT ![r].event = job[j].event]
  <2> DEFINE run == [runs[r] EXCEPT !.event = job[j].event]
  <2>1. /\ r \in DOMAIN runs /\ runs[r].kind = "training" /\ runs[r].status = "FINISHED"
        /\ runs[r].logged = LogCalls /\ runs[r].config = job[j].config
        /\ runs[r].lines = job[j].lines /\ runs[r].window = job[j].window
        /\ runs[r] \in Run /\ job[j].event \in Nat
    BY <1>0, <1>1, <1>2, <1>8 DEF CandidateSound, TrainingRuns, Complete, Job
  <2>2. /\ run \in Run /\ Static(runs[r], run) /\ run.event = job[j].event
        /\ run.status = runs[r].status /\ run.logged = runs[r].logged
    BY <2>1 DEF Run, Static
  <2>3. runs' = [runs EXCEPT ![r] = run]
    BY <1>8
  <2> HIDE DEF run
  <2>4. runs'[r] = run /\ DOMAIN runs' = DOMAIN runs /\ \A i \in DOMAIN runs : i # r => runs'[i] = runs[i]
    BY <1>1, <2>1, <2>3 DEF TypeOK
  <2>5. RunKept(runs[r], run)
    BY <2>2 DEF RunKept
  <2>6. \A i \in DOMAIN runs : i \in DOMAIN runs' /\ RunKept(runs[i], runs'[i])
    BY <2>4, <2>5 DEF RunKept, Static
  <2>7. /\ InHand(j) = r /\ InHand(j)' = 0
        /\ \A k \in Jobs \ {j} : InHand(k) # r
    BY <1>0, <1>1, <1>2, <1>3, <1>8 DEF InHand, HandsApart
  <2>8. \A k \in Jobs : active[k].inner # r
    BY <1>1, <1>8, <2>1 DEF OpenRunOwned
  <2>9. RunInv(r)'
    <3>1. /\ job[j].window # {} /\ job[j].window = RebuiltWindow(j)
          /\ job[j].event \in DOMAIN events
      BY <1>1, <1>2 DEF JobOrdered, WindowSound
    <3>2. LineageOf(r)'
      BY <1>1, <2>1, <2>2, <2>4, <3>1 DEF LineageOf, RebuiltWindow, RowsOf, Static
    <3>3. RunInv(r)
      BY <1>1, <2>1
    <3> QED BY <2>1, <2>2, <2>4, <3>2, <3>3 DEF RunInv, Static
  <2>10. CandidateSound(j)'
    BY <1>1, <1>2, <1>3, <2>6, CandidateKept
  <2>11. OpenRunOwned(j)'
    <3>1. active'[j].inner = 0 /\ active' = active
      BY <1>1, <1>2 DEF OpenRunOwned
    <3>2. active'[j].study # 0 =>
             active'[j].study \in DOMAIN runs' /\ runs'[active'[j].study].kind = "study"
      BY <1>1, <2>6, <3>1 DEF OpenRunOwned, RunKept, Static
    <3> QED BY <1>3, <3>1, <3>2 DEF OpenRunOwned, Studying
  <2>12. JobInv(j)'
    BY <1>4, <1>5, <1>6, <2>7, <2>10, <2>11 DEF JobInv, HandsApart
  <2>13. active'[j].inner \in {0, active[j].inner}
    BY <1>2
  <2> QED
    BY <1>2, <1>3, <2>1, <2>2, <2>3, <2>5, <2>7, <2>8, <2>9, <2>12, <2>13, ModifyKeeps
<1> QED BY <1>0, <1>7, <1>8 DEF TagCandidate, TaggedRun

(* Steps that write the reports and the registry. *)

LEMMA RegistryKeeps ==
  ASSUME CInv, NEW j \in Jobs, UNCHANGED runs, OnlyJob(j),
         events' \in Seq(Event), versions' \in Seq(Nat), production' \in Nat, StoreInv',
         DOMAIN events \subseteq DOMAIN events',
         \A e \in DOMAIN events : events'[e] = events[e],
         Len(versions) <= Len(versions'),
         active'[j].inner \in {0, active[j].inner}, InHand(j)' \in {0, InHand(j)},
         JobInv(j)'
  PROVE  CInv'
<1>1. TypeOK /\ \A i \in DOMAIN runs : RunInv(i)
  BY Apart
<1>2. TypeOK'
  BY <1>1 DEF TypeOK, OnlyJob
<1>3. Grow(j)
  <2>1. Len(versions) \in Nat /\ Len(versions') \in Nat /\ runs \in Seq(Run)
    BY <1>1 DEF TypeOK
  <2> QED BY <2>1 DEF Grow, OnlyJob, RunKept, Static
<1>4. \A i \in DOMAIN runs' : RunInv(i)'
  BY <1>1 DEF RunInv, LineageOf
<1>5. \A k \in Jobs : JobInv(k)'
  BY <1>3, OthersKeep
<1> QED BY <1>2, <1>4, <1>5, ApartNext

\* A version more, of a run that is complete.
LEMMA VersionAdded ==
  ASSUME CInv, NEW j \in Jobs, job[j].candidate.run # 0, UNCHANGED <<runs, events, production>>,
         versions' = Append(versions, job[j].candidate.run)
  PROVE  /\ versions' \in Seq(Nat) /\ StoreInv' /\ Len(versions') = Len(versions) + 1
         /\ Len(versions) \in Nat
<1> DEFINE run == job[j].candidate.run
<1>1. TypeOK /\ StoreInv /\ CandidateSound(j)
  BY Apart DEF JobInv
<1>2. run \in Nat /\ run \in TrainingRuns /\ Complete(run)
  BY <1>1 DEF CandidateSound, TypeOK, TrainingRuns
<1>3. versions \in Seq(Nat) /\ versions' = Append(versions, run)
  BY <1>1 DEF TypeOK
<1> HIDE DEF run
<1>4. /\ versions' \in Seq(Nat) /\ Len(versions') = Len(versions) + 1
      /\ versions'[Len(versions) + 1] = run
      /\ \A v \in 1..Len(versions) : versions'[v] = versions[v]
  BY <1>2, <1>3, AppendProperties
<1>5. /\ Len(versions) \in Nat /\ DOMAIN versions = 1..Len(versions)
      /\ DOMAIN versions' = 1..(Len(versions) + 1)
  BY <1>3, <1>4, LenProperties
<1>6. \A v \in DOMAIN versions' : versions'[v] \in TrainingRuns /\ Complete(versions'[v])
  BY <1>1, <1>2, <1>4, <1>5 DEF StoreInv
<1>7. \A v \in DOMAIN versions' : versions'[v] \in TrainingRuns' /\ Complete(versions[v])'
  BY <1>6 DEF TrainingRuns, Complete
<1>8. Len(events') <= MaxEvents /\ production' \in 0..Len(versions')
  BY <1>1, <1>4, <1>5 DEF StoreInv
<1> QED BY <1>4, <1>5, <1>7, <1>8 DEF StoreInv

LEMMA RegisterModelKeeps ==
  ASSUME CInv, NEW j \in Jobs, RegisterModel(j)
  PROVE  CInv'
<1> DEFINE new == Len(versions) + 1
           work == [job[j] EXCEPT !.version = new]
<1>1. /\ TypeOK /\ OpenRunOwned(j) /\ JobOrdered(j) /\ WindowSound(j)
      /\ RecordSound(j) /\ CandidateSound(j)
  BY Apart DEF JobInv
<1>2. /\ pc[j] = "register" /\ pc' = [pc EXCEPT ![j] = "alias"]
      /\ job' = [job EXCEPT ![j].version = new] /\ job[j].candidate.run # 0
      /\ versions' = Append(versions, job[j].candidate.run)
      /\ runs' = runs /\ active' = active /\ events' = events /\ production' = production
  BY DEF RegisterModel, Goto
<1>3. /\ versions' \in Seq(Nat) /\ StoreInv' /\ Len(versions') = new
      /\ Len(versions) \in Nat /\ new \in Nat /\ new # 0 /\ Len(versions) <= Len(versions')
  BY <1>2, VersionAdded
<1>4. job' = [job EXCEPT ![j] = work]
  BY <1>2
<1> HIDE DEF new
<1>5. /\ work \in Job /\ work.version = new /\ work.record = job[j].record
      /\ work.command = job[j].command /\ work.config = job[j].config
      /\ work.lines = job[j].lines /\ work.event = job[j].event
      /\ work.window = job[j].window /\ work.role = job[j].role
      /\ work.candidate = job[j].candidate /\ work.compared = job[j].compared
  BY <1>1, <1>3 DEF TypeOK, Job
<1> HIDE DEF work
<1>6. OnlyJob(j) /\ pc'[j] = "alias" /\ job'[j] = work
  BY <1>1, <1>2, <1>4, <1>5 DEF TypeOK, OnlyJob, Labels
<1>7. OpenRunOwned(j)'
  BY <1>1, <1>2, <1>6 DEF OpenRunOwned, Studying, OnlyJob
<1>8. JobOrdered(j)'
  BY <1>1, <1>2, <1>5, <1>6 DEF JobOrdered, Recording
<1>9. WindowSound(j)'
  BY <1>1, <1>2, <1>5, <1>6, WindowStays
<1>10. RecordSound(j)'
  BY <1>1, <1>2, <1>5, <1>6 DEF RecordSound, Recording, Judging
<1>11. CandidateSound(j)'
  <2>1. TrainingRuns' = TrainingRuns /\ \A i : Complete(i)' <=> Complete(i)
    BY <1>2 DEF TrainingRuns, Complete
  <2>2. new \in 0..Len(versions')
    BY <1>3
  <2> QED BY <1>1, <1>2, <1>3, <1>5, <1>6, <2>1, <2>2 DEF CandidateSound
<1>12. InHand(j)' = 0
  BY <1>6 DEF InHand
<1>13. JobInv(j)'
  BY <1>7, <1>8, <1>9, <1>10, <1>11, <1>12 DEF JobInv, HandsApart
<1>14. events' \in Seq(Event) /\ production' \in Nat
  BY <1>1, <1>2 DEF TypeOK
<1> QED BY <1>2, <1>3, <1>6, <1>12, <1>13, <1>14, RegistryKeeps

\* A command is over once the registry was written.
LEMMA LeaveRegistryKeeps ==
  ASSUME CInv, NEW j \in Jobs, Leave(j), UNCHANGED <<runs, active, events>>,
         pc[j] \in {"register", "alias"}, versions' \in Seq(Nat), production' \in Nat,
         Len(versions) <= Len(versions'), StoreInv'
  PROVE  CInv'
<1>1. TypeOK /\ JobInv(j)
  BY Apart
<1>2. /\ pc' = [pc EXCEPT ![j] = "exit"] /\ job' = [job EXCEPT ![j] = NoJob]
      /\ active' = active /\ runs' = runs /\ events' = events
  BY DEF Leave, Goto
<1>3. OnlyJob(j) /\ pc'[j] = "exit" /\ job'[j] = NoJob
  BY <1>1, <1>2, NoJobTyped DEF TypeOK, OnlyJob, Labels
<1>4. /\ active[j].inner = 0 /\ Len(versions') \in Nat /\ events' \in Seq(Event)
      /\ active[j].study # 0 =>
            active[j].study \in DOMAIN runs /\ runs[active[j].study].kind = "study"
  BY <1>1, <1>2 DEF JobInv, OpenRunOwned, TypeOK
<1>5. JobInv(j)' /\ InHand(j)' = 0
  BY <1>2, <1>3, <1>4, WithoutJob
<1> QED BY <1>2, <1>3, <1>4, <1>5, RegistryKeeps

LEMMA RegisterModelFailsKeeps ==
  ASSUME CInv, NEW j \in Jobs, RegisterModelFails(j)
  PROVE  CInv'
<1>1. TypeOK /\ StoreInv
  BY Apart
<1>2. /\ Leave(j) /\ UNCHANGED <<runs, active, events, production>> /\ pc[j] = "register"
      /\ production' \in Nat
  BY <1>1 DEF RegisterModelFails, TypeOK
<1>3. CASE UNCHANGED versions
  <2>1. versions' \in Seq(Nat) /\ Len(versions) <= Len(versions')
    BY <1>1, <1>3 DEF TypeOK
  <2>2. StoreInv'
    BY <1>1, <1>2, <1>3 DEF StoreInv, TrainingRuns, Complete
  <2> QED BY <1>2, <2>1, <2>2, LeaveRegistryKeeps
<1>4. CASE job[j].candidate.run # 0 /\ versions' = Append(versions, job[j].candidate.run)
  <2>1. versions' \in Seq(Nat) /\ Len(versions) <= Len(versions') /\ StoreInv'
    BY <1>2, <1>4, VersionAdded
  <2> QED BY <1>2, <2>1, LeaveRegistryKeeps
<1> QED BY <1>3, <1>4 DEF RegisterModelFails

LEMMA PointAliasKeeps ==
  ASSUME CInv, NEW j \in Jobs, PointAlias(j) \/ PointAliasFails(j)
  PROVE  CInv'
<1>1. TypeOK /\ StoreInv /\ CandidateSound(j)
  BY Apart DEF JobInv
<1>2. /\ Leave(j) /\ UNCHANGED <<runs, active, events, versions>> /\ pc[j] = "alias"
      /\ production' \in {production, job[j].version}
  BY DEF PointAlias, PointAliasFails
<1>3. production' \in 0..Len(versions)
  BY <1>1, <1>2 DEF StoreInv, CandidateSound
<1>4. versions' \in Seq(Nat) /\ Len(versions) <= Len(versions') /\ production' \in Nat
  BY <1>1, <1>2, <1>3 DEF TypeOK
<1>5. StoreInv'
  BY <1>1, <1>2, <1>3 DEF StoreInv, TrainingRuns, Complete
<1> QED BY <1>2, <1>4, <1>5, LeaveRegistryKeeps

\* A verdict more.
LEMMA CheckDriftKeeps ==
  ASSUME CInv, NEW j \in Jobs, CheckDrift(j)
  PROVE  CInv'
<1> DEFINE new == Len(events) + 1
           cfg == Setting[job[j].config]
           work == [job[j] EXCEPT !.event = new]
<1>1. /\ TypeOK /\ OpenRunOwned(j) /\ JobOrdered(j) /\ WindowSound(j)
      /\ RecordSound(j) /\ CandidateSound(j) /\ StoreInv /\ job[j] \in Job
      /\ job[j].config \in Configs
  BY Apart DEF JobInv, TypeOK, Job
<1>2. PICK scenario \in Scenarios, readings \in [Features -> Readings] :
         events' = Append(events,
            [window |-> cfg.drift_window, scenario |-> scenario,
             rows |-> CurrentWindow(RowsOf(j), cfg.drift_window, scenario),
             drifted |-> DriftDetected(readings, cfg)])
  BY DEF CheckDrift
<1>3. /\ pc[j] = "check" /\ Len(events) < MaxEvents /\ pc' = [pc EXCEPT ![j] = "open"]
      /\ job' = [job EXCEPT ![j].event = new]
      /\ runs' = runs /\ active' = active /\ versions' = versions /\ production' = production
  BY DEF CheckDrift, Goto
<1> DEFINE event == [window |-> cfg.drift_window, scenario |-> scenario,
                     rows |-> CurrentWindow(RowsOf(j), cfg.drift_window, scenario),
                     drifted |-> DriftDetected(readings, cfg)]
<1>4. event \in Event
  <2>1. cfg \in DataSetting
    BY <1>1, SettingTyped
  <2>2. cfg.drift_window \in Window
    BY <2>1 DEF DataSetting
  <2>3. CurrentWindow(RowsOf(j), cfg.drift_window, scenario) \in SUBSET Row
    BY <1>1, RowsTyped DEF RowsOf
  <2>4. DriftDetected(readings, cfg) \in BOOLEAN
    BY DEF DriftDetected
  <2> HIDE DEF cfg
  <2> QED BY <2>2, <2>3, <2>4 DEF Event
<1>5. events \in Seq(Event) /\ events' = Append(events, event)
  BY <1>1, <1>2 DEF TypeOK
<1> HIDE DEF event
<1>6. /\ events' \in Seq(Event) /\ Len(events') = new
      /\ \A e \in 1..Len(events) : events'[e] = events[e]
  BY <1>4, <1>5, AppendProperties
<1>7. /\ Len(events) \in Nat /\ DOMAIN events = 1..Len(events) /\ DOMAIN events' = 1..new
      /\ new \in Nat /\ new # 0 /\ new \in DOMAIN events' /\ Len(events') <= MaxEvents
      /\ DOMAIN events \subseteq DOMAIN events'
  BY <1>3, <1>5, <1>6, LenProperties, RegistryAssumption
<1> HIDE DEF new
<1>8. job' = [job EXCEPT ![j] = work]
  BY <1>3
<1>9. /\ work \in Job /\ work.event = new /\ work.record = job[j].record
      /\ work.command = job[j].command /\ work.config = job[j].config
      /\ work.lines = job[j].lines /\ work.version = job[j].version
      /\ work.window = job[j].window /\ work.role = job[j].role
      /\ work.candidate = job[j].candidate /\ work.compared = job[j].compared
  BY <1>1, <1>7 DEF Job
<1> HIDE DEF work
<1>10. OnlyJob(j) /\ pc'[j] = "open" /\ job'[j] = work
  BY <1>1, <1>3, <1>8, <1>9 DEF TypeOK, OnlyJob, Labels
<1>11. job[j].role = "check" /\ job[j].window = {} /\ job[j].candidate.run = 0
  BY <1>1, <1>3 DEF JobOrdered
<1>12. OpenRunOwned(j)'
  BY <1>1, <1>3, <1>10 DEF OpenRunOwned, Studying, OnlyJob
<1>13. JobOrdered(j)' /\ WindowSound(j)'
  BY <1>7, <1>9, <1>10, <1>11 DEF JobOrdered, Recording, WindowSound
<1>14. RecordSound(j)'
  BY <1>9, <1>10, <1>11 DEF RecordSound, Recording, Judging, KindOf
<1>15. CandidateSound(j)'
  BY <1>1, <1>3, <1>9, <1>10, CandidateStays
<1>16. InHand(j)' = 0
  BY <1>10 DEF InHand
<1>17. JobInv(j)'
  BY <1>12, <1>13, <1>14, <1>15, <1>16 DEF JobInv, HandsApart
<1>18. versions' \in Seq(Nat) /\ production' \in Nat /\ Len(versions) <= Len(versions')
  BY <1>1, <1>3 DEF TypeOK
<1>19. StoreInv'
  BY <1>1, <1>3, <1>7 DEF StoreInv, TrainingRuns, Complete
<1> QED BY <1>3, <1>6, <1>7, <1>10, <1>16, <1>17, <1>18, <1>19, RegistryKeeps

(* The invariant is inductive. *)

LEMMA InitHolds == Init => CInv
<1> SUFFICES ASSUME Init PROVE CInv
  OBVIOUS
<1>1. /\ runs = <<>> /\ events = <<>> /\ versions = <<>> /\ production = 0
      /\ \A j \in Jobs : active[j] = Inactive /\ pc[j] = "idle" /\ job[j] = NoJob
  BY DEF Init
<1>2. TypeOK
  <2>1. runs \in Seq(Run) /\ events \in Seq(Event) /\ versions \in Seq(Nat) /\ production \in Nat
    BY <1>1
  <2>2. /\ Inactive \in [study : Nat, inner : Nat] /\ "idle" \in Labels /\ NoJob \in Job
    BY NoJobTyped DEF Inactive, Labels
  <2> QED BY <2>1, <2>2 DEF Init, TypeOK
<1>3. DOMAIN runs = {} /\ DOMAIN versions = {} /\ Len(versions) = 0 /\ Len(events) = 0
  BY <1>1
<1>4. StoreInv
  BY <1>1, <1>3, RegistryAssumption DEF StoreInv
<1>5. ASSUME NEW j \in Jobs
      PROVE  JobInv(j)
  <2>1. /\ active[j].study = 0 /\ active[j].inner = 0 /\ pc[j] = "idle"
        /\ job[j].event = 0 /\ job[j].window = {} /\ job[j].role = "none"
        /\ job[j].candidate.run = 0 /\ job[j].compared = 0 /\ job[j].version = 0
    <3>1. /\ NoJob.event = 0 /\ NoJob.window = {} /\ NoJob.role = "none"
          /\ NoJob.candidate.run = 0 /\ NoJob.compared = 0 /\ NoJob.version = 0
      BY DEF NoJob, NewJob, NoRecord
    <3>2. Inactive.study = 0 /\ Inactive.inner = 0
      BY DEF Inactive
    <3> QED BY <1>1, <3>1, <3>2
  <2>2. OpenRunOwned(j) /\ InHand(j) = 0
    BY <2>1 DEF OpenRunOwned, InHand, Studying
  <2>3. JobOrdered(j) /\ WindowSound(j)
    BY <2>1 DEF JobOrdered, WindowSound, Recording
  <2>4. RecordSound(j)
    BY <2>1 DEF RecordSound, Recording, Judging
  <2>5. CandidateSound(j)
    BY <1>3, <2>1 DEF CandidateSound
  <2> QED BY <2>2, <2>3, <2>4, <2>5 DEF JobInv, HandsApart
<1> QED BY <1>2, <1>3, <1>4, <1>5, Apart

LEMMA TrainingStepKeeps ==
  ASSUME CInv, NEW j \in Jobs, TrainingStep(j), UNCHANGED registryVars
  PROVE  CInv'
<1>1. ASSUME NEW config \in Configs, NEW lines \in Lines, StartTrain(j, config, lines)
      PROVE  CInv'
  <2>1. "train" \in Commands /\ "plain" \in Roles /\ "train" \in Labels
    BY DEF Commands, Roles, Labels
  <2> QED BY <1>1, <2>1, LaunchKeeps DEF StartTrain
<1>2. CASE TrainFails(j) \/ SavePlain(j)
  BY <1>2, LeaveKeeps DEF TrainFails, SavePlain
<1> QED
  BY <1>1, <1>2, TrainKeeps, OpenRunKeeps, OpenRunFailsKeeps, LogCallKeeps, LogCallFailsKeeps,
     CloseRunKeeps, CloseRunFailsKeeps, ExitKeeps, KillKeeps DEF TrainingStep

LEMMA OptimizationStepKeeps ==
  ASSUME CInv, NEW j \in Jobs, OptimizationStep(j), UNCHANGED registryVars
  PROVE  CInv'
<1>1. ASSUME NEW config \in Configs, NEW lines \in Lines, StartOptimize(j, config, lines)
      PROVE  CInv'
  <2>1. "optimize" \in Commands /\ "none" \in Roles /\ "enter" \in Labels
    BY DEF Commands, Roles, Labels
  <2> QED BY <1>1, <2>1, LaunchKeeps DEF StartOptimize
<1>2. CASE SaveTuned(j)
  BY <1>2, LeaveKeeps DEF SaveTuned
<1> QED
  BY <1>1, <1>2, EnterStudyKeeps, EnterStudyFailsKeeps, EnterStudyLeaksKeeps, RunTrialKeeps,
     OpenTrialKeeps, OpenTrialFailsKeeps, CloseTrialKeeps, RaiseInStudyKeeps, FinishStudyKeeps,
     CloseStudyKeeps, SaveBaselineKeeps DEF OptimizationStep

LEMMA RetrainingStepKeeps ==
  ASSUME CInv, NEW j \in Jobs, RetrainingStep(j)
  PROVE  CInv'
<1>1. ASSUME NEW config \in Configs, NEW lines \in Lines,
             \/ StartCheck(j, "drift", config, lines, FALSE)
             \/ \E force \in BOOLEAN : StartCheck(j, "retrain", config, lines, force)
      PROVE  CInv'
  <2>1. "drift" \in Commands /\ "retrain" \in Commands /\ "check" \in Roles /\ "check" \in Labels
    BY DEF Commands, Roles, Labels
  <2> QED BY <1>1, <2>1, LaunchKeeps DEF StartCheck
<1>2. ASSUME NEW config \in Configs, NEW lines \in Lines, StartPromote(j, config, lines)
      PROVE  CInv'
  <2>1. "promote" \in Commands /\ "candidate" \in Roles /\ "train" \in Labels
    BY DEF Commands, Roles, Labels
  <2> QED BY <1>2, <2>1, LaunchKeeps DEF StartPromote
<1>3. ASSUME NEW config \in Configs, NEW lines \in Lines, NEW force \in BOOLEAN,
             NEW event \in 1..Len(events), StartReplay(j, config, lines, force, event)
      PROVE  CInv'
  <2>1. "retrain" \in Commands /\ "check" \in Roles /\ "decide" \in Labels
    BY DEF Commands, Roles, Labels
  <2>2. event \in DOMAIN events /\ event # 0
    BY Apart DEF TypeOK
  <2> QED BY <1>3, <2>1, <2>2, LaunchKeeps DEF StartReplay
<1>4. CASE CheckFails(j) \/ LeaveAlone(j) \/ RefuseToRetrain(j) \/ FinishUnregistered(j)
  BY <1>4, LeaveKeeps DEF CheckFails, LeaveAlone, RefuseToRetrain, FinishUnregistered
<1> QED
  BY <1>1, <1>2, <1>3, <1>4, CheckDriftKeeps, SaveCheckKeeps, RetrainKeeps, SaveCandidateKeeps,
     TagCandidateKeeps, MetricsFromRegistryKeeps, BootstrapKeeps, SaveBootstrapKeeps,
     PassGatesKeeps, RegisterModelKeeps, RegisterModelFailsKeeps, PointAliasKeeps
  DEF RetrainingStep

LEMMA StepKeeps == CInv /\ [Next]_vars => CInv'
<1>1. CInv /\ Next => CInv'
  BY TrainingStepKeeps, OptimizationStepKeeps, RetrainingStepKeeps DEF Next
<1>2. ASSUME CInv, UNCHANGED vars
      PROVE  CInv'
  <2>1. /\ runs' = runs /\ active' = active /\ pc' = pc /\ job' = job
        /\ events' = events /\ versions' = versions /\ production' = production
    BY <1>2 DEF vars, trainingVars, registryVars
  <2>2. /\ TypeOK /\ StoreInv /\ \A i \in DOMAIN runs : RunInv(i)
        /\ \A j \in Jobs : JobInv(j)
    BY <1>2, Apart
  <2>3. TypeOK'
    BY <2>1, <2>2 DEF TypeOK
  <2>4. StoreInv'
    BY <2>1, <2>2 DEF StoreInv, TrainingRuns, Complete
  <2>5. \A i \in DOMAIN runs' : RunInv(i)'
    BY <2>1, <2>2 DEF RunInv, LineageOf
  <2>6. ASSUME NEW j \in Jobs
        PROVE  JobInv(j)'
    <3>1. OpenRunOwned(j)' /\ JobOrdered(j)'
      BY <2>1, <2>2 DEF JobInv, OpenRunOwned, JobOrdered, Describes, KindOf, LastCompleted,
             Completed
    <3>2. WindowSound(j)'
      BY <2>1, <2>2, WindowStays DEF JobInv
    <3>3. RecordSound(j)' /\ CandidateSound(j)'
      BY <2>1, <2>2 DEF JobInv, RecordSound, CandidateSound, Describes, Complete, KindOf,
             TrainingRuns
    <3>4. HandsApart(j)'
      BY <2>1, <2>2 DEF JobInv, HandsApart, InHand, Completed, TrainingRuns
    <3> QED BY <3>1, <3>2, <3>3, <3>4 DEF JobInv
  <2> QED BY <2>3, <2>4, <2>5, <2>6, ApartNext
<1> QED BY <1>1, <1>2

\* CInv holds in every state of every run of the commands, for any number of
\* processes, any register, configurations and bounds.
THEOREM CycleInvariant == Spec => []CInv
BY InitHolds, StepKeeps, PTL DEF Spec

(* The properties, for every instance. *)

\* No model is trained on what was not known, or on what its own configuration
\* judges models on (run_training, run_retraining, make_splits).
THEOREM NothingLeaks == Spec => []TrainedOnMatureUnseenRows
<1>1. CInv => TrainedOnMatureUnseenRows
  BY DEF CInv
<1> QED BY <1>1, CycleInvariant, PTL

\* What is registered came from a run that was finished with everything logged
\* (log_run_record, register_candidate).
THEOREM RegisteredRunsComplete == Spec => []RegisteredIsComplete
<1>1. CInv => RegisteredIsComplete
  BY DEF CInv
<1> QED BY <1>1, CycleInvariant, PTL

\* A run tagged with a drift event was trained on that event's window
\* (_tag_candidate).
THEOREM LineageHolds == Spec => []LineageIsTrue
<1>1. CInv => LineageIsTrue
  BY DEF CInv
<1> QED BY <1>1, CycleInvariant, PTL

\* A study never shows a failed trial as completed, or the reverse (StudyTracker).
THEOREM TrialsAreTrue == Spec => []TrialsShownTruthfully
<1>1. CInv => TrialsShownTruthfully
  BY DEF CInv
<1> QED BY <1>1, CycleInvariant, PTL

\* The gates compare metrics of the same rows (run_promotion).
THEOREM SameExam == Spec => []JudgedOnSameRows
<1>1. ASSUME CInv, NEW j \in Jobs, pc[j] = "gates"
      PROVE  /\ job[j].compared = 0 => job[j].record.exam = job[j].candidate.exam
             /\ job[j].compared # 0 =>
                  ((/\ runs[job[j].compared].config = job[j].config
                    /\ runs[job[j].compared].lines = job[j].lines)
                      => runs[job[j].compared].exam = job[j].candidate.exam)
  <2>1. RecordSound(j) /\ CandidateSound(j) /\ \A i \in DOMAIN runs : RunInv(i)
    BY <1>1, Apart DEF JobInv
  <2>2. job[j].candidate.exam = Exam(job[j].config, job[j].lines)
    BY <1>1, <2>1 DEF RecordSound, Judging
  <2>3. job[j].compared = 0 => job[j].record.exam = job[j].candidate.exam
    BY <1>1, <2>1 DEF RecordSound, Judging
  <2>4. ASSUME job[j].compared # 0
        PROVE  runs[job[j].compared].exam
                  = Exam(runs[job[j].compared].config, runs[job[j].compared].lines)
    BY <2>1, <2>4 DEF CandidateSound, TrainingRuns, RunInv
  <2> QED BY <2>2, <2>3, <2>4
<1>2. CInv => JudgedOnSameRows
  BY <1>1 DEF JudgedOnSameRows
<1> QED BY <1>2, CycleInvariant, PTL

(* ModelCycle implements TrackingStore. *)

Held == [i \in DOMAIN runs |-> Stored(runs[i])]

\* Nothing a reader looks for has changed.
LEMMA Unseen ==
  ASSUME DOMAIN runs' = DOMAIN runs,
         \A i \in DOMAIN runs : Stored(runs'[i]) = Stored(runs[i]),
         UNCHANGED <<versions, production>>
  PROVE  UNCHANGED Store!storeVars
<1>1. Held' = Held
  BY DEF Held
<1> QED BY <1>1 DEF Held, Store!storeVars

LEMMA AppendIs ==
  ASSUME NEW S, NEW s \in Seq(S), NEW t, NEW x,
         t = [i \in 1..(Len(s) + 1) |-> IF i = Len(s) + 1 THEN x ELSE s[i]]
  PROVE  t = Append(s, x)
<1> DEFINE T == S \cup {x}
<1>1. s \in Seq(T)
  OBVIOUS
<1>2. /\ Append(s, x) \in Seq(T) /\ Len(Append(s, x)) = Len(s) + 1
      /\ Append(s, x)[Len(s) + 1] = x /\ \A i \in 1..Len(s) : Append(s, x)[i] = s[i]
  BY <1>1, AppendProperties
<1>3. t \in Seq(T) /\ Len(t) = Len(s) + 1
  OBVIOUS
<1> QED BY <1>2, <1>3, SeqEqual

\* A run that was created is like one never marked, or one of a study.
LEMMA CreationSeen ==
  ASSUME CInv, NEW j \in Jobs, NEW kind \in Kinds, NEW completed \in BOOLEAN,
         CreateRun(j, kind, completed), UNCHANGED <<versions, production>>
  PROVE  Store!StoreNext
<1> DEFINE new == Len(runs) + 1
           type == IF kind \in {"study", "trial"} THEN "study" ELSE "none"
           mark == Store!Tagged(type, FALSE, 0)
<1>1. /\ new \in Nat \ {0} /\ new \notin DOMAIN runs
      /\ runs' \in Seq(Run) /\ DOMAIN runs' = DOMAIN runs \cup {new}
      /\ \A i \in DOMAIN runs : runs'[i] = runs[i]
      /\ runs'[new] = Created(j, kind, completed)
  BY Added
<1>2. runs \in Seq(Run) /\ DOMAIN runs = 1..Len(runs) /\ Len(runs) \in Nat
  BY Apart DEF TypeOK
<1>3. Stored(runs'[new]) = mark
  <2>1. /\ runs'[new].kind = kind /\ runs'[new].logged = 0
        /\ kind # "check" => runs'[new].event = 0
    BY <1>1 DEF Created
  <2>2. LogCalls # 0
    BY TrainingAssumption
  <2> QED BY <2>1, <2>2 DEF Stored, Kinds, Store!Tagged
<1>4. Held' = Append(Held, mark)
  <2> DEFINE S == {Held[i] : i \in 1..Len(runs)}
  <2>1. Held = [i \in 1..Len(runs) |-> Held[i]]
    BY <1>2 DEF Held
  <2> HIDE DEF mark
  <2>2. Held \in Seq(S) /\ Len(Held) = Len(runs)
    <3>1. \A i \in 1..Len(runs) : Held[i] \in S
      OBVIOUS
    <3> HIDE DEF S
    <3>2. Held \in [1..Len(runs) -> S]
      BY <2>1, <3>1
    <3> QED BY <1>2, <3>2
  <2>3. Held' = [i \in 1..new |-> IF i = new THEN mark ELSE Held[i]]
    BY <1>1, <1>2, <1>3 DEF Held
  <2>4. Held' = [i \in 1..(Len(Held) + 1) |-> IF i = Len(Held) + 1 THEN mark ELSE Held[i]]
    BY <2>2, <2>3
  <2> HIDE DEF S
  <2> QED BY <2>2, <2>4, AppendIs
<1>5. type \in {"none", "study"}
  OBVIOUS
<1>6. Store!StartRun(type)
  BY <1>4 DEF Held, Store!StartRun
<1> QED BY <1>5, <1>6 DEF Store!StoreNext

\* A run of ours has changed: what a reader sees of it is the same, or a mark.
LEMMA ChangeSeen ==
  ASSUME CInv, NEW r \in DOMAIN runs, NEW run,
         runs' = [runs EXCEPT ![r] = run], UNCHANGED <<versions, production>>,
         \/ Stored(run) = Stored(runs[r])
         \/ /\ Stored(runs[r]) = Store!Tagged("none", FALSE, 0)
            /\ \/ Stored(run) = Store!Tagged("none", TRUE, 0)
               \/ \E event \in 1..MaxEvents :
                     Stored(run) = Store!Tagged("drift_check", FALSE, event)
         \/ /\ Stored(runs[r]) = Store!Tagged("none", TRUE, 0)
            /\ \E event \in 1..MaxEvents :
                  Stored(run) = Store!Tagged("retraining_candidate", TRUE, event)
  PROVE  Store!StoreNext \/ UNCHANGED Store!storeVars
<1>1. /\ DOMAIN runs' = DOMAIN runs /\ runs'[r] = run
      /\ \A i \in DOMAIN runs : i # r => runs'[i] = runs[i]
  BY Apart DEF TypeOK
<1>2. Held' = [Held EXCEPT ![r] = Stored(run)] /\ Held[r] = Stored(runs[r]) /\ r \in DOMAIN Held
  BY <1>1 DEF Held
<1>3. CASE Stored(run) = Stored(runs[r])
  BY <1>1, <1>3, Unseen
<1>4. CASE /\ Stored(runs[r]) = Store!Tagged("none", FALSE, 0)
           /\ Stored(run) = Store!Tagged("none", TRUE, 0)
  <2>1. Store!MarkModel(r)
    BY <1>2, <1>4 DEF Held, Store!MarkModel, Store!Mark, Store!Blank
  <2> QED BY <1>2, <2>1 DEF Held, Store!StoreNext
<1>5. ASSUME NEW event \in 1..MaxEvents, Stored(runs[r]) = Store!Tagged("none", FALSE, 0),
             Stored(run) = Store!Tagged("drift_check", FALSE, event)
      PROVE  Store!StoreNext
  <2>1. Store!MarkCheck(r, event)
    BY <1>2, <1>5 DEF Held, Store!MarkCheck, Store!Mark, Store!Blank
  <2> QED BY <1>2, <2>1 DEF Held, Store!StoreNext
<1>6. ASSUME NEW event \in 1..MaxEvents, Stored(runs[r]) = Store!Tagged("none", TRUE, 0),
             Stored(run) = Store!Tagged("retraining_candidate", TRUE, event)
      PROVE  Store!StoreNext
  <2>1. Held[r].model /\ Held[r].event = 0
    BY <1>2, <1>6 DEF Store!Tagged
  <2>2. Store!LinkCandidate(r, event)
    BY <1>2, <1>6, <2>1 DEF Held, Store!LinkCandidate, Store!Mark
  <2> QED BY <1>2, <2>2 DEF Held, Store!StoreNext
<1> QED BY <1>3, <1>4, <1>5, <1>6

Seen == Store!StoreNext \/ UNCHANGED Store!storeVars

LEMMA RunsUntouched ==
  ASSUME UNCHANGED <<runs, versions, production>>
  PROVE  Seen
BY Unseen DEF Seen

LEMMA RunCreated ==
  ASSUME CInv, NEW j \in Jobs, NEW kind \in Kinds, NEW completed \in BOOLEAN,
         CreateRun(j, kind, completed), UNCHANGED <<versions, production>>
  PROVE  Seen
BY CreationSeen DEF Seen

\* How a run ended is not among what a reader looks for.
LEMMA EndUnseen ==
  ASSUME CInv, NEW r \in DOMAIN runs, NEW run,
         runs' = [runs EXCEPT ![r] = run], UNCHANGED <<versions, production>>,
         run.kind = runs[r].kind, run.event = runs[r].event,
         run.logged = runs[r].logged \/ run.kind \in {"study", "trial"}
  PROVE  Seen
<1>1. runs[r] \in Run
  BY Apart DEF TypeOK
<1>2. Stored(run) = Stored(runs[r])
  <2>1. CASE run.logged = runs[r].logged
    BY <2>1 DEF Stored
  <2>2. CASE run.kind \in {"study", "trial"}
    BY <2>2 DEF Stored
  <2> QED BY <2>1, <2>2
<1> QED BY <1>2, ChangeSeen DEF Seen

\* A log call marks a check with the first, a training run with the last.
LEMMA LogSeen ==
  ASSUME CInv, NEW j \in Jobs, pc[j] = "log", NEW run,
         runs[active[j].inner].logged < LogCalls,
         runs' = [runs EXCEPT ![active[j].inner] = run],
         run.kind = runs[active[j].inner].kind, run.event = runs[active[j].inner].event,
         \/ run.logged = runs[active[j].inner].logged
         \/ run.logged = runs[active[j].inner].logged + 1,
         UNCHANGED <<versions, production>>
  PROVE  Seen
<1>0. PICK r : r = active[j].inner
  OBVIOUS
<1>1. /\ r \in DOMAIN runs /\ runs[r] \in Run /\ runs[r].kind = KindOf(j)
      /\ runs[r].kind = "training" => runs[r].event = 0
      /\ RunInv(r) /\ StoreInv /\ events \in Seq(Event)
  BY <1>0, LogsOwnRun, Apart DEF TypeOK
<1>2. /\ runs[r].logged \in 0..LogCalls /\ runs[r].logged < LogCalls
      /\ LogCalls \in Nat \ {0}
  BY <1>0, <1>1, TrainingAssumption DEF Run
<1>3. CASE run.logged = runs[r].logged
  BY <1>0, <1>1, <1>3, EndUnseen
<1>4. CASE run.logged = runs[r].logged + 1 /\ runs[r].kind = "training"
  <2>0. runs[r].kind = "training" /\ runs[r].event = 0 /\ runs[r].logged # LogCalls
    BY <1>1, <1>2, <1>4
  <2>1. Stored(runs[r]) = Store!Tagged("none", FALSE, 0)
    BY <2>0 DEF Stored, Store!Tagged
  <2>2. run.kind = "training" /\ run.event = 0
    BY <1>0, <1>1, <1>4
  <2>3. CASE run.logged = LogCalls
    <3>1. Stored(run) = Store!Tagged("none", TRUE, 0)
      BY <2>2, <2>3 DEF Stored, Store!Tagged
    <3> QED BY <1>0, <1>1, <2>1, <3>1, ChangeSeen DEF Seen
  <2>4. CASE run.logged # LogCalls
    <3>1. Stored(run) = Store!Tagged("none", FALSE, 0)
      BY <2>2, <2>4 DEF Stored, Store!Tagged
    <3> QED BY <1>0, <1>1, <2>1, <3>1, ChangeSeen DEF Seen
  <2> QED BY <2>3, <2>4
<1>5. CASE run.logged = runs[r].logged + 1 /\ runs[r].kind = "check"
  <2>1. PICK event \in 1..MaxEvents : runs[r].event = event
    <3>1. runs[r].event \in DOMAIN events /\ Len(events) <= MaxEvents
      BY <1>1, <1>5 DEF RunInv, StoreInv
    <3> QED BY <1>1, <3>1, RegistryAssumption
  <2>2. run.kind = "check" /\ run.event = event /\ run.logged # 0
    BY <1>0, <1>2, <1>5, <2>1
  <2>3. Stored(run) = Store!Tagged("drift_check", FALSE, event)
    BY <2>2 DEF Stored, Store!Tagged
  <2>4. CASE runs[r].logged = 0
    <3>1. Stored(runs[r]) = Store!Tagged("none", FALSE, 0)
      BY <1>5, <2>4 DEF Stored, Store!Tagged
    <3> QED BY <1>0, <1>1, <2>3, <3>1, ChangeSeen DEF Seen
  <2>5. CASE runs[r].logged # 0
    <3>1. Stored(runs[r]) = Store!Tagged("drift_check", FALSE, event)
      BY <1>5, <2>1, <2>5 DEF Stored, Store!Tagged
    <3> QED BY <1>0, <1>1, <2>3, <3>1, ChangeSeen DEF Seen
  <2> QED BY <2>4, <2>5
<1> QED BY <1>0, <1>1, <1>3, <1>4, <1>5 DEF KindOf

LEMMA TrainingStepSeen ==
  ASSUME CInv, NEW j \in Jobs, TrainingStep(j), UNCHANGED registryVars
  PROVE  Seen
<1>1. UNCHANGED <<versions, production>>
  BY DEF registryVars
<1>2. KindOf(j) \in Kinds
  BY DEF KindOf, Kinds
<1>3. CASE OpenRun(j)
  BY <1>1, <1>2, <1>3, RunCreated DEF OpenRun
<1>4. CASE OpenRunFails(j)
  BY <1>1, <1>2, <1>4, RunCreated, RunsUntouched DEF OpenRunFails, CreateRunFails
<1>5. CASE LogCall(j)
  <2>0. PICK r : r = active[j].inner
    OBVIOUS
  <2> DEFINE logged == runs[r].logged + 1
             run == [runs[r] EXCEPT !.logged = logged]
  <2>1. runs' = [runs EXCEPT ![active[j].inner] = run]
    BY <1>5, <2>0 DEF LogCall
  <2>2. pc[j] = "log" /\ runs[r] \in Run /\ runs[r].logged < LogCalls
    BY <1>5, <2>0, LogsOwnRun DEF LogCall
  <2> HIDE DEF logged
  <2>3. run.kind = runs[r].kind /\ run.event = runs[r].event /\ run.logged = logged
    BY <2>2 DEF Run
  <2> HIDE DEF run
  <2> QED BY <1>1, <2>0, <2>1, <2>2, <2>3, LogSeen DEF logged
<1>6. CASE LogCallFails(j)
  <2>0. PICK r : r = active[j].inner
    OBVIOUS
  <2>1. PICK status \in {"FAILED", "RUNNING"}, logged \in {runs[r].logged, runs[r].logged + 1} :
           runs' = [runs EXCEPT ![r] = [runs[r] EXCEPT !.status = status, !.logged = logged]]
    BY <1>6, <2>0 DEF LogCallFails
  <2> DEFINE run == [runs[r] EXCEPT !.status = status, !.logged = logged]
  <2>2. pc[j] = "log" /\ runs[r] \in Run /\ runs[r].logged < LogCalls
    BY <1>6, <2>0, LogsOwnRun DEF LogCallFails
  <2>3. run.kind = runs[r].kind /\ run.event = runs[r].event /\ run.logged = logged
    BY <2>2 DEF Run
  <2>4. runs' = [runs EXCEPT ![active[j].inner] = run]
    BY <2>0, <2>1
  <2> HIDE DEF run
  <2> QED BY <1>1, <2>0, <2>1, <2>2, <2>3, <2>4, LogSeen
<1>7. ASSUME NEW status, pc[j] = "log", runs' = [runs EXCEPT ![active[j].inner].status = status]
      PROVE  Seen
  <2>0. PICK r : r = active[j].inner
    OBVIOUS
  <2> DEFINE run == [runs[r] EXCEPT !.status = status]
  <2>1. r \in DOMAIN runs /\ runs[r] \in Run
    BY <1>7, <2>0, LogsOwnRun
  <2>2. run.kind = runs[r].kind /\ run.event = runs[r].event /\ run.logged = runs[r].logged
    BY <2>1 DEF Run
  <2>3. runs' = [runs EXCEPT ![r] = run]
    BY <1>7, <2>0
  <2> HIDE DEF run
  <2> QED BY <1>1, <2>1, <2>2, <2>3, EndUnseen
<1>8. CASE CloseRun(j) \/ CloseRunFails(j)
  BY <1>7, <1>8 DEF CloseRun, CloseRunFails
<1>9. CASE Exit(j)
  <2>1. OpenRunOwned(j) /\ TypeOK
    BY Apart DEF JobInv
  <2>2. CASE UNCHANGED runs
    BY <1>1, <2>2, RunsUntouched
  <2>3. CASE active[j].study # 0 /\ runs' = [runs EXCEPT ![active[j].study].status = "FINISHED"]
    <3>0. PICK r : r = active[j].study
      OBVIOUS
    <3> DEFINE run == [runs[r] EXCEPT !.status = "FINISHED"]
    <3>1. r \in DOMAIN runs /\ runs[r] \in Run
      BY <2>1, <2>3, <3>0 DEF OpenRunOwned, TypeOK
    <3>2. run.kind = runs[r].kind /\ run.event = runs[r].event /\ run.logged = runs[r].logged
      BY <3>1 DEF Run
    <3>3. runs' = [runs EXCEPT ![r] = run]
      BY <2>3, <3>0
    <3> HIDE DEF run
    <3> QED BY <1>1, <3>1, <3>2, <3>3, EndUnseen
  <2>4. active[j].inner = 0
    BY <1>9, <2>1 DEF OpenRunOwned, Exit
  <2> QED BY <1>9, <2>2, <2>3, <2>4 DEF Exit
<1>10. CASE Train(j) \/ TrainFails(j) \/ SavePlain(j) \/ Kill(j)
            \/ \E config \in Configs, lines \in Lines : StartTrain(j, config, lines)
  BY <1>1, <1>10, RunsUntouched DEF Train, TrainFails, SavePlain, Kill, StartTrain
<1> QED
  BY <1>3, <1>4, <1>5, <1>6, <1>8, <1>9, <1>10 DEF TrainingStep

LEMMA OptimizationStepSeen ==
  ASSUME CInv, NEW j \in Jobs, OptimizationStep(j), UNCHANGED registryVars
  PROVE  Seen
<1>1. UNCHANGED <<versions, production>>
  BY DEF registryVars
<1>2. "study" \in Kinds /\ "trial" \in Kinds /\ LastCompleted(j) \in BOOLEAN
  BY DEF Kinds, LastCompleted
<1>3. OpenRunOwned(j) /\ TypeOK
  BY Apart DEF JobInv
<1>4. CASE EnterStudy(j) \/ EnterStudyLeaks(j) \/ OpenTrial(j)
  BY <1>1, <1>2, <1>4, RunCreated DEF EnterStudy, EnterStudyLeaks, OpenTrial
<1>5. CASE EnterStudyFails(j) \/ OpenTrialFails(j)
  BY <1>1, <1>2, <1>5, RunCreated, RunsUntouched
  DEF EnterStudyFails, OpenTrialFails, CreateRunFails
<1>6. CASE CloseTrial(j)
  <2>0. PICK r : r = active[j].inner
    OBVIOUS
  <2>1. PICK logged \in {0, LogCalls}, status \in {EndedAsTrial(j), "RUNNING"} :
           runs' = [runs EXCEPT ![r] = [@ EXCEPT !.status = status, !.logged = logged]]
    BY <1>6, <2>0 DEF CloseTrial
  <2> DEFINE run == [runs[r] EXCEPT !.status = status, !.logged = logged]
  <2>2. r \in DOMAIN runs /\ runs[r] \in Run /\ runs[r].kind = "trial"
    BY <1>3, <1>6, <2>0 DEF CloseTrial, OpenRunOwned, TypeOK
  <2>3. run.kind = runs[r].kind /\ run.event = runs[r].event
    BY <2>2 DEF Run
  <2>4. runs' = [runs EXCEPT ![r] = run]
    BY <2>1
  <2> HIDE DEF run
  <2> QED BY <1>1, <2>2, <2>3, <2>4, EndUnseen
<1>7. CASE CloseStudy(j)
  <2>1. CASE UNCHANGED runs
    BY <1>1, <2>1, RunsUntouched
  <2>2. CASE job[j].tracker # 0
    <3>0. PICK r : r = active[j].study
      OBVIOUS
    <3>1. PICK status : runs' = [runs EXCEPT ![r].status = status]
      BY <1>7, <2>2, <3>0 DEF CloseStudy
    <3> DEFINE run == [runs[r] EXCEPT !.status = status]
    <3>2. r \in DOMAIN runs /\ runs[r] \in Run
      BY <1>3, <1>7, <2>2, <3>0 DEF CloseStudy, OpenRunOwned, Studying, TypeOK
    <3>3. run.kind = runs[r].kind /\ run.event = runs[r].event /\ run.logged = runs[r].logged
      BY <3>2 DEF Run
    <3>4. runs' = [runs EXCEPT ![r] = run]
      BY <3>1
    <3> HIDE DEF run
    <3> QED BY <1>1, <3>2, <3>3, <3>4, EndUnseen
  <2> QED BY <1>7, <2>1, <2>2 DEF CloseStudy
<1>8. CASE RunTrial(j) \/ RaiseInStudy(j) \/ FinishStudy(j) \/ SaveBaseline(j) \/ SaveTuned(j)
           \/ \E config \in Configs, lines \in Lines : StartOptimize(j, config, lines)
  BY <1>1, <1>8, RunsUntouched
  DEF RunTrial, RaiseInStudy, FinishStudy, SaveBaseline, SaveTuned, StartOptimize
<1> QED BY <1>4, <1>5, <1>6, <1>7, <1>8 DEF OptimizationStep

LEMMA RetrainingStepSeen ==
  ASSUME CInv, NEW j \in Jobs, RetrainingStep(j)
  PROVE  Seen
<1>1. /\ TypeOK /\ StoreInv /\ CandidateSound(j) /\ HandsApart(j) /\ JobOrdered(j)
      /\ WindowSound(j)
  BY Apart DEF JobInv
<1>2. DOMAIN Held = DOMAIN runs /\ \A i \in DOMAIN runs : Held[i] = Stored(runs[i])
  BY DEF Held
<1>3. ASSUME job[j].candidate.run # 0
      PROVE  /\ job[j].candidate.run \in DOMAIN Held
             /\ Held[job[j].candidate.run].model
  <2>0. PICK r : r = job[j].candidate.run
    OBVIOUS
  <2>1. r \in DOMAIN runs /\ runs[r].kind = "training" /\ runs[r].logged = LogCalls
    BY <1>1, <1>3, <2>0 DEF CandidateSound, TrainingRuns, Complete
  <2>2. Stored(runs[r]).model
    BY <2>1 DEF Stored
  <2> QED BY <1>2, <2>0, <2>1, <2>2
<1>4. CASE TagCandidate(j)
  <2>0. PICK r : r = job[j].candidate.run
    OBVIOUS
  <2>1. CASE UNCHANGED runs
    BY <1>4, <2>1, RunsUntouched DEF TagCandidate, registryVars
  <2>2. CASE r # 0 /\ runs' = [runs EXCEPT ![r].event = job[j].event]
    <3> DEFINE run == [runs[r] EXCEPT !.event = job[j].event]
    <3>1. /\ r \in DOMAIN runs /\ runs[r] \in Run /\ runs[r].kind = "training"
          /\ runs[r].logged = LogCalls /\ runs[r].event = 0
      BY <1>1, <1>4, <2>0, <2>2
      DEF TagCandidate, CandidateSound, HandsApart, InHand, TrainingRuns, Complete, TypeOK
    <3>2. PICK event \in 1..MaxEvents : job[j].event = event
      <4>1. job[j].event \in DOMAIN events /\ Len(events) <= MaxEvents
        BY <1>1, <1>4 DEF TagCandidate, JobOrdered, WindowSound, StoreInv
      <4> QED BY <1>1, <4>1, RegistryAssumption DEF TypeOK
    <3>3. /\ run.kind = "training" /\ run.logged = LogCalls /\ run.event = event /\ event # 0
      BY <3>1, <3>2 DEF Run
    <3>4. runs' = [runs EXCEPT ![r] = run]
      BY <2>2
    <3> HIDE DEF run
    <3>5. Stored(runs[r]) = Store!Tagged("none", TRUE, 0)
      BY <3>1 DEF Stored, Store!Tagged
    <3>6. Stored(run) = Store!Tagged("retraining_candidate", TRUE, event)
      BY <3>3 DEF Stored, Store!Tagged
    <3>7. UNCHANGED <<versions, production>>
      BY <1>4 DEF TagCandidate, registryVars
    <3> QED BY <3>1, <3>4, <3>5, <3>6, <3>7, ChangeSeen DEF Seen
  <2> QED BY <1>4, <2>0, <2>1, <2>2 DEF TagCandidate, TaggedRun
<1>5. ASSUME job[j].candidate.run # 0, versions' = Append(versions, job[j].candidate.run),
             UNCHANGED <<runs, production>>
      PROVE  Seen
  <2>1. Held' = Held
    BY <1>5 DEF Held
  <2>2. Store!RegisterRun(job[j].candidate.run)
    BY <1>3, <1>5, <2>1 DEF Held, Store!RegisterRun
  <2> QED BY <1>3, <1>5, <2>2 DEF Held, Store!StoreNext, Seen
<1>6. CASE RegisterModel(j) \/ RegisterModelFails(j)
  BY <1>5, <1>6, RunsUntouched DEF RegisterModel, RegisterModelFails
<1>7. CASE PointAlias(j) \/ PointAliasFails(j)
  <2>1. /\ UNCHANGED <<runs, versions>> /\ production' \in {production, job[j].version}
        /\ job[j].version \in DOMAIN versions
    <3>1. job[j].version \in 0..Len(versions) /\ job[j].version # 0 /\ versions \in Seq(Nat)
      BY <1>1, <1>7 DEF PointAlias, PointAliasFails, CandidateSound, TypeOK
    <3> QED BY <1>7, <3>1 DEF PointAlias, PointAliasFails
  <2>2. CASE production' = production
    BY <2>1, <2>2, RunsUntouched
  <2>3. CASE production' = job[j].version
    <3>1. Held' = Held
      BY <2>1 DEF Held
    <3>2. Store!MoveAlias(job[j].version)
      BY <2>1, <2>3, <3>1 DEF Held, Store!MoveAlias
    <3> QED BY <2>1, <3>2 DEF Store!StoreNext, Seen
  <2> QED BY <2>1, <2>2, <2>3
<1>8. CASE CheckDrift(j) \/ CheckFails(j) \/ SaveCheck(j) \/ LeaveAlone(j) \/ Retrain(j)
           \/ RefuseToRetrain(j) \/ SaveCandidate(j) \/ MetricsFromRegistry(j) \/ Bootstrap(j)
           \/ SaveBootstrap(j) \/ PassGates(j) \/ FinishUnregistered(j)
  BY <1>8, RunsUntouched
  DEF CheckDrift, CheckFails, SaveCheck, LeaveAlone, Retrain, RefuseToRetrain, SaveCandidate,
      MetricsFromRegistry, Bootstrap, SaveBootstrap, PassGates, FinishUnregistered, registryVars
<1>9. ASSUME NEW config \in Configs, NEW lines \in Lines,
             \/ StartCheck(j, "drift", config, lines, FALSE)
             \/ StartPromote(j, config, lines)
             \/ \E force \in BOOLEAN :
                   \/ StartCheck(j, "retrain", config, lines, force)
                   \/ \E event \in 1..Len(events) : StartReplay(j, config, lines, force, event)
      PROVE  Seen
  BY <1>9, RunsUntouched DEF StartCheck, StartPromote, StartReplay, registryVars
<1> QED BY <1>4, <1>6, <1>7, <1>8, <1>9 DEF RetrainingStep

\* The commands keep what TrackingStore promises those who only read the tracking
\* server and the registry: each step is one of its steps, or none
\* (log_run_record, _tag_candidate, register_candidate).
THEOREM CycleImplementsStore == Spec => ImplementsStore
<1>1. Init => Store!StoreInit
  <2>1. Init => Held = <<>>
    <3>1. ASSUME Init PROVE DOMAIN runs = {} /\ Held = [i \in 1..0 |-> Stored(runs[i])]
      BY <3>1 DEF Init, Held
    <3>2. ASSUME Init PROVE Held = [i \in {} |-> Stored(runs[i])]
      BY <3>1, <3>2 DEF Held
    <3>3. <<>> = [i \in {} |-> Stored(runs[i])]
      OBVIOUS
    <3> QED BY <3>2, <3>3
  <2> QED BY <2>1 DEF Init, Held, Store!StoreInit
<1>2. CInv /\ Next => Seen
  BY TrainingStepSeen, OptimizationStepSeen, RetrainingStepSeen DEF Next
<1>3. UNCHANGED vars => Seen
  BY RunsUntouched DEF vars, trainingVars, registryVars
<1>4. CInv /\ [Next]_vars => [Store!StoreNext]_(Store!storeVars)
  BY <1>2, <1>3 DEF Seen
<1> QED BY <1>1, <1>4, CycleInvariant, PTL DEF Spec, ImplementsStore, Store!StoreSpec
=============================================================================

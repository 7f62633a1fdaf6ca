-------------------------- MODULE PlatformViewProofs -------------------------
(***************************************************************************)
(* Proofs about PlatformView for any number of handlers, any search limits *)
(* and any number of runs, versions and drift events.                      *)
(***************************************************************************)
EXTENDS PlatformView, FiniteSetTheorems, WellFoundedInduction, TLAPS

(* What a page must satisfy by itself, given the store. *)
PageOk(p) ==
    /\ Ordered(p) /\ VersionsKept(p) /\ ReadsSound(p)
    /\ NamesProduction(p) /\ ShowsRegistration(p) /\ CountsUnregistered(p)
    /\ Shown(p, "drift") => JoinsItsCheck(p)

\* The invariant page by page.
LEMMA PageWise ==
  ViewInv <=> TypeOK /\ StoreSound /\ \A t \in Handlers : PageOk(page[t])
BY DEF ViewInv, PagesSound, ProductionShownWasNamed, RegistrationShownTruthfully,
       DenominatorIsHonest, RetrainingJoinsItsCheck, PageOk

\* Its parts of a typed page.
LEMMA PageTyped ==
  ASSUME TypeOK, NEW t \in Handlers
  PROVE  page[t] \in Page
BY DEF TypeOK

(* Facts about the searches. *)

\* A set of natural numbers that is not empty has a smallest.
LEMMA Smallest ==
  ASSUME NEW T, T \subseteq Nat, T # {}
  PROVE  \E x \in T : \A y \in T : x <= y
<1> DEFINE R == OpToRel(<, Nat)
<1>1. \E x \in T : \A y \in T : ~ (<<y, x>> \in R)
  <2>1. IsWellFoundedOn(R, Nat)
    BY NatLessThanWellFounded, Zenon
  <2> HIDE DEF R
  <2> QED BY <2>1, WFMin
<1>2. \A x, y \in Nat : y < x => <<y, x>> \in R
  BY DEF OpToRel
<1> HIDE DEF R
<1>3. PICK x \in T : \A y \in T : ~ (<<y, x>> \in R)
  BY <1>1
<1>4. \A y \in T : ~ (y < x)
  BY <1>2, <1>3
<1>5. \A y \in T : y \in Nat /\ x \in Nat
  BY <1>3
<1>6. \A y \in T : x <= y
  BY <1>4, <1>5
<1> QED BY <1>3, <1>6

\* A set of runs that is not empty has a newest one.
LEMMA MaxIsMember ==
  ASSUME NEW n \in Nat, NEW S, S \subseteq 1..n, S # {}
  PROVE  Max(S) \in S
<1> DEFINE ages == {n - i : i \in S}
<1>1. ages \subseteq Nat
  <2> SUFFICES ASSUME NEW i \in S PROVE n - i \in Nat
    OBVIOUS
  <2>1. i \in 1..n
    OBVIOUS
  <2> QED BY <2>1
<1>2. ages # {}
  OBVIOUS
<1> HIDE DEF ages
<1>3. PICK a \in ages : \A b \in ages : a <= b
  BY <1>1, <1>2, Smallest
<1>4. PICK i \in S : a = n - i
  BY <1>3 DEF ages
<1>5. \A k \in S : n - i <= n - k
  BY <1>3, <1>4 DEF ages
<1>6. \A k \in S : k \in Nat /\ i \in Nat
  OBVIOUS
<1>7. \A k \in S : i >= k
  BY <1>5, <1>6
<1>8. \E m \in S : \A k \in S : m >= k
  BY <1>4, <1>7
<1> QED BY <1>8 DEF Max

\* A limit cuts off only what is older, and never the newest.
LEMMA NewestSubset ==
  ASSUME NEW limit, NEW chosen
  PROVE  Newest(limit, chosen) \subseteq chosen
BY DEF Newest

\* What a limit still lets through after more was chosen, it let through before.
LEMMA NewestShrinks ==
  ASSUME NEW n \in Nat, NEW limit \in Nat,
         NEW old \in SUBSET (1..n), NEW new \in SUBSET (1..n), old \subseteq new,
         NEW i \in old, i \in Newest(limit, new)
  PROVE  i \in Newest(limit, old)
<1> DEFINE before == {k \in old : k > i}
           after == {k \in new : k > i}
<1>1. IsFiniteSet(1..n)
  BY FS_Interval
<1>2. IsFiniteSet(after)
  <2>1. after \in SUBSET (1..n)
    OBVIOUS
  <2> QED BY <1>1, <2>1, FS_Subset
<1>3. before \in SUBSET after
  OBVIOUS
<1>4. IsFiniteSet(before) /\ Cardinality(before) <= Cardinality(after)
  BY <1>2, <1>3, FS_Subset
<1>5. Cardinality(before) \in Nat /\ Cardinality(after) \in Nat
  BY <1>2, <1>4, FS_CardinalityType
<1>6. Cardinality(after) < limit
  BY DEF Newest
<1>7. Cardinality(before) < limit
  BY <1>4, <1>5, <1>6
<1> QED BY <1>7 DEF Newest

(* What the writes of others keep. *)

Kept(old, new) ==
    /\ old.model => new.model
    /\ old.event # 0 => new.event = old.event
    /\ old.type # "none" => new.type = old.type

Grown ==
    /\ runs' \in Seq(Run) /\ versions' \in Seq(Nat) /\ production' \in Nat
    /\ Len(runs) <= Len(runs')
    /\ \A i \in 1..Len(runs) : Kept(runs[i], runs'[i])
    /\ Len(versions) <= Len(versions')
    /\ \A v \in 1..Len(versions) : versions'[v] = versions[v]

\* What StoreSound says of one run.
RunSound(run) ==
    /\ run.type \in {"drift_check", "study"} => ~run.model
    /\ run.type = "drift_check" => run.event # 0
    /\ run.model /\ run.event # 0 => run.type = "retraining_candidate"

\* A new run starts blank but for its type.
LEMMA StartRunKeeps ==
  ASSUME TypeOK, StoreSound, NEW type \in {"none", "study"}, StartRun(type)
  PROVE  Grown /\ StoreSound'
<1> DEFINE run == Tagged(type, FALSE, 0)
<1>1. run \in Run /\ RunSound(run)
  BY DEF Run, Types, Tagged, RunSound
<1>2. runs \in Seq(Run) /\ runs' = Append(runs, run)
  BY DEF TypeOK, StartRun
<1> HIDE DEF run
<1>3. /\ runs' \in Seq(Run) /\ Len(runs') = Len(runs) + 1 /\ Len(runs) \in Nat
      /\ \A i \in 1..Len(runs) : runs'[i] = runs[i]
      /\ runs'[Len(runs) + 1] = run
  BY <1>1, <1>2
<1>4. versions' = versions /\ production' = production
  BY DEF StartRun
<1>5. Grown
  BY <1>3, <1>4 DEF Grown, Kept, TypeOK
<1>6. \A i \in 1..Len(runs') : RunSound(runs'[i])
  <2> SUFFICES ASSUME NEW i \in 1..Len(runs') PROVE RunSound(runs'[i])
    OBVIOUS
  <2>1. CASE i \in 1..Len(runs)
    BY <1>2, <1>3, <2>1 DEF StoreSound, RunSound
  <2>2. CASE i = Len(runs) + 1
    BY <1>1, <1>3, <2>2
  <2> QED BY <1>3, <2>1, <2>2
<1>7. \A v \in DOMAIN versions : versions[v] \in DOMAIN runs' /\ runs'[versions[v]].model
  BY <1>2, <1>3 DEF StoreSound
<1>8. DOMAIN runs' = 1..Len(runs')
  BY <1>3
<1> QED BY <1>4, <1>5, <1>6, <1>7, <1>8 DEF StoreSound, RunSound

\* One run is marked, and keeps the marks it had.
LEMMA MarkKeeps ==
  ASSUME TypeOK, StoreSound, NEW i \in DOMAIN runs, NEW run \in Run, Mark(i, run),
         Kept(runs[i], run), RunSound(run)
  PROVE  Grown /\ StoreSound'
<1>1. runs \in Seq(Run) /\ runs' = [runs EXCEPT ![i] = run]
  BY DEF TypeOK, Mark
<1>2. /\ runs' \in Seq(Run) /\ Len(runs') = Len(runs) /\ Len(runs) \in Nat
      /\ DOMAIN runs' = DOMAIN runs /\ DOMAIN runs = 1..Len(runs)
      /\ \A k \in DOMAIN runs : runs'[k] = IF k = i THEN run ELSE runs[k]
  BY <1>1
<1>3. versions' = versions /\ production' = production
  BY DEF Mark
<1>4. \A k \in DOMAIN runs : Kept(runs[k], runs'[k])
  BY <1>2 DEF Kept
<1>5. Grown
  BY <1>2, <1>3, <1>4 DEF Grown, TypeOK
<1>6. \A k \in DOMAIN runs : RunSound(runs'[k])
  BY <1>2 DEF StoreSound, RunSound
<1>7. \A v \in DOMAIN versions : versions[v] \in DOMAIN runs' /\ runs'[versions[v]].model
  BY <1>2, <1>4 DEF StoreSound, Kept
<1> QED BY <1>2, <1>3, <1>5, <1>6, <1>7 DEF StoreSound, RunSound

\* A version of a run that produced a model.
LEMMA RegisterRunKeeps ==
  ASSUME TypeOK, StoreSound, NEW i \in DOMAIN runs, RegisterRun(i)
  PROVE  Grown /\ StoreSound'
<1>1. versions \in Seq(Nat) /\ versions' = Append(versions, i) /\ i \in Nat
  BY DEF TypeOK, RegisterRun
<1>2. /\ versions' \in Seq(Nat) /\ Len(versions') = Len(versions) + 1
      /\ Len(versions) \in Nat
      /\ \A v \in 1..Len(versions) : versions'[v] = versions[v]
      /\ versions'[Len(versions) + 1] = i
  BY <1>1
<1>3. runs' = runs /\ production' = production /\ runs[i].model
  BY DEF RegisterRun
<1>4. Grown
  BY <1>2, <1>3 DEF Grown, Kept, TypeOK
<1>5. \A v \in 1..Len(versions') : versions'[v] \in DOMAIN runs /\ runs[versions'[v]].model
  <2> SUFFICES ASSUME NEW v \in 1..Len(versions')
               PROVE  versions'[v] \in DOMAIN runs /\ runs[versions'[v]].model
    OBVIOUS
  <2>1. CASE v \in 1..Len(versions)
    BY <1>1, <1>2, <2>1 DEF StoreSound
  <2>2. CASE v = Len(versions) + 1
    BY <1>2, <1>3, <2>2
  <2> QED BY <1>2, <2>1, <2>2
<1>6. DOMAIN versions' = 1..Len(versions') /\ production \in 0..Len(versions')
  BY <1>2 DEF StoreSound
<1> QED BY <1>3, <1>4, <1>5, <1>6 DEF StoreSound

\* The alias moves to a version that exists.
LEMMA MoveAliasKeeps ==
  ASSUME TypeOK, StoreSound, NEW version \in DOMAIN versions, MoveAlias(version)
  PROVE  Grown /\ StoreSound'
<1>1. versions \in Seq(Nat) /\ DOMAIN versions = 1..Len(versions) /\ Len(versions) \in Nat
  BY DEF TypeOK
<1> QED BY <1>1 DEF MoveAlias, Grown, Kept, TypeOK, StoreSound

\* Whatever others write, the store stays sound and loses nothing.
LEMMA StoreGrows ==
  ASSUME TypeOK, StoreSound, StoreNext
  PROVE  Grown /\ StoreSound'
<1>0. \A i \in DOMAIN runs : runs[i] \in Run /\ RunSound(runs[i])
  BY DEF TypeOK, StoreSound, RunSound
<1>1. ASSUME NEW type \in {"none", "study"}, StartRun(type) PROVE Grown /\ StoreSound'
  BY <1>1, StartRunKeeps
<1>2. ASSUME NEW i \in DOMAIN runs, MarkModel(i) PROVE Grown /\ StoreSound'
  <2> DEFINE run == Tagged("none", TRUE, 0)
  <2>1. Mark(i, run) /\ runs[i] = Blank
    BY <1>2 DEF MarkModel
  <2>2. run \in Run /\ Kept(runs[i], run) /\ RunSound(run)
    BY <2>1 DEF Blank, Tagged, Run, Types, Kept, RunSound
  <2> HIDE DEF run
  <2> QED BY <2>1, <2>2, MarkKeeps
<1>3. ASSUME NEW i \in DOMAIN runs, MarkCandidate(i) PROVE Grown /\ StoreSound'
  <2> DEFINE run == Tagged("retraining_candidate", TRUE, runs[i].event)
  <2>1. run \in Run /\ Kept(runs[i], run) /\ RunSound(run)
    BY <1>0, <1>3 DEF MarkCandidate, Tagged, Run, Types, Kept, RunSound
  <2>2. Mark(i, run)
    BY <1>3 DEF MarkCandidate
  <2> HIDE DEF run
  <2> QED BY <2>1, <2>2, MarkKeeps
<1>4. ASSUME NEW i \in DOMAIN runs, RegisterRun(i) PROVE Grown /\ StoreSound'
  BY <1>4, RegisterRunKeeps
<1>5. ASSUME NEW i \in DOMAIN runs, NEW event \in Events, MarkCheck(i, event)
      PROVE  Grown /\ StoreSound'
  <2> DEFINE run == Tagged("drift_check", FALSE, event)
  <2>2. Mark(i, run) /\ runs[i] = Blank
    BY <1>5 DEF MarkCheck
  <2>1. run \in Run /\ Kept(runs[i], run) /\ RunSound(run)
    BY <2>2, EventsAssumption DEF Blank, Tagged, Run, Types, Kept, RunSound
  <2> HIDE DEF run
  <2> QED BY <2>1, <2>2, MarkKeeps
<1>6. ASSUME NEW i \in DOMAIN runs, NEW event \in Events, LinkCandidate(i, event)
      PROVE  Grown /\ StoreSound'
  <2> DEFINE run == Tagged("retraining_candidate", TRUE, event)
  <2>1. run \in Run /\ Kept(runs[i], run) /\ RunSound(run)
    BY <1>0, <1>6 DEF LinkCandidate, Tagged, Run, Types, Kept, RunSound
  <2>2. Mark(i, run)
    BY <1>6 DEF LinkCandidate
  <2> HIDE DEF run
  <2> QED BY <2>1, <2>2, MarkKeeps
<1>7. ASSUME NEW version \in DOMAIN versions, MoveAlias(version) PROVE Grown /\ StoreSound'
  BY <1>7, MoveAliasKeeps
<1> QED BY <1>1, <1>2, <1>3, <1>4, <1>5, <1>6, <1>7 DEF StoreNext

(* What a handler's own reads keep. *)

\* The invariant after a step, page by page.
LEMMA PageWiseNext ==
  ASSUME TypeOK', StoreSound', \A x \in Handlers : PageOk(page[x])'
  PROVE  ViewInv'
BY DEF ViewInv, PagesSound, ProductionShownWasNamed, RegistrationShownTruthfully,
       DenominatorIsHonest, RetrainingJoinsItsCheck, PageOk

\* A read changes one page; the others stand as the store does.
LEMMA ReadKeeps ==
  ASSUME ViewInv, NEW t \in Handlers, NEW at, NEW result \in Page,
         Read(t, at, result), PageOk(result)
  PROVE  ViewInv'
<1>1. /\ page' = [page EXCEPT ![t] = result] /\ UNCHANGED storeVars
      /\ page \in [Handlers -> Page] /\ TypeOK /\ StoreSound
  BY DEF Read, ViewInv, TypeOK
<1>2. TypeOK' /\ StoreSound'
  BY <1>1 DEF TypeOK, StoreSound, storeVars
<1>3. \A x \in Handlers : PageOk(page'[x])
  BY <1>1, PageWise
<1>4. \A x \in Handlers : PageOk(page[x])'
  BY <1>1, <1>3
     DEF storeVars, PageOk, Ordered, VersionsKept, ReadsSound, NamesProduction,
         ShowsRegistration, CountsUnregistered, LinkIsTrue, NoneMissed, JoinsItsCheck,
         Shown, WasListed, Listed, Recent, OfType, Newest
<1> QED BY <1>2, <1>4, PageWiseNext

\* What holds of the page a handler is at.
LEMMA AtPage ==
  ASSUME ViewInv, NEW t \in Handlers
  PROVE  page[t] \in Page /\ PageOk(page[t]) /\ TypeOK /\ StoreSound
BY PageWise, PageTyped

\* A request is taken up.
LEMMA AskKeeps ==
  ASSUME ViewInv, NEW t \in Handlers, NEW endpoint \in Endpoints \ {"none"},
         NEW first \in Labels, Ask(t, endpoint, first),
         <<endpoint, first>> \in {<<"model", "alias">>, <<"promotions", "versions">>,
                                  <<"drift", "check">>, <<"events", "registered">>}
  PROVE  ViewInv'
<1> DEFINE r == Fresh(endpoint, first)
<1>1. TypeOK /\ StoreSound
  BY AtPage
<1>2. Read(t, page[t].at, r)
  BY DEF Ask, Read
<1>3. /\ r.endpoint = endpoint /\ r.at = first /\ ~r.available /\ ~r.lost
      /\ r.registered = <<>> /\ r.named = 0 /\ r.marked = {} /\ r.check = 0
      /\ r.candidate = 0 /\ ~r.linked /\ r.promoted = {} /\ r.other = {}
      /\ r.since.versions = Len(versions) /\ r.since.named = {production}
      /\ r.since.tagged = {i \in DOMAIN runs : AskedFor(endpoint, runs[i])}
  BY DEF Fresh, Empty
<1>4. r \in Page
  <2>1. Len(versions) \in Nat /\ {production} \in SUBSET Nat
    BY <1>1 DEF TypeOK
  <2>2. {i \in DOMAIN runs : AskedFor(endpoint, runs[i])} \in SUBSET Nat
    BY <1>1 DEF TypeOK
  <2>3. <<>> \in Seq(Nat)
    OBVIOUS
  <2> QED BY <2>1, <2>2, <2>3 DEF Fresh, Empty, Page
<1> HIDE DEF r
<1>5. Ordered(r)
  BY <1>3 DEF Ordered
<1>6. VersionsKept(r)
  BY <1>1, <1>3 DEF VersionsKept, TypeOK
<1>7. ReadsSound(r)
  BY <1>1, <1>3 DEF ReadsSound, AskedFor
<1>8. PageOk(r)
  BY <1>3, <1>5, <1>6, <1>7
     DEF PageOk, NamesProduction, ShowsRegistration, CountsUnregistered, Shown
<1> QED BY <1>2, <1>4, <1>8, ReadKeeps

\* Nothing is shown of what was asked for first and is not there.
LEMMA NothingOk ==
  ASSUME NEW p \in Page, PageOk(p), p.at \in {"alias", "versions", "check"}
  PROVE  [p EXCEPT !.at = "done"] \in Page /\ PageOk([p EXCEPT !.at = "done"])
<1> DEFINE r == [p EXCEPT !.at = "done"]
<1>1. /\ r \in Page /\ r.at = "done" /\ r.available = p.available /\ r.lost = p.lost
      /\ r.endpoint = p.endpoint /\ r.since = p.since /\ r.registered = p.registered
      /\ r.check = p.check
  BY DEF Page, Labels
<1> HIDE DEF r
<1>2. PageOk(r)
  BY <1>1 DEF PageOk, Ordered, VersionsKept, ReadsSound, NamesProduction,
              ShowsRegistration, CountsUnregistered, Shown
<1> QED BY <1>1, <1>2 DEF r

\* Nor is anything claimed of it when the read that fails is the last.
LEMMA FailedOk ==
  ASSUME NEW p \in Page, PageOk(p),
         p.at \in {"alias", "versions", "trained", "check", "candidates", "events"}
  PROVE  /\ [p EXCEPT !.at = "done", !.lost = TRUE] \in Page
         /\ PageOk([p EXCEPT !.at = "done", !.lost = TRUE])
<1> DEFINE r == [p EXCEPT !.at = "done", !.lost = TRUE]
<1>1. /\ r \in Page /\ r.at = "done" /\ r.lost /\ r.available = p.available
      /\ r.endpoint = p.endpoint /\ r.since = p.since /\ r.registered = p.registered
      /\ r.named = p.named /\ r.marked = p.marked /\ r.check = p.check
      /\ r.linked = p.linked /\ r.promoted = p.promoted /\ r.other = p.other
  BY DEF Page, Labels
<1> HIDE DEF r
<1>2. PageOk(r)
  BY <1>1 DEF PageOk, Ordered, VersionsKept, ReadsSound, NamesProduction,
              ShowsRegistration, CountsUnregistered, JoinsItsCheck, LinkIsTrue, Shown
<1> QED BY <1>1, <1>2 DEF r

\* The model page.
LEMMA ReadProductionKeeps ==
  ASSUME ViewInv, NEW t \in Handlers, ReadProduction(t)
  PROVE  ViewInv'
<1> DEFINE p == page[t]
           found == [p EXCEPT !.at = "done", !.available = TRUE, !.named = production]
<1>1. p \in Page /\ PageOk(p) /\ production \in Nat /\ p.at = "alias"
  BY AtPage DEF ReadProduction, Read, TypeOK
<1>2. \/ production # 0 /\ Read(t, "alias", found)
      \/ Read(t, "alias", [p EXCEPT !.at = "done"])
      \/ Read(t, "alias", [p EXCEPT !.at = "done", !.lost = TRUE])
  BY DEF ReadProduction, Done, Lost
<1> HIDE DEF p
<1>3. /\ found \in Page /\ found.at = "done" /\ found.available /\ found.named = production
      /\ found.endpoint = p.endpoint /\ found.since = p.since /\ found.lost = p.lost
      /\ found.registered = p.registered /\ found.check = p.check
  BY <1>1 DEF Page, Labels
<1> HIDE DEF found
<1>4. ASSUME production # 0 PROVE PageOk(found)
  BY <1>1, <1>3, <1>4 DEF PageOk, Ordered, VersionsKept, ReadsSound, NamesProduction,
                          ShowsRegistration, CountsUnregistered, Shown
<1> QED BY <1>1, <1>2, <1>3, <1>4, NothingOk, FailedOk, ReadKeeps

\* The versions, with or without their aliases.
LEMMA ReadVersionsKeeps ==
  ASSUME ViewInv, NEW t \in Handlers, ReadVersions(t)
  PROVE  ViewInv'
<1> DEFINE p == page[t]
           listed(shown) ==
              [p EXCEPT !.available = TRUE, !.registered = versions, !.named = shown,
                        !.marked = {shown} \ {0},
                        !.at = IF shown = 0 THEN "resolve" ELSE "trained"]
<1>1. /\ p \in Page /\ PageOk(p) /\ p.at = "versions"
      /\ production \in 0..Len(versions) /\ versions \in Seq(Nat) /\ Len(versions) \in Nat
      /\ DOMAIN versions = 1..Len(versions)
  BY AtPage DEF ReadVersions, Read, TypeOK, StoreSound
<1>2. \/ \E shown \in {0, production} : Read(t, "versions", listed(shown))
      \/ Read(t, "versions", [p EXCEPT !.at = "done"])
      \/ Read(t, "versions", [p EXCEPT !.at = "done", !.lost = TRUE])
  BY DEF ReadVersions, Done, Lost
<1> HIDE DEF p
<1>3. ASSUME NEW shown \in {0, production} PROVE listed(shown) \in Page /\ PageOk(listed(shown))
  <2> DEFINE r == listed(shown)
  <2>1. /\ r \in Page /\ r.at = (IF shown = 0 THEN "resolve" ELSE "trained")
        /\ r.available /\ r.named = shown /\ r.marked = {shown} \ {0}
        /\ r.registered = versions /\ r.endpoint = p.endpoint /\ r.since = p.since
        /\ r.lost = p.lost /\ r.check = p.check /\ r.linked = p.linked
        /\ r.promoted = p.promoted /\ r.other = p.other
    <3>1. /\ shown \in Nat /\ {shown} \ {0} \in SUBSET Nat
          /\ (IF shown = 0 THEN "resolve" ELSE "trained") \in Labels
      BY <1>1 DEF Labels
    <3> QED BY <1>1, <3>1 DEF Page
  <2> HIDE DEF listed
  <2>2. Ordered(r) /\ VersionsKept(r)
    BY <1>1, <2>1 DEF PageOk, Ordered, VersionsKept
  <2>3. ReadsSound(r)
    BY <1>1, <2>1 DEF PageOk, ReadsSound
  <2> QED BY <1>1, <2>1, <2>2, <2>3
          DEF PageOk, NamesProduction, ShowsRegistration, CountsUnregistered, Shown
<1> HIDE DEF listed
<1> QED BY <1>1, <1>2, <1>3, NothingOk, FailedOk, ReadKeeps

\* The alias, when the list does not show it.
LEMMA ResolveAliasKeeps ==
  ASSUME ViewInv, NEW t \in Handlers, ResolveAlias(t)
  PROVE  ViewInv'
<1> DEFINE p == page[t]
           found == [p EXCEPT !.named = production,
                              !.marked = {production} \cap DOMAIN p.registered,
                              !.at = "trained"]
           failed == [p EXCEPT !.at = "trained", !.lost = TRUE]
<1>1. p \in Page /\ PageOk(p) /\ p.at = "resolve" /\ production \in Nat
  BY AtPage DEF ResolveAlias, Read, TypeOK
<1>2. Read(t, "resolve", found) \/ Read(t, "resolve", failed)
  BY DEF ResolveAlias, Lost
<1> HIDE DEF p
<1>3. /\ found \in Page /\ found.at = "trained" /\ found.named = production
      /\ found.marked = {production} \cap DOMAIN p.registered
      /\ found.available = p.available /\ found.registered = p.registered
      /\ found.endpoint = p.endpoint /\ found.since = p.since /\ found.lost = p.lost
      /\ found.check = p.check
  <2>1. {production} \cap DOMAIN p.registered \in SUBSET Nat
    BY <1>1
  <2> QED BY <1>1, <2>1 DEF Page, Labels
<1>4. /\ failed \in Page /\ failed.at = "trained" /\ failed.lost
      /\ failed.named = p.named /\ failed.marked = p.marked
      /\ failed.available = p.available /\ failed.registered = p.registered
      /\ failed.endpoint = p.endpoint /\ failed.since = p.since /\ failed.check = p.check
  BY <1>1 DEF Page, Labels
<1> HIDE DEF found, failed
<1>5. PageOk(found)
  BY <1>1, <1>3 DEF PageOk, Ordered, VersionsKept, ReadsSound, NamesProduction,
                    ShowsRegistration, CountsUnregistered, Shown
<1>6. PageOk(failed)
  BY <1>1, <1>4 DEF PageOk, Ordered, VersionsKept, ReadsSound, NamesProduction,
                    ShowsRegistration, CountsUnregistered, Shown
<1> QED BY <1>2, <1>3, <1>4, <1>5, <1>6, ReadKeeps

\* What a page counted as unregistered was not listed when the request came.
LEMMA UnlistedThen ==
  ASSUME NEW p, VersionsKept(p), p.since.versions <= Len(p.registered),
         p.since.versions \in Nat, p.registered \in Seq(Nat), NEW i,
         ~Listed(i, p.registered)
  PROVE  ~WasListed(p, i)
BY DEF VersionsKept, Listed, WasListed

\* A version that was read is still registered.
LEMMA ListedStill ==
  ASSUME TypeOK, NEW p, VersionsKept(p), p.registered \in Seq(Nat), NEW i,
         Listed(i, p.registered)
  PROVE  Listed(i, versions)
BY DEF VersionsKept, Listed, TypeOK

\* The models trained, and which of them no version read comes from.
LEMMA ReadTrainedKeeps ==
  ASSUME ViewInv, NEW t \in Handlers, ReadTrained(t)
  PROVE  ViewInv'
<1> DEFINE p == page[t]
           unlisted == {i \in TrainingRuns(TrainedLimit) : ~Listed(i, p.registered)}
           found == [p EXCEPT !.at = "done", !.other = unlisted]
<1>1. p \in Page /\ PageOk(p) /\ p.at = "trained" /\ TypeOK
  BY AtPage DEF ReadTrained, Read
<1>2. \/ Read(t, "trained", found)
      \/ Read(t, "trained", [p EXCEPT !.at = "done", !.lost = TRUE])
  BY DEF ReadTrained, Done, Lost
<1>3. unlisted \in SUBSET Nat
  <2>1. TrainingRuns(TrainedLimit) \subseteq DOMAIN runs
    BY NewestSubset DEF TrainingRuns, Recent
  <2> QED BY <1>1, <2>1 DEF TypeOK
<1> HIDE DEF p
<1>4. \A i \in unlisted : runs[i].model /\ ~Listed(i, p.registered)
  BY DEF TrainingRuns
<1>5. \A i \in Recent(TrainedLimit) :
         runs[i].model => i \in unlisted \/ Listed(i, p.registered)
  BY DEF TrainingRuns
<1> HIDE DEF unlisted
<1>6. /\ found \in Page /\ found.at = "done" /\ found.other = unlisted
      /\ found.named = p.named /\ found.marked = p.marked
      /\ found.available = p.available /\ found.registered = p.registered
      /\ found.endpoint = p.endpoint /\ found.since = p.since /\ found.lost = p.lost
      /\ found.check = p.check
  BY <1>1, <1>3 DEF Page, Labels
<1> HIDE DEF found
<1>7. Ordered(found) /\ VersionsKept(found) /\ ReadsSound(found)
  BY <1>1, <1>6 DEF PageOk, Ordered, VersionsKept, ReadsSound
<1>8. CountsUnregistered(found)
  <2> SUFFICES ASSUME ~found.lost PROVE
        /\ \A i \in found.since.tagged \cap Recent(TrainedLimit) :
              Listed(i, versions) \/ i \in found.other
        /\ \A i \in found.other : runs[i].model /\ ~WasListed(found, i)
    BY DEF CountsUnregistered
  <2>1. found.since.versions <= Len(found.registered)
    BY <1>1, <1>6 DEF PageOk, VersionsKept
  <2>2. found.since.versions \in Nat /\ found.registered \in Seq(Nat)
    BY <1>6 DEF Page
  <2>3. \A i \in found.since.tagged : runs[i].model
    BY <1>7 DEF ReadsSound
  <2>4. \A i \in found.since.tagged \cap Recent(TrainedLimit) :
           Listed(i, versions) \/ i \in found.other
    BY <1>1, <1>5, <1>6, <1>7, <2>2, <2>3, ListedStill
  <2>5. \A i \in found.other : runs[i].model /\ ~WasListed(found, i)
    BY <1>4, <1>6, <1>7, <2>1, <2>2, UnlistedThen
  <2> QED BY <2>4, <2>5
<1>9. PageOk(found)
  BY <1>1, <1>6, <1>7, <1>8 DEF PageOk, Ordered, ReadsSound, NamesProduction,
                                ShowsRegistration, Shown
<1> QED BY <1>1, <1>2, <1>6, <1>9, FailedOk, ReadKeeps

\* The newest drift check.
LEMMA ReadCheckKeeps ==
  ASSUME ViewInv, NEW t \in Handlers, ReadCheck(t)
  PROVE  ViewInv'
<1> DEFINE p == page[t]
           checks == OfType("drift_check", 1)
           found == [p EXCEPT !.available = TRUE, !.check = Max(checks), !.at = "candidates"]
<1>1. p \in Page /\ PageOk(p) /\ p.at = "check" /\ TypeOK /\ StoreSound
  BY AtPage DEF ReadCheck, Read
<1>2. \/ checks # {} /\ Read(t, "check", found)
      \/ Read(t, "check", [p EXCEPT !.at = "done"])
      \/ Read(t, "check", [p EXCEPT !.at = "done", !.lost = TRUE])
  BY DEF ReadCheck, Done, Lost
<1>3. \A i \in checks : i \in DOMAIN runs /\ runs[i].type = "drift_check"
  BY NewestSubset DEF OfType
<1> HIDE DEF p, checks, found
<1>4. ASSUME checks # {} PROVE found \in Page /\ PageOk(found)
  <2>1. DOMAIN runs = 1..Len(runs) /\ Len(runs) \in Nat
    BY <1>1 DEF TypeOK
  <2>2. checks \subseteq 1..Len(runs)
    BY <1>3, <2>1
  <2>3. Max(checks) \in checks
    BY <1>4, <2>1, <2>2, MaxIsMember
  <2>4. Max(checks) \in Nat /\ Max(checks) \in DOMAIN runs
        /\ runs[Max(checks)].type = "drift_check"
    BY <1>3, <2>1, <2>3
  <2>5. /\ found \in Page /\ found.at = "candidates" /\ found.available
        /\ found.check = Max(checks) /\ found.lost = p.lost /\ found.since = p.since
        /\ found.endpoint = p.endpoint /\ found.registered = p.registered
        /\ found.linked = p.linked /\ found.promoted = p.promoted /\ found.other = p.other
    BY <1>1, <2>4 DEF found, Page, Labels
  <2>6. Ordered(found)
    BY <1>1, <2>1, <2>4, <2>5 DEF PageOk, Ordered
  <2>7. VersionsKept(found) /\ ReadsSound(found)
    BY <1>1, <2>5 DEF PageOk, VersionsKept, ReadsSound
  <2>8. PageOk(found)
    BY <2>5, <2>6, <2>7
       DEF PageOk, NamesProduction, ShowsRegistration, CountsUnregistered, Shown
  <2> QED BY <2>5, <2>8
<1> QED BY <1>1, <1>2, <1>4, NothingOk, FailedOk, ReadKeeps

\* The candidate of the check, or the newest one.
LEMMA JoinOk ==
  ASSUME TypeOK, NEW t \in Handlers, page[t] \in Page, PageOk(page[t]),
         page[t].at = "candidates",
         NEW candidates, candidates = OfType("retraining_candidate", CandidateLimit),
         candidates # {}
  PROVE  JoinCandidate(t, candidates) \in Page /\ PageOk(JoinCandidate(t, candidates))
<1> DEFINE p == page[t]
           caused == {i \in candidates : runs[i].event = runs[p.check].event}
           from == IF caused # {} THEN caused ELSE candidates
           r == [p EXCEPT !.candidate = Max(from), !.linked = (caused # {}),
                          !.at = "incumbent"]
<1>1. DOMAIN runs = 1..Len(runs) /\ Len(runs) \in Nat
  BY DEF TypeOK
<1>2. candidates \subseteq 1..Len(runs)
  BY <1>1, NewestSubset DEF OfType
<1>3. from \subseteq 1..Len(runs) /\ from # {}
  BY <1>2
<1>4. Max(from) \in from
  <2> HIDE DEF from
  <2> QED BY <1>1, <1>3, MaxIsMember
<1>5. Max(from) \in 1..Len(runs)
  BY <1>3, <1>4
<1>6. caused # {} => runs[Max(from)].event = runs[p.check].event
  <2> SUFFICES ASSUME caused # {} PROVE Max(from) \in caused
    OBVIOUS
  <2> QED BY <1>4
<1>7. caused = {} => \A i \in candidates : runs[i].event # runs[p.check].event
  OBVIOUS
<1>8. JoinCandidate(t, candidates) = r
  BY DEF JoinCandidate
<1>9. p \in Page /\ PageOk(p) /\ p.at = "candidates"
  OBVIOUS
<1> HIDE DEF p, caused, from
<1>10. /\ r \in Page /\ r.at = "incumbent" /\ r.candidate = Max(from)
       /\ r.linked = (caused # {}) /\ r.check = p.check /\ r.available = p.available
       /\ r.lost = p.lost /\ r.since = p.since /\ r.endpoint = p.endpoint
       /\ r.registered = p.registered
  <2>1. Max(from) \in Nat /\ (caused # {}) \in BOOLEAN
    BY <1>1, <1>5
  <2> QED BY <1>9, <2>1 DEF Page, Labels
<1> HIDE DEF r
<1>11. Ordered(r) /\ VersionsKept(r)
  BY <1>1, <1>5, <1>9, <1>10 DEF PageOk, Ordered, VersionsKept
<1>12. LinkIsTrue(r) /\ NoneMissed(r)
  BY <1>6, <1>7, <1>10 DEF LinkIsTrue, NoneMissed
<1>13. ReadsSound(r)
  BY <1>9, <1>10, <1>12 DEF PageOk, ReadsSound
<1>14. PageOk(r)
  BY <1>10, <1>11, <1>13
     DEF PageOk, NamesProduction, ShowsRegistration, CountsUnregistered, Shown
<1> QED BY <1>8, <1>10, <1>14

\* The candidates, if there are any.
LEMMA ReadCandidatesKeeps ==
  ASSUME ViewInv, NEW t \in Handlers, ReadCandidates(t)
  PROVE  ViewInv'
<1> DEFINE p == page[t]
           candidates == OfType("retraining_candidate", CandidateLimit)
           none == [p EXCEPT !.at = "done"]
<1>1. p \in Page /\ PageOk(p) /\ p.at = "candidates" /\ TypeOK
  BY AtPage DEF ReadCandidates, Read
<1>2. \/ candidates # {} /\ Read(t, "candidates", JoinCandidate(t, candidates))
      \/ candidates = {} /\ Read(t, "candidates", none)
      \/ Read(t, "candidates", [p EXCEPT !.at = "done", !.lost = TRUE])
  BY DEF ReadCandidates, Done, Lost
<1>3. ASSUME candidates # {}, Read(t, "candidates", JoinCandidate(t, candidates))
      PROVE  ViewInv'
  <2>1. JoinCandidate(t, candidates) \in Page /\ PageOk(JoinCandidate(t, candidates))
    BY <1>1, <1>3, JoinOk
  <2> QED BY <1>3, <2>1, ReadKeeps
<1> HIDE DEF p
<1>4. ASSUME candidates = {} PROVE none \in Page /\ PageOk(none)
  <2>1. /\ none \in Page /\ none.at = "done" /\ none.available = p.available
        /\ none.lost = p.lost /\ none.endpoint = p.endpoint /\ none.since = p.since
        /\ none.registered = p.registered /\ none.check = p.check
        /\ none.linked = p.linked /\ none.promoted = p.promoted /\ none.other = p.other
    BY <1>1 DEF Page, Labels
  <2> HIDE DEF none
  <2>2. Ordered(none) /\ VersionsKept(none) /\ ReadsSound(none)
    BY <1>1, <2>1 DEF PageOk, Ordered, VersionsKept, ReadsSound
  <2>3. JoinsItsCheck(none)
    BY <1>1, <1>4, <2>1 DEF PageOk, Ordered, JoinsItsCheck, LinkIsTrue, NoneMissed
  <2>4. PageOk(none)
    BY <1>1, <2>1, <2>2, <2>3 DEF PageOk, Ordered, NamesProduction, ShowsRegistration,
                                  CountsUnregistered, Shown
  <2> QED BY <2>1, <2>4
<1> QED BY <1>1, <1>2, <1>3, <1>4, FailedOk, ReadKeeps

\* The version in production, to compare with.
LEMMA ReadIncumbentKeeps ==
  ASSUME ViewInv, NEW t \in Handlers, ReadIncumbent(t)
  PROVE  ViewInv'
<1> DEFINE p == page[t]
           found == [p EXCEPT !.named = production, !.at = "promoted"]
           failed == [p EXCEPT !.at = "promoted", !.lost = TRUE]
<1>1. p \in Page /\ PageOk(p) /\ p.at = "incumbent" /\ production \in Nat
  BY AtPage DEF ReadIncumbent, Read, TypeOK
<1>2. Read(t, "incumbent", found) \/ Read(t, "incumbent", failed)
  BY DEF ReadIncumbent, Lost
<1> HIDE DEF p
<1>3. ASSUME NEW r \in {found, failed} PROVE r \in Page /\ PageOk(r)
  <2>1. /\ r \in Page /\ r.at = "promoted" /\ r.available = p.available
        /\ r.endpoint = p.endpoint /\ r.since = p.since /\ r.registered = p.registered
        /\ r.check = p.check /\ r.candidate = p.candidate /\ r.linked = p.linked
        /\ r.lost \in {p.lost, TRUE}
    <3>1. CASE r = found
      BY <1>1, <3>1 DEF Page, Labels
    <3>2. CASE r = failed
      BY <1>1, <3>2 DEF Page, Labels
    <3> QED BY <3>1, <3>2
  <2>2. Ordered(r) /\ VersionsKept(r)
    BY <1>1, <2>1 DEF PageOk, Ordered, VersionsKept
  <2>3. ReadsSound(r)
    BY <1>1, <2>1 DEF PageOk, ReadsSound, LinkIsTrue, NoneMissed
  <2> QED BY <1>1, <2>1, <2>2, <2>3
          DEF PageOk, NamesProduction, ShowsRegistration, CountsUnregistered, Shown
<1> HIDE DEF found, failed
<1> QED BY <1>2, <1>3, ReadKeeps

\* r is the finished page p, with what is shown of runs by the versions read.
Presents(r, p, shown, registered) ==
    /\ r \in Page /\ r.at = "done" /\ r.available = p.available
    /\ r.lost = p.lost /\ r.since = p.since /\ r.endpoint = p.endpoint
    /\ r.registered = p.registered /\ r.check = p.check /\ r.candidate = p.candidate
    /\ r.linked = p.linked
    /\ \A i : i \in r.promoted <=> i \in shown /\ Listed(i, registered)
    /\ \A i : i \in r.other <=> i \in shown /\ ~Listed(i, registered)

LEMMA PresentPage ==
  ASSUME NEW t \in Handlers, page[t] \in Page, NEW shown \in SUBSET Nat, NEW registered
  PROVE  Presents(Present(t, shown, registered), page[t], shown, registered)
<1> DEFINE p == page[t]
           yes == {i \in shown : Listed(i, registered)}
           no == {i \in shown : ~Listed(i, registered)}
           r == [p EXCEPT !.at = "done", !.promoted = yes, !.other = no]
<1>1. Present(t, shown, registered) = r
  BY DEF Present, Done
<1>2. yes \in SUBSET Nat /\ no \in SUBSET Nat /\ p \in Page
  OBVIOUS
<1>3. /\ \A i : i \in yes <=> i \in shown /\ Listed(i, registered)
      /\ \A i : i \in no <=> i \in shown /\ ~Listed(i, registered)
  OBVIOUS
<1> HIDE DEF p, yes, no
<1>4. /\ r \in Page /\ r.at = "done" /\ r.available = p.available
      /\ r.lost = p.lost /\ r.since = p.since
      /\ r.endpoint = p.endpoint /\ r.registered = p.registered
      /\ r.check = p.check /\ r.candidate = p.candidate
      /\ r.linked = p.linked /\ r.promoted = yes /\ r.other = no
  BY <1>2 DEF Page, Labels
<1> HIDE DEF r
<1>5. Presents(r, p, shown, registered)
  BY <1>3, <1>4 DEF Presents
<1> QED BY <1>1, <1>5 DEF p

\* Whether the candidate was promoted: the versions, or none of them.
LEMMA ReadPromotedKeeps ==
  ASSUME ViewInv, NEW t \in Handlers, ReadPromoted(t)
  PROVE  ViewInv'
<1> DEFINE p == page[t]
           shown == {p.candidate}
           found == Present(t, shown, versions)
           blind == Present(t, shown, <<>>)
           failed == [blind EXCEPT !.lost = TRUE]
<1>0. p \in Page
  BY AtPage
<1>1. PageOk(p) /\ p.at = "promoted" /\ versions \in Seq(Nat)
  BY AtPage DEF ReadPromoted, Read, TypeOK
<1>2. Read(t, "promoted", found) \/ Read(t, "promoted", failed)
  BY DEF ReadPromoted
<1>3. shown \in SUBSET Nat
  <2>1. p.candidate \in Nat
    BY <1>0 DEF Page
  <2> QED BY <2>1
<1> HIDE DEF shown
<1>4. \A i : ~Listed(i, <<>>)
  BY DEF Listed
<1>5. Presents(found, p, shown, versions)
  BY <1>0, <1>3, PresentPage
<1>6. Presents(blind, p, shown, <<>>)
  BY <1>0, <1>3, PresentPage
<1> HIDE DEF p, blind
<1>7. /\ failed \in Page /\ failed.at = "done" /\ failed.available = p.available
      /\ failed.lost /\ failed.since = p.since /\ failed.endpoint = p.endpoint
      /\ failed.registered = p.registered /\ failed.check = p.check
      /\ failed.candidate = p.candidate /\ failed.linked = p.linked
      /\ failed.promoted = {}
  BY <1>4, <1>6 DEF Page, Presents
<1> HIDE DEF found, failed
<1>8. PageOk(found)
  <2>1. Ordered(found) /\ VersionsKept(found) /\ ReadsSound(found)
    BY <1>1, <1>5 DEF Presents, PageOk, Ordered, VersionsKept, ReadsSound
  <2>2. found.since.versions <= Len(versions) /\ found.since.versions \in Nat
    BY <1>5, <2>1 DEF Presents, VersionsKept, Page
  <2>3. ShowsRegistration(found)
    BY <1>1, <1>5, <2>2 DEF Presents, ShowsRegistration, Listed, WasListed
  <2>4. JoinsItsCheck(found)
    BY <1>1, <1>5 DEF Presents, PageOk, ReadsSound, JoinsItsCheck, LinkIsTrue, NoneMissed
  <2> QED BY <1>1, <1>5, <2>1, <2>3, <2>4
          DEF PageOk, Presents, Ordered, NamesProduction, CountsUnregistered, Shown
<1>9. PageOk(failed)
  <2>1. Ordered(failed) /\ VersionsKept(failed) /\ ReadsSound(failed)
    BY <1>1, <1>7 DEF PageOk, Ordered, VersionsKept, ReadsSound
  <2>2. JoinsItsCheck(failed)
    BY <1>1, <1>7 DEF PageOk, ReadsSound, JoinsItsCheck, LinkIsTrue
  <2> QED BY <1>1, <1>7, <2>1, <2>2
          DEF PageOk, Ordered, NamesProduction, ShowsRegistration, CountsUnregistered, Shown
<1> QED BY <1>2, <1>5, <1>7, <1>8, <1>9, ReadKeeps DEF Presents

\* The versions the events will be matched with.
LEMMA ReadRegisteredKeeps ==
  ASSUME ViewInv, NEW t \in Handlers, ReadRegistered(t)
  PROVE  ViewInv'
<1> DEFINE p == page[t]
           found == [p EXCEPT !.registered = versions, !.at = "events"]
           failed == [p EXCEPT !.at = "events", !.lost = TRUE]
<1>1. /\ p \in Page /\ PageOk(p) /\ p.at = "registered"
      /\ versions \in Seq(Nat) /\ Len(versions) \in Nat
  BY AtPage DEF ReadRegistered, Read, TypeOK
<1>2. Read(t, "registered", found) \/ Read(t, "registered", failed)
  BY DEF ReadRegistered, Lost
<1> HIDE DEF p
<1>3. /\ found \in Page /\ found.at = "events" /\ found.registered = versions
      /\ found.available = p.available /\ found.lost = p.lost /\ found.since = p.since
      /\ found.endpoint = p.endpoint /\ found.check = p.check /\ found.linked = p.linked
      /\ found.promoted = p.promoted /\ found.other = p.other
  BY <1>1 DEF Page, Labels
<1>4. /\ failed \in Page /\ failed.at = "events" /\ failed.lost
      /\ failed.registered = p.registered /\ failed.available = p.available
      /\ failed.since = p.since /\ failed.endpoint = p.endpoint
      /\ failed.check = p.check /\ failed.linked = p.linked
      /\ failed.promoted = p.promoted /\ failed.other = p.other
  BY <1>1 DEF Page, Labels
<1> HIDE DEF found, failed
<1>5. PageOk(found)
  BY <1>1, <1>3 DEF PageOk, Ordered, VersionsKept, ReadsSound, NamesProduction,
                    ShowsRegistration, CountsUnregistered, Shown
<1>6. PageOk(failed)
  BY <1>1, <1>4 DEF PageOk, Ordered, VersionsKept, ReadsSound, NamesProduction,
                    ShowsRegistration, CountsUnregistered, Shown
<1> QED BY <1>2, <1>3, <1>4, <1>5, <1>6, ReadKeeps

\* The training events, and which of them led to a version.
LEMMA ReadEventsKeeps ==
  ASSUME ViewInv, NEW t \in Handlers, ReadEvents(t)
  PROVE  ViewInv'
<1> DEFINE p == page[t]
           shown == TrainingRuns(EventLimit)
           matched == Present(t, shown, p.registered)
           found == [matched EXCEPT !.available = TRUE]
<1>1. p \in Page /\ PageOk(p) /\ p.at = "events" /\ TypeOK
  BY AtPage DEF ReadEvents, Read
<1>2. \/ Read(t, "events", found)
      \/ Read(t, "events", [p EXCEPT !.at = "done", !.lost = TRUE])
  BY DEF ReadEvents, Lost
<1>3. shown \in SUBSET Nat
  <2>1. TrainingRuns(EventLimit) \subseteq DOMAIN runs
    BY NewestSubset DEF TrainingRuns, Recent
  <2> QED BY <1>1, <2>1 DEF TypeOK
<1> HIDE DEF shown
<1>4. Presents(matched, p, shown, p.registered)
  BY <1>1, <1>3, PresentPage
<1> HIDE DEF p, matched
<1>5. /\ found \in Page /\ found.at = "done" /\ found.lost = p.lost
      /\ found.since = p.since /\ found.endpoint = p.endpoint
      /\ found.registered = p.registered /\ found.check = p.check
      /\ \A i : i \in found.promoted <=> i \in shown /\ Listed(i, p.registered)
      /\ \A i : i \in found.other <=> i \in shown /\ ~Listed(i, p.registered)
  BY <1>4 DEF Page, Presents
<1> HIDE DEF found
<1>6. Ordered(found) /\ VersionsKept(found) /\ ReadsSound(found)
  BY <1>1, <1>5 DEF PageOk, Ordered, VersionsKept, ReadsSound
<1>7. ShowsRegistration(found)
  <2>1. found.since.versions \in Nat /\ found.registered \in Seq(Nat)
    BY <1>5 DEF Page
  <2>2. \A i \in found.promoted : Listed(i, versions)
    BY <1>1, <1>5, <1>6, <2>1, ListedStill
  <2>3. ASSUME ~found.lost PROVE \A i \in found.other : ~WasListed(found, i)
    <3>1. found.since.versions <= Len(found.registered)
      BY <1>1, <1>5, <2>3 DEF PageOk, VersionsKept
    <3> QED BY <1>5, <1>6, <2>1, <3>1, UnlistedThen
  <2> QED BY <2>2, <2>3 DEF ShowsRegistration
<1>8. PageOk(found)
  BY <1>1, <1>5, <1>6, <1>7
     DEF PageOk, Ordered, NamesProduction, CountsUnregistered, Shown
<1> QED BY <1>1, <1>2, <1>5, <1>8, FailedOk, ReadKeeps

(* What the writes of others keep of a page. *)

\* Runs stay what they were marked as, so no search finds again what its limit cut off.
LEMMA SearchesShrink ==
  ASSUME TypeOK, StoreSound, Grown, StoreSound',
         NEW i \in DOMAIN runs, runs[i].model, runs[i].event # 0,
         i \in OfType("retraining_candidate", CandidateLimit)'
  PROVE  i \in OfType("retraining_candidate", CandidateLimit)
<1> DEFINE old == {k \in DOMAIN runs : runs[k].type = "retraining_candidate"}
           new == {k \in DOMAIN runs' : runs'[k].type = "retraining_candidate"}
<1>1. /\ DOMAIN runs = 1..Len(runs) /\ DOMAIN runs' = 1..Len(runs')
      /\ Len(runs) \in Nat /\ Len(runs') \in Nat /\ Len(runs) <= Len(runs')
  BY DEF TypeOK, Grown
<1>2. old \subseteq new
  BY <1>1 DEF Grown, Kept
<1>3. i \in old
  BY DEF StoreSound
<1>4. old \in SUBSET (1..Len(runs')) /\ new \in SUBSET (1..Len(runs'))
  BY <1>1
<1>5. i \in Newest(CandidateLimit, new)
  BY DEF OfType, Newest
<1>6. CandidateLimit \in Nat
  BY ViewAssumption
<1> HIDE DEF old, new
<1>7. i \in Newest(CandidateLimit, old)
  BY <1>1, <1>2, <1>3, <1>4, <1>5, <1>6, NewestShrinks
<1> QED BY <1>7 DEF OfType, old

\* A page that is being read for stays right under the new store.
LEMMA PageGrows ==
  ASSUME TypeOK, StoreSound, Grown, StoreSound',
         NEW p \in Page, PageOk(p), p.at # "done",
         NEW q \in Page, q = [p EXCEPT !.since.named = @ \cup {production'}]
  PROVE  PageOk(q)'
<1>1. /\ q.at = p.at /\ q.endpoint = p.endpoint /\ q.available = p.available
      /\ q.lost = p.lost /\ q.registered = p.registered /\ q.named = p.named
      /\ q.marked = p.marked /\ q.check = p.check /\ q.candidate = p.candidate
      /\ q.linked = p.linked /\ q.promoted = p.promoted /\ q.other = p.other
      /\ q.since.versions = p.since.versions /\ q.since.tagged = p.since.tagged
      /\ q.since.named = p.since.named \cup {production'}
  BY DEF Page
<1>2. /\ DOMAIN runs = 1..Len(runs) /\ DOMAIN runs' = 1..Len(runs')
      /\ Len(runs) \in Nat /\ Len(runs') \in Nat /\ Len(runs) <= Len(runs')
      /\ \A i \in DOMAIN runs : i \in DOMAIN runs' /\ Kept(runs[i], runs'[i])
  <2>1. runs \in Seq(Run) /\ runs' \in Seq(Run) /\ Len(runs) <= Len(runs')
    BY DEF TypeOK, Grown
  <2>2. /\ DOMAIN runs = 1..Len(runs) /\ DOMAIN runs' = 1..Len(runs')
        /\ Len(runs) \in Nat /\ Len(runs') \in Nat
    BY <2>1
  <2>3. \A i \in 1..Len(runs) : Kept(runs[i], runs'[i])
    BY DEF Grown
  <2> QED BY <2>1, <2>2, <2>3
<1>3. /\ Len(versions) \in Nat /\ Len(versions') \in Nat /\ Len(versions) <= Len(versions')
      /\ \A v \in 1..Len(versions) : versions'[v] = versions[v]
  BY DEF TypeOK, Grown
<1>4. /\ p.registered \in Seq(Nat) /\ Len(p.registered) \in Nat
      /\ DOMAIN p.registered = 1..Len(p.registered) /\ p.since.versions \in Nat
  BY DEF Page
<1>5. Ordered(q)'
  BY <1>1, <1>2 DEF PageOk, Ordered, Kept
<1>6. VersionsKept(q)'
  <2>1. VersionsKept(p)
    BY DEF PageOk
  <2>2. /\ Len(p.registered) <= Len(versions') /\ p.since.versions <= Len(versions')
        /\ \A v \in DOMAIN p.registered : v \in 1..Len(versions)
    BY <1>3, <1>4, <2>1 DEF VersionsKept
  <2>3. \A v \in DOMAIN p.registered : p.registered[v] = versions'[v]
    BY <1>3, <2>1, <2>2 DEF VersionsKept
  <2> QED BY <1>1, <2>1, <2>2, <2>3 DEF VersionsKept
<1>7. \A i \in p.since.tagged :
         /\ i \in DOMAIN runs' /\ runs'[i].model
         /\ p.endpoint = "drift" => runs'[i].event # 0 /\ runs'[i].event = runs[i].event
  BY <1>2 DEF PageOk, ReadsSound, Kept
<1>8. ASSUME p.at \in {"incumbent", "promoted"} PROVE (LinkIsTrue(q) /\ NoneMissed(q))'
  <2>1. /\ p.endpoint = "drift" /\ p.check \in DOMAIN runs /\ p.candidate \in DOMAIN runs
        /\ runs[p.check].event # 0 /\ LinkIsTrue(p) /\ NoneMissed(p)
    BY <1>8 DEF PageOk, Ordered, ReadsSound, StoreSound
  <2>2. runs'[p.check].event = runs[p.check].event
    BY <1>2, <2>1 DEF Kept
  <2>3. p.linked => runs'[p.candidate].event = runs'[p.check].event
    BY <1>2, <2>1, <2>2 DEF Kept, LinkIsTrue
  <2>4. ASSUME ~p.linked, NEW i \in p.since.tagged,
               i \in OfType("retraining_candidate", CandidateLimit)'
        PROVE  runs'[i].event # runs'[p.check].event
    <3>1. i \in DOMAIN runs /\ runs[i].model /\ runs[i].event # 0
      BY <2>1 DEF PageOk, ReadsSound
    <3>2. i \in OfType("retraining_candidate", CandidateLimit)
      BY <2>4, <3>1, SearchesShrink
    <3>3. runs[i].event # runs[p.check].event
      BY <2>1, <2>4, <3>2 DEF NoneMissed
    <3> QED BY <1>7, <2>1, <2>2, <3>3
  <2> QED BY <1>1, <2>3, <2>4 DEF LinkIsTrue, NoneMissed
<1>9. ReadsSound(q)'
  BY <1>1, <1>7, <1>8 DEF PageOk, ReadsSound
<1> QED BY <1>1, <1>5, <1>6, <1>9
        DEF PageOk, NamesProduction, ShowsRegistration, CountsUnregistered, Shown

\* A page with nothing on it is right, whatever the store.
LEMMA IdleOk ==
  ASSUME versions \in Seq(Nat)
  PROVE  Idle \in Page /\ PageOk(Idle)
<1>1. /\ Idle.at = "done" /\ Idle.endpoint = "none" /\ ~Idle.available /\ Idle.check = 0
      /\ Idle.registered = <<>> /\ Idle.since.versions = 0 /\ Idle.since.tagged = {}
  BY DEF Idle, Empty
<1>2. Idle \in Page
  <2>1. <<>> \in Seq(Nat)
    OBVIOUS
  <2> QED BY <2>1 DEF Idle, Empty, Page, Endpoints, Labels
<1>3. Len(versions) \in Nat
  OBVIOUS
<1>4. PageOk(Idle)
  BY <1>1, <1>3 DEF PageOk, Ordered, VersionsKept, ReadsSound, NamesProduction,
                    ShowsRegistration, CountsUnregistered, Shown
<1> QED BY <1>2, <1>4

\* The same after a step.
LEMMA IdleOkNext ==
  ASSUME (versions \in Seq(Nat))', NEW q, q = Idle
  PROVE  PageOk(q)'
<1>1. /\ q.at = "done" /\ q.endpoint = "none" /\ ~q.available /\ q.check = 0
      /\ q.registered = <<>> /\ q.since.versions = 0 /\ q.since.tagged = {}
  BY DEF Idle, Empty
<1>2. Len(versions') \in Nat
  OBVIOUS
<1> QED BY <1>1, <1>2 DEF PageOk, Ordered, VersionsKept, ReadsSound, NamesProduction,
                          ShowsRegistration, CountsUnregistered, Shown

LEMMA SinceGrows ==
  ASSUME NEW p \in Page, NEW version \in Nat
  PROVE  [p EXCEPT !.since.named = @ \cup {version}] \in Page
BY DEF Page

\* What holds of a value under the new store holds of the page that has it.
LEMMA PageMoved ==
  ASSUME NEW t \in Handlers, NEW q, q = page'[t], PageOk(q)'
  PROVE  PageOk(page[t])'
BY DEF PageOk, Ordered, VersionsKept, ReadsSound, NamesProduction, ShowsRegistration,
       CountsUnregistered, LinkIsTrue, NoneMissed, JoinsItsCheck, Shown, WasListed, Listed,
       Recent, OfType, Newest

\* Others write.
LEMMA WriteKeeps ==
  ASSUME ViewInv, Write
  PROVE  ViewInv'
<1>1. TypeOK /\ StoreSound /\ StoreNext
  BY DEF ViewInv, Write
<1>2. Grown /\ StoreSound'
  BY <1>1, StoreGrows
<1>3. \A t \in Handlers : page[t] \in Page /\ PageOk(page[t])
  BY <1>1, PageWise, PageTyped
<1>4. page' = [t \in Handlers |->
                 IF page[t].at = "done" THEN Idle
                 ELSE [page[t] EXCEPT !.since.named = @ \cup {production'}]]
  BY DEF Write
<1>5. ASSUME NEW t \in Handlers PROVE page'[t] \in Page /\ PageOk(page[t])'
  <2> PICK q : q = page'[t]
    OBVIOUS
  <2>1. CASE page[t].at = "done"
    <3>1. q = Idle
      BY <1>4, <2>1
    <3>2. versions \in Seq(Nat) /\ (versions \in Seq(Nat))'
      BY <1>1, <1>2 DEF Grown, TypeOK
    <3>3. q \in Page
      BY <3>1, <3>2, IdleOk
    <3>4. PageOk(q)'
      BY <3>1, <3>2, IdleOkNext
    <3> QED BY <3>3, <3>4, PageMoved
  <2>2. CASE page[t].at # "done"
    <3>1. q = [page[t] EXCEPT !.since.named = @ \cup {production'}]
      BY <1>4, <2>2
    <3>2. production' \in Nat
      BY <1>2 DEF Grown
    <3>3. q \in Page
      BY <1>3, <3>1, <3>2, SinceGrows
    <3>4. PageOk(q)'
      BY <1>1, <1>2, <1>3, <2>2, <3>1, <3>3, PageGrows
    <3> QED BY <3>3, <3>4, PageMoved
  <2> QED BY <2>1, <2>2
<1>6. TypeOK'
  BY <1>2, <1>4, <1>5 DEF TypeOK, Grown
<1> QED BY <1>2, <1>5, <1>6, PageWiseNext

(* The theorems. *)

LEMMA InitView ==
  ASSUME Init
  PROVE  ViewInv
<1>1. runs = <<>> /\ versions = <<>> /\ production = 0 /\ page = [t \in Handlers |-> Idle]
  BY DEF Init, StoreInit
<1>2. /\ runs \in Seq(Run) /\ versions \in Seq(Nat) /\ production \in Nat
      /\ DOMAIN runs = {} /\ DOMAIN versions = {} /\ production \in 0..Len(versions)
  BY <1>1
<1>3. StoreSound
  BY <1>2 DEF StoreSound
<1>4. Idle \in Page /\ PageOk(Idle)
  BY <1>2, IdleOk
<1>5. TypeOK
  BY <1>1, <1>2, <1>4 DEF TypeOK
<1>6. \A t \in Handlers : PageOk(page[t])
  BY <1>1, <1>4
<1> QED BY <1>3, <1>5, <1>6, PageWise

\* One step per read, and the writes.
LEMMA NextView ==
  ASSUME ViewInv, [Next]_vars
  PROVE  ViewInv'
<1>1. CASE Write
  BY <1>1, WriteKeeps
<1>2. ASSUME NEW t \in Handlers, Answer(t)
      PROVE  ViewInv'
  <2>1. CASE \/ Ask(t, "model", "alias") \/ Ask(t, "promotions", "versions")
             \/ Ask(t, "drift", "check") \/ Ask(t, "events", "registered")
    BY <2>1, AskKeeps DEF Endpoints, Labels
  <2>2. CASE ReadProduction(t)
    BY <2>2, ReadProductionKeeps
  <2>3. CASE ReadVersions(t)
    BY <2>3, ReadVersionsKeeps
  <2>4. CASE ResolveAlias(t)
    BY <2>4, ResolveAliasKeeps
  <2>5. CASE ReadTrained(t)
    BY <2>5, ReadTrainedKeeps
  <2>6. CASE ReadCheck(t)
    BY <2>6, ReadCheckKeeps
  <2>7. CASE ReadCandidates(t)
    BY <2>7, ReadCandidatesKeeps
  <2>8. CASE ReadIncumbent(t)
    BY <2>8, ReadIncumbentKeeps
  <2>9. CASE ReadPromoted(t)
    BY <2>9, ReadPromotedKeeps
  <2>10. CASE ReadRegistered(t)
    BY <2>10, ReadRegisteredKeeps
  <2>11. CASE ReadEvents(t)
    BY <2>11, ReadEventsKeeps
  <2> QED BY <1>2, <2>1, <2>2, <2>3, <2>4, <2>5, <2>6, <2>7, <2>8, <2>9, <2>10, <2>11
          DEF Answer
<1>3. CASE UNCHANGED vars
  <2>1. page' = page /\ UNCHANGED storeVars
    BY <1>3 DEF vars
  <2>2. TypeOK /\ StoreSound /\ \A t \in Handlers : PageOk(page[t])
    BY PageWise
  <2>3. TypeOK' /\ StoreSound'
    BY <2>1, <2>2 DEF TypeOK, StoreSound, storeVars
  <2>4. \A t \in Handlers : PageOk(page[t])'
    BY <2>1, <2>2
       DEF storeVars, PageOk, Ordered, VersionsKept, ReadsSound, NamesProduction,
           ShowsRegistration, CountsUnregistered, LinkIsTrue, NoneMissed, JoinsItsCheck,
           Shown, WasListed, Listed, Recent, OfType, Newest
  <2> QED BY <2>3, <2>4, PageWiseNext
<1> QED BY <1>1, <1>2, <1>3 DEF Next

\* What a handler has read stays true while others write, for any number of
\* handlers, runs and versions, and any limits (_Mlflow, platform.py).
THEOREM ReadsStayTrue == Spec => []ViewInv
<1>1. Init => ViewInv
  BY InitView
<1>2. ViewInv /\ [Next]_vars => ViewInv'
  BY NextView
<1> QED BY <1>1, <1>2, PTL DEF Spec

\* The version shown as production was production at some moment of the request.
THEOREM ProductionIsNamed == Spec => []ProductionShownWasNamed
<1>1. ViewInv => ProductionShownWasNamed
  BY DEF ViewInv
<1> QED BY <1>1, ReadsStayTrue, PTL

\* What is shown as registered is; what is shown as not registered was not.
THEOREM RegistrationIsTrue == Spec => []RegistrationShownTruthfully
<1>1. ViewInv => RegistrationShownTruthfully
  BY DEF ViewInv
<1> QED BY <1>1, ReadsStayTrue, PTL

\* The models that never were registered are all counted, as far as the search reaches.
THEOREM UnregisteredAreCounted == Spec => []DenominatorIsHonest
<1>1. ViewInv => DenominatorIsHonest
  BY DEF ViewInv
<1> QED BY <1>1, ReadsStayTrue, PTL

\* The retraining of a check is joined with it, and no other is shown as such.
THEOREM JoinIsTrue == Spec => []RetrainingJoinsItsCheck
<1>1. ViewInv => RetrainingJoinsItsCheck
  BY DEF ViewInv
<1> QED BY <1>1, ReadsStayTrue, PTL
=============================================================================

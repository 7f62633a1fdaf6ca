-------------------------- MODULE MCCanaryPipeline --------------------------
(***************************************************************************)
(* TLC instances of CanaryPipeline.  Hosts are interchangeable, so the     *)
(* safety run may identify states that differ by a renaming of them.       *)
(***************************************************************************)
EXTENDS CanaryPipeline, TLC

HostSymmetry == Permutations(Hosts)

\* No step reads the canary alias and no property of that run mentions it; nor
\* does any ask whether a version that is in no router, and was not withdrawn, was
\* ever production.  States that differ only there need not be told apart.
InQuestion == rolledBack \cup {router[h].candidate : h \in Hosts}

\* Of a decision that does not say promote only its existence counts: rollback
\* takes any, complete refuses it.
Replayable ==
    [h \in Hosts |-> <<Cardinality(decisions[h]),
                      {d \in decisions[h] : d.verdict = "promote"}>>]

WhatMatters ==
    <<registered, alias["production"], router, Replayable, pc, job, rolledBack,
      named \cap InQuestion, unheard \cap InQuestion>>
=============================================================================

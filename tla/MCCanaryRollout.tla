-------------------------- MODULE MCCanaryRollout ---------------------------
\* Model-checking instances of CanaryRollout.
EXTENDS CanaryRollout, TLC

OpenAllocations == {10}

\* Local configuration without a canary, as shipped, and with one.
ConfiguredPercents == {0, 10}

=============================================================================

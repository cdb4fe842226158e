---------------------------- MODULE MCSelfUpdate ----------------------------
EXTENDS SelfUpdate

\* A bad release before or after a good one, or two that never answer; one breaking migration.
MCInit ==
  /\ UpdateInit
  /\ "good" \in {quality[2], quality[3]} \/ {quality[2], quality[3]} = {"deaf"}
  /\ Cardinality(breaking) <= 1

MCSpec == MCInit /\ [][UpdateNext]_updateVars /\ UpdateFairness
=============================================================================

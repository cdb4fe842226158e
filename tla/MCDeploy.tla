------------------------------ MODULE MCDeploy ------------------------------
EXTENDS ProjectDeploy, TLC

CONSTANT FreshRows  \* bound: rows of a project that starts without any

VARIABLE lived      \* the project starts after healthy deploys of two revisions

Good == Revisions \ (Broken \cup Unrestorable)

\* A state DeploySpec reaches in two operations, put here so that MaxRows leaves room for a
\* deploy, its automatic rollback and what would follow.
LivedInit ==
  \E r, s \in Good :
    /\ r # s
    /\ rows = (1 :> NewRow(r, "superseded")) @@ (2 :> NewRow(s, "active"))
    /\ lastId = 2
    /\ head = s /\ images = s /\ running = s /\ snapshot = s
    /\ paused = FALSE
    /\ policy = "rollback"
    /\ op = AtRest /\ alerts = {} /\ drift = {}

MCInit == (DeployInit /\ lived = FALSE) \/ (LivedInit /\ lived = TRUE)

\* operations that would pass FreshRows are not started
InBounds ==
  op = AtRest /\ op' # AtRest =>
    lastId + (IF op'.auto /\ op'.kind # "rollback" THEN 2 ELSE 1) <= IF lived THEN MaxRows ELSE FreshRows

MCSpec == MCInit /\ [][DeployNext /\ InBounds /\ UNCHANGED lived]_<<deployVars, lived>>

\* Revisions that have a Compose file and a commit are interchangeable.
MCSymmetry == Permutations(Good)
=============================================================================

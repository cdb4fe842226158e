------------------------------ MODULE MCParts ------------------------------
(***************************************************************************)
(* Four modules that share no state, checked in one run: a behaviour is    *)
(* one of HistoryAudit, GithubHook, MountMigration or GroupNetworks, while *)
(* the variables of the others stay as they were.                          *)
(***************************************************************************)
EXTENDS HistoryAudit, GithubHook, MountMigration, GroupNetworks

CONSTANTS db, uploads, g1

VARIABLE part

Parts == {"history", "hook", "mounts", "groups"}

\* The first mount holds data, the second does or is not there yet; nothing runs.
MCMountInit ==
  /\ MountInit /\ containers.state = "none"
  /\ HasData(original[db]) /\ original[uploads] # EmptyDirectory
  /\ part = "mounts" \/ (switched /\ HasData(original[uploads]))

\* Nobody is in a group, or every service has joined the same one; everything runs.
MCGroupInit ==
  /\ GroupInit /\ \A p \in Projects, s \in Services : container[p][s].here
  /\ \/ \A p \in Projects : row[p] = Ungrouped
     \/ part = "groups" /\ \A p \in Projects : row[p].group = g1 /\ row[p].services = Services

MCInit == part \in Parts /\ AuditInit /\ HookInit /\ MCMountInit /\ MCGroupInit

MCNext ==
  /\ UNCHANGED part
  /\ \/ part = "history" /\ AuditNext /\ UNCHANGED <<hookVars, mountVars, groupVars>>
     \/ part = "hook" /\ HookNext /\ UNCHANGED <<auditVars, mountVars, groupVars>>
     \/ part = "mounts" /\ MountNext /\ UNCHANGED <<auditVars, hookVars, groupVars>>
     \/ part = "groups" /\ GroupNext /\ UNCHANGED <<auditVars, hookVars, mountVars>>

MCSpec == MCInit /\ [][MCNext]_<<part, auditVars, hookVars, mountVars, groupVars>>
=============================================================================

--------------------------- MODULE GroupNetworks ---------------------------
(***************************************************************************)
(* Network groups (src/src/modules/deployments/compose/groupNetworks.ts    *)
(* and its callers): a project's row says which group it is in and which   *)
(* of its services join the group's docker network, and a sync brings the  *)
(* running containers in line.  Every docker command is awaited, so the    *)
(* syncs of a change of settings, a deploy, a delete and the boot overlap, *)
(* and each of them ends by removing the group networks nobody is on.      *)
(*                                                                         *)
(* Containers join under one alias only, which is not modelled.            *)
(***************************************************************************)
EXTENDS Integers, FiniteSets

CONSTANTS Projects, Services, Groups, NoGroup,
          Syncs,        \* bound: syncs at a time
          MaxChanges,   \* bound: changes of settings, `up`s, `down`s and deletes
          MaxOutages    \* bound: docker commands that fail, refused deletes and deaths

ASSUME GroupAssumption == NoGroup \notin Groups /\ MaxChanges \in Nat /\ MaxOutages \in Nat

VARIABLES row,         \* projects.network_group and network_group_services
          container,  \* of each project and service: running or not, and its group networks
          networks,    \* the group networks docker has
          sync,        \* the local variables of each sync in progress
          upset,       \* history: projects no lone and complete sync has seen since they were touched
          loose,       \* history: networks left to a later prune
          changes, outages

groupVars == <<row, container, networks, sync, upset, loose, changes, outages>>

RowGone == [group |-> NoGroup, services |-> {}, here |-> FALSE]
Ungrouped == [RowGone EXCEPT !.here = TRUE]
Down == [here |-> FALSE, on |-> {}]

NoSync == [pc |-> "idle", kind |-> "none", project |-> {}, wanted |-> NoGroup, joining |-> {},
           seen |-> [s \in Services |-> {}], todo |-> {}, service |-> {}, drop |-> {},
           names |-> {}, boot |-> {}, gone |-> {}, alone |-> TRUE]

\* NoSync's fields project and service hold at most one member.
Of(x, p) == x.pc # "idle" /\ x.project = {p}
Member(n) == \E p \in Projects, s \in Services : n \in container[p][s].on

Membership == {r \in [group : Groups \cup {NoGroup}, services : SUBSET Services, here : {TRUE}] :
          r.group = NoGroup => r.services = {}}

\* The containers of a project whose row is r, all as it says.
Following(r) == [s \in Services |-> [here |-> TRUE, on |-> IF s \in r.services THEN {r.group} ELSE {}]]

\* Projects with any membership, up or not.
GroupInit ==
  /\ row \in [Projects -> Membership]
  /\ \E up \in SUBSET Projects :
       /\ container = [p \in Projects |-> IF p \in up THEN Following(row[p]) ELSE [s \in Services |-> Down]]
       /\ networks = UNION {IF row[p].services = {} THEN {} ELSE {row[p].group} : p \in up}
  /\ sync = [i \in Syncs |-> NoSync]
  /\ upset = {} /\ loose = {} /\ changes = 0 /\ outages = 0

Change == changes < MaxChanges /\ changes' = changes + 1 /\ UNCHANGED outages
Outage == outages < MaxOutages /\ outages' = outages + 1 /\ UNCHANGED changes
Calm == UNCHANGED <<changes, outages>>
-----------------------------------------------------------------------------
\* What a sync of p is after: the rows as applyProjectNetworkGroup or leaveNetworkGroup has them.
Wanted(r) == IF r.services = {} THEN NoGroup ELSE r.group

NewSync(kind, p, r) ==
  [NoSync EXCEPT !.pc = "list", !.kind = kind, !.project = {p}, !.wanted = Wanted(r),
                 !.joining = r.services, !.alone = \A i \in Syncs : ~Of(sync[i], p)]

\* Project p is touched: a sync of it is not alone, and may hold containers that were replaced.
Touched(p, replaced) ==
  [i \in Syncs |-> IF Of(sync[i], p)
                   THEN [sync[i] EXCEPT !.alone = FALSE, !.gone = @ \cup replaced] ELSE sync[i]]

Start(i, kind, p, r, replaced) ==
  /\ sync[i].pc = "idle"
  /\ sync' = [Touched(p, replaced) EXCEPT ![i] = NewSync(kind, p, r)]

\* A change of settings (HTTP or MCP), stored once its checks have passed.
Assign(i, p, g, services) ==
  /\ Change /\ row[p].here /\ (g = NoGroup => services = {})
  /\ row' = [row EXCEPT ![p] = [group |-> g, services |-> services, here |-> TRUE]]
  /\ Start(i, "assign", p, row'[p], {})
  /\ UNCHANGED <<container, networks, upset, loose>>

\* The project's slot: `up` ends when its sync does.
SlotFree(p) == \A i \in Syncs : Of(sync[i], p) => sync[i].kind # "up"

\* Containers are started or recreated, and the old ones leave their networks.
Replace(p, services, new) ==
  /\ container' = [container EXCEPT ![p] = [s \in Services |-> IF s \in services THEN new ELSE @[s]]]
  /\ loose' = loose \cup UNION {container[p][s].on : s \in services}

BringUp(i, p, services) ==
  /\ Change /\ row[p].here /\ SlotFree(p)
  /\ Replace(p, services, [here |-> TRUE, on |-> {}])
  /\ Start(i, "up", p, row[p], services)
  /\ UNCHANGED <<row, networks, upset>>

UpFails(p, services) ==
  /\ Outage /\ row[p].here /\ SlotFree(p)
  /\ Replace(p, services, [here |-> TRUE, on |-> {}])
  /\ sync' = Touched(p, services) /\ upset' = upset \cup {p}
  /\ UNCHANGED <<row, networks>>

TakeDown(p) ==
  /\ Change /\ row[p].here /\ SlotFree(p)
  /\ Replace(p, Services, Down) /\ sync' = Touched(p, Services)
  /\ UNCHANGED <<row, networks, upset>>

LeaveForDelete(i, p) ==
  /\ Change /\ row[p].here /\ Start(i, "delete", p, Ungrouped, {})
  /\ UNCHANGED <<row, container, networks, upset, loose>>
-----------------------------------------------------------------------------
Joins(x, s) == x.wanted # NoGroup /\ s \in x.joining

\* Mutant: a service that joins a group stays on the group it was in.
MutSurplus(x, s) == IF Joins(x, s) THEN {} ELSE x.seen[s]

\* The networks the container was seen on and has to leave.
Surplus(x, s) == IF Joins(x, s) THEN x.seen[s] \ {x.wanted} ELSE x.seen[s]

NeedsJoin(x, s) == Joins(x, s) /\ x.wanted \notin x.seen[s]

\* What follows the disconnections of container s, and what begins another container's turn.
Placed(x, s) == [x EXCEPT !.service = {s}, !.pc = IF x.drop # {} THEN "disconnect" ELSE "ensure"]
Turns(x) ==
  IF x.todo = {} THEN {[x EXCEPT !.pc = "prune", !.service = {}, !.seen = NoSync.seen, !.gone = {}]}
  ELSE {Placed([x EXCEPT !.todo = @ \ {s}, !.drop = Surplus(x, s)], s) : s \in x.todo}

\* The next project of the boot, or its last prune.
NextBoot(x) ==
  IF x.kind # "boot" THEN [x EXCEPT !.pc = IF x.kind = "delete" THEN "remove" ELSE "idle"]
  ELSE [NoSync EXCEPT !.kind = "boot", !.boot = x.boot,
                      !.pc = IF x.project = {} THEN "idle" ELSE "boot"]

Ended(x) == IF NextBoot(x).pc = "idle" THEN NoSync ELSE NextBoot(x)

\* A sync ends; one that ran alone leaves its project as its rows say.
EndSync(i, x) ==
  /\ sync' = [sync EXCEPT ![i] = Ended(x)]
  /\ upset' = IF x.alone THEN upset \ x.project ELSE upset \cup x.project

\* A docker command throws: the caller reports it, logs it or, on a delete, goes on.
Abort(i) ==
  /\ sync' = [sync EXCEPT ![i] = Ended([@ EXCEPT !.alone = FALSE])]
  /\ upset' = upset \cup sync[i].project /\ loose' = Groups

\* The command was carried out, and its answer came or was lost.
Answered(i, x) ==
  \/ Calm /\ sync' = [sync EXCEPT ![i] = x] /\ UNCHANGED <<upset, loose>>
  \/ Outage /\ Abort(i)

CommandFails(i) ==
  /\ sync[i].pc \in {"list", "disconnect", "ensure", "connect", "prune", "inspect", "rm"}
  /\ Outage /\ Abort(i) /\ UNCHANGED <<row, container, networks>>

\* `docker ps` and an `inspect` of each container; those with nothing to change are passed over.
List(i) ==
  \E p \in sync[i].project :
    LET x == [sync[i] EXCEPT !.gone = {}, !.seen = [s \in Services |-> container[p][s].on]]
        work == {s \in Services : container[p][s].here /\ (Surplus(x, s) # {} \/ NeedsJoin(x, s))}
    IN  /\ x.pc = "list" /\ Calm
        /\ \E y \in Turns([x EXCEPT !.todo = work]) : sync' = [sync EXCEPT ![i] = y]
        /\ UNCHANGED <<row, container, networks, upset, loose>>

Disconnect(i) ==
  \E n \in sync[i].drop, p \in sync[i].project, s \in sync[i].service :
    LET x == [sync[i] EXCEPT !.drop = @ \ {n}] IN
    /\ x.pc = "disconnect"
    /\ container' = IF s \in x.gone THEN container
                     ELSE [container EXCEPT ![p][s].on = @ \ {n}]
    /\ \E y \in IF x.drop # {} \/ NeedsJoin(x, s) THEN {Placed(x, s)} ELSE Turns(x) : Answered(i, y)
    /\ UNCHANGED <<row, networks>>

\* `network inspect`, and `network create` if there is none; one that exists by now is as good.
Ensure(i) ==
  /\ sync[i].pc = "ensure"
  /\ networks' = networks \cup {sync[i].wanted}
  /\ Answered(i, [sync[i] EXCEPT !.pc = "connect"])
  /\ UNCHANGED <<row, container>>

\* docker refuses when the network or the container is gone.
Connect(i) ==
  LET x == sync[i] IN
  \E p \in x.project, s \in x.service :
    /\ x.pc = "connect"
    /\ IF x.wanted \in networks /\ s \notin x.gone
       THEN /\ container' = [container EXCEPT ![p][s].on = @ \cup {x.wanted}]
            /\ \E y \in Turns(x) : Answered(i, y)
       ELSE Calm /\ Abort(i) /\ UNCHANGED container
    /\ UNCHANGED <<row, networks>>
-----------------------------------------------------------------------------
\* Mutant: only the network of the sync's own group is looked at.
MutListed(x) == networks \cap {x.wanted}

\* pruneGroupNetworks: the names docker lists, one at a time.
Listed(x) == networks

\* On to the next name, if any.
Pruning(i, x) ==
  IF x.names = {} THEN EndSync(i, x)
  ELSE sync' = [sync EXCEPT ![i] = [x EXCEPT !.pc = "inspect"]] /\ UNCHANGED upset

PruneList(i) ==
  /\ sync[i].pc = "prune" /\ Calm
  /\ Pruning(i, [sync[i] EXCEPT !.names = Listed(sync[i])])
  /\ UNCHANGED <<row, container, networks, loose>>

Inspect(i) ==
  \E n \in sync[i].names :
    LET x == [sync[i] EXCEPT !.names = @ \ {n}] IN
    /\ x.pc = "inspect" /\ Calm
    /\ IF n \notin networks \/ Member(n) THEN Pruning(i, x)
       ELSE sync' = [sync EXCEPT ![i] = [x EXCEPT !.pc = "rm", !.drop = {n}]] /\ UNCHANGED upset
    /\ loose' = IF Member(n) THEN loose \ {n} ELSE loose
    /\ UNCHANGED <<row, container, networks>>

\* docker keeps a network that somebody has joined since, and says so.
RemoveNetwork(i) ==
  \E n \in sync[i].drop :
    /\ sync[i].pc = "rm"
    /\ IF Member(n) THEN Calm /\ Abort(i) /\ UNCHANGED networks
       ELSE /\ networks' = networks \ {n}
            /\ \/ Calm /\ Pruning(i, [sync[i] EXCEPT !.drop = {}]) /\ UNCHANGED loose
               \/ Outage /\ Abort(i)
    /\ UNCHANGED <<row, container>>

\* reconcileNetworkGroups: the projects in a group at start-up, then a prune of its own.
BootNext(i) ==
  LET x == sync[i] IN
  /\ x.pc = "boot" /\ Calm
  /\ \/ x.boot = {} /\ sync' = [sync EXCEPT ![i].pc = "prune"]
     \/ \E p \in x.boot :
          sync' = IF row[p].here
                  THEN [Touched(p, {}) EXCEPT ![i] = [NewSync("boot", p, row[p])
                                                        EXCEPT !.boot = x.boot \ {p}]]
                  ELSE [sync EXCEPT ![i].boot = @ \ {p}]
  /\ UNCHANGED <<row, container, networks, upset, loose>>

\* The rest of the delete: the row goes, or a TCP proxy cannot be removed and the project stays.
FinishDelete(i) ==
  LET x == sync[i] IN
  \E p \in x.project :
    /\ x.pc = "remove" /\ sync' = [sync EXCEPT ![i] = NoSync]
    /\ \/ Calm /\ row' = [row EXCEPT ![p] = RowGone] /\ upset' = IF x.alone THEN upset ELSE upset \cup {p}
       \/ Outage /\ UNCHANGED row /\ upset' = upset \cup {p}
    /\ UNCHANGED <<container, networks, loose>>

Die(i) ==
  /\ Outage
  /\ sync' = [j \in Syncs |-> IF j # i THEN NoSync
                ELSE [NoSync EXCEPT !.pc = "boot", !.kind = "boot",
                                    !.boot = {p \in Projects : row[p].group # NoGroup}]]
  /\ upset' = upset \cup UNION {sync[j].project : j \in Syncs}
  /\ loose' = IF \A j \in Syncs : sync[j].pc = "idle" THEN loose ELSE Groups
  /\ UNCHANGED <<row, container, networks>>

GroupNext ==
  \/ \E p \in Projects, services \in SUBSET Services :
       \/ UpFails(p, services)
       \/ \E i \in Syncs : BringUp(i, p, services) \/ \E g \in Groups \cup {NoGroup} : Assign(i, p, g, services)
  \/ \E p \in Projects : TakeDown(p) \/ \E i \in Syncs : LeaveForDelete(i, p)
  \/ \E i \in Syncs :
       \/ List(i) \/ Disconnect(i) \/ Ensure(i) \/ Connect(i)
       \/ PruneList(i) \/ Inspect(i) \/ RemoveNetwork(i) \/ BootNext(i) \/ FinishDelete(i)
       \/ CommandFails(i) \/ Die(i)

GroupSpec == GroupInit /\ [][GroupNext]_groupVars
-----------------------------------------------------------------------------
\* Once nothing is done to a project any more, its running containers are on the network of its
\* group, if they joined it, and on no other group's, whatever overlapped, failed or died before:
\* it takes one sync that ran alone to the end, of a deploy, a change of settings or the boot.
\* A project deleted that way leaves no container on a group network.
GroupsFollowRows ==
  \A p \in Projects, s \in Services :
    (p \notin upset /\ container[p][s].here /\ \A i \in Syncs : ~Of(sync[i], p)) =>
      container[p][s].on = IF s \in row[p].services THEN {row[p].group} ELSE {}

\* When no sync is in progress, a group network without a container is one that a failed or cut
\* sync, or containers that went away since, left for the next prune: two syncs that empty a
\* network between them do not both leave it to the other.
NoEmptyNetwork ==
  (\A i \in Syncs : sync[i].pc = "idle") => \A n \in networks \ loose : Member(n)
=============================================================================

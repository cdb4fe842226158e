----------------------------- MODULE TcpProxies -----------------------------
(***************************************************************************)
(* Public TCP ports: the rows of tcp_exposures and the proxy container of  *)
(* each, src/src/modules/ingress/tcp.ts with its callers in                *)
(* application/http/projects.ts and index.ts.                              *)
(*                                                                         *)
(* A job is a request, or the reconcile at boot, somewhere between its     *)
(* first statement and its answer; a step is the code between two waits    *)
(* for docker, `ok` says whether docker did what it was asked and answered *)
(* in time.  A port that a foreign container publishes is one docker       *)
(* refuses.  Ingress, which knows the projects and the networks, composes  *)
(* the steps with the rest.                                                *)
(***************************************************************************)
EXTENDS Integers, FiniteSets

CONSTANTS Projects,
          Targets,    \* a Compose service and its port
          NoOne,      \* no project, no domain, no target, no port
          Ports,      \* public ports other than those of Stackport itself
          Jobs        \* bound: requests about exposures at one time

ASSUME TcpAssumption == IsFiniteSet(Ports)

VARIABLES exposure,     \* tcp_exposures, by its unique public_port; failed is last_error
          proxy,        \* the container that publishes a port, by the id in its name
          job,
          lastExposure, \* tcp_exposures.id is AUTOINCREMENT
          contended,    \* ports that one job was starting while another was removing (observed)
          unserved      \* ports whose row was left by a job that docker failed twice (observed)

tcpVars == <<exposure, proxy, job, lastExposure, contended, unserved>>

-----------------------------------------------------------------------------
NoExposure == [id |-> 0, owner |-> NoOne, target |-> NoOne, failed |-> FALSE]
Row(id, p, t) == [NoExposure EXCEPT !.id = id, !.owner = p, !.target = t]

NoJob == [kind |-> "none", pc |-> "idle", project |-> NoOne, port |-> NoOne, target |-> NoOne, id |-> 0,
          todo |-> {},        \* rows that were listed, by port and id
          outage |-> FALSE]   \* docker failed it once and may fail it again

JobsIdle == \A j \in Jobs : job[j] = NoJob

\* proxies and rows as they are without exposures
NoTcp ==
  /\ exposure = [q \in Ports |-> NoExposure] /\ proxy = [q \in Ports |-> 0]
  /\ job = [j \in Jobs |-> NoJob]
  /\ lastExposure = 0 /\ contended = {} /\ unserved = {}

\* each port of Q leads to target t of project p
Exposed(Q, p, t) ==
  \E id \in [Q -> 1..Cardinality(Q)] :
    /\ \A q, r \in Q : id[q] = id[r] => q = r
    /\ exposure = [q \in Ports |-> IF q \in Q THEN Row(id[q], p, t) ELSE NoExposure]
    /\ proxy = [q \in Ports |-> IF q \in Q THEN id[q] ELSE 0]
    /\ job = [j \in Jobs |-> NoJob]
    /\ lastExposure = Cardinality(Q) /\ contended = {} /\ unserved = {}

\* the targets of project p that its exposures lead to
TcpTargets(p) == {exposure[q].target : q \in {r \in Ports : exposure[r].owner = p}}

\* listTcpExposures, listAllTcpExposures
Listed(Q) == {<<q, exposure[q].id>> : q \in {r \in Q : exposure[r].id # 0}}
RowsOf(p) == {q \in Ports : exposure[q].owner = p}

Starting(j, q) ==
  \/ job[j].kind = "expose" /\ job[j].pc \in {"insert", "attach", "check", "run"} /\ job[j].port = q
  \/ job[j].kind = "boot" /\ ((\E x \in job[j].todo : x[1] = q) \/ (job[j].pc \in {"check", "run"} /\ job[j].port = q))
Removing(j, q) ==
  \/ job[j].pc \in {"remove", "drop"} /\ job[j].port = q
  \/ job[j].kind = "delete" /\ (exposure[q].owner = job[j].project
                                \/ \E k \in Jobs : job[k].port = q /\ job[k].project = job[j].project)
Contended == {q \in Ports : \E j, k \in Jobs : Starting(j, q) /\ Removing(k, q)}
Observe == contended' = contended \cup Contended'

-----------------------------------------------------------------------------
Becomes(j, pc) == job' = [job EXCEPT ![j].pc = pc]
Over(j) == job' = [job EXCEPT ![j] = NoJob]
StartsJob(first) == \E j \in Jobs : job[j] = NoJob /\ job' = [job EXCEPT ![j] = first]

\* the boot job b with the rows of S to go takes the one with the least id
TakesRow(b, S) ==
  IF S = {} THEN NoJob
  ELSE LET x == CHOOSE y \in S : \A z \in S : y[2] <= z[2]
       IN [b EXCEPT !.pc = "check", !.port = x[1], !.id = x[2], !.todo = S \ {x}]

\* a reconcile ends well, or throws: the boot goes on, an exposure is taken back
Reconciled(j) == job' = [job EXCEPT ![j] = IF @.kind = "boot" THEN TakesRow(@, @.todo) ELSE NoJob]
Throws(j, out) ==
  job' = [job EXCEPT ![j] = IF @.kind = "boot" THEN TakesRow([@ EXCEPT !.outage = out], @.todo)
                                               ELSE [@ EXCEPT !.pc = "remove", !.outage = out]]

\* UPDATE ... SET last_error WHERE id
SetLastError(j, failed) ==
  exposure' = [q \in Ports |-> IF q = job[j].port /\ exposure[q].id = job[j].id
                                 THEN [exposure[q] EXCEPT !.failed = failed] ELSE exposure[q]]

\* POST /:id/tcp-exposures up to findPublishedPortConflict
Expose(p, q, t) ==
  /\ proxy[q] = 0
  /\ StartsJob([NoJob EXCEPT !.kind = "expose", !.pc = "insert", !.project = p, !.port = q, !.target = t])
  /\ UNCHANGED <<exposure, proxy, lastExposure, unserved>> /\ Observe

\* insertTcpExposure: the port is unique, and the project must still be there
Insert(j, there) ==
  /\ job[j].pc = "insert"
  /\ IF exposure[job[j].port].id = 0 /\ job[j].project \in there
       THEN /\ exposure' = [exposure EXCEPT ![job[j].port] = Row(lastExposure + 1, job[j].project, job[j].target)]
            /\ lastExposure' = lastExposure + 1
            /\ job' = [job EXCEPT ![j].pc = "attach", ![j].id = lastExposure + 1]
       ELSE Over(j) /\ UNCHANGED <<exposure, lastExposure>>
  /\ UNCHANGED <<proxy, unserved>> /\ Observe

\* after ensureProjectProxyNetwork
Attached(j, ok) ==
  /\ job[j].pc = "attach"
  /\ IF ok THEN Becomes(j, "check") ELSE Throws(j, TRUE)
  /\ UNCHANGED <<exposure, proxy, lastExposure, unserved>> /\ Observe

\* the row of job j's exposure is without its container, and does not say so
Unserved(j) == {q \in {job[j].port} : /\ exposure[q].id = job[j].id /\ proxy'[q] # job[j].id
                                     /\ ~exposure'[q].failed}

\* proxyIsCurrent and findPublishedPortConflict; a docker that does not answer leaves no last_error
CheckProxy(j, ok) ==
  /\ job[j].pc = "check"
  /\ CASE ~ok -> Throws(j, TRUE) /\ UNCHANGED exposure
       [] ok /\ proxy[job[j].port] = job[j].id -> Reconciled(j) /\ SetLastError(j, FALSE)
       [] ok /\ proxy[job[j].port] = 0 -> Becomes(j, "run") /\ UNCHANGED exposure
       [] OTHER -> Throws(j, FALSE) /\ SetLastError(j, TRUE)
  /\ UNCHANGED <<proxy, lastExposure>> /\ Observe
  /\ unserved' = IF job[j].kind = "boot" /\ ~ok THEN unserved \cup Unserved(j) ELSE unserved

\* docker run; when it fails, the container with the exposure's name is removed, whoever started
\* it, unless docker is out of reach: then it may even have been started
RunProxy(j, ok) ==
  /\ job[j].pc = "run"
  /\ \/ ok /\ proxy[job[j].port] = 0
        /\ proxy' = [proxy EXCEPT ![job[j].port] = job[j].id]
        /\ Reconciled(j) /\ SetLastError(j, FALSE)
     \/ ~(ok /\ proxy[job[j].port] = 0)
        /\ proxy' \in {[proxy EXCEPT ![job[j].port] = IF @ = job[j].id THEN 0 ELSE @]}
                      \cup (IF ok THEN {} ELSE {proxy, [proxy EXCEPT ![job[j].port] = IF @ = 0 THEN job[j].id ELSE @]})
        /\ Throws(j, ~ok) /\ SetLastError(j, TRUE)
  /\ UNCHANGED <<lastExposure, unserved>> /\ Observe

\* DELETE of an exposure: its row is there
Unexpose(q) ==
  /\ exposure[q].id # 0
  /\ StartsJob([NoJob EXCEPT !.kind = "unexpose", !.pc = "remove", !.project = exposure[q].owner,
                             !.port = q, !.id = exposure[q].id])
  /\ UNCHANGED <<exposure, proxy, lastExposure, unserved>> /\ Observe

MutRemoveIgnoresDocker(j, ok) ==
  /\ job[j].pc = "remove"
  /\ proxy' \in {[proxy EXCEPT ![job[j].port] = IF @ = job[j].id THEN 0 ELSE @]} \cup (IF ok THEN {} ELSE {proxy})
  /\ Becomes(j, "drop")
  /\ UNCHANGED <<exposure, lastExposure, unserved>> /\ Observe

\* deleteTcpExposure, by a request or to take back an exposure that failed: the container first
Remove(j, ok) ==
  /\ job[j].pc = "remove"
  /\ UNCHANGED <<exposure, lastExposure>>
  /\ LET q == job[j].port
         without == [proxy EXCEPT ![q] = IF @ = job[j].id THEN 0 ELSE @]
     IN CASE job[j].kind = "expose" /\ exposure[q].id # job[j].id -> Over(j) /\ UNCHANGED <<proxy, unserved>>
          [] ok -> proxy' = without /\ Becomes(j, "drop") /\ UNCHANGED unserved
          [] OTHER -> proxy' \in {proxy, without} /\ Over(j) /\ unserved' = unserved \cup Unserved(j)
  /\ Observe

DropRow(j) ==
  /\ job[j].pc = "drop"
  /\ exposure' = [exposure EXCEPT ![job[j].port] = IF @.id = job[j].id THEN NoExposure ELSE @]
  /\ Over(j)
  /\ UNCHANGED <<proxy, lastExposure, unserved>> /\ Observe

\* DELETE of a project begins
DeleteBegins(p) ==
  /\ \A j \in Jobs : job[j].kind # "delete" \/ job[j].project # p
  /\ StartsJob([NoJob EXCEPT !.kind = "delete", !.pc = "runtime", !.project = p, !.todo = Listed(RowsOf(p))])
  /\ UNCHANGED <<exposure, proxy, lastExposure, unserved>> /\ Observe

\* removeProjectTcpRuntime of the rows there were; when docker fails, the project stays
RemoveRuntime(j, ok) ==
  LET without(S) == [q \in Ports |-> IF <<q, proxy[q]>> \in S THEN 0 ELSE proxy[q]]
  IN /\ job[j].pc = "runtime"
     /\ \/ ok /\ proxy' = without(job[j].todo) /\ Becomes(j, "gone") /\ UNCHANGED unserved
        \/ ~ok /\ Over(j)
           /\ \E S \in SUBSET job[j].todo : proxy' = without(S) /\ unserved' = unserved \cup {x[1] : x \in S}
     /\ UNCHANGED <<exposure, lastExposure>> /\ Observe

\* the rows go with the project (ON DELETE CASCADE)
RowsGo(j) ==
  /\ job[j].pc = "gone"
  /\ exposure' = [q \in Ports |-> IF exposure[q].owner = job[j].project THEN NoExposure ELSE exposure[q]]
  /\ Over(j)
  /\ UNCHANGED <<proxy, lastExposure, unserved>> /\ Observe

\* the process starts: jobs are lost, and reconcileAllTcpExposures waits for the networks
Boots ==
  /\ \E j \in Jobs : job' = [k \in Jobs |-> IF k = j THEN [NoJob EXCEPT !.kind = "boot", !.pc = "list"] ELSE NoJob]
  /\ UNCHANGED <<exposure, proxy, lastExposure, unserved>> /\ Observe

\* reconcileAllTcpExposures lists the rows once, and takes them in the order of their ids
ListRows(j) ==
  /\ job[j].pc = "list"
  /\ job' = [job EXCEPT ![j] = TakesRow(@, Listed(Ports))]
  /\ unserved' = {}
  /\ UNCHANGED <<exposure, proxy, lastExposure>> /\ Observe

(* "StackPort persists that desired state and owns one proxy container per *)
(* exposure" (Stackport.md l.56): once no request is being worked on,      *)
(* every container that publishes a port belongs to the row of that port,  *)
(* and a row without its container says so in last_error.  So a crash, a   *)
(* failed `docker run` or a name two jobs fight over leaves no port open   *)
(* and no row silent.  Not promised for a port that was being exposed and  *)
(* taken away at one time, and for a row that docker failed twice.         *)
TcpProxiesFollowRows ==
  JobsIdle => \A q \in Ports :
    /\ proxy[q] # 0 /\ q \notin contended => exposure[q].id = proxy[q]
    /\ exposure[q].id # 0 /\ q \notin contended \cup unserved => proxy[q] = exposure[q].id \/ exposure[q].failed
=============================================================================

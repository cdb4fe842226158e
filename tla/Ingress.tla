------------------------------ MODULE Ingress ------------------------------
(***************************************************************************)
(* The public routes: the rows that say which domain goes to which         *)
(* project, Stackport's own route, the certificates, the file nginx reads  *)
(* and what it serves, and the network on which nginx reaches a project's  *)
(* services; src/src/modules/ingress, deployments/compose/networking.ts    *)
(* and the handlers of src/src/application/http that change them.          *)
(*                                                                         *)
(* Every change is followed by a call of writeNginxConfig, most of them    *)
(* without a slot, so applies overlap.  A flow is one such caller: what it *)
(* does before, between and after its applies.  Each of its steps is the   *)
(* code between two awaits; an outcome of docker, certbot or nginx that    *)
(* the state does not decide is a fault, and MaxFaults bounds them.        *)
(*                                                                         *)
(* A configuration is the set of its server blocks and the kind of its     *)
(* HTTPS fallback; templates do not change.  The only text nginx rejects   *)
(* is an operator's snippet, and an HTTPS block without its certificate.   *)
(***************************************************************************)
EXTENDS TcpProxies

CONSTANTS Domains,    \* host names
          Flows,      \* bound: callers of writeNginxConfig at one time
          App,        \* the owner of Stackport's own route
          NoFile,
          EnvDomains, \* what config.stackportDomain may be: a domain, or NoOne
          MaxOps,     \* bound: changes by operators and timers in a behaviour
          MaxFaults   \* bound: failures of commands and restarts in a behaviour

ASSUME IngressAssumption ==
  /\ NoOne \notin Projects \cup Domains \cup Targets
  /\ App \notin Projects \cup {NoOne} \cup Targets
  /\ EnvDomains \subseteq Domains \cup {NoOne}
  /\ MaxOps \in Nat \ {0} /\ MaxFaults \in Nat \ {0}

VARIABLES envDomain,  \* config.stackportDomain of this installation
          project,    \* projects: there, paused, has a legacy internal_port, its nginx snippet
          route,      \* project_domains, by domain
          app,        \* nginx_app_enabled, nginx_app_domain, nginx_app_use_ssl
          pending,    \* nginx_app_bootstrap_pending
          selfSigned, \* the bootstrap certificate is there
          cert,       \* domains with a certificate in /etc/letsencrypt/live
          file,       \* sites-available/default
          served,     \* the configuration nginx runs
          flow,
          network,    \* the ingress network of a project: none, made, or joined by nginx
          attached,   \* the services whose containers are on it under their alias
          bringing,   \* the services a deploy in progress will attach, or NoOne
          stale,      \* a change may be without an apply that read it and succeeded (observed)
          mixed,      \* applies may have mixed each other's files (observed)
          crossed,    \* projects whose services were attached during a deploy, or could not be (observed)
          cut,        \* routed projects nginx is off since it was recreated or its last connect failed (observed)
          ops, faults

rows == <<envDomain, project, route, app, pending>>
disk == <<selfSigned, cert, file, served>>
nets == <<network, attached, bringing, crossed, cut, tcpVars>>
observed == <<stale, mixed>>
ingressVars == <<rows, disk, flow, nets, observed, ops, faults>>

-----------------------------------------------------------------------------
(* Configurations *)

Snippets == {"plain", "broken"}      \* nginxExtraConfig and nginxExtraBlocks

Present == {p \in Projects : project[p].there}

\* loadProjects: paused = 0
Unpaused == {p \in Projects : project[p].there /\ ~project[p].paused}
LoadProjects == {<<p, project[p].snippet>> : p \in Unpaused}

\* listRoutedServiceNames
Routed(p) == {route[d].target : d \in {e \in Domains : route[e].owner = p}} \cup TcpTargets(p)

\* routeTargets: appRouteTarget and projectRouteTargets; https is use_ssl until the certificate was looked up
AppTarget ==
  IF app.enabled /\ app.domain # NoOne
    THEN {[domain |-> app.domain, owner |-> App, target |-> NoOne, snippet |-> "plain", https |-> app.ssl]}
    ELSE {}
RouteTargets(loaded) ==
  AppTarget \cup {[domain |-> x[1], owner |-> x[2][1], target |-> route[x[1]].target,
                   snippet |-> x[2][2], https |-> route[x[1]].ssl] :
                     x \in {y \in Domains \X loaded : route[y[1]].owner = y[2][1]}}

\* renderDomainBlock and the fallback: HTTPS only where use_ssl is set and the certificate exists
Render(targets) ==
  [blocks |-> {[b EXCEPT !.https = b.https /\ b.domain \in cert] : b \in targets},
   fallback |-> IF app.domain = NoOne /\ selfSigned THEN "app" ELSE "reject"]

\* what an apply without anything else going on would write
Configured == Render(RouteTargets(LoadProjects))

Sound(c) == \A b \in c.blocks : b.snippet # "broken"
Loads(c) == Sound(c) /\ \A b \in c.blocks : b.https => b.domain \in cert

-----------------------------------------------------------------------------
(* Flows *)

ApplyPcs == {"read", "render", "validate", "backup", "replace", "check", "activate", "restore"}

\* a flow of kind k about project p and domain d begins at pc
Begun(k, pc, p, d) ==
  [kind |-> k, pc |-> pc, project |-> p, domain |-> d, row |-> d # NoOne, second |-> FALSE,
   loaded |-> {}, targets |-> {}, conf |-> NoFile, backup |-> NoFile, solo |-> FALSE]
Idle == Begun("idle", "idle", NoOne, NoOne)
Active(f) == flow[f].kind # "idle"
InApply(f) == flow[f].pc \in ApplyPcs
Running(kinds, d) == \E f \in Flows : flow[f].kind \in kinds /\ flow[f].domain = d

Goto(f, pc) == flow' = [flow EXCEPT ![f].pc = pc]
Operate == ops < MaxOps /\ ops' = ops + 1 /\ UNCHANGED faults
Fault == faults < MaxFaults /\ faults' = faults + 1 /\ UNCHANGED ops
NoFault == UNCHANGED <<ops, faults>>
Costs(failed) == IF failed = {} THEN NoFault ELSE Fault  \* commands that failed together are one fault

\* no apply in progress will clear stale or mixed any more
Doubted(fl) == [f \in Flows |-> [fl[f] EXCEPT !.solo = FALSE]]

\* flow f ends, leaving a change that no apply has put into force
EndsInVain(f) ==
  /\ flow' = Doubted([flow EXCEPT ![f] = Idle])
  /\ stale' = TRUE

Ends(f) == flow' = [flow EXCEPT ![f] = Idle]

NoRoute == [owner |-> NoOne, target |-> NoOne, ssl |-> FALSE]

\* a first start, counted as one change or, if it publishes a domain, as one fault: nothing is configured
\* and ensureAppIngress begins
FirstStart ==
  /\ envDomain \in EnvDomains
  /\ project = [p \in Projects |-> [there |-> TRUE, paused |-> FALSE, port |-> FALSE, snippet |-> "plain"]]
  /\ route = [d \in Domains |-> NoRoute]
  /\ app = [enabled |-> FALSE, domain |-> NoOne, ssl |-> TRUE]
  /\ selfSigned = FALSE /\ cert = {} /\ file = NoFile /\ served = NoFile
  /\ \E f \in Flows : flow = [g \in Flows |-> IF g = f THEN Begun("boot", "ready", NoOne, NoOne) ELSE Idle]
  /\ network = [p \in Projects |-> "none"] /\ attached = [p \in Projects |-> {}] /\ cut = {}
  /\ NoTcp
  /\ stale = TRUE
  /\ \/ ops = 1 /\ faults = 0
     \/ envDomain # NoOne /\ ops = 0 /\ faults = 1

\* an installation at rest: a project served over HTTPS, whose network nginx may have failed to join,
\* and Stackport published on another domain;
\* a project without a legacy port has its TCP ports lead to another service
InUse ==
  /\ envDomain = NoOne
  /\ project \in [Projects -> [there : {TRUE}, paused : {FALSE}, port : BOOLEAN, snippet : {"plain"}]]
  /\ \E d \in Domains \ EnvDomains, p \in Projects, t \in Targets :
       /\ route = [e \in Domains |-> IF e = d THEN [owner |-> p, target |-> t, ssl |-> TRUE] ELSE NoRoute]
       /\ cert = {d}
       /\ app \in [enabled : {TRUE}, domain : Domains \ {d}, ssl : {FALSE}]
       /\ IF project[p].port THEN NoTcp ELSE \E u \in Targets \ {t} : Exposed(Ports, p, u)
  /\ selfSigned = TRUE
  /\ file = Configured /\ served = Configured
  /\ flow = [f \in Flows |-> Idle]
  /\ cut \in SUBSET {p \in Projects : Routed(p) # {}}
  /\ network = [p \in Projects |-> IF Routed(p) = {} THEN "none" ELSE IF p \in cut THEN "made" ELSE "joined"]
  /\ attached = [p \in Projects |-> Routed(p)]
  /\ stale = FALSE /\ ops = 0 /\ faults = 0

IngressInit ==
  /\ pending = FALSE
  /\ FirstStart \/ InUse
  /\ bringing = [p \in Projects |-> NoOne]
  /\ mixed = FALSE /\ crossed = {}

-----------------------------------------------------------------------------
(* writeNginxConfig *)

\* connectNginxToIngressNetworks, for the networks that exist; what fails is logged and skipped (off)
NginxJoins(off) ==
  LET apart == {p \in Projects : Routed(p) # {} /\ network[p] = "made"}
  IN /\ off \subseteq apart
     /\ network' = [p \in Projects |-> IF p \in apart \ off THEN "joined" ELSE network[p]]
     /\ cut' = off

\* connectNginxToIngressNetworks and loadProjects; another apply in progress makes both doubtful
Load(f) ==
  LET loading == [flow EXCEPT ![f].pc = "read", ![f].loaded = LoadProjects, ![f].solo = TRUE]
      overlaps == \E g \in Flows : InApply(g)
  IN /\ flow[f].pc = "load"
     /\ flow' = IF overlaps THEN Doubted(loading) ELSE loading
     /\ stale' = (stale \/ overlaps) /\ mixed' = (mixed \/ overlaps)
     /\ \E off \in SUBSET Projects : NginxJoins(off) /\ Costs(off)
     /\ UNCHANGED <<rows, disk, attached, bringing, crossed, tcpVars>>

\* generateNginxConfig after ensureTemplates: the routes of the projects loaded before
ReadRoutes(f) ==
  /\ flow[f].pc = "read"
  /\ flow' = [flow EXCEPT ![f].pc = "render", ![f].loaded = {}, ![f].targets = RouteTargets(flow[f].loaded)]
  /\ UNCHANGED <<rows, disk, observed, nets>> /\ NoFault

\* renderDomainBlock after certificateExists; the candidate is written
RenderBlocks(f) ==
  /\ flow[f].pc = "render"
  /\ flow' = [flow EXCEPT ![f].pc = "validate", ![f].targets = {}, ![f].conf = Render(flow[f].targets)]
  /\ UNCHANGED <<rows, disk, observed, nets>> /\ NoFault

\* the apply returned ok = FALSE: every caller ends there
ApplyFails(f) ==
  /\ EndsInVain(f)
  /\ UNCHANGED <<rows, disk, mixed, nets>>

MutValidate(f) ==
  /\ flow[f].pc = "validate"
  /\ \/ Loads([flow[f].conf EXCEPT !.blocks = {[b EXCEPT !.snippet = "plain"] : b \in @}])
        /\ Goto(f, "backup") /\ UNCHANGED <<rows, disk, observed, nets>> /\ NoFault
     \/ ~Loads(flow[f].conf) /\ ApplyFails(f) /\ NoFault
     \/ Loads(flow[f].conf) /\ ApplyFails(f) /\ Fault

\* validateCandidateFile: a candidate nginx rejects touches nothing
Validate(f) ==
  /\ flow[f].pc = "validate"
  /\ \/ Loads(flow[f].conf) /\ Goto(f, "backup") /\ UNCHANGED <<rows, disk, observed, nets>> /\ NoFault
     \/ ~Loads(flow[f].conf) /\ ApplyFails(f) /\ NoFault
     \/ Loads(flow[f].conf) /\ ApplyFails(f) /\ Fault

\* backupCurrentFile
Backup(f) ==
  /\ flow[f].pc = "backup"
  /\ flow' = [flow EXCEPT ![f].pc = "replace", ![f].backup = file]
  /\ UNCHANGED <<rows, disk, observed, nets>> /\ NoFault

\* the candidate is copied over the file
Replace(f) ==
  /\ flow[f].pc = "replace"
  /\ file' = flow[f].conf
  /\ flow' = [flow EXCEPT ![f].pc = "check", ![f].conf = NoFile]
  /\ UNCHANGED <<rows, selfSigned, cert, served, observed, nets>> /\ NoFault

FileLoads == file # NoFile /\ Loads(file)

\* validateCurrentFile, of whatever the file is by now
Check(f) ==
  /\ flow[f].pc = "check"
  /\ \/ FileLoads /\ Goto(f, "activate") /\ NoFault
     \/ ~FileLoads /\ Goto(f, "restore") /\ NoFault
     \/ FileLoads /\ Goto(f, "restore") /\ Fault
  /\ UNCHANGED <<rows, disk, observed, nets>>

\* what the caller does when its apply returned ok
AfterApply(f) ==
  IF flow[f].kind \in {"issue", "boot"} /\ flow[f].domain # NoOne /\ ~flow[f].second
    THEN flow' = [flow EXCEPT ![f].pc = "resolve", ![f].backup = NoFile, ![f].solo = FALSE] /\ UNCHANGED pending
    ELSE /\ Ends(f)
         /\ pending' = IF flow[f].kind = "boot" /\ flow[f].second THEN FALSE ELSE pending

\* restartNginx; its answer can be lost after nginx loaded the file
Activate(f) ==
  /\ flow[f].pc = "activate"
  /\ \/ /\ FileLoads
        /\ served' = file
        /\ AfterApply(f)
        /\ IF flow[f].solo THEN stale' = FALSE /\ mixed' = FALSE ELSE UNCHANGED observed
        /\ UNCHANGED <<envDomain, project, route, app, selfSigned, cert, file, nets>> /\ NoFault
     \/ ~FileLoads /\ Goto(f, "restore") /\ UNCHANGED <<rows, disk, observed, nets>> /\ NoFault
     \/ FileLoads /\ Goto(f, "restore") /\ UNCHANGED <<rows, disk, observed, nets>> /\ Fault
     \/ /\ FileLoads
        /\ served' = file
        /\ flow' = Doubted([flow EXCEPT ![f].pc = "restore"])
        /\ mixed' = TRUE
        /\ UNCHANGED <<rows, selfSigned, cert, file, stale, nets>> /\ Fault

MutRestore(f) ==
  /\ flow[f].pc = "restore"
  /\ EndsInVain(f)
  /\ UNCHANGED <<rows, disk, mixed, nets>> /\ NoFault

\* restoreBackup, or no file when there was none; the apply returned ok = FALSE
Restore(f) ==
  /\ flow[f].pc = "restore"
  /\ file' = flow[f].backup
  /\ EndsInVain(f)
  /\ UNCHANGED <<rows, selfSigned, cert, served, mixed, nets>> /\ NoFault

-----------------------------------------------------------------------------
(* What the callers do around an apply *)

\* ensureIngressNetwork for the projects of ps: their networks are there, and nginx joins them; a failed
\* connect (off) is put off to the next apply, since a deploy must not depend on nginx
Ensures(ps, off) ==
  /\ off \subseteq {p \in ps : network[p] # "joined"}
  /\ network' = [p \in Projects |-> IF p \in off THEN "made" ELSE IF p \in ps THEN "joined" ELSE network[p]]
  /\ cut' = (cut \ ps) \cup off

\* ensureProjectProxyNetwork for the projects of ps: then the Compose file and the containers that run
\* now.  It may throw, before its network is there or after
Attaches(ps, thrown, off) ==
  LET routed == {p \in ps : Routed(p) # {}}
  IN /\ thrown \subseteq routed
     /\ \E after \in SUBSET thrown : Ensures((routed \ thrown) \cup after, off)
     /\ attached' = [p \in Projects |-> IF p \in ps \ thrown THEN attached[p] \cup Routed(p) ELSE attached[p]]
     /\ crossed' = {p \in Projects : IF p \in ps \ thrown THEN bringing[p] # NoOne ELSE p \in crossed \cup thrown}

MutNetwork(f) ==
  /\ flow[f].pc = "network"
  /\ \/ Goto(f, "load") /\ UNCHANGED stale /\ NoFault
     \/ EndsInVain(f) /\ Fault
  /\ UNCHANGED <<rows, disk, mixed, nets>>

\* runProjectNginxFlow and the issue handler; no apply follows when it throws
Network(f) ==
  /\ flow[f].pc = "network"
  /\ \E thrown, off \in SUBSET Projects :
       /\ Attaches({flow[f].project} \cap Present, thrown, off) /\ Costs(thrown \cup off)
       /\ IF thrown = {} THEN Goto(f, "load") /\ UNCHANGED stale ELSE EndsInVain(f)
  /\ UNCHANGED <<rows, disk, mixed, bringing, tcpVars>>

\* runCertbotAction: only a domain of the routes as they are now
Resolve(f) ==
  /\ flow[f].pc = "resolve"
  /\ IF \E b \in RouteTargets(LoadProjects) : b.domain = flow[f].domain
       THEN Goto(f, "certbot")
       ELSE Ends(f)
  /\ UNCHANGED <<rows, disk, observed, nets>> /\ NoFault

\* no project row has the domain: the check of setNginxAppConfig
FreeForApp(d) == route[d].owner = NoOne

MutCertbotDoneWithoutApply(f) ==
  LET d == flow[f].domain
      kind == flow[f].kind
  IN /\ cert' = CASE kind \in {"issue", "certonly", "boot"} -> cert \cup {d}
                  [] kind = "delete" -> cert \ {d}
                  [] OTHER -> cert
     /\ route' = IF kind = "issue" /\ flow[f].row THEN [route EXCEPT ![d].ssl = TRUE] ELSE route
     /\ IF kind = "delete" THEN Ends(f) ELSE flow' = [flow EXCEPT ![f].pc = "load", ![f].second = TRUE]
     /\ app' = IF kind = "boot" THEN [enabled |-> TRUE, domain |-> d, ssl |-> TRUE] ELSE app
     /\ UNCHANGED <<envDomain, project, pending, selfSigned, file, served, observed, nets>>

\* the certificate changed; the issue handler and the bootstrap switch HTTPS on
CertbotDone(f) ==
  LET d == flow[f].domain
      kind == flow[f].kind
  IN /\ cert' = CASE kind \in {"issue", "certonly", "boot"} -> cert \cup {d}
                  [] kind = "delete" -> cert \ {d}
                  [] OTHER -> cert
     /\ route' = IF kind = "issue" /\ flow[f].row THEN [route EXCEPT ![d].ssl = TRUE] ELSE route
     /\ IF kind = "boot" /\ ~FreeForApp(d)
          THEN EndsInVain(f) /\ UNCHANGED app
          ELSE /\ flow' = [flow EXCEPT ![f].pc = "load", ![f].second = TRUE]
               /\ app' = IF kind = "boot" THEN [enabled |-> TRUE, domain |-> d, ssl |-> TRUE] ELSE app
               /\ UNCHANGED stale
     /\ UNCHANGED <<envDomain, project, pending, selfSigned, file, served, mixed, nets>>

\* certbot ran: HTTPS is switched on and applied, or the caller gives up
Certbot(f) ==
  /\ flow[f].pc = "certbot"
  /\ \/ CertbotDone(f) /\ NoFault
     \/ Ends(f) /\ UNCHANGED <<rows, disk, observed, nets>> /\ Fault

\* ensureAppIngress, once nginx answered
Bootstrap(f) ==
  /\ flow[f].pc = "ready"
  /\ \/ /\ app.domain # NoOne /\ ~pending
        /\ Goto(f, "load") /\ UNCHANGED <<app, pending, selfSigned>>
     \/ /\ app.domain = NoOne \/ pending
        /\ envDomain = NoOne
        /\ selfSigned' = TRUE
        /\ Goto(f, "load") /\ UNCHANGED <<app, pending>>
     \/ /\ app.domain = NoOne \/ pending
        /\ envDomain # NoOne
        /\ pending' = TRUE
        /\ IF FreeForApp(envDomain)
             THEN /\ app' = [enabled |-> TRUE, domain |-> envDomain, ssl |-> FALSE]
                  /\ flow' = [flow EXCEPT ![f].pc = "load", ![f].domain = envDomain]
             ELSE Ends(f) /\ UNCHANGED app
        /\ UNCHANGED selfSigned
  /\ UNCHANGED <<envDomain, project, route, cert, file, served, observed, nets>> /\ NoFault

\* nginx did not become ready, or the bootstrap certificate could not be made
BootstrapFails(f) ==
  /\ flow[f].pc = "ready"
  /\ Ends(f)
  /\ UNCHANGED <<rows, disk, observed, nets>> /\ Fault

FlowStep(f) ==
  \/ Bootstrap(f) \/ BootstrapFails(f) \/ Network(f) \/ Resolve(f) \/ Certbot(f)
  \/ Load(f) \/ ReadRoutes(f) \/ RenderBlocks(f) \/ Validate(f) \/ Backup(f)
  \/ Replace(f) \/ Check(f) \/ Activate(f) \/ Restore(f)

-----------------------------------------------------------------------------
(* The changes; each starts a flow in a free place *)

Starts(k, pc, p, d) == \E f \in Flows : ~Active(f) /\ flow' = [flow EXCEPT ![f] = Begun(k, pc, p, d)]

\* addProjectDomain, with ensureDomainAvailable in the same turn
AddDomain(p, d, t) ==
  /\ project[p].there /\ route[d].owner = NoOne
  /\ ~(app.enabled /\ app.domain = d)
  /\ route' = [route EXCEPT ![d] = [owner |-> p, target |-> t, ssl |-> FALSE]]
  /\ Starts("route", "network", p, NoOne)
  /\ UNCHANGED <<envDomain, project, app, pending, disk, observed, nets>>

MutSetRoute(d, t) ==
  /\ route[d].owner # NoOne /\ route[d].target # t
  /\ route' = [route EXCEPT ![d].target = t]
  /\ UNCHANGED <<envDomain, project, app, pending, disk, flow, observed, nets>>

\* setProjectDomainRoute
SetRoute(d, t) ==
  /\ route[d].owner # NoOne /\ route[d].target # t
  /\ route' = [route EXCEPT ![d].target = t]
  /\ Starts("route", "network", route[d].owner, NoOne)
  /\ UNCHANGED <<envDomain, project, app, pending, disk, observed, nets>>

\* setProjectDomainSsl
SetSsl(d, on) ==
  /\ route[d].owner # NoOne /\ route[d].ssl # on
  /\ route' = [route EXCEPT ![d].ssl = on]
  /\ Starts("route", "network", route[d].owner, NoOne)
  /\ UNCHANGED <<envDomain, project, app, pending, disk, observed, nets>>

\* the flows that go on for a domain of D hold the id of a row that is gone
RowsGone(fl, D) == [f \in Flows |-> IF fl[f].domain \in D THEN [fl[f] EXCEPT !.row = FALSE] ELSE fl[f]]

\* removeProjectDomain
RemoveDomain(d) ==
  /\ route[d].owner # NoOne
  /\ route' = [route EXCEPT ![d] = NoRoute]
  /\ \E f \in Flows : ~Active(f) /\ flow' = RowsGone([flow EXCEPT ![f] = Begun("route", "network", route[d].owner, NoOne)], {d})
  /\ UNCHANGED <<envDomain, project, app, pending, disk, observed, nets>>

\* the issue of a certificate in its own slot: HTTPS off first, so that the challenge is answered
Issue(d) ==
  /\ route[d].owner # NoOne /\ ~Running({"issue"}, d)
  /\ route' = [route EXCEPT ![d].ssl = FALSE]
  /\ Starts("issue", "network", route[d].owner, d)
  /\ UNCHANGED <<envDomain, project, app, pending, disk, observed, nets>>

\* updateProject: a snippet alone is applied only for a project with a legacy internal_port
EditProject(p, port, snippet) ==
  /\ project[p].there /\ <<port, snippet>> # <<project[p].port, project[p].snippet>>
  /\ project' = [project EXCEPT ![p].port = port, ![p].snippet = snippet]
  /\ IF project[p].port # port \/ (port /\ project[p].snippet # snippet)
       THEN Starts("route", "network", p, NoOne) /\ UNCHANGED stale
       ELSE flow' = Doubted(flow) /\ stale' = TRUE
  /\ UNCHANGED <<envDomain, route, app, pending, disk, mixed, nets>>

\* setProjectPaused
Pause(p, paused) ==
  /\ project[p].there /\ project[p].paused # paused
  /\ project' = [project EXCEPT ![p].paused = paused]
  /\ Starts("route", "network", p, NoOne)
  /\ UNCHANGED <<envDomain, route, app, pending, disk, observed, nets>>

\* the end of DELETE of a project: its domains and exposures go with the row (ON DELETE CASCADE),
\* then its network
DeleteProject(j) ==
  LET p == job[j].project
      gone == {d \in Domains : route[d].owner = p}
  IN /\ RowsGo(j)
     /\ project' = [project EXCEPT ![p].there = FALSE]
     /\ route' = [d \in Domains |-> IF d \in gone THEN NoRoute ELSE route[d]]
     /\ \E f \in Flows : ~Active(f) /\ flow' = RowsGone([flow EXCEPT ![f] = Begun("route", "load", p, NoOne)], gone)
     /\ network' = [network EXCEPT ![p] = "none"] /\ attached' = [attached EXCEPT ![p] = {}]
     /\ UNCHANGED <<envDomain, app, pending, disk, observed, bringing, crossed, cut>> /\ NoFault

\* switched off with the domain kept, or on for a domain that no project has;
\* setNginxAppConfig comes before tryStart: the answer may be "busy" with the change saved
Publish(on, d, ssl) ==
  /\ IF on THEN d # NoOne /\ FreeForApp(d) ELSE app.enabled /\ d = app.domain /\ ssl = app.ssl
  /\ app' = [enabled |-> on, domain |-> d, ssl |-> ssl]
  /\ IF Running({"apply"}, NoOne)
       THEN flow' = Doubted(flow) /\ stale' = TRUE
       ELSE Starts("apply", "load", NoOne, NoOne) /\ UNCHANGED stale
  /\ UNCHANGED <<envDomain, project, route, pending, disk, mixed, nets>>

\* nginx apply (in the nginx slot) and nginx reload (in none)
Apply ==
  /\ \/ ~Running({"apply"}, NoOne) /\ Starts("apply", "load", NoOne, NoOne)
     \/ Starts("reload", "load", NoOne, NoOne)
  /\ UNCHANGED <<rows, disk, observed, nets>>

\* a certbot action of the operator, in the slot of its domain and action
CertbotAction(d, k) ==
  /\ ~Running({k}, d)
  /\ Starts(k, "resolve", NoOne, d)
  /\ UNCHANGED <<rows, disk, observed, nets>>

\* certbotRenewalMonitor.check, guarded by running
Renewal ==
  /\ ~Running({"renewal"}, NoOne)
  /\ Starts("renewal", "certbot", NoOne, NoOne)
  /\ UNCHANGED <<rows, disk, observed, nets>>

\* runCompose before `up`: the services of the routes as they are now join the network
DeployBegins(p, off) ==
  /\ project[p].there /\ bringing[p] = NoOne
  /\ bringing' = [bringing EXCEPT ![p] = Routed(p)]
  /\ Ensures(IF Routed(p) # {} THEN {p} ELSE {}, off)
  /\ ops < MaxOps /\ ops' = ops + 1
  /\ IF off = {} THEN UNCHANGED faults ELSE faults < MaxFaults /\ faults' = faults + 1
  /\ UNCHANGED <<rows, disk, flow, observed, attached, crossed, tcpVars>>

\* `up` replaces the containers, or fails before that
DeployEnds(p) ==
  /\ bringing[p] # NoOne
  /\ bringing' = [bringing EXCEPT ![p] = NoOne]
  /\ \/ attached' = [attached EXCEPT ![p] = IF project[p].there THEN bringing[p] ELSE {}] /\ NoFault
     \/ UNCHANGED attached /\ Fault
  /\ UNCHANGED <<rows, disk, flow, observed, network, crossed, cut, tcpVars>>

\* the system stack recreates the nginx container: it has its file and none of the ingress networks
NginxRecreated ==
  /\ Fault
  /\ file # NoFile /\ FileLoads
  /\ served' = file
  /\ network' = [p \in Projects |-> IF network[p] = "joined" THEN "made" ELSE network[p]]
  /\ cut' = cut \cup {p \in Projects : network[p] = "joined"}
  /\ flow' = Doubted(flow) /\ mixed' = (mixed \/ \E f \in Flows : InApply(f))
  /\ UNCHANGED <<rows, selfSigned, cert, file, attached, bringing, crossed, stale, tcpVars>>

\* the process dies and starts again: its flows are lost, ensureAppIngress begins, and
\* reconcileIngressNetworks puts every project's services and nginx on its network; what docker
\* refuses there (missed, off) is logged, and is the same fault
Restart ==
  /\ Fault
  /\ \E f \in Flows : flow' = [g \in Flows |-> IF g = f THEN Begun("boot", "ready", NoOne, NoOne) ELSE Idle]
  /\ stale' = (stale \/ \E f \in Flows : Active(f))
  /\ mixed' = (mixed \/ \E f \in Flows : InApply(f))
  /\ \E missed, off \in SUBSET Projects : Attaches(Present, missed, off)
  /\ bringing' = [p \in Projects |-> NoOne]
  /\ Boots
  /\ UNCHANGED <<rows, disk>>

\* the requests about TCP exposures, and a project's DELETE, up to their first wait
AskTcp ==
  /\ \/ \E p \in Projects : project[p].there /\ DeleteBegins(p)
     \/ \E q \in Ports : \/ Unexpose(q)
                         \/ \E p \in Projects, t \in Targets : project[p].there /\ Expose(p, q, t)
  /\ UNCHANGED <<rows, disk, flow, network, attached, bringing, crossed, cut, observed>>

DockerFails(j, ok) == IF ok \/ job[j].outage THEN NoFault ELSE Fault

\* ensureProjectProxyNetwork in the request for an exposure
AttachTcp(j, ok) ==
  /\ Attached(j, ok)
  /\ \E thrown, off \in SUBSET Projects :
       /\ Attaches({job[j].project} \cap Present, thrown, off)
       /\ ok <=> thrown = {}
       /\ DockerFails(j, ok /\ off = {})
  /\ UNCHANGED <<rows, disk, flow, bringing, observed>>

\* ensureIngressNetwork comes before docker run, whether the project is still there or not
StartTcp(j, ok) ==
  /\ RunProxy(j, ok)
  /\ \/ ~ok /\ UNCHANGED <<network, cut>> /\ DockerFails(j, FALSE)
     \/ \E off \in SUBSET Projects : Ensures({job[j].project} \cap Projects, off) /\ DockerFails(j, ok /\ off = {})
  /\ UNCHANGED <<rows, disk, flow, attached, bringing, crossed, observed>>

TcpStep(j) ==
  /\ \/ /\ Insert(j, Present) \/ DropRow(j) \/ ListRows(j)
        /\ NoFault
     \/ \E ok \in BOOLEAN : /\ CheckProxy(j, ok) \/ Remove(j, ok) \/ RemoveRuntime(j, ok)
                            /\ DockerFails(j, ok)
  /\ UNCHANGED <<rows, disk, flow, network, attached, bringing, crossed, cut, observed>>

Asked ==
  \/ \E d \in Domains :
       \/ \E p \in Projects, t \in Targets : AddDomain(p, d, t)
       \/ \E t \in Targets : SetRoute(d, t)
       \/ \E on \in BOOLEAN : SetSsl(d, on)
       \/ RemoveDomain(d) \/ Issue(d)
       \/ \E k \in {"certonly", "delete", "renew"} : CertbotAction(d, k)
  \/ \E p \in Projects :
       \/ \E port \in BOOLEAN, s \in Snippets : EditProject(p, port, s)
       \/ \E paused \in BOOLEAN : Pause(p, paused)
  \/ \E on \in BOOLEAN, d \in Domains \cup {NoOne}, ssl \in BOOLEAN : Publish(on, d, ssl)
  \/ Apply \/ Renewal \/ AskTcp

Change == Operate /\ Asked

IngressNext ==
  \/ Change \/ NginxRecreated \/ Restart
  \/ \E p \in Projects : DeployEnds(p) \/ \E off \in SUBSET {p} : DeployBegins(p, off)
  \/ \E f \in Flows : FlowStep(f)
  \/ \E j \in Jobs : \/ TcpStep(j) \/ DeleteProject(j)
                      \/ \E ok \in BOOLEAN : AttachTcp(j, ok) \/ StartTcp(j, ok)

\* every command has a timeout, so a flow goes on
IngressFairness == \A f \in Flows : WF_ingressVars(FlowStep(f))
IngressSpec == IngressInit /\ [][IngressNext]_ingressVars /\ IngressFairness

-----------------------------------------------------------------------------
(* Properties *)

Quiet == \A f \in Flows : ~Active(f)

(* Once every apply is over, what nginx runs is what the rows and the      *)
(* certificates say: no handler changes a route, a project, the publishing *)
(* of Stackport or a certificate without an apply that reads the change.   *)
(* Not promised when an apply failed, was lost in a restart or overlapped  *)
(* another, when a publish was refused as busy after it was saved, and     *)
(* when a snippet was saved for a project without a legacy port.           *)
ServesAsConfigured == Quiet /\ ~stale => served = Configured

(* A failed apply takes its own file back: at rest the file a restarted    *)
(* nginx would read is what nginx runs, unless applies overlapped, died    *)
(* half-way, or the answer of a reload was lost.                           *)
DiskIsLive == Quiet /\ ~mixed => file = served

(* Whatever overlaps, fails or dies, the file on disk and what nginx runs  *)
(* never hold a snippet that nginx rejects.                                *)
FileSound ==
  /\ file # NoFile => Sound(file)
  /\ served # NoFile => Sound(served)

(* While nothing is in doubt, no HTTPS block of the file lacks its         *)
(* certificate, except between a deletion by certbot and its apply.        *)
CertsBehindHttps ==
  ~stale /\ ~mixed /\ file # NoFile =>
    \A b \in file.blocks :
      b.https => b.domain \in cert \/ \E f \in Flows : flow[f].kind = "delete" /\ flow[f].second

(* At rest, every service nginx or a TCP proxy forwards to is on the       *)
(* project's network, nginx too, under its alias: a deploy reads the       *)
(* routes before it replaces the containers, and a route added or changed  *)
(* later attaches the running ones.  Not promised when both happened at    *)
(* once or attaching failed, and, of nginx alone, when its container was   *)
(* recreated or its connect failed and no connect has succeeded since.     *)
UpstreamsReachable ==
  LET forwarded == {<<b.owner, b.target>> : b \in Configured.blocks}
                   \cup {<<exposure[q].owner, exposure[q].target>> :
                           q \in {r \in Ports : proxy[r] # 0 /\ proxy[r] = exposure[r].id}}
  IN Quiet /\ JobsIdle =>
       \A x \in forwarded :
         x[1] \in Projects \ crossed =>
           /\ network[x[1]] = IF x[1] \in cut THEN "made" ELSE "joined"
           /\ x[2] \in attached[x[1]]
=============================================================================

--------------------------- MODULE IngressProofs ---------------------------
(***************************************************************************)
(* Ingress and TcpProxies proved for every set of projects, domains, ports *)
(* and callers, and any number of changes and faults: what the file on     *)
(* disk and nginx may hold, that nginx serves what the rows say once every *)
(* apply is over, that the proxy containers follow their rows, and that    *)
(* what is forwarded to is on the network of its project.                  *)
(*                                                                         *)
(* Four inductive invariants: SoundInv of the files, RouteInv of the       *)
(* applies, TcpInv of the requests about exposures and, with these two,    *)
(* NetInv of the networks.                                                 *)
(***************************************************************************)
EXTENDS Ingress, FiniteSetTheorems, TLAPS

-----------------------------------------------------------------------------
(* The inductive invariant *)

GoodFile(c) == c # NoFile => Sound(c)

\* r has the fields of a flow; its backup is good, and what it is about to write was accepted
GoodFlow(r) ==
  /\ r = [kind |-> r.kind, pc |-> r.pc, project |-> r.project, domain |-> r.domain, row |-> r.row,
          second |-> r.second, loaded |-> r.loaded, targets |-> r.targets, conf |-> r.conf,
          backup |-> r.backup, solo |-> r.solo]
  /\ GoodFile(r.backup)
  /\ r.pc \in {"backup", "replace"} => Sound(r.conf)

GoodFlows(fl) ==
  /\ fl = [f \in Flows |-> fl[f]]
  /\ \A f \in Flows : GoodFlow(fl[f])

SoundInv == GoodFile(file) /\ GoodFile(served) /\ GoodFlows(flow)

-----------------------------------------------------------------------------
(* Flows *)

(* A flow at its beginning is good. *)
LEMMA BegunGood ==
  ASSUME NEW k, NEW pc, NEW p, NEW d, pc \notin {"backup", "replace"}
  PROVE  GoodFlow(Begun(k, pc, p, d))
<1> DEFINE fresh(row) == [kind |-> k, pc |-> pc, project |-> p, domain |-> d, row |-> row, second |-> FALSE,
                          loaded |-> {}, targets |-> {}, conf |-> NoFile, backup |-> NoFile, solo |-> FALSE]
<1>1. ASSUME NEW row PROVE GoodFlow(fresh(row))
  BY DEF GoodFlow, GoodFile
<1>2. Begun(k, pc, p, d) = fresh(d # NoOne)
  BY Zenon DEF Begun
<1> HIDE DEF fresh
<1> QED
  BY <1>1, <1>2

LEMMA IdleGood == GoodFlow(Idle)
BY BegunGood DEF Idle

(* A step that goes where nothing is written leaves a flow good. *)
LEMMA PcGood ==
  ASSUME NEW r, GoodFlow(r), NEW pc, pc \notin {"backup", "replace"}
  PROVE  GoodFlow([r EXCEPT !.pc = pc])
BY DEF GoodFlow

(* The fields that goodness does not look at. *)
LEMMA FieldGood ==
  ASSUME NEW r, GoodFlow(r), NEW v
  PROVE  /\ GoodFlow([r EXCEPT !.domain = v]) /\ GoodFlow([r EXCEPT !.row = v])
         /\ GoodFlow([r EXCEPT !.second = v]) /\ GoodFlow([r EXCEPT !.loaded = v])
         /\ GoodFlow([r EXCEPT !.targets = v]) /\ GoodFlow([r EXCEPT !.solo = v])
<1>1. GoodFlow([r EXCEPT !.domain = v])
  BY DEF GoodFlow
<1>2. GoodFlow([r EXCEPT !.row = v])
  BY DEF GoodFlow
<1>3. GoodFlow([r EXCEPT !.second = v])
  BY DEF GoodFlow
<1>4. GoodFlow([r EXCEPT !.loaded = v])
  BY DEF GoodFlow
<1>5. GoodFlow([r EXCEPT !.targets = v])
  BY DEF GoodFlow
<1>6. GoodFlow([r EXCEPT !.solo = v])
  BY DEF GoodFlow
<1> QED
  BY <1>1, <1>2, <1>3, <1>4, <1>5, <1>6

(* What a flow holds while it is not about to write. *)
LEMMA FileGood ==
  ASSUME NEW r, GoodFlow(r), NEW c
  PROVE  /\ r.pc \notin {"backup", "replace"} => GoodFlow([r EXCEPT !.conf = c])
         /\ GoodFile(c) => GoodFlow([r EXCEPT !.backup = c])
<1>1. r.pc \notin {"backup", "replace"} => GoodFlow([r EXCEPT !.conf = c])
  BY DEF GoodFlow
<1>2. GoodFile(c) => GoodFlow([r EXCEPT !.backup = c])
  BY DEF GoodFlow
<1> QED
  BY <1>1, <1>2

LEMMA SamePc ==
  ASSUME NEW r, GoodFlow(r), NEW v
  PROVE  [r EXCEPT !.targets = v].pc = r.pc
BY DEF GoodFlow

(* One good flow in place of another. *)
LEMMA OneFlow ==
  ASSUME NEW fl, GoodFlows(fl), NEW f \in Flows, NEW r, GoodFlow(r)
  PROVE  GoodFlows([fl EXCEPT ![f] = r])
BY DEF GoodFlows

(* What is observed of a flow does not matter. *)
LEMMA DoubtedGood ==
  ASSUME NEW fl, GoodFlows(fl)
  PROVE  GoodFlows(Doubted(fl))
<1>1. \A f \in Flows : GoodFlow([fl[f] EXCEPT !.solo = FALSE])
  BY FieldGood, Zenon DEF GoodFlows
<1> QED
  BY <1>1, Zenon DEF GoodFlows, Doubted

LEMMA RowsGoneGood ==
  ASSUME NEW fl, GoodFlows(fl), NEW D
  PROVE  GoodFlows(RowsGone(fl, D))
<1>1. \A f \in Flows : GoodFlow(IF fl[f].domain \in D THEN [fl[f] EXCEPT !.row = FALSE] ELSE fl[f])
  BY FieldGood, Zenon DEF GoodFlows
<1> QED
  BY <1>1, Zenon DEF GoodFlows, RowsGone

(* The ways flows change in most actions. *)
LEMMA GotoGood ==
  ASSUME GoodFlows(flow), NEW f \in Flows, NEW pc, pc \notin {"backup", "replace"}, Goto(f, pc)
  PROVE  GoodFlows(flow')
<1>1. flow' = [flow EXCEPT ![f] = [flow[f] EXCEPT !.pc = pc]]
  BY DEF Goto
<1>2. GoodFlow([flow[f] EXCEPT !.pc = pc])
  BY PcGood DEF GoodFlows
<1> QED
  BY <1>1, <1>2, OneFlow

LEMMA EndsGood ==
  ASSUME GoodFlows(flow), NEW f \in Flows, Ends(f) \/ EndsInVain(f)
  PROVE  GoodFlows(flow')
<1>1. GoodFlows([flow EXCEPT ![f] = Idle])
  BY IdleGood, OneFlow
<1> QED
  BY <1>1, DoubtedGood DEF Ends, EndsInVain

LEMMA StartsGood ==
  ASSUME GoodFlows(flow), NEW k, NEW pc, NEW p, NEW d, pc \notin {"backup", "replace"},
         Starts(k, pc, p, d)
  PROVE  GoodFlows(flow')
<1>1. PICK f \in Flows : flow' = [flow EXCEPT ![f] = Begun(k, pc, p, d)]
  BY DEF Starts
<1> QED
  BY <1>1, BegunGood, OneFlow

-----------------------------------------------------------------------------
(* The beginning *)

(* With no snippet but plain ones, what the rows say is sound. *)
LEMMA PlainIsSound ==
  ASSUME \A p \in Projects : project[p].snippet = "plain"
  PROVE  Sound(Configured)
<1> DEFINE plain(b) == b = [domain |-> b.domain, owner |-> b.owner, target |-> b.target,
                            snippet |-> "plain", https |-> b.https]
<1>1. ASSUME NEW d, NEW o, NEW t, NEW s, NEW v
      PROVE  plain([domain |-> d, owner |-> o, target |-> t, snippet |-> "plain", https |-> v])
  OBVIOUS
<1>2. ASSUME NEW b, plain(b), NEW v PROVE [b EXCEPT !.https = v].snippet = "plain"
  BY <1>2
<1> HIDE DEF plain
<1>3. \A b \in AppTarget : plain(b)
  BY <1>1 DEF AppTarget
<1>4. ASSUME NEW x \in Domains \X LoadProjects PROVE x[2][2] = "plain"
  BY <1>4 DEF LoadProjects, Unpaused
<1>5. \A b \in RouteTargets(LoadProjects) : plain(b)
  BY <1>1, <1>3, <1>4 DEF RouteTargets
<1>6. \A b \in RouteTargets(LoadProjects) :
        [b EXCEPT !.https = b.https /\ b.domain \in cert].snippet = "plain"
  BY <1>2, <1>5, Zenon
<1>7. Configured.blocks = {[b EXCEPT !.https = b.https /\ b.domain \in cert] : b \in RouteTargets(LoadProjects)}
  BY Zenon DEF Configured, Render
<1> QED
  BY <1>6, <1>7, Zenon DEF Sound

(* An installation that starts, or that is in use, has sound files. *)
LEMMA SoundInit == IngressInit => SoundInv
<1>1. CASE FirstStart
  <2>1. PICK f \in Flows : flow = [g \in Flows |-> IF g = f THEN Begun("boot", "ready", NoOne, NoOne) ELSE Idle]
    BY <1>1 DEF FirstStart
  <2>2. GoodFlows(flow)
    BY <2>1, BegunGood, IdleGood DEF GoodFlows
  <2> QED
    BY <1>1, <2>2 DEF FirstStart, SoundInv, GoodFile
<1>2. CASE InUse
  <2>1. \A p \in Projects : project[p].snippet = "plain"
    BY <1>2 DEF InUse
  <2>2. GoodFlows(flow)
    BY <1>2, IdleGood DEF InUse, GoodFlows
  <2> QED
    BY <1>2, <2>1, <2>2, PlainIsSound DEF InUse, SoundInv, GoodFile
<1> QED
  BY <1>1, <1>2 DEF IngressInit

-----------------------------------------------------------------------------
(* The steps *)

(* A step that leaves the files alone has only its flows to account for. *)
LEMMA FilesKept ==
  ASSUME SoundInv, UNCHANGED <<file, served>>, GoodFlows(flow')
  PROVE  SoundInv'
BY DEF SoundInv, GoodFile, GoodFlows, GoodFlow, Sound

(* A flow that takes a step other than one that writes, however it changes. *)
LEMMA FlowChanged ==
  ASSUME SoundInv, NEW f \in Flows, NEW r, GoodFlow(r), flow' = [flow EXCEPT ![f] = r], UNCHANGED <<file, served>>
  PROVE  SoundInv'
BY OneFlow, FilesKept DEF SoundInv

(* writeNginxConfig *)

LEMMA LoadSound ==
  ASSUME SoundInv, NEW f \in Flows, Load(f)
  PROVE  SoundInv'
<1>1. GoodFlow(flow[f]) /\ GoodFlows(flow)
  BY DEF SoundInv, GoodFlows
<1>2. GoodFlow([flow[f] EXCEPT !.pc = "read"])
  BY <1>1, PcGood
<1>3. GoodFlow([flow[f] EXCEPT !.pc = "read", !.loaded = LoadProjects])
  BY <1>2, FieldGood
<1>4. GoodFlow([flow[f] EXCEPT !.pc = "read", !.loaded = LoadProjects, !.solo = TRUE])
  BY <1>3, FieldGood, Zenon
<1>5. [flow EXCEPT ![f].pc = "read", ![f].loaded = LoadProjects, ![f].solo = TRUE]
        = [flow EXCEPT ![f] = [flow[f] EXCEPT !.pc = "read", !.loaded = LoadProjects, !.solo = TRUE]]
  BY Zenon
<1>6. GoodFlows([flow EXCEPT ![f].pc = "read", ![f].loaded = LoadProjects, ![f].solo = TRUE])
  BY <1>1, <1>4, <1>5, OneFlow, Zenon
<1>7. GoodFlows(flow')
  BY <1>6, DoubtedGood DEF Load
<1> QED
  BY <1>7, FilesKept DEF Load, disk

LEMMA ReadRoutesSound ==
  ASSUME SoundInv, NEW f \in Flows, ReadRoutes(f)
  PROVE  SoundInv'
<1>1. GoodFlow(flow[f])
  BY DEF SoundInv, GoodFlows
<1> DEFINE t == RouteTargets(flow[f].loaded)
<1>2. GoodFlow([flow[f] EXCEPT !.pc = "render"])
  BY <1>1, PcGood
<1>3. GoodFlow([flow[f] EXCEPT !.pc = "render", !.loaded = {}])
  BY <1>2, FieldGood
<1>4. GoodFlow([flow[f] EXCEPT !.pc = "render", !.loaded = {}, !.targets = t])
  BY <1>3, FieldGood
<1>5. flow' = [flow EXCEPT ![f] = [flow[f] EXCEPT !.pc = "render", !.loaded = {}, !.targets = t]]
  BY Zenon DEF ReadRoutes
<1> QED
  BY <1>4, <1>5, FlowChanged DEF ReadRoutes, disk

LEMMA RenderSound ==
  ASSUME SoundInv, NEW f \in Flows, RenderBlocks(f)
  PROVE  SoundInv'
<1>1. GoodFlow(flow[f])
  BY DEF SoundInv, GoodFlows
<1> DEFINE c == Render(flow[f].targets)
<1>2. GoodFlow([flow[f] EXCEPT !.pc = "validate"]) /\ [flow[f] EXCEPT !.pc = "validate"].pc = "validate"
  BY <1>1, PcGood DEF GoodFlow
<1>3. GoodFlow([flow[f] EXCEPT !.pc = "validate", !.targets = {}])
  BY <1>2, FieldGood
<1>4. [flow[f] EXCEPT !.pc = "validate", !.targets = {}].pc = "validate"
  BY <1>2, SamePc
<1>5. GoodFlow([flow[f] EXCEPT !.pc = "validate", !.targets = {}, !.conf = c])
  BY <1>3, <1>4, FileGood
<1>6. flow' = [flow EXCEPT ![f] = [flow[f] EXCEPT !.pc = "validate", !.targets = {}, !.conf = c]]
  BY Zenon DEF RenderBlocks
<1> QED
  BY <1>5, <1>6, FlowChanged DEF RenderBlocks, disk

(* Only here does a candidate become one that may be written. *)
LEMMA ValidateSound ==
  ASSUME SoundInv, NEW f \in Flows, Validate(f)
  PROVE  SoundInv'
<1>1. GoodFlow(flow[f]) /\ GoodFlows(flow)
  BY DEF SoundInv, GoodFlows
<1>2. CASE Loads(flow[f].conf) /\ Goto(f, "backup") /\ UNCHANGED disk
  <2>1. GoodFlow([flow[f] EXCEPT !.pc = "backup"])
    BY <1>1, <1>2 DEF GoodFlow, Loads
  <2>2. flow' = [flow EXCEPT ![f] = [flow[f] EXCEPT !.pc = "backup"]]
    BY <1>2 DEF Goto
  <2> QED
    BY <1>2, <2>1, <2>2, FlowChanged DEF disk
<1>3. CASE ApplyFails(f)
  BY <1>1, <1>3, EndsGood, FilesKept DEF ApplyFails, disk
<1> QED
  BY <1>2, <1>3 DEF Validate

LEMMA BackupSound ==
  ASSUME SoundInv, NEW f \in Flows, Backup(f)
  PROVE  SoundInv'
<1>1. GoodFlow(flow[f]) /\ GoodFile(file) /\ flow[f].pc = "backup"
  BY DEF SoundInv, GoodFlows, Backup
<1>2. GoodFlow([flow[f] EXCEPT !.pc = "replace"])
  BY <1>1 DEF GoodFlow
<1>3. GoodFlow([flow[f] EXCEPT !.pc = "replace", !.backup = file])
  BY <1>1, <1>2, FileGood
<1>4. flow' = [flow EXCEPT ![f] = [flow[f] EXCEPT !.pc = "replace", !.backup = file]]
  BY Zenon DEF Backup
<1> QED
  BY <1>3, <1>4, FlowChanged DEF Backup, disk

(* The candidate is written. *)
LEMMA ReplaceSound ==
  ASSUME SoundInv, NEW f \in Flows, Replace(f)
  PROVE  SoundInv'
<1>1. GoodFlow(flow[f]) /\ GoodFlows(flow) /\ flow[f].pc = "replace"
  BY DEF SoundInv, GoodFlows, Replace
<1>2. GoodFlow([flow[f] EXCEPT !.pc = "check"]) /\ [flow[f] EXCEPT !.pc = "check"].pc = "check"
  BY <1>1, PcGood DEF GoodFlow
<1>3. GoodFlow([flow[f] EXCEPT !.pc = "check", !.conf = NoFile])
  BY <1>2, FileGood
<1>4. flow' = [flow EXCEPT ![f] = [flow[f] EXCEPT !.pc = "check", !.conf = NoFile]]
  BY Zenon DEF Replace
<1>5. GoodFlows(flow')
  BY <1>1, <1>3, <1>4, OneFlow
<1>6. GoodFile(file')
  BY <1>1 DEF Replace, GoodFlow, GoodFile, Sound
<1>7. GoodFile(served')
  BY DEF SoundInv, GoodFile, Replace, Sound
<1> QED
  BY <1>5, <1>6, <1>7 DEF SoundInv, GoodFile, GoodFlows, GoodFlow, Sound

LEMMA CheckSound ==
  ASSUME SoundInv, NEW f \in Flows, Check(f)
  PROVE  SoundInv'
<1>1. GoodFlows(flow)
  BY DEF SoundInv
<1>2. GoodFlows(flow')
  BY <1>1, GotoGood DEF Check
<1> QED
  BY <1>2, FilesKept DEF Check, disk

LEMMA ActivateSound ==
  ASSUME SoundInv, NEW f \in Flows, Activate(f)
  PROVE  SoundInv'
<1>1. GoodFlow(flow[f]) /\ GoodFlows(flow) /\ GoodFile(file) /\ GoodFile(served)
  BY DEF SoundInv, GoodFlows
<1>2. GoodFlows([flow EXCEPT ![f].pc = "restore"])
  <2>1. GoodFlow([flow[f] EXCEPT !.pc = "restore"])
    BY <1>1, PcGood
  <2>2. GoodFlows([flow EXCEPT ![f] = [flow[f] EXCEPT !.pc = "restore"]])
    BY <1>1, <2>1, OneFlow
  <2> QED
    BY <2>2
<1>3. ASSUME AfterApply(f) PROVE GoodFlows(flow')
  <2>1. GoodFlow([flow[f] EXCEPT !.pc = "resolve"])
    BY <1>1, PcGood
  <2>2. GoodFlow([flow[f] EXCEPT !.pc = "resolve", !.backup = NoFile])
    BY <2>1, FileGood DEF GoodFile
  <2>3. GoodFlow([flow[f] EXCEPT !.pc = "resolve", !.backup = NoFile, !.solo = FALSE])
    BY <2>2, FieldGood, Zenon
  <2>4. GoodFlows([flow EXCEPT ![f] = [flow[f] EXCEPT !.pc = "resolve", !.backup = NoFile, !.solo = FALSE]])
    BY <1>1, <2>3, OneFlow
  <2>5. CASE flow' = [flow EXCEPT ![f].pc = "resolve", ![f].backup = NoFile, ![f].solo = FALSE]
    BY <2>4, <2>5, Zenon
  <2>6. CASE Ends(f)
    BY <1>1, <2>6, EndsGood
  <2> QED
    BY <1>3, <2>5, <2>6 DEF AfterApply
<1>4. GoodFlows(flow')
  BY <1>1, <1>2, <1>3, DoubtedGood DEF Activate, Goto
<1>5. file' = file /\ served' \in {served, file}
  BY DEF Activate, disk
<1> QED
  BY <1>1, <1>4, <1>5 DEF SoundInv, GoodFile, GoodFlows, GoodFlow, Sound

(* What is restored was the file once, and good. *)
LEMMA RestoreSound ==
  ASSUME SoundInv, NEW f \in Flows, Restore(f)
  PROVE  SoundInv'
<1>1. GoodFile(flow[f].backup) /\ GoodFlows(flow) /\ GoodFile(served)
  BY DEF SoundInv, GoodFlows, GoodFlow
<1>2. GoodFlows(flow')
  BY <1>1, EndsGood DEF Restore
<1> QED
  BY <1>1, <1>2 DEF Restore, SoundInv, GoodFile, GoodFlows, GoodFlow, Sound

(* Around an apply *)

LEMMA AroundSound ==
  ASSUME SoundInv, NEW f \in Flows, Network(f) \/ Resolve(f) \/ BootstrapFails(f)
  PROVE  SoundInv'
<1>1. GoodFlows(flow) /\ UNCHANGED <<file, served>>
  BY DEF SoundInv, Network, Resolve, BootstrapFails, disk
<1>2. GoodFlows(flow')
  BY <1>1, GotoGood, EndsGood DEF Network, Resolve, BootstrapFails
<1> QED
  BY <1>1, <1>2, FilesKept

LEMMA CertbotSound ==
  ASSUME SoundInv, NEW f \in Flows, Certbot(f)
  PROVE  SoundInv'
<1>1. GoodFlow(flow[f]) /\ GoodFlows(flow) /\ UNCHANGED <<file, served>>
  BY DEF SoundInv, GoodFlows, Certbot, CertbotDone, disk
<1>2. GoodFlow([flow[f] EXCEPT !.pc = "load"])
  BY <1>1, PcGood
<1>3. GoodFlow([flow[f] EXCEPT !.pc = "load", !.second = TRUE])
  BY <1>2, FieldGood, Zenon
<1>4. CASE flow' = [flow EXCEPT ![f].pc = "load", ![f].second = TRUE]
  <2>1. flow' = [flow EXCEPT ![f] = [flow[f] EXCEPT !.pc = "load", !.second = TRUE]]
    BY <1>4, Zenon
  <2> QED
    BY <1>1, <1>3, <2>1, FlowChanged
<1>5. CASE Ends(f) \/ EndsInVain(f)
  BY <1>1, <1>5, EndsGood, FilesKept
<1> QED
  BY <1>4, <1>5 DEF Certbot, CertbotDone

LEMMA BootstrapSound ==
  ASSUME SoundInv, NEW f \in Flows, Bootstrap(f)
  PROVE  SoundInv'
<1>1. GoodFlow(flow[f]) /\ GoodFlows(flow) /\ UNCHANGED <<file, served>>
  BY DEF SoundInv, GoodFlows, Bootstrap
<1>2. GoodFlow([flow[f] EXCEPT !.pc = "load"])
  BY <1>1, PcGood
<1>3. GoodFlow([flow[f] EXCEPT !.pc = "load", !.domain = envDomain])
  BY <1>2, FieldGood
<1>4. CASE flow' = [flow EXCEPT ![f].pc = "load", ![f].domain = envDomain]
  <2>1. flow' = [flow EXCEPT ![f] = [flow[f] EXCEPT !.pc = "load", !.domain = envDomain]]
    BY <1>4, Zenon
  <2> QED
    BY <1>1, <1>3, <2>1, FlowChanged
<1>5. CASE Goto(f, "load")
  BY <1>1, <1>5, GotoGood, FilesKept
<1>6. CASE Ends(f)
  BY <1>1, <1>6, EndsGood, FilesKept
<1> QED
  BY <1>4, <1>5, <1>6 DEF Bootstrap

LEMMA FlowStepSound ==
  ASSUME SoundInv, NEW f \in Flows, FlowStep(f)
  PROVE  SoundInv'
BY LoadSound, ReadRoutesSound, RenderSound, ValidateSound, BackupSound, ReplaceSound, CheckSound,
   ActivateSound, RestoreSound, AroundSound, CertbotSound, BootstrapSound DEF FlowStep

(* The changes *)

\* a flow begins where nothing is written, others lose their rows or what was observed of them
LEMMA RemovesSound ==
  ASSUME SoundInv, NEW p, NEW pc, pc \notin {"backup", "replace"}, NEW D, UNCHANGED <<file, served>>,
         \E f \in Flows : flow' = RowsGone([flow EXCEPT ![f] = Begun("route", pc, p, NoOne)], D)
  PROVE  SoundInv'
<1>1. PICK f \in Flows : flow' = RowsGone([flow EXCEPT ![f] = Begun("route", pc, p, NoOne)], D)
  OBVIOUS
<1>2. GoodFlows([flow EXCEPT ![f] = Begun("route", pc, p, NoOne)])
  BY BegunGood, OneFlow DEF SoundInv
<1> QED
  BY <1>1, <1>2, RowsGoneGood, FilesKept

LEMMA AskedSound ==
  ASSUME SoundInv, Asked
  PROVE  SoundInv'
<1> DEFINE begins == \E k, pc, p, d : pc \notin {"backup", "replace"} /\ Starts(k, pc, p, d)
<1>1. GoodFlows(flow)
  BY DEF SoundInv
<1>2. ASSUME begins \/ flow' = Doubted(flow) \/ UNCHANGED flow, UNCHANGED <<file, served>>
      PROVE  SoundInv'
  BY <1>1, <1>2, StartsGood, DoubtedGood, FilesKept
<1>3. ASSUME NEW p \in Projects, NEW d \in Domains, NEW t \in Targets, AddDomain(p, d, t) PROVE SoundInv'
  BY <1>2, <1>3 DEF AddDomain, disk
<1>4. ASSUME NEW d \in Domains, NEW t \in Targets, SetRoute(d, t) PROVE SoundInv'
  BY <1>2, <1>4 DEF SetRoute, disk
<1>5. ASSUME NEW d \in Domains, NEW on \in BOOLEAN, SetSsl(d, on) PROVE SoundInv'
  BY <1>2, <1>5 DEF SetSsl, disk
<1>6. ASSUME NEW d \in Domains, RemoveDomain(d) PROVE SoundInv'
  BY <1>6, RemovesSound DEF RemoveDomain, disk
<1>7. ASSUME NEW d \in Domains, Issue(d) PROVE SoundInv'
  BY <1>2, <1>7 DEF Issue, disk
<1>8. ASSUME NEW d \in Domains, NEW k, CertbotAction(d, k) PROVE SoundInv'
  BY <1>2, <1>8 DEF CertbotAction, disk
<1>9. ASSUME NEW p \in Projects, NEW port, NEW s, EditProject(p, port, s) PROVE SoundInv'
  BY <1>2, <1>9 DEF EditProject, disk
<1>10. ASSUME NEW p \in Projects, NEW paused, Pause(p, paused) PROVE SoundInv'
  BY <1>2, <1>10 DEF Pause, disk
<1>11. ASSUME NEW on, NEW d, NEW ssl, Publish(on, d, ssl) PROVE SoundInv'
  BY <1>2, <1>11 DEF Publish, disk
<1>12. CASE Apply
  BY <1>2, <1>12 DEF Apply, disk
<1>13. CASE Renewal
  BY <1>2, <1>13 DEF Renewal, disk
<1>14. CASE AskTcp
  BY <1>2, <1>14 DEF AskTcp, disk
<1> QED
  BY <1>3, <1>4, <1>5, <1>6, <1>7, <1>8, <1>9, <1>10, <1>11, <1>12, <1>13, <1>14 DEF Asked

-----------------------------------------------------------------------------
(* The theorem *)

(* SoundInv is inductive. *)
LEMMA SoundStep == SoundInv /\ [IngressNext]_ingressVars => SoundInv'
<1> SUFFICES ASSUME SoundInv, [IngressNext]_ingressVars PROVE SoundInv'
  OBVIOUS
<1>1. GoodFlows(flow)
  BY DEF SoundInv
<1>2. ASSUME UNCHANGED <<file, served, flow>> PROVE SoundInv'
  BY <1>1, <1>2, FilesKept
<1>3. CASE Change
  BY <1>3, AskedSound DEF Change
<1>4. CASE NginxRecreated
  <2>1. GoodFlows(flow')
    BY <1>1, <1>4, DoubtedGood DEF NginxRecreated
  <2> QED
    BY <1>4, <2>1 DEF NginxRecreated, SoundInv, GoodFile, GoodFlows, GoodFlow, Sound
<1>5. CASE Restart
  <2>1. PICK f \in Flows : flow' = [g \in Flows |-> IF g = f THEN Begun("boot", "ready", NoOne, NoOne) ELSE Idle]
    BY <1>5 DEF Restart
  <2>2. GoodFlows(flow')
    BY <2>1, BegunGood, IdleGood DEF GoodFlows
  <2> QED
    BY <1>5, <2>2, FilesKept DEF Restart, disk
<1>6. ASSUME NEW p \in Projects, DeployEnds(p) PROVE SoundInv'
  BY <1>2, <1>6 DEF DeployEnds, disk
<1>7. ASSUME NEW f \in Flows, FlowStep(f) PROVE SoundInv'
  BY <1>7, FlowStepSound
<1>8. ASSUME NEW j \in Jobs, TcpStep(j) PROVE SoundInv'
  BY <1>2, <1>8 DEF TcpStep, disk
<1>9. ASSUME NEW j \in Jobs, DeleteProject(j) PROVE SoundInv'
  BY <1>9, RemovesSound DEF DeleteProject, disk
<1>10. ASSUME NEW j \in Jobs, NEW ok, AttachTcp(j, ok) \/ StartTcp(j, ok) PROVE SoundInv'
  BY <1>2, <1>10 DEF AttachTcp, StartTcp, disk
<1>11. ASSUME NEW p \in Projects, NEW off, DeployBegins(p, off) PROVE SoundInv'
  BY <1>2, <1>11 DEF DeployBegins, disk
<1>12. CASE UNCHANGED ingressVars
  BY <1>2, <1>12 DEF ingressVars, disk
<1> QED
  BY <1>3, <1>4, <1>5, <1>6, <1>7, <1>8, <1>9, <1>10, <1>11, <1>12 DEF IngressNext

(* Whatever overlaps, fails or dies, no snippet that nginx rejects is in   *)
(* the file a restarted nginx would read, nor in what nginx runs: a file   *)
(* is written only from a candidate that was accepted or from a backup of  *)
(* what was there before (configWriter.ts, writeNginxConfig).              *)
THEOREM FilesAreSound == IngressSpec => []FileSound
<1>1. SoundInv => FileSound
  BY DEF SoundInv, GoodFile, FileSound
<1> QED
  BY <1>1, SoundInit, SoundStep, PTL DEF IngressSpec

-----------------------------------------------------------------------------
(* What nginx serves: the shape of the flows *)

Fields(r) ==
  r = [kind |-> r.kind, pc |-> r.pc, project |-> r.project, domain |-> r.domain, row |-> r.row,
       second |-> r.second, loaded |-> r.loaded, targets |-> r.targets, conf |-> r.conf,
       backup |-> r.backup, solo |-> r.solo]
IsBlock(b) == b = [domain |-> b.domain, owner |-> b.owner, target |-> b.target, snippet |-> b.snippet,
                   https |-> b.https]

\* An idle flow is nowhere, one in its second apply is in it or before it, and one that was alone
\* in its apply is in it.
FlowOK(r) ==
  /\ Fields(r)
  /\ r.kind = "idle" => r.pc = "idle"
  /\ r.second => r.pc \in {"load"} \cup ApplyPcs
  /\ r.solo => r.pc \in ApplyPcs
  /\ \A b \in r.targets : IsBlock(b)

FlowsOK(fl) == fl = [f \in Flows |-> fl[f]] /\ \A f \in Flows : FlowOK(fl[f])

\* x and y are one flow, but for what is observed of it and for its row.
Same(x, y) ==
  /\ y.kind = x.kind /\ y.pc = x.pc /\ y.project = x.project /\ y.second = x.second
  /\ y.loaded = x.loaded /\ y.targets = x.targets /\ y.conf = x.conf /\ y.backup = x.backup
  /\ y.solo => x.solo

LEMMA FieldsOfBegun ==
  ASSUME NEW k, NEW pc, NEW p, NEW d, NEW row, NEW r,
         r = [kind |-> k, pc |-> pc, project |-> p, domain |-> d, row |-> row, second |-> FALSE,
              loaded |-> {}, targets |-> {}, conf |-> NoFile, backup |-> NoFile, solo |-> FALSE]
  PROVE  /\ Fields(r) /\ r.kind = k /\ r.pc = pc /\ r.project = p /\ ~r.second /\ r.targets = {}
         /\ ~r.solo
BY DEF Fields

LEMMA BegunIs ==
  ASSUME NEW k, NEW pc, NEW p, NEW d, k # "idle" \/ pc = "idle", NEW y, y = Begun(k, pc, p, d)
  PROVE  /\ FlowOK(y) /\ y.kind = k /\ y.pc = pc /\ y.project = p /\ ~y.second /\ ~y.solo
<1>1. PICK row : row = (d # NoOne)
  OBVIOUS
<1>2. y = [kind |-> k, pc |-> pc, project |-> p, domain |-> d, row |-> row, second |-> FALSE,
           loaded |-> {}, targets |-> {}, conf |-> NoFile, backup |-> NoFile, solo |-> FALSE]
  BY <1>1, Zenon DEF Begun
<1>3. /\ Fields(y) /\ y.kind = k /\ y.pc = pc /\ y.project = p /\ ~y.second /\ y.targets = {}
      /\ ~y.solo
  BY <1>2, FieldsOfBegun
<1> QED
  BY <1>3 DEF FlowOK

LEMMA IdleIs == FlowOK(Idle) /\ Idle.kind = "idle" /\ Idle.pc = "idle" /\ ~Idle.solo /\ ~Idle.second
<1> PICK y : y = Begun("idle", "idle", NoOne, NoOne)
  OBVIOUS
<1> QED
  BY BegunIs DEF Idle

(* A flow goes on at pc; what it is about does not change. *)
LEMMA PcIs ==
  ASSUME NEW r, Fields(r), NEW pc, NEW y, y = [r EXCEPT !.pc = pc]
  PROVE  /\ Fields(y) /\ y.pc = pc
         /\ y.kind = r.kind /\ y.project = r.project /\ y.second = r.second
         /\ y.loaded = r.loaded /\ y.targets = r.targets /\ y.conf = r.conf /\ y.backup = r.backup
         /\ y.solo = r.solo
BY DEF Fields

LEMMA SoloIs ==
  ASSUME NEW r, Fields(r), NEW v, NEW y, y = [r EXCEPT !.solo = v]
  PROVE  /\ Fields(y) /\ y.solo = v
         /\ y.kind = r.kind /\ y.pc = r.pc /\ y.project = r.project /\ y.second = r.second
         /\ y.loaded = r.loaded /\ y.targets = r.targets /\ y.conf = r.conf /\ y.backup = r.backup
BY DEF Fields

LEMMA RowIs ==
  ASSUME NEW r, Fields(r), NEW v, NEW y, y = [r EXCEPT !.row = v]
  PROVE  /\ Fields(y) /\ y.solo = r.solo
         /\ y.kind = r.kind /\ y.pc = r.pc /\ y.project = r.project /\ y.second = r.second
         /\ y.loaded = r.loaded /\ y.targets = r.targets /\ y.conf = r.conf /\ y.backup = r.backup
BY DEF Fields

LEMMA DoubtedIs ==
  ASSUME NEW fl, FlowsOK(fl), NEW gl, gl = Doubted(fl)
  PROVE  /\ FlowsOK(gl)
         /\ \A f \in Flows : Same(fl[f], gl[f]) /\ ~gl[f].solo
<1>1. gl = [f \in Flows |-> [fl[f] EXCEPT !.solo = FALSE]]
  BY Zenon DEF Doubted
<1>2. ASSUME NEW f \in Flows PROVE FlowOK(gl[f]) /\ Same(fl[f], gl[f]) /\ ~gl[f].solo
  <2>1. PICK v \in BOOLEAN : v = FALSE
    OBVIOUS
  <2>2. gl[f] = [fl[f] EXCEPT !.solo = v] /\ FlowOK(fl[f])
    BY <1>1, <2>1 DEF FlowsOK
  <2>3. /\ Fields(gl[f]) /\ gl[f].solo = v
        /\ gl[f].kind = fl[f].kind /\ gl[f].pc = fl[f].pc /\ gl[f].project = fl[f].project
        /\ gl[f].second = fl[f].second /\ gl[f].loaded = fl[f].loaded /\ gl[f].targets = fl[f].targets
        /\ gl[f].conf = fl[f].conf /\ gl[f].backup = fl[f].backup
    BY <2>2, SoloIs DEF FlowOK
  <2> QED
    BY <2>1, <2>2, <2>3 DEF FlowOK, Same
<1> QED
  BY <1>1, <1>2 DEF FlowsOK

LEMMA RowsGoneIs ==
  ASSUME NEW fl, FlowsOK(fl), NEW D, NEW gl, gl = RowsGone(fl, D)
  PROVE  /\ FlowsOK(gl)
         /\ \A f \in Flows : Same(fl[f], gl[f])
<1>1. gl = [f \in Flows |-> IF fl[f].domain \in D THEN [fl[f] EXCEPT !.row = FALSE] ELSE fl[f]]
  BY Zenon DEF RowsGone
<1>2. ASSUME NEW f \in Flows PROVE FlowOK(gl[f]) /\ Same(fl[f], gl[f])
  <2>1. PICK v \in BOOLEAN : v = FALSE
    OBVIOUS
  <2>2. FlowOK(fl[f]) /\ (gl[f] = [fl[f] EXCEPT !.row = v] \/ gl[f] = fl[f])
    BY <1>1, <2>1 DEF FlowsOK
  <2>3. CASE gl[f] = fl[f]
    BY <2>2, <2>3 DEF Same
  <2>4. CASE gl[f] = [fl[f] EXCEPT !.row = v]
    <3>1. /\ Fields(gl[f]) /\ gl[f].solo = fl[f].solo
          /\ gl[f].kind = fl[f].kind /\ gl[f].pc = fl[f].pc /\ gl[f].project = fl[f].project
          /\ gl[f].second = fl[f].second /\ gl[f].loaded = fl[f].loaded /\ gl[f].targets = fl[f].targets
          /\ gl[f].conf = fl[f].conf /\ gl[f].backup = fl[f].backup
      BY <2>2, <2>4, RowIs DEF FlowOK
    <3> QED
      BY <2>2, <3>1 DEF FlowOK, Same
  <2> QED
    BY <2>2, <2>3, <2>4
<1> QED
  BY <1>1, <1>2 DEF FlowsOK

(* One flow changes. *)
OthersEqual(fl, gl, f) == \A g \in Flows : g # f => gl[g] = fl[g]

LEMMA OneChanges ==
  ASSUME NEW fl, FlowsOK(fl), NEW f \in Flows, NEW y, FlowOK(y), NEW gl, gl = [fl EXCEPT ![f] = y]
  PROVE  FlowsOK(gl) /\ gl[f] = y /\ OthersEqual(fl, gl, f)
BY DEF FlowsOK, OthersEqual

-----------------------------------------------------------------------------
(* What nginx serves: the inductive invariant *)

Alone(f) == \A g \in Flows : g # f => ~InApply(g)
OneApply == \A f \in Flows : InApply(f) => Alone(f)
SoloAlone == \A f \in Flows : flow[f].solo => Alone(f)

\* While files were not mixed, an apply that wrote the file can put back what nginx runs.
Written == {"check", "activate", "restore"}
Tidy(x) ==
  /\ x.pc = "replace" => x.backup = file
  /\ x.pc \in Written => x.backup = served
DiskInv ==
  ~mixed =>
    /\ OneApply
    /\ \A f \in Flows : Tidy(flow[f])
    /\ (\A f \in Flows : flow[f].pc \notin Written) => file = served

\* An apply is coming that has read nothing yet; or the one there is read what is to be served.
Coming == \E f \in Flows : flow[f].pc \in {"network", "load"}
Fresh(x) ==
  /\ x.pc = "read" => x.loaded = LoadProjects
  /\ x.pc = "render" => x.targets = RouteTargets(LoadProjects)
  /\ x.pc \in {"validate", "backup", "replace"} => x.conf = Configured
  /\ x.pc \in {"check", "activate"} => file = Configured
ServeInv ==
  /\ \A f \in Flows : flow[f].solo => Coming \/ Fresh(flow[f])
  /\ ~stale => /\ OneApply
               /\ \/ Coming
                  \/ /\ \A f \in Flows : InApply(f) => Fresh(flow[f])
                     /\ (\A f \in Flows : ~InApply(f)) => file = Configured /\ served = Configured

\* Each HTTPS block of an apply has its certificate, or a deletion is yet to read the routes.
Deleted(f) == flow[f].kind = "delete" /\ flow[f].second
Waits == \E f \in Flows : Deleted(f) /\ flow[f].pc = "load"
Backed(c) == \A b \in c.blocks : b.https => b.domain \in cert \/ Waits
Certified(x) ==
  /\ x.pc \in {"validate", "backup", "replace"} => Backed(x.conf)
  /\ x.pc \in {"check", "activate"} => Backed(file)
CertInv ==
  /\ \A f \in Flows : flow[f].solo \/ (InApply(f) /\ ~stale /\ ~mixed) => Certified(flow[f])
  /\ CertsBehindHttps

RouteInv == FlowsOK(flow) /\ SoloAlone /\ DiskInv /\ ServeInv /\ CertInv

\* The applies in progress stay what they are, and none begins.
Untouched ==
  \A f \in Flows : Same(flow[f], flow'[f]) \/ (~InApply(f) /\ flow'[f].pc \notin ApplyPcs)

\* A step around the applies: it tells that it leaves a change to no apply, or one is coming.
Around ==
  /\ FlowsOK(flow') /\ Untouched /\ UNCHANGED <<file, served, mixed>>
  /\ \/ stale' /\ \A f \in Flows : ~flow'[f].solo
     \/ /\ stale' = stale
        /\ Coming' \/ (UNCHANGED <<project, route, app, selfSigned, cert>> /\ (Coming => Coming'))
        /\ cert \subseteq cert' \/ Waits'
        /\ \A f \in Flows : Deleted(f) => Same(flow[f], flow'[f])

-----------------------------------------------------------------------------
(* What nginx serves: the steps around an apply *)

LEMMA InputsSame ==
  ASSUME UNCHANGED <<project, route, app, selfSigned, cert>>
  PROVE  /\ LoadProjects' = LoadProjects /\ Configured' = Configured
         /\ RouteTargets(LoadProjects)' = RouteTargets(LoadProjects)
<1>1. LoadProjects' = LoadProjects
  BY DEF LoadProjects, Unpaused
<1>2. RouteTargets(LoadProjects)' = RouteTargets(LoadProjects)
  BY <1>1 DEF RouteTargets, AppTarget
<1>3. Configured' = Configured
  BY <1>2 DEF Configured, Render
<1> QED
  BY <1>1, <1>2, <1>3

LEMMA UntouchedIs ==
  ASSUME FlowsOK(flow), FlowsOK(flow'), Untouched
  PROVE  /\ \A f \in Flows : InApply(f)' <=> InApply(f)
         /\ \A f \in Flows : InApply(f) => Same(flow[f], flow'[f])
         /\ \A f \in Flows : flow'[f].solo => flow[f].solo /\ InApply(f)
<1> SUFFICES ASSUME NEW f \in Flows
             PROVE  /\ InApply(f)' <=> InApply(f)
                    /\ InApply(f) => Same(flow[f], flow'[f])
                    /\ flow'[f].solo => flow[f].solo /\ InApply(f)
  OBVIOUS
<1>1. FlowOK(flow[f]) /\ FlowOK(flow'[f])
  BY DEF FlowsOK
<1>2. CASE Same(flow[f], flow'[f])
  BY <1>1, <1>2 DEF Same, InApply, FlowOK
<1>3. CASE ~InApply(f) /\ flow'[f].pc \notin ApplyPcs
  BY <1>1, <1>3 DEF InApply, FlowOK
<1> QED
  BY <1>2, <1>3 DEF Untouched

LEMMA AroundDisk ==
  ASSUME RouteInv, Around
  PROVE  SoloAlone' /\ DiskInv'
<1>1. /\ \A f \in Flows : InApply(f)' <=> InApply(f)
      /\ \A f \in Flows : InApply(f) => Same(flow[f], flow'[f])
      /\ \A f \in Flows : flow'[f].solo => flow[f].solo /\ InApply(f)
  BY UntouchedIs DEF RouteInv, Around
<1>2. SoloAlone'
  BY <1>1 DEF RouteInv, SoloAlone, Alone
<1>3. ASSUME ~mixed
      PROVE  /\ OneApply' /\ \A f \in Flows : Tidy(flow[f])'
             /\ (\A f \in Flows : flow'[f].pc \notin Written) => file' = served'
  <2>1. OneApply'
    BY <1>1, <1>3 DEF RouteInv, DiskInv, OneApply, Alone
  <2>2. ASSUME NEW f \in Flows PROVE Tidy(flow[f])' /\ (flow'[f].pc \in Written <=> flow[f].pc \in Written)
    <3>1. CASE InApply(f)
      BY <1>1, <1>3, <2>2, <3>1 DEF RouteInv, DiskInv, Tidy, Same, Around
    <3>2. CASE ~InApply(f)
      BY <1>1, <2>2, <3>2 DEF InApply, ApplyPcs, Tidy, Written
    <3> QED
      BY <3>1, <3>2
  <2> QED
    BY <1>3, <2>1, <2>2 DEF RouteInv, DiskInv, Around
<1> QED
  BY <1>2, <1>3 DEF DiskInv, Around

LEMMA AroundServe ==
  ASSUME RouteInv, Around
  PROVE  ServeInv'
<1>1. /\ \A f \in Flows : InApply(f)' <=> InApply(f)
      /\ \A f \in Flows : InApply(f) => Same(flow[f], flow'[f])
      /\ \A f \in Flows : flow'[f].solo => flow[f].solo /\ InApply(f)
  BY UntouchedIs DEF RouteInv, Around
<1>2. CASE stale' /\ \A f \in Flows : ~flow'[f].solo
  BY <1>2 DEF ServeInv
<1>3. ASSUME ~stale' /\ stale' = stale PROVE OneApply'
  BY <1>1, <1>3 DEF RouteInv, ServeInv, OneApply, Alone
<1>4. CASE stale' = stale /\ Coming'
  BY <1>3, <1>4 DEF ServeInv
<1>5. CASE stale' = stale /\ UNCHANGED <<project, route, app, selfSigned, cert>> /\ ~Coming /\ ~Coming'
  <2>1. /\ LoadProjects' = LoadProjects /\ Configured' = Configured
        /\ RouteTargets(LoadProjects)' = RouteTargets(LoadProjects)
    BY <1>5, InputsSame
  <2>2. ASSUME NEW f \in Flows, InApply(f), Fresh(flow[f]) PROVE Fresh(flow[f])'
    BY <1>1, <2>1, <2>2 DEF Fresh, Same, Around
  <2>3. \A f \in Flows : flow'[f].solo => Fresh(flow[f])'
    BY <1>1, <1>5, <2>2 DEF RouteInv, ServeInv
  <2>4. ASSUME ~stale'
        PROVE  /\ \A f \in Flows : InApply(f)' => Fresh(flow[f])'
               /\ (\A f \in Flows : ~InApply(f)') => file' = Configured' /\ served' = Configured'
    BY <1>1, <1>5, <2>1, <2>2, <2>4 DEF RouteInv, ServeInv, Around
  <2> QED
    BY <1>3, <1>5, <2>3, <2>4 DEF ServeInv
<1> QED
  BY <1>2, <1>4, <1>5 DEF Around

LEMMA AroundCert ==
  ASSUME RouteInv, Around
  PROVE  CertInv'
<1>1. /\ \A f \in Flows : InApply(f)' <=> InApply(f)
      /\ \A f \in Flows : InApply(f) => Same(flow[f], flow'[f])
      /\ \A f \in Flows : flow'[f].solo => flow[f].solo /\ InApply(f)
  BY UntouchedIs DEF RouteInv, Around
<1>2. CASE stale' /\ \A f \in Flows : ~flow'[f].solo
  BY <1>2 DEF CertInv, CertsBehindHttps
<1>3. CASE /\ stale' = stale /\ (cert \subseteq cert' \/ Waits')
           /\ \A f \in Flows : Deleted(f) => Same(flow[f], flow'[f])
  <2>1. \A f \in Flows : Deleted(f) => Deleted(f)' /\ flow'[f].pc = flow[f].pc
    BY <1>3 DEF Deleted, Same
  <2>2. Waits => Waits'
    BY <2>1 DEF Waits
  <2>3. \A c : Backed(c) => Backed(c)'
    BY <1>3, <2>2 DEF Backed
  <2>4. ASSUME NEW f \in Flows, InApply(f), Certified(flow[f]) PROVE Certified(flow[f])'
    BY <1>1, <2>3, <2>4 DEF Certified, Same, Around, Backed
  <2>5. \A f \in Flows : flow'[f].solo \/ (InApply(f)' /\ ~stale' /\ ~mixed') => Certified(flow[f])'
    BY <1>1, <1>3, <2>4 DEF RouteInv, CertInv, Around
  <2>6. CertsBehindHttps'
    <3> SUFFICES ASSUME ~stale, ~mixed, file # NoFile, NEW b \in file.blocks, b.https
                 PROVE  b.domain \in cert' \/ \E f \in Flows : Deleted(f)'
      BY <1>3 DEF CertsBehindHttps, Around, Deleted
    <3>1. b.domain \in cert \/ \E f \in Flows : Deleted(f)
      BY DEF RouteInv, CertInv, CertsBehindHttps, Deleted
    <3> QED
      BY <1>3, <2>1, <3>1 DEF Waits
  <2> QED
    BY <2>5, <2>6 DEF CertInv
<1> QED
  BY <1>2, <1>3 DEF Around

LEMMA AroundInv ==
  ASSUME RouteInv, Around
  PROVE  RouteInv'
<1>1. FlowsOK(flow)'
  BY DEF Around, FlowsOK, FlowOK, Fields, IsBlock
<1> QED
  BY <1>1, AroundDisk, AroundServe, AroundCert DEF RouteInv

(* One flow moves around the applies. *)
LEMMA OneMoves ==
  ASSUME FlowsOK(flow), FlowsOK(flow'), NEW f \in Flows, flow[f].pc \notin ApplyPcs \cup {"load"},
         flow'[f].pc \notin ApplyPcs, \A g \in Flows : g # f => Same(flow[g], flow'[g])
  PROVE  /\ Untouched
         /\ \A g \in Flows : Deleted(g) => Same(flow[g], flow'[g])
         /\ flow[f].pc = "network" \/ (Coming => Coming')
         /\ flow'[f].pc \in {"network", "load"} => Coming'
<1>1. Untouched
  BY DEF Untouched, InApply
<1>2. ~Deleted(f)
  BY DEF Deleted, FlowsOK, FlowOK
<1>3. flow[f].pc = "network" \/ (Coming => Coming')
  BY DEF Coming, Same
<1> QED
  BY <1>1, <1>2, <1>3 DEF Coming

LEMMA Still ==
  ASSUME FlowsOK(flow), flow' = flow, UNCHANGED <<project, route, app, selfSigned, cert, file, served, mixed, stale>>
  PROVE  Around
<1>1. \A f \in Flows : Same(flow[f], flow'[f])
  BY DEF Same
<1> QED
  BY <1>1 DEF Around, Untouched, Coming

LEMMA Doubts ==
  ASSUME FlowsOK(flow), flow' = Doubted(flow), stale', UNCHANGED <<file, served, mixed>>
  PROVE  Around
BY DoubtedIs DEF Around, Untouched

(* A flow begins in a free place; the rows of others may go. *)
LEMMA Begins ==
  ASSUME FlowsOK(flow), NEW k, k # "idle", NEW pc \in {"network", "load", "resolve", "certbot"}, NEW p, NEW d,
         NEW f \in Flows, ~Active(f),
         \/ flow' = [flow EXCEPT ![f] = Begun(k, pc, p, d)]
         \/ \E D : flow' = RowsGone([flow EXCEPT ![f] = Begun(k, pc, p, d)], D),
         UNCHANGED <<file, served, mixed, stale, cert>>,
         pc \in {"network", "load"} \/ UNCHANGED <<project, route, app, selfSigned>>
  PROVE  Around
<1>1. PICK y : y = Begun(k, pc, p, d)
  OBVIOUS
<1>2. FlowOK(y) /\ y.pc = pc
  BY <1>1, BegunIs
<1>3. PICK gl : gl = [flow EXCEPT ![f] = y]
  OBVIOUS
<1>4. FlowsOK(gl) /\ gl[f] = y /\ OthersEqual(flow, gl, f)
  BY <1>2, <1>3 DEF FlowsOK, OthersEqual
<1>5. FlowsOK(flow') /\ \A g \in Flows : Same(gl[g], flow'[g])
  <2>1. CASE flow' = gl
    BY <1>4, <2>1 DEF Same
  <2>2. CASE \E D : flow' = RowsGone(gl, D)
    BY <1>4, <2>2, RowsGoneIs
  <2> QED
    BY <1>1, <1>3, <2>1, <2>2
<1>6. flow'[f].pc = pc /\ \A g \in Flows : g # f => Same(flow[g], flow'[g])
  BY <1>2, <1>4, <1>5 DEF Same, OthersEqual
<1>7. flow[f].pc = "idle"
  BY DEF FlowsOK, FlowOK, Active
<1>8. /\ Untouched /\ \A g \in Flows : Deleted(g) => Same(flow[g], flow'[g])
      /\ Coming => Coming'
      /\ pc \in {"network", "load"} => Coming'
  BY <1>5, <1>6, <1>7, OneMoves DEF ApplyPcs
<1> QED
  BY <1>5, <1>8 DEF Around

(* A flow goes on at pc, with other fields that nobody reads while it is there. *)
LEMMA GoesOn ==
  ASSUME FlowsOK(flow), NEW f \in Flows, flow[f].pc \in {"ready", "network", "resolve", "certbot"},
         NEW y, FlowOK(y), flow' = [flow EXCEPT ![f] = y], y.pc \in {"load", "certbot"},
         UNCHANGED <<file, served, mixed, stale>>,
         y.pc = "load" \/ UNCHANGED <<project, route, app, selfSigned, cert>>,
         flow[f].pc = "network" => y.pc = "load",
         cert \subseteq cert' \/ (y.pc = "load" /\ y.kind = "delete" /\ y.second)
  PROVE  Around
<1>1. FlowsOK(flow') /\ flow'[f] = y /\ OthersEqual(flow, flow', f)
  BY DEF FlowsOK, OthersEqual
<1>2. \A g \in Flows : g # f => Same(flow[g], flow'[g])
  BY <1>1 DEF Same, OthersEqual
<1>3. /\ Untouched /\ \A g \in Flows : Deleted(g) => Same(flow[g], flow'[g])
      /\ flow[f].pc = "network" \/ (Coming => Coming')
      /\ flow'[f].pc \in {"network", "load"} => Coming'
  BY <1>1, <1>2, OneMoves DEF ApplyPcs
<1>4. cert \subseteq cert' \/ Waits'
  BY <1>1 DEF Waits, Deleted
<1> QED
  BY <1>1, <1>3, <1>4 DEF Around

LEMMA EndsAround ==
  ASSUME FlowsOK(flow), NEW f \in Flows, flow[f].pc \in {"ready", "resolve", "certbot"}, Ends(f),
         UNCHANGED <<project, route, app, selfSigned, cert, file, served, mixed, stale>>
  PROVE  Around
<1>1. FlowsOK(flow') /\ flow'[f] = Idle /\ OthersEqual(flow, flow', f)
  BY IdleIs DEF Ends, FlowsOK, OthersEqual
<1>2. \A g \in Flows : g # f => Same(flow[g], flow'[g])
  BY <1>1 DEF Same, OthersEqual
<1>3. /\ Untouched /\ \A g \in Flows : Deleted(g) => Same(flow[g], flow'[g])
      /\ Coming => Coming'
  BY <1>1, <1>2, IdleIs, OneMoves DEF ApplyPcs
<1> QED
  BY <1>1, <1>3 DEF Around

LEMMA EndsInVainIs ==
  ASSUME FlowsOK(flow), NEW f \in Flows, EndsInVain(f)
  PROVE  /\ FlowsOK(flow') /\ stale' /\ \A g \in Flows : ~flow'[g].solo
         /\ flow'[f].pc = "idle" /\ \A g \in Flows : g # f => Same(flow[g], flow'[g])
<1>1. PICK gl : gl = [flow EXCEPT ![f] = Idle]
  OBVIOUS
<1>2. FlowsOK(gl) /\ gl[f] = Idle /\ OthersEqual(flow, gl, f)
  BY <1>1, IdleIs DEF FlowsOK, OthersEqual
<1>3. FlowsOK(flow') /\ \A g \in Flows : Same(gl[g], flow'[g]) /\ ~flow'[g].solo
  BY <1>1, <1>2, DoubtedIs DEF EndsInVain
<1>4. flow'[f].pc = "idle"
  BY <1>2, <1>3, IdleIs DEF Same
<1>5. ASSUME NEW g \in Flows, g # f PROVE Same(flow[g], flow'[g])
  <2>1. gl[g] = flow[g] /\ Same(gl[g], flow'[g])
    BY <1>2, <1>3, <1>5 DEF OthersEqual
  <2> QED
    BY <2>1
<1>6. stale'
  BY DEF EndsInVain
<1> QED
  BY <1>3, <1>4, <1>5, <1>6

LEMMA FailsAround ==
  ASSUME FlowsOK(flow), NEW f \in Flows, flow[f].pc \in {"network", "certbot"}, EndsInVain(f),
         UNCHANGED <<file, served, mixed>>
  PROVE  Around
<1>1. /\ FlowsOK(flow') /\ stale' /\ \A g \in Flows : ~flow'[g].solo
      /\ flow'[f].pc = "idle" /\ \A g \in Flows : g # f => Same(flow[g], flow'[g])
  BY EndsInVainIs
<1>2. Untouched
  BY <1>1, OneMoves DEF ApplyPcs
<1> QED
  BY <1>1, <1>2 DEF Around

(* The flows between two applies. *)
LEMMA GotoIs ==
  ASSUME FlowsOK(flow), NEW f \in Flows, NEW pc, Goto(f, pc),
         flow[f].kind = "idle" => pc = "idle", flow[f].second => pc \in {"load"} \cup ApplyPcs,
         flow[f].solo => pc \in ApplyPcs
  PROVE  \E y : /\ FlowOK(y) /\ flow' = [flow EXCEPT ![f] = y] /\ y.pc = pc
                /\ y.kind = flow[f].kind /\ y.project = flow[f].project /\ y.second = flow[f].second
                /\ y.loaded = flow[f].loaded /\ y.targets = flow[f].targets /\ y.conf = flow[f].conf
                /\ y.backup = flow[f].backup /\ y.solo = flow[f].solo
<1>1. PICK y : y = [flow[f] EXCEPT !.pc = pc]
  OBVIOUS
<1>2. flow' = [flow EXCEPT ![f] = y]
  BY <1>1, Zenon DEF Goto
<1>3. FlowOK(flow[f])
  BY DEF FlowsOK
<1>4. /\ Fields(y) /\ y.pc = pc
      /\ y.kind = flow[f].kind /\ y.project = flow[f].project /\ y.second = flow[f].second
      /\ y.loaded = flow[f].loaded /\ y.targets = flow[f].targets /\ y.conf = flow[f].conf
      /\ y.backup = flow[f].backup /\ y.solo = flow[f].solo
  BY <1>1, <1>3, PcIs DEF FlowOK
<1>5. FlowOK(y)
  BY <1>3, <1>4 DEF FlowOK
<1> QED
  BY <1>2, <1>4, <1>5

LEMMA BetweenAround ==
  ASSUME FlowsOK(flow), NEW f \in Flows, Network(f) \/ Resolve(f) \/ BootstrapFails(f)
  PROVE  Around
<1>1. ASSUME NEW pc \in {"load", "certbot"}, Goto(f, pc), flow[f].pc \in {"ready", "network", "resolve"},
             UNCHANGED <<project, route, app, selfSigned, cert, file, served, mixed, stale>>,
             flow[f].pc = "network" => pc = "load"
      PROVE  Around
  <2>1. flow[f].kind # "idle" /\ ~flow[f].second /\ ~flow[f].solo
    BY <1>1 DEF FlowsOK, FlowOK, ApplyPcs
  <2>2. PICK y : FlowOK(y) /\ flow' = [flow EXCEPT ![f] = y] /\ y.pc = pc
    BY <1>1, <2>1, GotoIs
  <2> QED
    BY <1>1, <2>2, GoesOn
<1>2. CASE Network(f)
  <2>1. CASE Goto(f, "load") /\ UNCHANGED stale
    BY <1>1, <1>2, <2>1 DEF Network, rows, disk
  <2>2. CASE EndsInVain(f)
    BY <1>2, <2>2, FailsAround DEF Network, disk
  <2> QED
    BY <1>2, <2>1, <2>2 DEF Network
<1>3. CASE Resolve(f)
  <2>1. CASE Goto(f, "certbot")
    BY <1>1, <1>3, <2>1 DEF Resolve, rows, disk, observed
  <2>2. CASE Ends(f)
    BY <1>3, <2>2, EndsAround DEF Resolve, rows, disk, observed
  <2> QED
    BY <1>3, <2>1, <2>2 DEF Resolve
<1>4. CASE BootstrapFails(f)
  BY <1>4, EndsAround DEF BootstrapFails, rows, disk, observed
<1> QED
  BY <1>2, <1>3, <1>4

LEMMA CertbotAround ==
  ASSUME FlowsOK(flow), NEW f \in Flows, Certbot(f)
  PROVE  Around
<1>1. FlowOK(flow[f]) /\ flow[f].pc = "certbot"
  BY DEF FlowsOK, Certbot
<1>2. CASE Ends(f) /\ UNCHANGED <<rows, disk, observed>>
  BY <1>1, <1>2, EndsAround DEF rows, disk, observed
<1>3. CASE CertbotDone(f)
  <2>1. CASE EndsInVain(f) /\ UNCHANGED <<file, served, mixed>>
    BY <1>1, <2>1, FailsAround
  <2>2. CASE flow' = [flow EXCEPT ![f].pc = "load", ![f].second = TRUE] /\ UNCHANGED stale
    <3>1. PICK x : x = [flow[f] EXCEPT !.pc = "load"]
      OBVIOUS
    <3>2. /\ Fields(x) /\ x.pc = "load" /\ x.kind = flow[f].kind /\ x.solo = flow[f].solo
          /\ x.targets = flow[f].targets
      BY <1>1, <3>1, PcIs DEF FlowOK
    <3>3. PICK second \in BOOLEAN : second = TRUE
      OBVIOUS
    <3>4. PICK y : y = [x EXCEPT !.second = second]
      OBVIOUS
    <3>5. /\ Fields(y) /\ y.pc = "load" /\ y.kind = flow[f].kind /\ y.solo = flow[f].solo
          /\ y.targets = flow[f].targets /\ y.second
      BY <3>2, <3>3, <3>4 DEF Fields
    <3>6. FlowOK(y)
      BY <1>1, <3>5 DEF FlowOK, ApplyPcs
    <3>7. flow' = [flow EXCEPT ![f] = y]
      BY <2>2, <3>1, <3>3, <3>4, Zenon
    <3>8. cert \subseteq cert' \/ flow[f].kind = "delete"
      BY <1>3 DEF CertbotDone
    <3>9. UNCHANGED <<file, served, mixed>>
      BY <1>3 DEF CertbotDone
    <3> QED
      BY <1>1, <2>2, <3>5, <3>6, <3>7, <3>8, <3>9, GoesOn
  <2> QED
    BY <1>3, <2>1, <2>2 DEF CertbotDone
<1> QED
  BY <1>2, <1>3 DEF Certbot

LEMMA BootstrapAround ==
  ASSUME FlowsOK(flow), NEW f \in Flows, Bootstrap(f)
  PROVE  Around
<1>1. FlowOK(flow[f]) /\ flow[f].pc = "ready" /\ UNCHANGED <<project, route, cert, file, served, mixed, stale>>
  BY DEF FlowsOK, Bootstrap, observed
<1>2. flow[f].kind # "idle" /\ ~flow[f].second /\ ~flow[f].solo
  BY <1>1 DEF FlowOK, ApplyPcs
<1>3. CASE Goto(f, "load")
  <2>1. PICK y : FlowOK(y) /\ flow' = [flow EXCEPT ![f] = y] /\ y.pc = "load"
    BY <1>2, <1>3, GotoIs
  <2> QED
    BY <1>1, <2>1, GoesOn
<1>4. CASE flow' = [flow EXCEPT ![f].pc = "load", ![f].domain = envDomain]
  <2>1. PICK x : x = [flow[f] EXCEPT !.pc = "load"]
    OBVIOUS
  <2>2. /\ Fields(x) /\ x.pc = "load" /\ x.kind = flow[f].kind /\ x.solo = flow[f].solo
        /\ x.targets = flow[f].targets /\ x.second = flow[f].second
    BY <1>1, <2>1, PcIs DEF FlowOK
  <2>3. PICK y : y = [x EXCEPT !.domain = envDomain]
    OBVIOUS
  <2>4. /\ Fields(y) /\ y.pc = "load" /\ y.kind = flow[f].kind /\ y.solo = flow[f].solo
        /\ y.targets = flow[f].targets /\ y.second = flow[f].second
    BY <2>2, <2>3 DEF Fields
  <2>5. FlowOK(y)
    BY <1>1, <1>2, <2>4 DEF FlowOK
  <2>6. flow' = [flow EXCEPT ![f] = y]
    BY <1>4, <2>1, <2>3, Zenon
  <2> QED
    BY <1>1, <2>4, <2>5, <2>6, GoesOn
<1>5. CASE Ends(f) /\ UNCHANGED <<app, selfSigned>>
  BY <1>1, <1>5, EndsAround
<1> QED
  BY <1>3, <1>4, <1>5 DEF Bootstrap

(* The changes *)
LEMMA AskedAround ==
  ASSUME FlowsOK(flow), Asked
  PROVE  Around
<1>1. ASSUME NEW k, k # "idle", NEW pc \in {"network", "load"}, NEW p, NEW d, Starts(k, pc, p, d),
             UNCHANGED <<file, served, mixed, stale, cert>>
      PROVE  Around
  BY <1>1, Begins DEF Starts
<1>2. ASSUME NEW k, k # "idle", NEW pc \in {"load", "resolve", "certbot"}, NEW p, NEW d, Starts(k, pc, p, d),
             UNCHANGED <<project, route, app, selfSigned, file, served, mixed, stale, cert>>
      PROVE  Around
  BY <1>2, Begins DEF Starts
<1>3. ASSUME NEW p \in Projects, NEW d \in Domains, NEW t \in Targets, AddDomain(p, d, t) PROVE Around
  BY <1>1, <1>3 DEF AddDomain, disk, observed
<1>4. ASSUME NEW d \in Domains, NEW t \in Targets, SetRoute(d, t) PROVE Around
  BY <1>1, <1>4 DEF SetRoute, disk, observed
<1>5. ASSUME NEW d \in Domains, NEW on \in BOOLEAN, SetSsl(d, on) PROVE Around
  BY <1>1, <1>5 DEF SetSsl, disk, observed
<1>6. ASSUME NEW d \in Domains, RemoveDomain(d) PROVE Around
  <2>1. PICK f \in Flows : /\ ~Active(f)
                           /\ flow' = RowsGone([flow EXCEPT ![f] = Begun("route", "network", route[d].owner, NoOne)], {d})
    BY <1>6 DEF RemoveDomain
  <2> QED
    BY <1>6, <2>1, Begins DEF RemoveDomain, disk, observed
<1>7. ASSUME NEW d \in Domains, Issue(d) PROVE Around
  BY <1>1, <1>7 DEF Issue, disk, observed
<1>8. ASSUME NEW d \in Domains, NEW k \in {"certonly", "delete", "renew"}, CertbotAction(d, k) PROVE Around
  BY <1>2, <1>8 DEF CertbotAction, rows, disk, observed
<1>9. ASSUME NEW p \in Projects, NEW port, NEW s, EditProject(p, port, s) PROVE Around
  <2>1. CASE Starts("route", "network", p, NoOne) /\ UNCHANGED stale
    BY <1>1, <1>9, <2>1 DEF EditProject, disk
  <2>2. CASE flow' = Doubted(flow) /\ stale' = TRUE
    BY <1>9, <2>2, Doubts DEF EditProject, disk
  <2> QED
    BY <1>9, <2>1, <2>2 DEF EditProject
<1>10. ASSUME NEW p \in Projects, NEW paused, Pause(p, paused) PROVE Around
  BY <1>1, <1>10 DEF Pause, disk, observed
<1>11. ASSUME NEW on, NEW d, NEW ssl, Publish(on, d, ssl) PROVE Around
  <2>1. CASE Starts("apply", "load", NoOne, NoOne) /\ UNCHANGED stale
    BY <1>1, <1>11, <2>1 DEF Publish, disk
  <2>2. CASE flow' = Doubted(flow) /\ stale' = TRUE
    BY <1>11, <2>2, Doubts DEF Publish, disk
  <2> QED
    BY <1>11, <2>1, <2>2 DEF Publish
<1>12. CASE Apply
  BY <1>2, <1>12 DEF Apply, rows, disk, observed
<1>13. CASE Renewal
  BY <1>2, <1>13 DEF Renewal, rows, disk, observed
<1>14. CASE AskTcp
  BY <1>14, Still DEF AskTcp, rows, disk, observed
<1> QED
  BY <1>3, <1>4, <1>5, <1>6, <1>7, <1>8, <1>9, <1>10, <1>11, <1>12, <1>13, <1>14 DEF Asked

-----------------------------------------------------------------------------
(* What nginx serves: the steps of an apply *)

LEMMA TargetsAreBlocks == \A l : \A b \in RouteTargets(l) : IsBlock(b)
<1> SUFFICES ASSUME NEW l, NEW b \in RouteTargets(l) PROVE IsBlock(b)
  OBVIOUS
<1>1. ASSUME NEW d, NEW o, NEW t, NEW s, NEW h,
             b = [domain |-> d, owner |-> o, target |-> t, snippet |-> s, https |-> h]
      PROVE  IsBlock(b)
  BY <1>1 DEF IsBlock
<1>2. CASE b \in AppTarget
  BY <1>1, <1>2 DEF AppTarget
<1>3. CASE \E x \in Domains \X l :
             b = [domain |-> x[1], owner |-> x[2][1], target |-> route[x[1]].target,
                  snippet |-> x[2][2], https |-> route[x[1]].ssl]
  BY <1>1, <1>3
<1> QED
  BY <1>2, <1>3 DEF RouteTargets

(* A rendered HTTPS block has its certificate. *)
LEMMA RenderBacked ==
  ASSUME NEW t, \A b \in t : IsBlock(b), NEW c, c = Render(t)
  PROVE  \A b \in c.blocks : b.https => b.domain \in cert
<1> SUFFICES ASSUME NEW x \in c.blocks, x.https PROVE x.domain \in cert
  OBVIOUS
<1>1. c.blocks = {[b EXCEPT !.https = b.https /\ b.domain \in cert] : b \in t}
  BY DEF Render
<1>2. PICK b \in t : x = [b EXCEPT !.https = b.https /\ b.domain \in cert]
  BY <1>1
<1>3. PICK v : v = (b.https /\ b.domain \in cert)
  OBVIOUS
<1>4. x = [b EXCEPT !.https = v]
  BY <1>2, <1>3, Zenon
<1>5. x.https = v /\ x.domain = b.domain
  BY <1>4 DEF IsBlock
<1> QED
  BY <1>3, <1>5

(* Only one apply when one is alone, and only one that is alone. *)
LEMMA OnlyApply ==
  ASSUME RouteInv, NEW f \in Flows, InApply(f)
  PROVE  /\ \A g \in Flows : flow[g].solo => g = f
         /\ flow[f].solo \/ ~stale \/ ~mixed => Alone(f)
BY DEF RouteInv, SoloAlone, DiskInv, ServeInv, OneApply, Alone

(* An apply moves on. *)
LEMMA Inner ==
  ASSUME RouteInv, NEW f \in Flows, InApply(f),
         NEW y, FlowOK(y), y.pc \in ApplyPcs, y.kind = flow[f].kind, y.second = flow[f].second,
         y.solo => flow[f].solo, flow' = [flow EXCEPT ![f] = y],
         UNCHANGED <<project, route, app, selfSigned, cert, served, stale, mixed>>,
         ~mixed => Tidy(y)' /\ (y.pc \notin Written => file' = served),
         Fresh(flow[f]) => Fresh(y)',
         Certified(flow[f]) => Certified(y)',
         file' = file \/ (Certified(flow[f]) => Backed(file)')
  PROVE  RouteInv'
<1>1. FlowsOK(flow') /\ flow'[f] = y /\ OthersEqual(flow, flow', f)
  BY DEF FlowsOK, OthersEqual, RouteInv
<1>2. FlowsOK(flow)'
  BY <1>1 DEF FlowsOK, FlowOK, Fields, IsBlock
<1>3. \A g \in Flows : InApply(g)' <=> InApply(g)
  BY <1>1 DEF InApply, OthersEqual
<1>4. \A g \in Flows : Alone(g)' <=> Alone(g)
  BY <1>3 DEF Alone
<1>5. /\ \A g \in Flows : flow[g].solo => g = f
      /\ flow[f].solo \/ ~stale \/ ~mixed => Alone(f)
  BY OnlyApply
<1>6. flow[f].pc \notin {"network", "load"} /\ y.pc \notin {"network", "load"}
  BY DEF InApply, ApplyPcs
<1>7. Coming <=> Coming'
  BY <1>1, <1>6 DEF Coming, OthersEqual
<1>8. SoloAlone'
  BY <1>1, <1>4, <1>5 DEF SoloAlone, OthersEqual
<1>9. OneApply' <=> OneApply
  BY <1>3, <1>4 DEF OneApply
<1>10. DiskInv'
  <2> SUFFICES ASSUME ~mixed
               PROVE  /\ OneApply' /\ \A g \in Flows : Tidy(flow[g])'
                      /\ (\A g \in Flows : flow'[g].pc \notin Written) => file' = served'
    BY DEF DiskInv
  <2>1. OneApply'
    BY <1>9 DEF RouteInv, DiskInv
  <2>2. Tidy(flow[f])'
    BY <1>1 DEF Tidy
  <2>3. ASSUME NEW g \in Flows, g # f PROVE Tidy(flow[g])'
    <3>1. flow'[g].pc \notin ApplyPcs
      BY <1>1, <1>5, <2>3 DEF Alone, InApply, OthersEqual
    <3> QED
      BY <3>1 DEF ApplyPcs, Tidy, Written
  <2> QED
    BY <1>1, <2>1, <2>2, <2>3
<1>11. ServeInv'
  <2>1. Fresh(flow[f]) => Fresh(flow[f])'
    BY <1>1 DEF Fresh
  <2>2. ASSUME NEW g \in Flows, flow'[g].solo PROVE Coming' \/ Fresh(flow[g])'
    <3>1. g = f /\ flow[f].solo
      BY <1>1, <1>5, <2>2 DEF OthersEqual
    <3> QED
      BY <1>7, <2>1, <3>1 DEF RouteInv, ServeInv
  <2>3. ASSUME ~stale
        PROVE  /\ OneApply'
               /\ Coming' \/ ((\A g \in Flows : InApply(g)' => Fresh(flow[g])') /\ InApply(f)')
    BY <1>3, <1>5, <1>7, <1>9, <2>1, <2>3 DEF RouteInv, ServeInv, Alone
  <2> QED
    BY <2>2, <2>3 DEF ServeInv
<1>12. CertInv'
  <2>1. Certified(flow[f]) => Certified(flow[f])'
    BY <1>1 DEF Certified, Backed
  <2>2. ASSUME NEW g \in Flows, flow'[g].solo \/ (InApply(g)' /\ ~stale' /\ ~mixed')
        PROVE  Certified(flow[g])'
    <3>1. g = f /\ (flow[f].solo \/ (~stale /\ ~mixed))
      BY <1>1, <1>3, <1>5, <2>2 DEF OthersEqual, Alone
    <3> QED
      BY <2>1, <3>1 DEF RouteInv, CertInv
  <2>3. \A g \in Flows : Deleted(g)' <=> Deleted(g)
    BY <1>1 DEF Deleted, OthersEqual
  <2>4. CertsBehindHttps'
    <3> SUFFICES ASSUME ~stale, ~mixed, file' # NoFile, NEW b \in file'.blocks, b.https
                 PROVE  b.domain \in cert \/ \E g \in Flows : Deleted(g)
      BY <2>3 DEF CertsBehindHttps, Deleted
    <3>1. CASE file' = file
      BY <3>1 DEF RouteInv, CertInv, CertsBehindHttps, Deleted
    <3>2. CASE Certified(flow[f]) => Backed(file)'
      <4>1. b.domain \in cert \/ Waits'
        BY <3>2 DEF RouteInv, CertInv, Backed
      <4> QED
        BY <2>3, <4>1 DEF Waits
    <3> QED
      BY <3>1, <3>2
  <2> QED
    BY <2>2, <2>4 DEF CertInv
<1> QED
  BY <1>2, <1>8, <1>10, <1>11, <1>12 DEF RouteInv

(* What has its certificate keeps it while an apply moves on. *)
LEMMA WaitsStays ==
  ASSUME RouteInv, NEW f \in Flows, InApply(f), NEW y, flow' = [flow EXCEPT ![f] = y], UNCHANGED cert
  PROVE  \A c : Backed(c) => Backed(c)'
<1>1. flow[f].pc # "load"
  BY DEF InApply, ApplyPcs
<1>2. Waits => Waits'
  BY <1>1 DEF Waits, Deleted, RouteInv, FlowsOK
<1> QED
  BY <1>2 DEF Backed

(* A flow goes to pc without a change of anything else. *)
LEMMA GoesTo ==
  ASSUME RouteInv, NEW f \in Flows, InApply(f), NEW pc \in ApplyPcs, Goto(f, pc),
         UNCHANGED <<project, route, app, selfSigned, cert, file, served, stale, mixed>>,
         \/ pc = "backup" /\ flow[f].pc = "validate"
         \/ pc \in {"activate", "restore"} /\ flow[f].pc \in {"check", "activate"}
  PROVE  RouteInv'
<1>1. FlowOK(flow[f]) /\ flow[f].kind # "idle"
  BY DEF RouteInv, FlowsOK, FlowOK, InApply, ApplyPcs
<1>2. PICK y : /\ FlowOK(y) /\ flow' = [flow EXCEPT ![f] = y] /\ y.pc = pc
               /\ y.kind = flow[f].kind /\ y.project = flow[f].project /\ y.second = flow[f].second
               /\ y.loaded = flow[f].loaded /\ y.targets = flow[f].targets /\ y.conf = flow[f].conf
               /\ y.backup = flow[f].backup /\ y.solo = flow[f].solo
  BY <1>1, GotoIs DEF RouteInv
<1>3. ~mixed => Tidy(y)' /\ (y.pc \notin Written => file' = served)
  <2> SUFFICES ASSUME ~mixed PROVE Tidy(y)' /\ (y.pc \notin Written => file' = served)
    OBVIOUS
  <2>1. Tidy(flow[f]) /\ Alone(f)
    BY OnlyApply DEF RouteInv, DiskInv
  <2>2. Tidy(y)'
    BY <1>2, <2>1 DEF Tidy, Written
  <2>3. ASSUME y.pc \notin Written PROVE \A g \in Flows : flow[g].pc \notin Written
    BY <1>2, <2>1, <2>3 DEF Alone, InApply, ApplyPcs, Written
  <2> QED
    BY <2>2, <2>3 DEF RouteInv, DiskInv
<1>4. Fresh(flow[f]) => Fresh(y)'
  <2>1. Configured' = Configured
    BY InputsSame
  <2> QED
    BY <1>2, <2>1 DEF Fresh
<1>5. Certified(flow[f]) => Certified(y)'
  <2>1. \A c : Backed(c) => Backed(c)'
    BY <1>2, WaitsStays
  <2> QED
    BY <1>2, <2>1 DEF Certified, Backed
<1> QED
  BY <1>2, <1>3, <1>4, <1>5, Inner

LEMMA ReadRoutesInv ==
  ASSUME RouteInv, NEW f \in Flows, ReadRoutes(f)
  PROVE  RouteInv'
<1>1. FlowOK(flow[f]) /\ flow[f].pc = "read" /\ flow[f].kind # "idle" /\ InApply(f)
  BY DEF RouteInv, FlowsOK, FlowOK, ReadRoutes, InApply, ApplyPcs
<1>2. PICK t : t = RouteTargets(flow[f].loaded)
  OBVIOUS
<1>3. PICK x : x = [flow[f] EXCEPT !.pc = "render"]
  OBVIOUS
<1>4. /\ Fields(x) /\ x.pc = "render" /\ x.kind = flow[f].kind /\ x.second = flow[f].second
      /\ x.solo = flow[f].solo
  BY <1>1, <1>3, PcIs DEF FlowOK
<1>5. PICK y : y = [x EXCEPT !.loaded = {}, !.targets = t]
  OBVIOUS
<1>6. /\ Fields(y) /\ y.pc = "render" /\ y.kind = flow[f].kind /\ y.second = flow[f].second
      /\ y.solo = flow[f].solo /\ y.targets = t
  BY <1>4, <1>5 DEF Fields
<1>7. FlowOK(y)
  BY <1>1, <1>2, <1>6, TargetsAreBlocks DEF FlowOK, ApplyPcs
<1>8. flow' = [flow EXCEPT ![f] = y]
  BY <1>2, <1>3, <1>5, Zenon DEF ReadRoutes
<1>9. UNCHANGED <<project, route, app, selfSigned, cert, file, served, stale, mixed>>
  BY DEF ReadRoutes, rows, disk, observed
<1>10. ~mixed => Tidy(y)' /\ (y.pc \notin Written => file' = served)
  <2>1. ~mixed => \A g \in Flows : flow[g].pc \notin Written
    BY <1>1, OnlyApply DEF Alone, InApply, ApplyPcs, Written
  <2> QED
    BY <1>6, <1>9, <2>1 DEF Tidy, Written, RouteInv, DiskInv
<1>11. Fresh(flow[f]) => Fresh(y)'
  <2>1. RouteTargets(LoadProjects)' = RouteTargets(LoadProjects)
    BY <1>9, InputsSame
  <2> QED
    BY <1>1, <1>2, <1>6, <2>1 DEF Fresh
<1>12. Certified(y)'
  BY <1>6 DEF Certified
<1> QED
  BY <1>1, <1>6, <1>7, <1>8, <1>9, <1>10, <1>11, <1>12, Inner DEF ApplyPcs

LEMMA RenderBlocksInv ==
  ASSUME RouteInv, NEW f \in Flows, RenderBlocks(f)
  PROVE  RouteInv'
<1>1. FlowOK(flow[f]) /\ flow[f].pc = "render" /\ flow[f].kind # "idle" /\ InApply(f)
  BY DEF RouteInv, FlowsOK, FlowOK, RenderBlocks, InApply, ApplyPcs
<1>2. PICK c : c = Render(flow[f].targets)
  OBVIOUS
<1>3. PICK x : x = [flow[f] EXCEPT !.pc = "validate"]
  OBVIOUS
<1>4. /\ Fields(x) /\ x.pc = "validate" /\ x.kind = flow[f].kind /\ x.second = flow[f].second
      /\ x.solo = flow[f].solo
  BY <1>1, <1>3, PcIs DEF FlowOK
<1>5. PICK y : y = [x EXCEPT !.targets = {}, !.conf = c]
  OBVIOUS
<1>6. /\ Fields(y) /\ y.pc = "validate" /\ y.kind = flow[f].kind /\ y.second = flow[f].second
      /\ y.solo = flow[f].solo /\ y.targets = {} /\ y.conf = c
  BY <1>4, <1>5 DEF Fields
<1>7. FlowOK(y)
  BY <1>1, <1>6 DEF FlowOK, ApplyPcs
<1>8. flow' = [flow EXCEPT ![f] = y]
  BY <1>2, <1>3, <1>5, Zenon DEF RenderBlocks
<1>9. UNCHANGED <<project, route, app, selfSigned, cert, file, served, stale, mixed>>
  BY DEF RenderBlocks, rows, disk, observed
<1>10. ~mixed => Tidy(y)' /\ (y.pc \notin Written => file' = served)
  <2>1. ~mixed => \A g \in Flows : flow[g].pc \notin Written
    BY <1>1, OnlyApply DEF Alone, InApply, ApplyPcs, Written
  <2> QED
    BY <1>6, <1>9, <2>1 DEF Tidy, Written, RouteInv, DiskInv
<1>11. Fresh(flow[f]) => Fresh(y)'
  <2>1. Configured' = Configured
    BY <1>9, InputsSame
  <2>2. Fresh(flow[f]) => c = Configured
    BY <1>1, <1>2 DEF Fresh, Configured
  <2> QED
    BY <1>6, <2>1, <2>2 DEF Fresh
<1>12. Certified(y)'
  <2>1. \A b \in c.blocks : b.https => b.domain \in cert
    BY <1>1, <1>2, RenderBacked DEF FlowOK
  <2> QED
    BY <1>6, <1>9, <2>1 DEF Certified, Backed
<1> QED
  BY <1>1, <1>6, <1>7, <1>8, <1>9, <1>10, <1>11, <1>12, Inner DEF ApplyPcs

LEMMA BackupInv ==
  ASSUME RouteInv, NEW f \in Flows, Backup(f)
  PROVE  RouteInv'
<1>1. FlowOK(flow[f]) /\ flow[f].pc = "backup" /\ flow[f].kind # "idle" /\ InApply(f)
  BY DEF RouteInv, FlowsOK, FlowOK, Backup, InApply, ApplyPcs
<1>2. PICK x : x = [flow[f] EXCEPT !.pc = "replace"]
  OBVIOUS
<1>3. /\ Fields(x) /\ x.pc = "replace" /\ x.kind = flow[f].kind /\ x.second = flow[f].second
      /\ x.solo = flow[f].solo /\ x.targets = flow[f].targets /\ x.conf = flow[f].conf
  BY <1>1, <1>2, PcIs DEF FlowOK
<1>4. PICK y : y = [x EXCEPT !.backup = file]
  OBVIOUS
<1>5. /\ Fields(y) /\ y.pc = "replace" /\ y.kind = flow[f].kind /\ y.second = flow[f].second
      /\ y.solo = flow[f].solo /\ y.targets = flow[f].targets /\ y.conf = flow[f].conf /\ y.backup = file
  BY <1>3, <1>4 DEF Fields
<1>6. FlowOK(y)
  BY <1>1, <1>5 DEF FlowOK, ApplyPcs
<1>7. flow' = [flow EXCEPT ![f] = y]
  BY <1>2, <1>4, Zenon DEF Backup
<1>8. UNCHANGED <<project, route, app, selfSigned, cert, file, served, stale, mixed>>
  BY DEF Backup, rows, disk, observed
<1>9. ~mixed => Tidy(y)' /\ (y.pc \notin Written => file' = served)
  <2>1. ~mixed => \A g \in Flows : flow[g].pc \notin Written
    BY <1>1, OnlyApply DEF Alone, InApply, ApplyPcs, Written
  <2> QED
    BY <1>5, <1>8, <2>1 DEF Tidy, Written, RouteInv, DiskInv
<1>10. Fresh(flow[f]) => Fresh(y)'
  <2>1. Configured' = Configured
    BY <1>8, InputsSame
  <2> QED
    BY <1>1, <1>5, <2>1 DEF Fresh
<1>11. Certified(flow[f]) => Certified(y)'
  BY <1>1, <1>5, <1>7, <1>8, WaitsStays DEF Certified
<1> QED
  BY <1>1, <1>5, <1>6, <1>7, <1>8, <1>9, <1>10, <1>11, Inner DEF ApplyPcs

LEMMA ReplaceInv ==
  ASSUME RouteInv, NEW f \in Flows, Replace(f)
  PROVE  RouteInv'
<1>1. FlowOK(flow[f]) /\ flow[f].pc = "replace" /\ flow[f].kind # "idle" /\ InApply(f)
  BY DEF RouteInv, FlowsOK, FlowOK, Replace, InApply, ApplyPcs
<1>2. PICK x : x = [flow[f] EXCEPT !.pc = "check"]
  OBVIOUS
<1>3. /\ Fields(x) /\ x.pc = "check" /\ x.kind = flow[f].kind /\ x.second = flow[f].second
      /\ x.solo = flow[f].solo /\ x.targets = flow[f].targets /\ x.backup = flow[f].backup
  BY <1>1, <1>2, PcIs DEF FlowOK
<1>4. PICK y : y = [x EXCEPT !.conf = NoFile]
  OBVIOUS
<1>5. /\ Fields(y) /\ y.pc = "check" /\ y.kind = flow[f].kind /\ y.second = flow[f].second
      /\ y.solo = flow[f].solo /\ y.targets = flow[f].targets /\ y.backup = flow[f].backup
  BY <1>3, <1>4 DEF Fields
<1>6. FlowOK(y)
  BY <1>1, <1>5 DEF FlowOK, ApplyPcs
<1>7. flow' = [flow EXCEPT ![f] = y]
  BY <1>2, <1>4, Zenon DEF Replace
<1>8. UNCHANGED <<project, route, app, selfSigned, cert, served, stale, mixed>> /\ file' = flow[f].conf
  BY DEF Replace, rows, observed
<1>9. ~mixed => Tidy(y)' /\ (y.pc \notin Written => file' = served)
  <2>1. ~mixed => \A g \in Flows : flow[g].pc \notin Written
    BY <1>1, OnlyApply DEF Alone, InApply, ApplyPcs, Written
  <2>2. ~mixed => file = served /\ flow[f].backup = file
    BY <1>1, <2>1 DEF RouteInv, DiskInv, Tidy
  <2> QED
    BY <1>5, <1>8, <2>2 DEF Tidy, Written
<1>10. Fresh(flow[f]) => Fresh(y)'
  <2>1. Configured' = Configured
    BY <1>8, InputsSame
  <2> QED
    BY <1>1, <1>5, <1>8, <2>1 DEF Fresh
<1>11. Certified(flow[f]) => Backed(file)'
  <2>1. \A c : Backed(c) => Backed(c)'
    BY <1>1, <1>7, <1>8, WaitsStays
  <2> QED
    BY <1>1, <1>8, <2>1 DEF Certified, Backed
<1>12. Certified(flow[f]) => Certified(y)'
  BY <1>5, <1>11 DEF Certified, Backed
<1> QED
  BY <1>1, <1>5, <1>6, <1>7, <1>8, <1>9, <1>10, <1>11, <1>12, Inner DEF ApplyPcs

(* An apply that fails ends, with the file nginx runs. *)
LEMMA FailedInv ==
  ASSUME RouteInv, NEW f \in Flows, InApply(f), EndsInVain(f), UNCHANGED <<served, mixed>>,
         ~mixed => file' = served
  PROVE  RouteInv'
<1>1. /\ FlowsOK(flow') /\ stale' /\ \A g \in Flows : ~flow'[g].solo
      /\ flow'[f].pc = "idle" /\ \A g \in Flows : g # f => Same(flow[g], flow'[g])
  BY EndsInVainIs DEF RouteInv
<1>2. FlowsOK(flow)'
  BY <1>1 DEF FlowsOK, FlowOK, Fields, IsBlock
<1>3. ASSUME ~mixed PROVE \A g \in Flows : ~InApply(g)'
  BY <1>1, <1>3, OnlyApply DEF Alone, InApply, Same, ApplyPcs
<1>4. DiskInv'
  BY <1>3 DEF DiskInv, OneApply, InApply, ApplyPcs, Tidy, Written
<1> QED
  BY <1>1, <1>2, <1>4 DEF RouteInv, SoloAlone, ServeInv, CertInv, CertsBehindHttps

LEMMA ValidateInv ==
  ASSUME RouteInv, NEW f \in Flows, Validate(f)
  PROVE  RouteInv'
<1>1. flow[f].pc = "validate" /\ InApply(f)
  BY DEF Validate, InApply, ApplyPcs
<1>2. CASE Goto(f, "backup") /\ UNCHANGED <<rows, disk, observed, nets>>
  BY <1>1, <1>2, GoesTo DEF rows, disk, observed, ApplyPcs
<1>3. CASE ApplyFails(f)
  <2>1. ~mixed => \A g \in Flows : flow[g].pc \notin Written
    BY <1>1, OnlyApply DEF Alone, InApply, ApplyPcs, Written
  <2>2. ~mixed => file = served
    BY <2>1 DEF RouteInv, DiskInv
  <2> QED
    BY <1>1, <1>3, <2>2, FailedInv DEF ApplyFails, disk
<1> QED
  BY <1>2, <1>3 DEF Validate

LEMMA CheckInv ==
  ASSUME RouteInv, NEW f \in Flows, Check(f)
  PROVE  RouteInv'
<1>1. flow[f].pc = "check" /\ InApply(f) /\ UNCHANGED <<rows, disk, observed>>
  BY DEF Check, InApply, ApplyPcs
<1>2. PICK pc \in {"activate", "restore"} : Goto(f, pc)
  BY DEF Check
<1> QED
  BY <1>1, <1>2, GoesTo DEF rows, disk, observed, ApplyPcs

LEMMA RestoreInv ==
  ASSUME RouteInv, NEW f \in Flows, Restore(f)
  PROVE  RouteInv'
<1>1. flow[f].pc = "restore" /\ InApply(f)
  BY DEF Restore, InApply, ApplyPcs
<1>2. ~mixed => file' = served
  BY <1>1 DEF Restore, RouteInv, DiskInv, Tidy, Written
<1> QED
  BY <1>1, <1>2, FailedInv DEF Restore

(* The flow of an apply that succeeded is out of it. *)
LEMMA AfterApplyIs ==
  ASSUME FlowsOK(flow), NEW f \in Flows, InApply(f), AfterApply(f)
  PROVE  /\ FlowsOK(flow') /\ ~flow'[f].solo /\ flow'[f].pc \in {"idle", "resolve"}
         /\ OthersEqual(flow, flow', f)
<1>1. CASE Ends(f)
  BY <1>1, IdleIs DEF Ends, FlowsOK, OthersEqual
<1>2. CASE /\ ~flow[f].second
           /\ flow' = [flow EXCEPT ![f].pc = "resolve", ![f].backup = NoFile, ![f].solo = FALSE]
  <2>1. FlowOK(flow[f]) /\ flow[f].kind # "idle"
    BY DEF FlowsOK, FlowOK, InApply, ApplyPcs
  <2>2. PICK x : x = [flow[f] EXCEPT !.pc = "resolve"]
    OBVIOUS
  <2>3. /\ Fields(x) /\ x.pc = "resolve" /\ x.kind = flow[f].kind /\ x.second = flow[f].second
        /\ x.targets = flow[f].targets
    BY <2>1, <2>2, PcIs DEF FlowOK
  <2>4. PICK v \in BOOLEAN : v = FALSE
    OBVIOUS
  <2>5. PICK y : y = [x EXCEPT !.backup = NoFile, !.solo = v]
    OBVIOUS
  <2>6. /\ Fields(y) /\ y.pc = "resolve" /\ y.kind = flow[f].kind /\ y.second = flow[f].second
        /\ y.targets = flow[f].targets /\ ~y.solo
    BY <2>3, <2>4, <2>5 DEF Fields
  <2>7. FlowOK(y)
    BY <1>2, <2>1, <2>6 DEF FlowOK
  <2>8. flow' = [flow EXCEPT ![f] = y]
    BY <1>2, <2>2, <2>4, <2>5, Zenon
  <2> QED
    BY <2>6, <2>7, <2>8 DEF FlowsOK, OthersEqual
<1> QED
  BY <1>1, <1>2 DEF AfterApply

(* An apply succeeds: nginx runs the file. *)
LEMMA ActivatedInv ==
  ASSUME RouteInv, NEW f \in Flows, flow[f].pc = "activate", served' = file, AfterApply(f),
         IF flow[f].solo THEN stale' = FALSE /\ mixed' = FALSE ELSE UNCHANGED observed,
         UNCHANGED <<project, route, app, selfSigned, cert, file>>
  PROVE  RouteInv'
<1>1. InApply(f)
  BY DEF InApply, ApplyPcs
<1>2. /\ FlowsOK(flow') /\ ~flow'[f].solo /\ flow'[f].pc \in {"idle", "resolve"}
      /\ OthersEqual(flow, flow', f)
  BY <1>1, AfterApplyIs DEF RouteInv
<1>3. FlowsOK(flow)'
  BY <1>2 DEF FlowsOK, FlowOK, Fields, IsBlock
<1>4. /\ \A g \in Flows : flow[g].solo => g = f
      /\ flow[f].solo \/ ~stale \/ ~mixed => Alone(f)
  BY <1>1, OnlyApply
<1>5. \A g \in Flows : ~flow'[g].solo
  BY <1>2, <1>4 DEF OthersEqual
<1>6. Alone(f) => \A g \in Flows : ~InApply(g)'
  BY <1>2 DEF Alone, InApply, ApplyPcs, OthersEqual
<1>7. /\ ~mixed' => flow[f].solo \/ ~mixed
      /\ ~stale' => flow[f].solo \/ ~stale
      /\ ~stale' /\ ~mixed' => flow[f].solo \/ (~stale /\ ~mixed)
  BY DEF observed
<1>8. DiskInv'
  BY <1>4, <1>6, <1>7 DEF DiskInv, OneApply, InApply, ApplyPcs, Tidy, Written
<1>9. ServeInv'
  <2>1. Coming => Coming'
    BY <1>2 DEF Coming, OthersEqual
  <2>2. Configured' = Configured
    BY InputsSame
  <2>3. ASSUME ~stale' PROVE Coming \/ file = Configured
    BY <1>1, <1>7, <2>3 DEF RouteInv, ServeInv, Fresh
  <2>4. ASSUME ~stale' PROVE \A g \in Flows : ~InApply(g)'
    BY <1>4, <1>6, <1>7, <2>4
  <2> QED
    BY <1>5, <2>1, <2>2, <2>3, <2>4 DEF ServeInv, OneApply
<1>10. CertInv'
  <2>1. ASSUME ~stale', ~mixed' PROVE Backed(file) /\ \A g \in Flows : ~InApply(g)'
    BY <1>1, <1>4, <1>6, <1>7, <2>1 DEF RouteInv, CertInv, Certified
  <2>2. ASSUME Waits PROVE (\E g \in Flows : flow[g].kind = "delete" /\ flow[g].second)'
    <3>1. PICK g \in Flows : Deleted(g) /\ flow[g].pc = "load"
      BY <2>2 DEF Waits
    <3> QED
      BY <1>2, <3>1 DEF Deleted, OthersEqual
  <2>3. CertsBehindHttps'
    BY <2>1, <2>2 DEF CertsBehindHttps, Backed
  <2> QED
    BY <1>5, <2>1, <2>3 DEF CertInv
<1> QED
  BY <1>3, <1>5, <1>8, <1>9, <1>10 DEF RouteInv, SoloAlone

(* The answer of a reload is lost. *)
LEMMA AnswerLostInv ==
  ASSUME RouteInv, NEW f \in Flows, flow[f].pc = "activate", served' = file,
         flow' = Doubted([flow EXCEPT ![f].pc = "restore"]), mixed',
         UNCHANGED <<project, route, app, selfSigned, cert, file, stale>>
  PROVE  RouteInv'
<1>1. FlowOK(flow[f]) /\ flow[f].kind # "idle" /\ InApply(f)
  BY DEF RouteInv, FlowsOK, FlowOK, InApply, ApplyPcs
<1>2. PICK y : y = [flow[f] EXCEPT !.pc = "restore"]
  OBVIOUS
<1>3. /\ Fields(y) /\ y.pc = "restore" /\ y.kind = flow[f].kind /\ y.second = flow[f].second
      /\ y.targets = flow[f].targets /\ y.solo = flow[f].solo
  BY <1>1, <1>2, PcIs DEF FlowOK
<1>4. FlowOK(y)
  BY <1>1, <1>3 DEF FlowOK, ApplyPcs
<1>5. PICK gl : gl = [flow EXCEPT ![f] = y]
  OBVIOUS
<1>6. FlowsOK(gl) /\ gl[f] = y /\ OthersEqual(flow, gl, f)
  BY <1>4, <1>5 DEF FlowsOK, OthersEqual, RouteInv
<1>7. flow' = Doubted(gl)
  BY <1>2, <1>5, Zenon
<1>8. FlowsOK(flow') /\ \A g \in Flows : Same(gl[g], flow'[g]) /\ ~flow'[g].solo
  BY <1>6, <1>7, DoubtedIs
<1>9. FlowsOK(flow)'
  BY <1>8 DEF FlowsOK, FlowOK, Fields, IsBlock
<1>10. \A g \in Flows : /\ InApply(g)' <=> InApply(g)
                        /\ flow'[g].pc = "load" \/ flow'[g].pc = "network" <=> flow[g].pc = "load" \/ flow[g].pc = "network"
  <2> SUFFICES ASSUME NEW g \in Flows
               PROVE  /\ InApply(g)' <=> InApply(g)
                      /\ (flow'[g].pc = "load" \/ flow'[g].pc = "network") <=> (flow[g].pc = "load" \/ flow[g].pc = "network")
    OBVIOUS
  <2>1. flow'[g].pc = gl[g].pc
    BY <1>8 DEF Same
  <2>2. CASE g = f
    BY <1>3, <1>6, <2>1, <2>2 DEF InApply, ApplyPcs
  <2>3. CASE g # f
    BY <1>6, <2>1, <2>3 DEF InApply, OthersEqual
  <2> QED
    BY <2>2, <2>3
<1>11. ServeInv'
  <2>1. Coming <=> Coming'
    BY <1>10 DEF Coming
  <2>2. ASSUME ~stale PROVE OneApply' /\ \A g \in Flows : InApply(g)' => g = f
    BY <1>1, <1>10, <2>2, OnlyApply DEF Alone, OneApply
  <2>3. Fresh(flow[f])'
    BY <1>3, <1>6, <1>8 DEF Same, Fresh
  <2> QED
    BY <1>1, <1>8, <1>10, <2>1, <2>2, <2>3 DEF ServeInv, RouteInv
<1> QED
  BY <1>8, <1>9, <1>11 DEF RouteInv, SoloAlone, DiskInv, CertInv, CertsBehindHttps

LEMMA ActivateInv ==
  ASSUME RouteInv, NEW f \in Flows, Activate(f)
  PROVE  RouteInv'
<1>1. flow[f].pc = "activate" /\ InApply(f)
  BY DEF Activate, InApply, ApplyPcs
<1>2. CASE /\ served' = file /\ AfterApply(f)
           /\ IF flow[f].solo THEN stale' = FALSE /\ mixed' = FALSE ELSE UNCHANGED observed
           /\ UNCHANGED <<envDomain, project, route, app, selfSigned, cert, file, nets>>
  BY <1>1, <1>2, ActivatedInv
<1>3. CASE Goto(f, "restore") /\ UNCHANGED <<rows, disk, observed, nets>>
  BY <1>1, <1>3, GoesTo DEF rows, disk, observed, ApplyPcs
<1>4. CASE /\ served' = file /\ flow' = Doubted([flow EXCEPT ![f].pc = "restore"]) /\ mixed' = TRUE
           /\ UNCHANGED <<rows, selfSigned, cert, file, stale, nets>>
  BY <1>1, <1>4, AnswerLostInv DEF rows
<1> QED
  BY <1>2, <1>3, <1>4 DEF Activate

(* An apply begins; one that overlaps another leaves everything in doubt. *)
LEMMA LoadInv ==
  ASSUME RouteInv, NEW f \in Flows, Load(f)
  PROVE  RouteInv'
<1>1. /\ FlowOK(flow[f]) /\ flow[f].pc = "load" /\ flow[f].kind # "idle" /\ ~InApply(f)
      /\ UNCHANGED <<project, route, app, selfSigned, cert, file, served>>
  BY DEF RouteInv, FlowsOK, FlowOK, Load, InApply, ApplyPcs, rows, disk
<1>2. PICK l : l = LoadProjects
  OBVIOUS
<1>3. PICK x : x = [flow[f] EXCEPT !.pc = "read"]
  OBVIOUS
<1>4. /\ Fields(x) /\ x.pc = "read" /\ x.kind = flow[f].kind /\ x.second = flow[f].second
      /\ x.targets = flow[f].targets
  BY <1>1, <1>3, PcIs DEF FlowOK
<1>5. PICK v \in BOOLEAN : v = TRUE
  OBVIOUS
<1>6. PICK y : y = [x EXCEPT !.loaded = l, !.solo = v]
  OBVIOUS
<1>7. /\ Fields(y) /\ y.pc = "read" /\ y.kind = flow[f].kind /\ y.second = flow[f].second
      /\ y.targets = flow[f].targets /\ y.loaded = l
  BY <1>4, <1>6 DEF Fields
<1>8. FlowOK(y)
  BY <1>1, <1>7 DEF FlowOK, ApplyPcs
<1>9. PICK gl : gl = [flow EXCEPT ![f] = y]
  OBVIOUS
<1>10. FlowsOK(gl) /\ gl[f] = y /\ OthersEqual(flow, gl, f)
  BY <1>8, <1>9 DEF FlowsOK, OthersEqual, RouteInv
<1>11. gl = [flow EXCEPT ![f].pc = "read", ![f].loaded = LoadProjects, ![f].solo = TRUE]
  BY <1>2, <1>3, <1>5, <1>6, <1>9, Zenon
<1>12. CASE \E g \in Flows : InApply(g)
  <2>1. flow' = Doubted(gl) /\ stale' /\ mixed'
    BY <1>11, <1>12 DEF Load
  <2>2. FlowsOK(flow') /\ \A g \in Flows : ~flow'[g].solo
    BY <1>10, <2>1, DoubtedIs
  <2>3. FlowsOK(flow)'
    BY <2>2 DEF FlowsOK, FlowOK, Fields, IsBlock
  <2> QED
    BY <2>1, <2>2, <2>3 DEF RouteInv, SoloAlone, DiskInv, ServeInv, CertInv, CertsBehindHttps
<1>13. CASE ~\E g \in Flows : InApply(g)
  <2>1. flow' = gl /\ (stale' <=> stale) /\ (mixed' <=> mixed)
    BY <1>11, <1>13, Zenon DEF Load
  <2>2. FlowsOK(flow)'
    BY <1>10, <2>1 DEF FlowsOK, FlowOK, Fields, IsBlock
  <2>3. flow'[f] = y /\ \A g \in Flows : g # f => flow'[g] = flow[g] /\ ~InApply(g)'
    BY <1>10, <1>13, <2>1 DEF OthersEqual, InApply
  <2>4. Alone(f)'
    BY <2>3 DEF Alone
  <2>5. \A g \in Flows : g # f => ~flow'[g].solo
    BY <2>2, <2>3 DEF FlowsOK, FlowOK, InApply
  <2>6. SoloAlone' /\ OneApply'
    BY <2>3, <2>4, <2>5 DEF SoloAlone, OneApply
  <2>7. Fresh(flow[f])' /\ Certified(flow[f])'
    <3>1. LoadProjects' = LoadProjects
      BY <1>1, InputsSame
    <3> QED
      BY <1>2, <1>7, <2>3, <3>1 DEF Fresh, Certified
  <2>8. DiskInv'
    <3>1. \A g \in Flows : flow[g].pc \notin Written
      BY <1>13 DEF InApply, ApplyPcs, Written
    <3>2. \A g \in Flows : Tidy(flow[g])'
      <4> SUFFICES ASSUME NEW g \in Flows PROVE Tidy(flow[g])'
        OBVIOUS
      <4>1. CASE g = f
        BY <1>7, <2>3, <4>1 DEF Tidy, Written
      <4>2. CASE g # f
        BY <2>3, <4>2 DEF Tidy, Written, InApply, ApplyPcs
      <4> QED
        BY <4>1, <4>2
    <3> QED
      BY <1>1, <2>1, <2>6, <3>1, <3>2 DEF DiskInv, RouteInv
  <2>9. ServeInv'
    <3>1. InApply(f)'
      BY <1>7, <2>3 DEF InApply, ApplyPcs
    <3> QED
      BY <2>3, <2>5, <2>6, <2>7, <3>1 DEF ServeInv
  <2>10. CertInv'
    <3>1. \A g \in Flows : flow'[g].kind = flow[g].kind /\ flow'[g].second = flow[g].second
      BY <1>7, <2>3
    <3>2. CertsBehindHttps'
      BY <1>1, <2>1, <3>1 DEF CertsBehindHttps, RouteInv, CertInv
    <3> QED
      BY <2>3, <2>5, <2>7, <3>2 DEF CertInv
  <2> QED
    BY <2>2, <2>6, <2>8, <2>9, <2>10 DEF RouteInv
<1> QED
  BY <1>12, <1>13

LEMMA NginxRecreatedInv ==
  ASSUME RouteInv, NginxRecreated
  PROVE  RouteInv'
<1>1. /\ flow' = Doubted(flow) /\ served' = file /\ (mixed' <=> mixed \/ \E f \in Flows : InApply(f))
      /\ UNCHANGED <<project, route, app, selfSigned, cert, file, stale>>
  BY DEF NginxRecreated, rows
<1>2. FlowsOK(flow') /\ \A f \in Flows : Same(flow[f], flow'[f]) /\ ~flow'[f].solo
  BY <1>1, DoubtedIs DEF RouteInv
<1>3. FlowsOK(flow)'
  BY <1>2 DEF FlowsOK, FlowOK, Fields, IsBlock
<1>4. \A f \in Flows : flow'[f].pc = flow[f].pc /\ (InApply(f)' <=> InApply(f))
  BY <1>2 DEF Same, InApply
<1>5. DiskInv'
  BY <1>1, <1>4 DEF DiskInv, OneApply, InApply, ApplyPcs, Tidy, Written
<1>6. ServeInv'
  <2>1. /\ LoadProjects' = LoadProjects /\ Configured' = Configured
        /\ RouteTargets(LoadProjects)' = RouteTargets(LoadProjects)
    BY <1>1, InputsSame
  <2>2. \A f \in Flows : Fresh(flow[f]) => Fresh(flow[f])'
    BY <1>1, <1>2, <2>1 DEF Fresh, Same
  <2>3. Coming => Coming'
    BY <1>4 DEF Coming
  <2>4. OneApply => OneApply'
    BY <1>4 DEF OneApply, Alone
  <2> QED
    BY <1>1, <1>2, <1>4, <2>1, <2>2, <2>3, <2>4 DEF ServeInv, RouteInv
<1>7. CertInv'
  <2>1. \A f \in Flows : Deleted(f) => Deleted(f)'
    BY <1>2 DEF Deleted, Same
  <2>2. CertsBehindHttps'
    <3> SUFFICES ASSUME ~stale, ~mixed, file # NoFile, NEW b \in file.blocks, b.https
                 PROVE  b.domain \in cert \/ \E f \in Flows : Deleted(f)'
      BY <1>1 DEF CertsBehindHttps, Deleted
    <3> QED
      BY <2>1 DEF RouteInv, CertInv, CertsBehindHttps, Deleted
  <2> QED
    BY <1>1, <1>2, <1>4, <2>2 DEF CertInv
<1> QED
  BY <1>2, <1>3, <1>5, <1>6, <1>7 DEF RouteInv, SoloAlone

(* After a restart the bootstrap is the only flow. *)
LEMMA BootOnly ==
  ASSUME NEW f \in Flows, NEW fl, fl = [g \in Flows |-> IF g = f THEN Begun("boot", "ready", NoOne, NoOne) ELSE Idle]
  PROVE  FlowsOK(fl) /\ \A g \in Flows : fl[g].pc \in {"idle", "ready"} /\ ~fl[g].solo
<1>1. PICK y : y = Begun("boot", "ready", NoOne, NoOne)
  OBVIOUS
<1>2. FlowOK(y) /\ y.pc = "ready" /\ ~y.solo
  BY <1>1, BegunIs
<1>3. fl = [g \in Flows |-> IF g = f THEN y ELSE Idle]
  BY <1>1
<1> QED
  BY <1>2, <1>3, IdleIs DEF FlowsOK

LEMMA RestartInv ==
  ASSUME RouteInv, Restart
  PROVE  RouteInv'
<1>1. /\ (stale' <=> stale \/ \E f \in Flows : Active(f))
      /\ (mixed' <=> mixed \/ \E f \in Flows : InApply(f))
      /\ UNCHANGED <<project, route, app, selfSigned, cert, file, served>>
  BY DEF Restart, rows, disk
<1>2. FlowsOK(flow') /\ \A f \in Flows : flow'[f].pc \in {"idle", "ready"} /\ ~flow'[f].solo
  BY BootOnly DEF Restart
<1>3. FlowsOK(flow)'
  BY <1>2 DEF FlowsOK, FlowOK, Fields, IsBlock
<1>4. \A f \in Flows : ~InApply(f)' /\ flow'[f].pc \notin Written
  BY <1>2 DEF InApply, ApplyPcs, Written
<1>5. DiskInv'
  BY <1>1, <1>2, <1>4 DEF DiskInv, RouteInv, OneApply, InApply, ApplyPcs, Tidy, Written
<1>6. Configured' = Configured
  BY <1>1, InputsSame
<1>7. ASSUME ~stale' PROVE ~stale /\ (\A f \in Flows : ~Active(f) /\ ~InApply(f)) /\ ~Coming
  BY <1>1, <1>7 DEF Active, InApply, ApplyPcs, Coming, RouteInv, FlowsOK, FlowOK
<1>8. ServeInv'
  BY <1>1, <1>2, <1>4, <1>6, <1>7 DEF ServeInv, RouteInv, OneApply
<1>9. CertInv'
  <2>1. CertsBehindHttps'
    <3> SUFFICES ASSUME ~stale', ~mixed', file # NoFile, NEW b \in file.blocks, b.https
                 PROVE  b.domain \in cert
      BY <1>1 DEF CertsBehindHttps
    <3> QED
      BY <1>1, <1>7 DEF RouteInv, CertInv, CertsBehindHttps, Active
  <2> QED
    BY <1>2, <1>4, <2>1 DEF CertInv
<1> QED
  BY <1>2, <1>3, <1>5, <1>8, <1>9 DEF RouteInv, SoloAlone

LEMMA RouteInit ==
  ASSUME IngressInit
  PROVE  RouteInv
<1>1. ~mixed
  BY DEF IngressInit
<1>2. CASE FirstStart
  <2>1. FlowsOK(flow) /\ \A f \in Flows : flow[f].pc \in {"idle", "ready"} /\ ~flow[f].solo
    BY <1>2, BootOnly DEF FirstStart
  <2> QED
    BY <1>2, <2>1 DEF FirstStart, RouteInv, SoloAlone, DiskInv, OneApply, InApply, ApplyPcs, Tidy, Written,
                      ServeInv, CertInv, CertsBehindHttps
<1>3. CASE InUse
  <2>1. flow = [f \in Flows |-> Idle] /\ file = Configured /\ served = Configured
    BY <1>3 DEF InUse
  <2>2. FlowsOK(flow) /\ \A f \in Flows : flow[f].pc = "idle" /\ ~flow[f].solo
    BY <2>1, IdleIs DEF FlowsOK
  <2>3. \A b \in file.blocks : b.https => b.domain \in cert
    BY <2>1, TargetsAreBlocks, RenderBacked DEF Configured
  <2> QED
    BY <2>1, <2>2, <2>3 DEF RouteInv, SoloAlone, DiskInv, OneApply, InApply, ApplyPcs, Tidy, Written,
                            ServeInv, CertInv, CertsBehindHttps
<1> QED
  BY <1>2, <1>3 DEF IngressInit

LEMMA RouteNext ==
  ASSUME RouteInv, [IngressNext]_ingressVars
  PROVE  RouteInv'
<1>1. FlowsOK(flow)
  BY DEF RouteInv
<1>2. CASE Change
  BY <1>1, <1>2, AskedAround, AroundInv DEF Change
<1>3. CASE NginxRecreated
  BY <1>3, NginxRecreatedInv
<1>4. CASE Restart
  BY <1>4, RestartInv
<1>5. ASSUME NEW p \in Projects, DeployEnds(p) PROVE RouteInv'
  BY <1>1, <1>5, Still, AroundInv DEF DeployEnds, rows, disk, observed
<1>6. ASSUME NEW f \in Flows, FlowStep(f) PROVE RouteInv'
  BY <1>1, <1>6, BootstrapAround, BetweenAround, CertbotAround, AroundInv, LoadInv, ReadRoutesInv,
     RenderBlocksInv, ValidateInv, BackupInv, ReplaceInv, CheckInv, ActivateInv, RestoreInv DEF FlowStep
<1>7. ASSUME NEW j \in Jobs, TcpStep(j) PROVE RouteInv'
  BY <1>1, <1>7, Still, AroundInv DEF TcpStep, rows, disk, observed
<1>8. ASSUME NEW j \in Jobs, DeleteProject(j) PROVE RouteInv'
  <2>1. PICK f \in Flows :
           /\ ~Active(f)
           /\ \E D : flow' = RowsGone([flow EXCEPT ![f] = Begun("route", "load", job[j].project, NoOne)], D)
    BY <1>8 DEF DeleteProject
  <2> QED
    BY <1>1, <1>8, <2>1, Begins, AroundInv DEF DeleteProject, disk, observed
<1>9. ASSUME NEW j \in Jobs, NEW ok \in BOOLEAN, AttachTcp(j, ok) PROVE RouteInv'
  BY <1>1, <1>9, Still, AroundInv DEF AttachTcp, rows, disk, observed
<1>10. ASSUME NEW j \in Jobs, NEW ok \in BOOLEAN, StartTcp(j, ok) PROVE RouteInv'
  BY <1>1, <1>10, Still, AroundInv DEF StartTcp, rows, disk, observed
<1>11. ASSUME NEW p \in Projects, NEW off, DeployBegins(p, off) PROVE RouteInv'
  BY <1>1, <1>11, Still, AroundInv DEF DeployBegins, rows, disk, observed
<1>12. CASE UNCHANGED ingressVars
  BY <1>1, <1>12, Still, AroundInv DEF ingressVars, rows, disk, observed
<1> QED
  BY <1>2, <1>3, <1>4, <1>5, <1>6, <1>7, <1>8, <1>9, <1>10, <1>11, <1>12 DEF IngressNext

-----------------------------------------------------------------------------
(* What nginx serves: the theorems *)

(* The inductive invariant of the applies holds in every reachable state. *)
THEOREM RouteHolds == IngressSpec => []RouteInv
<1>1. IngressInit => RouteInv
  BY RouteInit
<1>2. RouteInv /\ [IngressNext]_ingressVars => RouteInv'
  BY RouteNext
<1> QED
  BY <1>1, <1>2, PTL DEF IngressSpec

(* At rest, what nginx runs is what the rows and the certificates say,     *)
(* unless an apply failed, was lost, overlapped another or was never made. *)
THEOREM Serving == IngressSpec => []ServesAsConfigured
<1>1. RouteInv => ServesAsConfigured
  <2> SUFFICES ASSUME RouteInv, Quiet, ~stale PROVE served = Configured
    BY DEF ServesAsConfigured
  <2>1. ~Coming /\ \A f \in Flows : ~InApply(f)
    BY DEF Quiet, Active, RouteInv, FlowsOK, FlowOK, Coming, InApply, ApplyPcs
  <2> QED
    BY <2>1 DEF RouteInv, ServeInv
<1> QED
  BY <1>1, RouteHolds, PTL

(* At rest, the file a restarted nginx would read is what nginx runs,      *)
(* unless applies overlapped, died half-way or a reload's answer was lost. *)
THEOREM FileIsLive == IngressSpec => []DiskIsLive
<1>1. RouteInv => DiskIsLive
  BY DEF DiskIsLive, Quiet, Active, RouteInv, FlowsOK, FlowOK, DiskInv, Written
<1> QED
  BY <1>1, RouteHolds, PTL

(* While nothing is in doubt, no HTTPS block of the file lacks its         *)
(* certificate, except between a deletion by certbot and its apply.        *)
THEOREM Certificates == IngressSpec => []CertsBehindHttps
<1>1. RouteInv => CertsBehindHttps
  BY DEF RouteInv, CertInv
<1> QED
  BY <1>1, RouteHolds, PTL

-----------------------------------------------------------------------------
(* TCP exposures: the shape of rows and jobs *)

IsRow(e) == e = [id |-> e.id, owner |-> e.owner, target |-> e.target, failed |-> e.failed]
IsJob(r) == r = [kind |-> r.kind, pc |-> r.pc, project |-> r.project, port |-> r.port, target |-> r.target,
                 id |-> r.id, todo |-> r.todo, outage |-> r.outage]
Ids == Nat \ {0}

\* Where a job of each kind can be, and what it has there.
JobOK(r) ==
  /\ IsJob(r)
  /\ r.kind = "boot" => r.pc \in {"list", "check", "run"} /\ r.todo \subseteq Ports \X Ids
  /\ r.kind = "expose" => r.pc \in {"insert", "attach", "check", "run", "remove", "drop"}
  /\ r.kind = "delete" <=> r.pc \in {"runtime", "gone"}
  /\ r.pc = "list" => r.kind = "boot"
  /\ r.pc \in {"insert", "attach"} => r.kind = "expose"
  /\ r.pc \in {"check", "run"} => r.kind \in {"expose", "boot"}
  /\ r.pc = "insert" => r.port \in Ports
  /\ r.pc \in {"attach", "check", "run", "remove", "drop"} => r.port \in Ports /\ r.id \in Ids

\* The rows a DELETE listed were of its project, and no other row will have their ids.
Lists(r, ex, n) ==
  r.kind = "delete" =>
    \A q \in Ports : \A i : <<q, i>> \in r.todo => i \in Ids /\ i <= n /\ (ex[q].id = i => ex[q].owner = r.project)

TcpType ==
  /\ lastExposure \in Nat
  /\ exposure = [q \in Ports |-> exposure[q]]
  /\ proxy = [q \in Ports |-> proxy[q]]
  /\ job = [j \in Jobs |-> job[j]]
  /\ \A q \in Ports : IsRow(exposure[q]) /\ exposure[q].id \in Nat /\ exposure[q].id <= lastExposure
  /\ \A j \in Jobs : JobOK(job[j]) /\ Lists(job[j], exposure, lastExposure)

-----------------------------------------------------------------------------
(* TCP exposures: the inductive invariant *)

\* Job r is starting the exposure with id i of port q, or will.
Has(r, q, i) ==
  \/ r.kind \in {"expose", "boot"} /\ r.pc \in {"attach", "check", "run"} /\ r.port = q /\ r.id = i
  \/ r.kind = "boot" /\ <<q, i>> \in r.todo

\* Job r will see to the row e of port q.
Serves(r, q, e) ==
  \/ Has(r, q, e.id)
  \/ r.pc \in {"remove", "drop"} /\ r.port = q /\ r.id = e.id
  \/ r.pc = "gone" /\ r.project = e.owner
  \/ r.pc = "list"

\* Job r does no harm to port q, with row e and published by the container of x.
Agrees(r, q, e, x) ==
  /\ \A i : Has(r, q, i) => e.id = i
  /\ r.pc = "drop" /\ r.port = q => x # r.id
  /\ r.pc = "gone" /\ r.project = e.owner => x = 0
  /\ r.pc = "runtime" /\ r.project = e.owner /\ e.id # 0 => <<q, e.id>> \in r.todo

\* A container has its row, and a row its container, an error or a job that sees to it.
PortInv(q) ==
  /\ proxy[q] # 0 => exposure[q].id = proxy[q]
  /\ \A j \in Jobs : Agrees(job[j], q, exposure[q], proxy[q])
  /\ exposure[q].id # 0 =>
       \/ q \in unserved \/ proxy[q] = exposure[q].id \/ exposure[q].failed
       \/ \E j \in Jobs : Serves(job[j], q, exposure[q])

TcpInv == TcpType /\ Contended \subseteq contended /\ \A q \in Ports \ contended : PortInv(q)

-----------------------------------------------------------------------------
(* TCP exposures: jobs *)

LEMMA LeastId ==
  ASSUME NEW S, S \subseteq Ports \X Ids, S # {}
  PROVE  \E y \in S : \A z \in S : y[2] <= z[2]
<1> DEFINE N == {z[2] : z \in S}
<1>1. N \subseteq Nat /\ N # {}
  BY DEF Ids
<1>2. PICK n \in N : \A m \in N : <<m, n>> \notin OpToRel(<, Nat)
  BY <1>1, NatLessThanWellFounded, WFMin
<1>3. PICK y \in S : n = y[2]
  OBVIOUS
<1>4. ASSUME NEW z \in S PROVE y[2] <= z[2]
  <2>1. z[2] \in Nat /\ n \in Nat
    BY <1>1
  <2>2. ~(z[2] < n)
    BY <1>2, <2>1 DEF OpToRel
  <2> QED
    BY <1>3, <2>1, <2>2
<1> QED
  BY <1>4

LEMMA NoJobIs ==
  /\ JobOK(NoJob) /\ NoJob.kind = "none" /\ NoJob.pc = "idle"
  /\ \A q, i : ~Has(NoJob, q, i)
  /\ \A q, e : ~Serves(NoJob, q, e)
  /\ \A q, e, x : Agrees(NoJob, q, e, x)
  /\ \A ex, n : Lists(NoJob, ex, n)
<1>1. PICK v \in BOOLEAN : v = FALSE
  OBVIOUS
<1>2. NoJob = [kind |-> "none", pc |-> "idle", project |-> NoOne, port |-> NoOne, target |-> NoOne, id |-> 0,
               todo |-> {}, outage |-> v]
  BY <1>1, Zenon DEF NoJob
<1>3. IsJob(NoJob) /\ NoJob.kind = "none" /\ NoJob.pc = "idle"
  BY <1>2 DEF IsJob
<1> QED
  BY <1>3 DEF JobOK, Has, Serves, Agrees, Lists

LEMMA JobPcIs ==
  ASSUME NEW r, IsJob(r), NEW pc, NEW y, y = [r EXCEPT !.pc = pc]
  PROVE  /\ IsJob(y) /\ y.pc = pc
         /\ y.kind = r.kind /\ y.project = r.project /\ y.port = r.port /\ y.id = r.id /\ y.todo = r.todo
BY DEF IsJob

(* The boot takes a row. *)
LEMMA TakesRowIs ==
  ASSUME NEW b, IsJob(b), b.kind = "boot", NEW S, S \subseteq Ports \X Ids, NEW y, y = TakesRow(b, S)
  PROVE  /\ JobOK(y) /\ y.kind \in {"boot", "none"} /\ y.pc \in {"check", "idle"}
         /\ \A q, i : Has(y, q, i) <=> <<q, i>> \in S
<1>1. CASE S = {}
  BY <1>1, NoJobIs DEF TakesRow
<1>2. CASE S # {}
  <2>1. PICK x : x = CHOOSE z \in S : \A w \in S : z[2] <= w[2]
    OBVIOUS
  <2>2. x \in S
    BY <1>2, <2>1, LeastId
  <2>3. x[1] \in Ports /\ x[2] \in Ids /\ x = <<x[1], x[2]>>
    BY <2>2
  <2>4. y = [b EXCEPT !.pc = "check", !.port = x[1], !.id = x[2], !.todo = S \ {x}]
    BY <1>2, <2>1, Zenon DEF TakesRow
  <2>5. /\ IsJob(y) /\ y.kind = "boot" /\ y.pc = "check" /\ y.port = x[1] /\ y.id = x[2] /\ y.todo = S \ {x}
    BY <2>4 DEF IsJob
  <2>6. JobOK(y)
    BY <2>3, <2>5 DEF JobOK
  <2>7. \A q, i : Has(y, q, i) <=> <<q, i>> \in S
    BY <2>2, <2>3, <2>5 DEF Has
  <2> QED
    BY <2>5, <2>6, <2>7
<1> QED
  BY <1>1, <1>2

(* A port that no two jobs fight over. *)
LEMMA Apart ==
  ASSUME TcpInv, NEW q \in Ports \ contended, NEW j \in Jobs, NEW i,
         Has(job[j], q, i) \/ (job[j].pc = "insert" /\ job[j].port = q), NEW k \in Jobs
  PROVE  /\ ~(job[k].pc \in {"remove", "drop"} /\ job[k].port = q)
         /\ ~(job[k].pc \in {"runtime", "gone"} /\ job[k].project = exposure[q].owner)
<1>1. JobOK(job[j]) /\ JobOK(job[k])
  BY DEF TcpInv, TcpType
<1>2. Starting(j, q)
  <2>1. CASE job[j].kind = "boot" /\ <<q, i>> \in job[j].todo
    <3>1. \E x \in job[j].todo : x[1] = q
      BY <2>1
    <3> QED
      BY <2>1, <3>1 DEF Starting
  <2>2. CASE ~(job[j].kind = "boot" /\ <<q, i>> \in job[j].todo)
    BY <1>1, <2>2 DEF Starting, JobOK, Has
  <2> QED
    BY <2>1, <2>2
<1>3. ~Removing(k, q)
  BY <1>2 DEF TcpInv, Contended
<1> QED
  BY <1>1, <1>3 DEF Removing, JobOK

-----------------------------------------------------------------------------
(* TCP exposures: the steps of a job that starts an exposure *)

(* One job changes; rows may go, change their last error or come with a new id. *)
LEMMA TypeMoves ==
  ASSUME TcpType, NEW j \in Jobs, NEW y, JobOK(y), job' = [job EXCEPT ![j] = y],
         lastExposure' \in Nat, lastExposure <= lastExposure',
         exposure' = [q \in Ports |-> exposure'[q]], proxy' = [q \in Ports |-> proxy'[q]],
         \A q \in Ports :
           /\ IsRow(exposure'[q]) /\ exposure'[q].id \in Nat /\ exposure'[q].id <= lastExposure'
           /\ \/ exposure'[q].id = 0 \/ lastExposure < exposure'[q].id
              \/ exposure'[q].id = exposure[q].id /\ exposure'[q].owner = exposure[q].owner,
         Lists(y, exposure', lastExposure')
  PROVE  TcpType'
<1>1. job' = [k \in Jobs |-> job'[k]] /\ job'[j] = y /\ \A k \in Jobs : k # j => job'[k] = job[k]
  BY DEF TcpType
<1>2. ASSUME NEW k \in Jobs, k # j PROVE JobOK(job'[k]) /\ Lists(job'[k], exposure', lastExposure')
  <2>1. job'[k] = job[k] /\ JobOK(job[k]) /\ Lists(job[k], exposure, lastExposure)
    BY <1>1, <1>2 DEF TcpType
  <2> SUFFICES ASSUME job[k].kind = "delete", NEW q \in Ports, NEW i, <<q, i>> \in job[k].todo
               PROVE  i \in Ids /\ i <= lastExposure' /\ (exposure'[q].id = i => exposure'[q].owner = job[k].project)
    BY <2>1 DEF Lists
  <2>2. i \in Ids /\ i <= lastExposure /\ (exposure[q].id = i => exposure[q].owner = job[k].project)
    BY <2>1 DEF Lists
  <2>3. lastExposure \in Nat /\ i \in Nat /\ i # 0
    BY <2>2 DEF TcpType, Ids
  <2>4. i <= lastExposure'
    BY <2>2, <2>3
  <2>5. ASSUME exposure'[q].id = i PROVE exposure[q].id = i /\ exposure'[q].owner = exposure[q].owner
    BY <2>2, <2>3, <2>5
  <2> QED
    BY <2>2, <2>4, <2>5
<1> QED
  BY <1>1, <1>2 DEF TcpType, JobOK, IsJob, IsRow, Lists

LEMMA TcpMoves ==
  ASSUME TcpInv, Observe, TcpType', \A q \in Ports \ contended' : q \notin contended => PortInv(q)'
  PROVE  TcpInv'
BY DEF TcpInv, Observe

(* A port of which job j's step changes nothing but the job. *)
LEMMA PortStays ==
  ASSUME TcpInv, NEW q \in Ports \ contended, NEW j \in Jobs, NEW y, job' = [job EXCEPT ![j] = y],
         exposure'[q] = exposure[q], proxy'[q] = proxy[q], q \in unserved => q \in unserved',
         Agrees(y, q, exposure[q], proxy[q]),
         Serves(job[j], q, exposure[q]) => Serves(y, q, exposure[q])
  PROVE  PortInv(q)'
<1>1. job'[j] = y /\ \A k \in Jobs : k # j => job'[k] = job[k]
  BY DEF TcpInv, TcpType
<1>2. PICK e, x : e = exposure[q] /\ x = proxy[q]
  OBVIOUS
<1>3. /\ x # 0 => e.id = x
      /\ \A k \in Jobs : Agrees(job[k], q, e, x)
      /\ e.id # 0 => q \in unserved \/ x = e.id \/ e.failed \/ \E k \in Jobs : Serves(job[k], q, e)
  BY <1>2 DEF TcpInv, PortInv
<1>4. \A k \in Jobs : Agrees(job'[k], q, e, x)
  BY <1>1, <1>2, <1>3
<1>5. (\E k \in Jobs : Serves(job[k], q, e)) => \E k \in Jobs : Serves(job'[k], q, e)
  BY <1>1, <1>2
<1>6. /\ x # 0 => e.id = x
      /\ e.id # 0 => q \in unserved' \/ x = e.id \/ e.failed \/ \E k \in Jobs : Serves(job'[k], q, e)
  BY <1>3, <1>5
<1> QED
  BY <1>2, <1>4, <1>6 DEF PortInv, Agrees, Serves, Has

\* y goes on with all that r has, but for the exposure r is at.
Passes(y, r) ==
  /\ JobOK(y) /\ y.kind \in {"none", "expose", "boot"} /\ y.pc \in {"idle", "check", "run", "remove"}
  /\ \A q, i : Has(y, q, i) => Has(r, q, i)
  /\ \A q, i : Has(r, q, i) => Has(y, q, i) \/ (q = r.port /\ i = r.id)

LEMMA ReconciledIs ==
  ASSUME TcpType, NEW j \in Jobs, job[j].pc \in {"check", "run"}, Reconciled(j)
  PROVE  \E y : job' = [job EXCEPT ![j] = y] /\ Passes(y, job[j])
<1>1. JobOK(job[j]) /\ job[j].kind \in {"expose", "boot"}
  BY DEF TcpType, JobOK
<1>2. CASE job[j].kind = "boot"
  <2>1. PICK y : y = TakesRow(job[j], job[j].todo)
    OBVIOUS
  <2>2. /\ JobOK(y) /\ y.kind \in {"boot", "none"} /\ y.pc \in {"check", "idle"}
        /\ \A q, i : Has(y, q, i) <=> <<q, i>> \in job[j].todo
    BY <1>1, <1>2, <2>1, TakesRowIs DEF JobOK
  <2>3. Passes(y, job[j])
    BY <1>1, <1>2, <2>2 DEF Passes, Has
  <2>4. job' = [job EXCEPT ![j] = y]
    BY <1>2, <2>1, Zenon DEF Reconciled
  <2> QED
    BY <2>3, <2>4
<1>3. CASE job[j].kind = "expose"
  <2>1. PICK y : y = NoJob
    OBVIOUS
  <2>2. job' = [job EXCEPT ![j] = y]
    BY <1>3, <2>1 DEF Reconciled
  <2>3. Passes(y, job[j])
    BY <1>3, <2>1, NoJobIs DEF Passes, Has
  <2> QED
    BY <2>2, <2>3
<1> QED
  BY <1>1, <1>2, <1>3

LEMMA ThrowsIs ==
  ASSUME TcpType, NEW j \in Jobs, job[j].pc \in {"attach", "check", "run"}, NEW out, Throws(j, out)
  PROVE  \E y : /\ job' = [job EXCEPT ![j] = y] /\ Passes(y, job[j])
                /\ job[j].kind = "expose" => y.pc = "remove" /\ y.port = job[j].port /\ y.id = job[j].id
<1>1. JobOK(job[j]) /\ job[j].kind \in {"expose", "boot"}
  BY DEF TcpType, JobOK
<1>2. CASE job[j].kind = "boot"
  <2>1. PICK b : b = [job[j] EXCEPT !.outage = out]
    OBVIOUS
  <2>2. IsJob(b) /\ b.kind = "boot"
    BY <1>1, <1>2, <2>1 DEF JobOK, IsJob
  <2>3. PICK y : y = TakesRow(b, job[j].todo)
    OBVIOUS
  <2>4. /\ JobOK(y) /\ y.kind \in {"boot", "none"} /\ y.pc \in {"check", "idle"}
        /\ \A q, i : Has(y, q, i) <=> <<q, i>> \in job[j].todo
    BY <1>1, <1>2, <2>2, <2>3, TakesRowIs DEF JobOK
  <2>5. Passes(y, job[j])
    BY <1>1, <1>2, <2>4 DEF Passes, Has
  <2>6. job' = [job EXCEPT ![j] = y]
    BY <1>2, <2>1, <2>3, Zenon DEF Throws
  <2> QED
    BY <1>2, <2>5, <2>6
<1>3. CASE job[j].kind = "expose"
  <2>1. PICK y : y = [job[j] EXCEPT !.pc = "remove", !.outage = out]
    OBVIOUS
  <2>2. job' = [job EXCEPT ![j] = y]
    BY <1>3, <2>1, Zenon DEF Throws
  <2>3. IsJob(y) /\ y.pc = "remove" /\ y.kind = "expose" /\ y.port = job[j].port /\ y.id = job[j].id
    BY <1>1, <1>3, <2>1 DEF JobOK, IsJob
  <2>4. Passes(y, job[j])
    BY <1>1, <1>3, <2>3 DEF Passes, Has, JobOK
  <2> QED
    BY <2>2, <2>3, <2>4
<1> QED
  BY <1>1, <1>2, <1>3

(* A job that starts an exposure takes a step: the other jobs leave its port alone. *)
LEMMA PasserInv ==
  ASSUME TcpInv, Observe, NEW j \in Jobs, job[j].pc \in {"attach", "check", "run"},
         NEW y, Passes(y, job[j]), job' = [job EXCEPT ![j] = y], UNCHANGED lastExposure,
         exposure' = [q \in Ports |-> exposure'[q]], proxy' = [q \in Ports |-> proxy'[q]],
         \A q \in Ports : /\ IsRow(exposure'[q]) /\ exposure'[q].id = exposure[q].id
                          /\ exposure'[q].owner = exposure[q].owner,
         \A q \in Ports : q # job[j].port => /\ exposure'[q] = exposure[q] /\ proxy'[q] = proxy[q]
                                             /\ q \in unserved => q \in unserved',
         NEW p, p = job[j].port,
         p \notin contended /\ exposure[p].id = job[j].id =>
           /\ proxy'[p] \in {0, proxy[p], job[j].id}
           /\ \/ p \in unserved' \/ proxy'[p] = job[j].id \/ exposure'[p].failed
              \/ Serves(y, p, exposure'[p])
  PROVE  TcpInv'
<1>1. JobOK(job[j]) /\ JobOK(y) /\ Lists(y, exposure', lastExposure') /\ TcpType
  BY DEF TcpInv, TcpType, Passes, Lists
<1>2. TcpType'
  <2>1. lastExposure \in Nat /\ lastExposure' = lastExposure /\ lastExposure <= lastExposure'
    BY <1>1 DEF TcpType
  <2>2. \A q \in Ports :
          /\ IsRow(exposure'[q]) /\ exposure'[q].id \in Nat /\ exposure'[q].id <= lastExposure'
          /\ exposure'[q].id = exposure[q].id /\ exposure'[q].owner = exposure[q].owner
    BY <1>1, <2>1 DEF TcpType
  <2> HIDE DEF Passes
  <2> QED
    BY <1>1, <2>1, <2>2, TypeMoves
<1>3. job'[j] = y /\ \A k \in Jobs : k # j => job'[k] = job[k]
  BY <1>1 DEF TcpType
<1>4. ASSUME NEW q \in Ports, q \notin contended, q # p PROVE PortInv(q)'
  <2>1. Agrees(job[j], q, exposure[q], proxy[q])
    BY <1>4 DEF TcpInv, PortInv
  <2>2. Agrees(y, q, exposure[q], proxy[q])
    BY <2>1 DEF Agrees, Passes
  <2>3. Serves(job[j], q, exposure[q]) => Serves(y, q, exposure[q])
    BY <1>4 DEF Serves, Passes
  <2> QED
    BY <1>4, <2>2, <2>3, PortStays
<1>5. ASSUME p \in Ports, p \notin contended PROVE PortInv(p)'
  <2>1. PICK e, x, e2, x2, i : e = exposure[p] /\ x = proxy[p] /\ e2 = exposure'[p] /\ x2 = proxy'[p] /\ i = job[j].id
    OBVIOUS
  <2>2. Has(job[j], p, i)
    BY <1>1, <2>1 DEF Has, JobOK
  <2>3. \A k \in Jobs : Agrees(job[k], p, e, x) /\ (x # 0 => e.id = x)
    BY <1>5, <2>1 DEF TcpInv, PortInv
  <2>4. e.id = i /\ e2.id = i /\ e2.owner = e.owner /\ i # 0
    BY <1>1, <1>5, <2>1, <2>2, <2>3 DEF Agrees, JobOK, Ids
  <2>5. \A k \in Jobs : /\ ~(job[k].pc \in {"remove", "drop"} /\ job[k].port = p)
                        /\ ~(job[k].pc \in {"runtime", "gone"} /\ job[k].project = e.owner)
    BY <1>5, <2>1, <2>2, Apart
  <2>6. ASSUME NEW k \in Jobs PROVE Agrees(job'[k], p, e2, x2)
    <3>1. CASE k = j
      <4>1. \A h : Has(y, p, h) => e2.id = h
        BY <2>3, <2>4 DEF Agrees, Passes
      <4> QED
        BY <1>3, <3>1, <4>1 DEF Agrees, Passes
    <3>2. CASE k # j
      BY <1>3, <2>3, <2>4, <2>5, <3>2 DEF Agrees
    <3> QED
      BY <3>1, <3>2
  <2>7. /\ x2 # 0 => e2.id = x2
        /\ p \in unserved' \/ x2 = e2.id \/ e2.failed \/ \E k \in Jobs : Serves(job'[k], p, e2)
    BY <1>3, <1>5, <2>1, <2>3, <2>4
  <2>8. ASSUME NEW k \in Jobs PROVE Agrees(job[k], p, exposure[p], proxy[p])'
    BY <2>1, <2>6 DEF Agrees, Has
  <2>9. (exposure[p].id # 0 =>
           \/ p \in unserved \/ proxy[p] = exposure[p].id \/ exposure[p].failed
           \/ \E k \in Jobs : Serves(job[k], p, exposure[p]))'
    <3>1. CASE p \in unserved' \/ x2 = e2.id \/ e2.failed
      BY <2>1, <3>1
    <3>2. ASSUME NEW k \in Jobs, Serves(job'[k], p, e2) PROVE Serves(job[k], p, exposure[p])'
      BY <2>1, <3>2 DEF Serves, Has
    <3> QED
      BY <2>7, <3>1, <3>2
  <2>10. (proxy[p] # 0 => exposure[p].id = proxy[p])'
    BY <2>1, <2>7
  <2> QED
    BY <2>8, <2>9, <2>10 DEF PortInv
<1> QED
  BY <1>2, <1>4, <1>5, TcpMoves

LEMMA SetErrorIs ==
  ASSUME TcpType, NEW j \in Jobs, NEW failed, SetLastError(j, failed)
  PROVE  /\ exposure' = [q \in Ports |-> exposure'[q]]
         /\ \A q \in Ports : /\ IsRow(exposure'[q]) /\ exposure'[q].id = exposure[q].id
                             /\ exposure'[q].owner = exposure[q].owner
         /\ \A q \in Ports : IF q = job[j].port /\ exposure[q].id = job[j].id
                               THEN exposure'[q].failed = failed ELSE exposure'[q] = exposure[q]
<1>1. exposure' = [q \in Ports |-> IF q = job[j].port /\ exposure[q].id = job[j].id
                                     THEN [exposure[q] EXCEPT !.failed = failed] ELSE exposure[q]]
  BY DEF SetLastError
<1>2. ASSUME NEW q \in Ports
      PROVE  /\ IsRow(exposure'[q]) /\ exposure'[q].id = exposure[q].id /\ exposure'[q].owner = exposure[q].owner
             /\ IF q = job[j].port /\ exposure[q].id = job[j].id
                  THEN exposure'[q].failed = failed ELSE exposure'[q] = exposure[q]
  BY <1>1 DEF TcpType, IsRow
<1> QED
  BY <1>1, <1>2

LEMMA AttachedInv ==
  ASSUME TcpInv, NEW j \in Jobs, NEW ok \in BOOLEAN, Attached(j, ok)
  PROVE  TcpInv'
<1>1. TcpType /\ job[j].pc = "attach" /\ job[j].kind = "expose" /\ JobOK(job[j])
  BY DEF TcpInv, TcpType, JobOK, Attached
<1>2. PICK y : /\ job' = [job EXCEPT ![j] = y] /\ Passes(y, job[j])
               /\ \A e : e.id = job[j].id => Serves(y, job[j].port, e)
  <2>1. CASE ok
    <3>1. PICK y : y = [job[j] EXCEPT !.pc = "check"]
      OBVIOUS
    <3>2. /\ IsJob(y) /\ y.pc = "check" /\ y.kind = "expose" /\ y.port = job[j].port /\ y.id = job[j].id
          /\ y.todo = job[j].todo
      BY <1>1, <3>1, JobPcIs DEF JobOK
    <3>3. Passes(y, job[j])
      BY <1>1, <3>2 DEF Passes, Has, JobOK
    <3>4. job' = [job EXCEPT ![j] = y]
      BY <2>1, <3>1, Zenon DEF Attached, Becomes
    <3> QED
      BY <3>2, <3>3, <3>4 DEF Serves, Has
  <2>2. CASE ~ok
    <3>1. PICK y : /\ job' = [job EXCEPT ![j] = y] /\ Passes(y, job[j])
                   /\ y.pc = "remove" /\ y.port = job[j].port /\ y.id = job[j].id
      BY <1>1, <2>2, ThrowsIs DEF Attached
    <3> QED
      BY <3>1 DEF Serves
  <2> QED
    BY <2>1, <2>2
<1>3. UNCHANGED <<exposure, proxy, lastExposure, unserved>> /\ Observe
  BY DEF Attached
<1>4. PICK p : p = job[j].port
  OBVIOUS
<1> QED
  BY <1>1, <1>2, <1>3, <1>4, PasserInv DEF TcpType

LEMMA CheckProxyInv ==
  ASSUME TcpInv, NEW j \in Jobs, NEW ok \in BOOLEAN, CheckProxy(j, ok)
  PROVE  TcpInv'
<1>1. /\ TcpType /\ job[j].pc = "check" /\ job[j].kind \in {"expose", "boot"} /\ JobOK(job[j])
      /\ UNCHANGED <<proxy, lastExposure>> /\ Observe
  BY DEF TcpInv, TcpType, JobOK, CheckProxy
<1>2. PICK p \in Ports : p = job[j].port
  BY <1>1 DEF JobOK
<1>3. \A q \in Ports : q \in unserved => q \in unserved'
  BY DEF CheckProxy
<1>4. ASSUME NEW y, Passes(y, job[j]), job' = [job EXCEPT ![j] = y],
             UNCHANGED exposure \/ \E failed \in BOOLEAN : SetLastError(j, failed),
             exposure[p].id = job[j].id => \/ p \in unserved' \/ proxy'[p] = job[j].id \/ exposure'[p].failed
                                           \/ Serves(y, p, exposure'[p])
      PROVE  TcpInv'
  <2>1. /\ exposure' = [q \in Ports |-> exposure'[q]]
        /\ \A q \in Ports : /\ IsRow(exposure'[q]) /\ exposure'[q].id = exposure[q].id
                            /\ exposure'[q].owner = exposure[q].owner
        /\ \A q \in Ports : q # p => exposure'[q] = exposure[q]
    <3>1. CASE UNCHANGED exposure
      BY <1>1, <3>1 DEF TcpType
    <3>2. CASE \E failed \in BOOLEAN : SetLastError(j, failed)
      BY <1>1, <1>2, <3>2, SetErrorIs
    <3> QED
      BY <1>4, <3>1, <3>2
  <2>2. proxy' = [q \in Ports |-> proxy'[q]] /\ \A q \in Ports : proxy'[q] = proxy[q]
    BY <1>1 DEF TcpType
  <2> QED
    BY <1>1, <1>2, <1>3, <1>4, <2>1, <2>2, PasserInv
<1>5. CASE ~ok
  <2>1. PICK y : /\ job' = [job EXCEPT ![j] = y] /\ Passes(y, job[j])
                 /\ job[j].kind = "expose" => y.pc = "remove" /\ y.port = job[j].port /\ y.id = job[j].id
    BY <1>1, <1>5, ThrowsIs DEF CheckProxy
  <2>2. UNCHANGED exposure
    BY <1>5 DEF CheckProxy
  <2>3. CASE job[j].kind = "expose"
    BY <1>2, <1>4, <2>1, <2>2, <2>3 DEF Serves
  <2>4. CASE job[j].kind = "boot"
    <3>1. exposure[p].id = job[j].id /\ proxy'[p] # job[j].id /\ ~exposure'[p].failed => p \in unserved'
      BY <1>2, <1>5, <2>4 DEF CheckProxy, Unserved
    <3> QED
      BY <1>2, <1>4, <2>1, <2>2, <3>1
  <2> QED
    BY <1>1, <2>3, <2>4
<1>6. CASE ok /\ proxy[p] = job[j].id
  <2>1. Reconciled(j) /\ SetLastError(j, FALSE)
    <3>1. proxy[p] # 0
      BY <1>1, <1>6 DEF JobOK, Ids
    <3> QED
      BY <1>2, <1>6, <3>1 DEF CheckProxy
  <2>2. PICK y : job' = [job EXCEPT ![j] = y] /\ Passes(y, job[j])
    BY <1>1, <2>1, ReconciledIs
  <2> QED
    BY <1>1, <1>4, <1>6, <2>1, <2>2
<1>7. CASE ok /\ proxy[p] # job[j].id /\ proxy[p] = 0
  <2>1. Becomes(j, "run") /\ UNCHANGED exposure
    BY <1>2, <1>7 DEF CheckProxy
  <2>2. PICK y : y = [job[j] EXCEPT !.pc = "run"]
    OBVIOUS
  <2>3. /\ IsJob(y) /\ y.pc = "run" /\ y.kind = job[j].kind /\ y.port = job[j].port /\ y.id = job[j].id
        /\ y.todo = job[j].todo
    BY <1>1, <2>2, JobPcIs DEF JobOK
  <2>4. Passes(y, job[j]) /\ Has(y, p, job[j].id)
    BY <1>1, <1>2, <2>3 DEF Passes, Has, JobOK
  <2>5. job' = [job EXCEPT ![j] = y]
    BY <2>1, <2>2, Zenon DEF Becomes
  <2> QED
    BY <1>4, <2>1, <2>4, <2>5 DEF Serves
<1>8. CASE ok /\ proxy[p] # job[j].id /\ proxy[p] # 0
  <2>1. Throws(j, FALSE) /\ SetLastError(j, TRUE)
    BY <1>2, <1>8 DEF CheckProxy
  <2>2. PICK y : job' = [job EXCEPT ![j] = y] /\ Passes(y, job[j])
    BY <1>1, <2>1, ThrowsIs
  <2>3. exposure[p].id = job[j].id => exposure'[p].failed
    BY <1>1, <1>2, <2>1, SetErrorIs, Zenon
  <2> QED
    BY <1>4, <2>1, <2>2, <2>3
<1> QED
  BY <1>5, <1>6, <1>7, <1>8

LEMMA RunProxyInv ==
  ASSUME TcpInv, NEW j \in Jobs, NEW ok \in BOOLEAN, RunProxy(j, ok)
  PROVE  TcpInv'
<1>1. /\ TcpType /\ job[j].pc = "run" /\ job[j].kind \in {"expose", "boot"} /\ JobOK(job[j])
      /\ UNCHANGED <<lastExposure, unserved>> /\ Observe
  BY DEF TcpInv, TcpType, JobOK, RunProxy
<1>2. PICK p \in Ports : p = job[j].port
  BY <1>1 DEF JobOK
<1>3. PICK failed \in BOOLEAN : SetLastError(j, failed)
  BY DEF RunProxy
<1>4. /\ exposure' = [q \in Ports |-> exposure'[q]]
      /\ \A q \in Ports : /\ IsRow(exposure'[q]) /\ exposure'[q].id = exposure[q].id
                          /\ exposure'[q].owner = exposure[q].owner
      /\ \A q \in Ports : q # p => exposure'[q] = exposure[q]
  BY <1>1, <1>2, <1>3, SetErrorIs
<1>5. /\ proxy' = [q \in Ports |-> proxy'[q]] /\ \A q \in Ports : q # p => proxy'[q] = proxy[q]
      /\ proxy'[p] \in {0, proxy[p], job[j].id}
  BY <1>1, <1>2 DEF TcpType, RunProxy
<1>6. CASE ok /\ proxy[p] = 0
  <2>1. proxy'[p] = job[j].id
    BY <1>1, <1>2, <1>6 DEF TcpType, RunProxy
  <2>2. PICK y : job' = [job EXCEPT ![j] = y] /\ Passes(y, job[j])
    BY <1>1, <1>2, <1>6, ReconciledIs DEF RunProxy
  <2> QED
    BY <1>1, <1>2, <1>4, <1>5, <2>1, <2>2, PasserInv
<1>7. CASE ~(ok /\ proxy[p] = 0)
  <2>1. Throws(j, ~ok) /\ SetLastError(j, TRUE)
    BY <1>2, <1>7 DEF RunProxy
  <2>2. PICK y : job' = [job EXCEPT ![j] = y] /\ Passes(y, job[j])
    BY <1>1, <2>1, ThrowsIs
  <2>3. exposure[p].id = job[j].id => exposure'[p].failed
    BY <1>1, <1>2, <2>1, SetErrorIs, Zenon
  <2> QED
    BY <1>1, <1>2, <1>4, <1>5, <2>2, <2>3, PasserInv
<1> QED
  BY <1>6, <1>7

-----------------------------------------------------------------------------
(* TCP exposures: the other steps *)

(* A request begins. *)
LEMMA BeginsJob ==
  ASSUME TcpInv, Observe, NEW first, JobOK(first), Lists(first, exposure, lastExposure), StartsJob(first),
         UNCHANGED <<exposure, proxy, lastExposure, unserved>>,
         \A q \in Ports : Agrees(first, q, exposure[q], proxy[q])
  PROVE  TcpInv'
<1>1. PICK j \in Jobs : job[j] = NoJob /\ job' = [job EXCEPT ![j] = first]
  BY DEF StartsJob
<1>2. TcpType'
  <2>1. TcpType
    BY DEF TcpInv
  <2>2. lastExposure \in Nat /\ lastExposure' = lastExposure /\ lastExposure <= lastExposure'
    BY <2>1 DEF TcpType
  <2>3. \A q \in Ports :
          /\ IsRow(exposure'[q]) /\ exposure'[q].id \in Nat /\ exposure'[q].id <= lastExposure'
          /\ exposure'[q].id = exposure[q].id /\ exposure'[q].owner = exposure[q].owner
    BY <2>1 DEF TcpType
  <2>4. exposure' = [q \in Ports |-> exposure'[q]] /\ proxy' = [q \in Ports |-> proxy'[q]]
    BY <2>1 DEF TcpType
  <2> QED
    BY <1>1, <2>1, <2>2, <2>3, <2>4, TypeMoves
<1>3. ASSUME NEW q \in Ports \ contended PROVE PortInv(q)'
  BY <1>1, <1>3, NoJobIs, PortStays
<1> QED
  BY <1>2, <1>3, TcpMoves

LEMMA AskTcpInv ==
  ASSUME TcpInv, AskTcp
  PROVE  TcpInv'
<1>1. PICK v \in BOOLEAN : v = FALSE
  OBVIOUS
<1>2. TcpType
  BY DEF TcpInv
<1>3. ASSUME NEW p \in Projects, NEW q \in Ports, NEW t \in Targets, Expose(p, q, t) PROVE TcpInv'
  <2>1. PICK y : y = [NoJob EXCEPT !.kind = "expose", !.pc = "insert", !.project = p, !.port = q, !.target = t]
    OBVIOUS
  <2>2. y = [kind |-> "expose", pc |-> "insert", project |-> p, port |-> q, target |-> t, id |-> 0,
             todo |-> {}, outage |-> v]
    BY <1>1, <2>1, Zenon DEF NoJob
  <2>3. IsJob(y) /\ y.kind = "expose" /\ y.pc = "insert" /\ y.port = q
    BY <2>2 DEF IsJob
  <2>4. JobOK(y) /\ Lists(y, exposure, lastExposure) /\ \A r, e, x : Agrees(y, r, e, x)
    BY <2>3 DEF JobOK, Lists, Agrees, Has
  <2> QED
    BY <1>3, <2>1, <2>4, BeginsJob DEF Expose
<1>4. ASSUME NEW q \in Ports, Unexpose(q) PROVE TcpInv'
  <2>1. PICK i : i = exposure[q].id
    OBVIOUS
  <2>2. PICK y : y = [NoJob EXCEPT !.kind = "unexpose", !.pc = "remove", !.project = exposure[q].owner,
                                   !.port = q, !.id = i]
    OBVIOUS
  <2>3. y = [kind |-> "unexpose", pc |-> "remove", project |-> exposure[q].owner, port |-> q, target |-> NoOne,
             id |-> i, todo |-> {}, outage |-> v]
    BY <1>1, <2>2, Zenon DEF NoJob
  <2>4. IsJob(y) /\ y.kind = "unexpose" /\ y.pc = "remove" /\ y.port = q /\ y.id = i
    BY <2>3 DEF IsJob
  <2>5. i \in Ids
    BY <1>2, <1>4, <2>1 DEF TcpType, Unexpose, Ids
  <2>6. JobOK(y) /\ Lists(y, exposure, lastExposure) /\ \A r, e, x : Agrees(y, r, e, x)
    BY <2>4, <2>5 DEF JobOK, Lists, Agrees, Has
  <2> QED
    BY <1>4, <2>1, <2>2, <2>6, BeginsJob DEF Unexpose
<1>5. ASSUME NEW p \in Projects, DeleteBegins(p) PROVE TcpInv'
  <2>1. PICK S : S = Listed(RowsOf(p))
    OBVIOUS
  <2>2. PICK y : y = [NoJob EXCEPT !.kind = "delete", !.pc = "runtime", !.project = p, !.todo = S]
    OBVIOUS
  <2>3. y = [kind |-> "delete", pc |-> "runtime", project |-> p, port |-> NoOne, target |-> NoOne, id |-> 0,
             todo |-> S, outage |-> v]
    BY <1>1, <2>2, Zenon DEF NoJob
  <2>4. IsJob(y) /\ y.kind = "delete" /\ y.pc = "runtime" /\ y.project = p /\ y.todo = S
    BY <2>3 DEF IsJob
  <2>5. \A q \in Ports : \A i : <<q, i>> \in S <=> (i = exposure[q].id /\ i # 0 /\ exposure[q].owner = p)
    BY <2>1 DEF Listed, RowsOf
  <2>6. JobOK(y)
    BY <2>4 DEF JobOK
  <2>7. Lists(y, exposure, lastExposure)
    BY <1>2, <2>4, <2>5 DEF Lists, TcpType, Ids
  <2>8. \A q \in Ports : Agrees(y, q, exposure[q], proxy[q])
    BY <2>4, <2>5 DEF Agrees, Has
  <2> QED
    BY <1>5, <2>1, <2>2, <2>6, <2>7, <2>8, BeginsJob DEF DeleteBegins
<1> QED
  BY <1>3, <1>4, <1>5 DEF AskTcp

(* The row of an exposure comes. *)
LEMMA InsertInv ==
  ASSUME TcpInv, NEW j \in Jobs, NEW there, Insert(j, there)
  PROVE  TcpInv'
<1>1. /\ TcpType /\ job[j].pc = "insert" /\ job[j].kind = "expose" /\ JobOK(job[j])
      /\ UNCHANGED <<proxy, unserved>> /\ Observe /\ lastExposure \in Nat
  BY DEF TcpInv, TcpType, JobOK, Insert
<1>2. PICK p \in Ports : p = job[j].port
  BY <1>1 DEF JobOK
<1>3. CASE Over(j) /\ UNCHANGED <<exposure, lastExposure>>
  <2>1. PICK y : y = NoJob
    OBVIOUS
  <2>2. job' = [job EXCEPT ![j] = y] /\ JobOK(y) /\ Lists(y, exposure', lastExposure')
    BY <1>3, <2>1, NoJobIs DEF Over
  <2>3. TcpType'
    BY <1>1, <1>3, <2>2, TypeMoves DEF TcpType
  <2>4. ASSUME NEW q \in Ports \ contended PROVE PortInv(q)'
    <3>1. ~Serves(job[j], q, exposure[q])
      BY <1>1 DEF Serves, Has
    <3> QED
      BY <1>1, <1>3, <2>1, <2>2, <3>1, NoJobIs, PortStays
  <2> QED
    BY <1>1, <2>3, <2>4, TcpMoves
<1>4. CASE /\ exposure[p].id = 0
           /\ exposure' = [exposure EXCEPT ![p] = Row(lastExposure + 1, job[j].project, job[j].target)]
           /\ lastExposure' = lastExposure + 1
           /\ job' = [job EXCEPT ![j].pc = "attach", ![j].id = lastExposure + 1]
  <2>1. PICK n \in Ids : n = lastExposure + 1 /\ lastExposure < n
    BY <1>1 DEF Ids
  <2>2. PICK v \in BOOLEAN : v = FALSE
    OBVIOUS
  <2>3. PICK e : e = Row(n, job[j].project, job[j].target)
    OBVIOUS
  <2>4. IsRow(e) /\ e.id = n /\ e.owner = job[j].project
    <3>1. e = [id |-> n, owner |-> job[j].project, target |-> job[j].target, failed |-> v]
      BY <2>2, <2>3, Zenon DEF Row, NoExposure
    <3> QED
      BY <3>1 DEF IsRow
  <2>5. PICK y : y = [job[j] EXCEPT !.pc = "attach", !.id = n]
    OBVIOUS
  <2>6. IsJob(y) /\ y.pc = "attach" /\ y.kind = "expose" /\ y.port = p /\ y.id = n
    BY <1>1, <1>2, <2>5 DEF IsJob, JobOK
  <2>7. job' = [job EXCEPT ![j] = y]
    BY <1>4, <2>1, <2>5, Zenon
  <2>8. /\ exposure' = [q \in Ports |-> exposure'[q]] /\ exposure'[p] = e
        /\ \A q \in Ports : q # p => exposure'[q] = exposure[q]
    BY <1>1, <1>4, <2>1, <2>3 DEF TcpType
  <2>9. JobOK(y) /\ \A q, i : Has(y, q, i) <=> (q = p /\ i = n)
    BY <2>6 DEF JobOK, Has
  <2>10. TcpType'
    <3>1. lastExposure' \in Nat /\ lastExposure' = n /\ lastExposure <= lastExposure'
      BY <1>1, <1>4, <2>1 DEF Ids
    <3>2. \A q \in Ports :
            /\ IsRow(exposure'[q]) /\ exposure'[q].id \in Nat /\ exposure'[q].id <= lastExposure'
            /\ \/ exposure'[q].id = 0 \/ lastExposure < exposure'[q].id
               \/ exposure'[q].id = exposure[q].id /\ exposure'[q].owner = exposure[q].owner
      <4> SUFFICES ASSUME NEW q \in Ports
                   PROVE  /\ IsRow(exposure'[q]) /\ exposure'[q].id \in Nat /\ exposure'[q].id <= lastExposure'
                          /\ \/ exposure'[q].id = 0 \/ lastExposure < exposure'[q].id
                             \/ exposure'[q].id = exposure[q].id /\ exposure'[q].owner = exposure[q].owner
        OBVIOUS
      <4>1. CASE q = p
        BY <2>1, <2>4, <2>8, <3>1, <4>1 DEF Ids
      <4>2. CASE q # p
        BY <1>1, <2>1, <2>8, <3>1, <4>2 DEF TcpType, Ids
      <4> QED
        BY <4>1, <4>2
    <3>3. Lists(y, exposure', lastExposure')
      BY <2>6 DEF Lists
    <3>4. proxy' = [q \in Ports |-> proxy'[q]]
      BY <1>1 DEF TcpType
    <3> QED
      BY <1>1, <2>7, <2>8, <2>9, <3>1, <3>2, <3>3, <3>4, TypeMoves
  <2>11. ASSUME NEW q \in Ports \ contended, q # p PROVE PortInv(q)'
    <3>1. ~Serves(job[j], q, exposure[q])
      BY <1>1 DEF Serves, Has
    <3>2. Agrees(y, q, exposure[q], proxy[q])
      BY <2>6, <2>9, <2>11 DEF Agrees
    <3> QED
      BY <1>1, <2>7, <2>8, <2>11, <3>1, <3>2, PortStays
  <2>12. ASSUME p \notin contended PROVE PortInv(p)'
    <3>1. proxy[p] = 0 /\ \A k \in Jobs : Agrees(job[k], p, exposure[p], proxy[p])
      BY <1>4, <2>12 DEF TcpInv, PortInv
    <3>2. \A k \in Jobs : /\ ~(job[k].pc \in {"remove", "drop"} /\ job[k].port = p)
      BY <1>1, <1>2, <2>12, Apart
    <3>3. job'[j] = y /\ \A k \in Jobs : k # j => job'[k] = job[k]
      BY <1>1, <2>7 DEF TcpType
    <3>4. \A k \in Jobs : \A i : ~Has(job[k], p, i)
      <4> SUFFICES ASSUME NEW k \in Jobs, NEW i, Has(job[k], p, i) PROVE FALSE
        OBVIOUS
      <4>1. i = 0
        BY <1>4, <3>1 DEF Agrees
      <4>2. JobOK(job[k])
        BY <1>1 DEF TcpType
      <4> QED
        BY <4>1, <4>2 DEF Has, JobOK, Ids
    <3>5. \A k \in Jobs : ~(job[k].pc \in {"runtime", "gone"} /\ job[k].project = e.owner)
      <4> SUFFICES ASSUME NEW k \in Jobs, job[k].pc \in {"runtime", "gone"}, job[k].project = e.owner PROVE FALSE
        OBVIOUS
      <4>1. Starting(j, p)
        BY <1>1, <1>2 DEF Starting
      <4>2. Removing(k, p)
        BY <1>1, <1>2, <2>4 DEF Removing, TcpType, JobOK
      <4> QED
        BY <2>12, <4>1, <4>2 DEF TcpInv, Contended
    <3>6. PICK x : x = proxy'[p] /\ x = 0
      BY <1>1, <3>1
    <3>7. ASSUME NEW k \in Jobs PROVE Agrees(job'[k], p, e, x)
      <4>1. CASE k = j
        BY <2>4, <2>6, <2>9, <3>3, <4>1 DEF Agrees
      <4>2. CASE k # j
        BY <3>2, <3>3, <3>4, <3>5, <3>6, <4>2 DEF Agrees
      <4> QED
        BY <4>1, <4>2
    <3>8. Serves(job'[j], p, e)
      BY <2>4, <2>9, <3>3 DEF Serves
    <3> QED
      BY <2>8, <3>6, <3>7, <3>8 DEF PortInv, Agrees, Serves, Has
  <2> QED
    BY <1>1, <2>10, <2>11, <2>12, TcpMoves
<1> QED
  BY <1>2, <1>3, <1>4 DEF Insert

(* A container goes; the row after it. *)
LEMMA RemoveInv ==
  ASSUME TcpInv, NEW j \in Jobs, NEW ok \in BOOLEAN, Remove(j, ok)
  PROVE  TcpInv'
<1>1. /\ TcpType /\ job[j].pc = "remove" /\ job[j].kind \notin {"boot", "delete"} /\ JobOK(job[j])
      /\ UNCHANGED <<exposure, lastExposure>> /\ Observe
  BY DEF TcpInv, TcpType, JobOK, Remove
<1>2. PICK p \in Ports, i \in Ids : p = job[j].port /\ i = job[j].id
  BY <1>1 DEF JobOK
<1>3. /\ proxy' = [q \in Ports |-> proxy'[q]] /\ \A q \in Ports : q # p => proxy'[q] = proxy[q]
      /\ proxy'[p] = proxy[p] \/ (proxy[p] = i /\ proxy'[p] = 0)
  BY <1>1, <1>2 DEF Remove, TcpType
<1>4. /\ \A q \in Ports : q # p => (q \in unserved => q \in unserved')
      /\ p \in unserved => p \in unserved'
  BY DEF Remove
<1>5. \A q, h : ~Has(job[j], q, h)
  BY <1>1 DEF Has
<1>6. PICK y : /\ job' = [job EXCEPT ![j] = y] /\ JobOK(y) /\ Lists(y, exposure', lastExposure')
               /\ \A q, h : ~Has(y, q, h)
               /\ \/ y = NoJob /\ (exposure[p].id = i => unserved' = unserved \cup Unserved(j))
                  \/ /\ y.pc = "drop" /\ y.port = p /\ y.id = i
                     /\ ok /\ proxy' = [proxy EXCEPT ![p] = IF @ = i THEN 0 ELSE @]
  <2>1. CASE Over(j) /\ (exposure[p].id = i => unserved' = unserved \cup Unserved(j))
    BY <2>1, NoJobIs DEF Over
  <2>2. CASE Becomes(j, "drop") /\ ok /\ proxy' = [proxy EXCEPT ![p] = IF @ = i THEN 0 ELSE @]
    <3>1. PICK y : y = [job[j] EXCEPT !.pc = "drop"]
      OBVIOUS
    <3>2. IsJob(y) /\ y.pc = "drop" /\ y.kind = job[j].kind /\ y.port = p /\ y.id = i
      BY <1>1, <1>2, <3>1, JobPcIs DEF JobOK
    <3>3. JobOK(y) /\ Lists(y, exposure', lastExposure') /\ \A q, h : ~Has(y, q, h)
      BY <1>1, <1>2, <3>2 DEF JobOK, Lists, Has
    <3>4. job' = [job EXCEPT ![j] = y]
      BY <2>2, <3>1, Zenon DEF Becomes
    <3> QED
      BY <2>2, <3>2, <3>3, <3>4
  <2> QED
    BY <1>2, <2>1, <2>2 DEF Remove
<1>7. TcpType'
  <2>1. lastExposure \in Nat /\ lastExposure' = lastExposure /\ lastExposure <= lastExposure'
    BY <1>1 DEF TcpType
  <2> QED
    BY <1>1, <1>3, <1>6, <2>1, TypeMoves DEF TcpType
<1>8. ASSUME NEW q \in Ports \ contended, q # p PROVE PortInv(q)'
  <2>1. ~Serves(job[j], q, exposure[q])
    BY <1>1, <1>2, <1>5, <1>8 DEF Serves
  <2>2. Agrees(y, q, exposure[q], proxy[q])
    BY <1>2, <1>6, <1>8, NoJobIs DEF Agrees
  <2> QED
    BY <1>1, <1>3, <1>4, <1>6, <1>8, <2>1, <2>2, PortStays
<1>9. ASSUME p \notin contended PROVE PortInv(p)'
  <2>1. job'[j] = y /\ \A k \in Jobs : k # j => job'[k] = job[k]
    BY <1>1, <1>6 DEF TcpType
  <2>2. PICK e, x, x2 : e = exposure[p] /\ x = proxy[p] /\ x2 = proxy'[p]
    OBVIOUS
  <2>3. /\ x # 0 => e.id = x
        /\ \A k \in Jobs : Agrees(job[k], p, e, x)
        /\ e.id # 0 => p \in unserved \/ x = e.id \/ e.failed \/ \E k \in Jobs : Serves(job[k], p, e)
    BY <1>9, <2>2 DEF TcpInv, PortInv
  <2>4. x2 = x \/ (x = i /\ x2 = 0)
    BY <1>3, <2>2
  <2>5. ASSUME NEW k \in Jobs PROVE Agrees(job'[k], p, e, x2)
    <3>1. CASE k = j
      <4>1. y.pc = "drop" => x2 # i
        BY <1>1, <1>2, <1>6, <2>2, NoJobIs DEF TcpType, Ids
      <4>2. y.pc \notin {"gone", "runtime"}
        BY <1>6, NoJobIs
      <4>3. y.pc = "drop" => y.id = i
        BY <1>6, NoJobIs
      <4> QED
        BY <1>6, <2>1, <3>1, <4>1, <4>2, <4>3 DEF Agrees
    <3>2. CASE k # j
      <4>1. job[k].pc = "drop" => job[k].id # 0
        BY <1>1 DEF TcpType, JobOK, Ids
      <4> QED
        BY <2>1, <2>3, <2>4, <3>2, <4>1 DEF Agrees
    <3> QED
      BY <3>1, <3>2
  <2>6. x2 # 0 => e.id = x2
    BY <2>3, <2>4
  <2>7. ASSUME e.id # 0 PROVE p \in unserved' \/ x2 = e.id \/ e.failed \/ \E k \in Jobs : Serves(job'[k], p, e)
    <3>1. CASE e.id = i /\ y.pc = "drop"
      BY <1>6, <2>1, <3>1, NoJobIs DEF Serves
    <3>2. CASE e.id = i /\ y.pc # "drop"
      <4>1. x2 # i /\ ~e.failed => p \in unserved'
        <5>1. exposure' = exposure /\ unserved' = unserved \cup Unserved(j)
          BY <1>1, <1>6, <2>2, <3>2
        <5> QED
          BY <1>2, <2>2, <3>2, <5>1 DEF Unserved
      <4> QED
        BY <3>2, <4>1
    <3>3. CASE e.id # i
      <4>1. x = e.id => x2 = e.id
        BY <2>4, <3>3
      <4>2. ~Serves(job[j], p, e)
        BY <1>1, <1>2, <1>5, <3>3 DEF Serves
      <4>3. (\E k \in Jobs : Serves(job[k], p, e)) => \E k \in Jobs : Serves(job'[k], p, e)
        BY <2>1, <4>2
      <4> QED
        BY <1>4, <2>3, <2>7, <4>1, <4>3
    <3> QED
      BY <3>1, <3>2, <3>3
  <2> QED
    BY <1>1, <2>2, <2>5, <2>6, <2>7 DEF PortInv, Agrees, Serves, Has
<1> QED
  BY <1>1, <1>7, <1>8, <1>9, TcpMoves

LEMMA DropRowInv ==
  ASSUME TcpInv, NEW j \in Jobs, DropRow(j)
  PROVE  TcpInv'
<1>1. /\ TcpType /\ job[j].pc = "drop" /\ JobOK(job[j])
      /\ UNCHANGED <<proxy, lastExposure, unserved>> /\ Observe
  BY DEF TcpInv, TcpType, DropRow
<1>2. PICK p \in Ports, i \in Ids : p = job[j].port /\ i = job[j].id
  BY <1>1 DEF JobOK
<1>3. PICK y : y = NoJob
  OBVIOUS
<1>4. job' = [job EXCEPT ![j] = y]
  BY <1>3 DEF DropRow, Over
<1>5. IsRow(NoExposure) /\ NoExposure.id = 0
  <2>1. PICK v \in BOOLEAN : v = FALSE
    OBVIOUS
  <2>2. NoExposure = [id |-> 0, owner |-> NoOne, target |-> NoOne, failed |-> v]
    BY <2>1, Zenon DEF NoExposure
  <2> QED
    BY <2>2 DEF IsRow
<1>6. /\ exposure' = [q \in Ports |-> exposure'[q]] /\ \A q \in Ports : q # p => exposure'[q] = exposure[q]
      /\ exposure'[p] = IF exposure[p].id = i THEN NoExposure ELSE exposure[p]
  BY <1>1, <1>2 DEF TcpType, DropRow
<1>7. TcpType'
  <2>1. lastExposure \in Nat /\ lastExposure' = lastExposure /\ lastExposure <= lastExposure' /\ 0 <= lastExposure
    BY <1>1 DEF TcpType
  <2>2. \A q \in Ports :
          /\ IsRow(exposure'[q]) /\ exposure'[q].id \in Nat /\ exposure'[q].id <= lastExposure'
          /\ \/ exposure'[q].id = 0
             \/ exposure'[q].id = exposure[q].id /\ exposure'[q].owner = exposure[q].owner
    BY <1>1, <1>5, <1>6, <2>1 DEF TcpType
  <2>3. JobOK(y) /\ Lists(y, exposure', lastExposure')
    BY <1>3, NoJobIs
  <2>4. proxy' = [q \in Ports |-> proxy'[q]]
    BY <1>1 DEF TcpType
  <2> QED
    BY <1>1, <1>4, <1>6, <2>1, <2>2, <2>3, <2>4, TypeMoves
<1>8. ASSUME NEW q \in Ports \ contended, q # p \/ exposure[q].id # i PROVE PortInv(q)'
  <2>1. ~Serves(job[j], q, exposure[q])
    BY <1>1, <1>2, <1>8 DEF Serves, Has, JobOK
  <2>2. Agrees(y, q, exposure[q], proxy[q])
    BY <1>3, NoJobIs
  <2> QED
    BY <1>1, <1>4, <1>6, <1>8, <2>1, <2>2, PortStays
<1>9. ASSUME p \notin contended, exposure[p].id = i PROVE PortInv(p)'
  <2>1. job'[j] = y /\ \A k \in Jobs : k # j => job'[k] = job[k]
    BY <1>1, <1>4 DEF TcpType
  <2>2. PICK e : e = NoExposure /\ e = exposure'[p] /\ e.id = 0
    BY <1>5, <1>6, <1>9
  <2>3. proxy[p] = 0
    BY <1>1, <1>2, <1>9 DEF TcpInv, PortInv, Agrees
  <2>4. \A k \in Jobs : \A h : ~Has(job[k], p, h)
    BY <1>1, <1>2, <1>9, Apart
  <2>5. \A k \in Jobs : job[k].pc = "drop" => job[k].id # 0
    BY <1>1 DEF TcpType, JobOK, Ids
  <2>6. \A k \in Jobs : k # j => Agrees(job[k], p, e, 0)
    BY <2>2, <2>4, <2>5 DEF Agrees
  <2>7. \A k \in Jobs : Agrees(job'[k], p, e, 0)
    BY <1>3, <2>1, <2>6, NoJobIs
  <2> QED
    BY <1>1, <2>2, <2>3, <2>7 DEF PortInv, Agrees, Has
<1> QED
  BY <1>1, <1>7, <1>8, <1>9, TcpMoves

(* The containers of a project go, then its rows. *)
LEMMA RemoveRuntimeInv ==
  ASSUME TcpInv, NEW j \in Jobs, NEW ok \in BOOLEAN, RemoveRuntime(j, ok)
  PROVE  TcpInv'
<1>1. /\ TcpType /\ job[j].pc = "runtime" /\ job[j].kind = "delete" /\ JobOK(job[j])
      /\ Lists(job[j], exposure, lastExposure)
      /\ UNCHANGED <<exposure, lastExposure>> /\ Observe
  BY DEF TcpInv, TcpType, JobOK, RemoveRuntime
<1>2. PICK S : /\ S \subseteq job[j].todo
               /\ proxy' = [q \in Ports |-> IF <<q, proxy[q]>> \in S THEN 0 ELSE proxy[q]]
               /\ \/ S = job[j].todo /\ Becomes(j, "gone") /\ UNCHANGED unserved
                  \/ Over(j) /\ unserved' = unserved \cup {x[1] : x \in S}
  BY DEF RemoveRuntime
<1>3. PICK y : /\ job' = [job EXCEPT ![j] = y] /\ JobOK(y) /\ Lists(y, exposure', lastExposure')
               /\ \A q, h : ~Has(y, q, h)
               /\ \/ y = NoJob /\ unserved' = unserved \cup {x[1] : x \in S}
                  \/ y.pc = "gone" /\ y.project = job[j].project /\ S = job[j].todo /\ UNCHANGED unserved
  <2>1. CASE Over(j) /\ unserved' = unserved \cup {x[1] : x \in S}
    BY <2>1, NoJobIs DEF Over
  <2>2. CASE S = job[j].todo /\ Becomes(j, "gone") /\ UNCHANGED unserved
    <3>1. PICK y : y = [job[j] EXCEPT !.pc = "gone"]
      OBVIOUS
    <3>2. /\ IsJob(y) /\ y.pc = "gone" /\ y.kind = "delete" /\ y.project = job[j].project
          /\ y.todo = job[j].todo
      BY <1>1, <3>1, JobPcIs DEF JobOK
    <3>3. JobOK(y) /\ \A q, h : ~Has(y, q, h)
      BY <3>2 DEF JobOK, Has
    <3>4. Lists(y, exposure', lastExposure')
      BY <1>1, <3>2 DEF Lists
    <3>5. job' = [job EXCEPT ![j] = y]
      BY <2>2, <3>1, Zenon DEF Becomes
    <3> QED
      BY <2>2, <3>2, <3>3, <3>4, <3>5
  <2> QED
    BY <1>2, <2>1, <2>2
<1>4. TcpType'
  <2>1. lastExposure \in Nat /\ lastExposure' = lastExposure /\ lastExposure <= lastExposure'
    BY <1>1 DEF TcpType
  <2>2. proxy' = [q \in Ports |-> proxy'[q]]
    BY <1>2
  <2> QED
    BY <1>1, <1>3, <2>1, <2>2, TypeMoves DEF TcpType
<1>5. ASSUME NEW q \in Ports \ contended PROVE PortInv(q)'
  <2>1. job'[j] = y /\ \A k \in Jobs : k # j => job'[k] = job[k]
    BY <1>1, <1>3 DEF TcpType
  <2>2. PICK e, x, x2 : e = exposure[q] /\ x = proxy[q] /\ x2 = proxy'[q]
    OBVIOUS
  <2>3. /\ x # 0 => e.id = x
        /\ \A k \in Jobs : Agrees(job[k], q, e, x)
        /\ e.id # 0 => q \in unserved \/ x = e.id \/ e.failed \/ \E k \in Jobs : Serves(job[k], q, e)
    BY <1>5, <2>2 DEF TcpInv, PortInv
  <2>4. x2 = IF <<q, x>> \in S THEN 0 ELSE x
    BY <1>2, <2>2
  <2>5. ASSUME NEW k \in Jobs PROVE Agrees(job'[k], q, e, x2)
    <3>1. CASE k = j
      <4>1. y.pc = "gone" /\ y.project = e.owner => x2 = 0
        <5> SUFFICES ASSUME y.pc = "gone", y.project = e.owner, x # 0 PROVE x2 = 0
          BY <2>4
        <5>1. e.id = x /\ S = job[j].todo /\ job[j].project = e.owner
          BY <1>3, <2>3, NoJobIs
        <5>2. <<q, x>> \in job[j].todo
          BY <1>1, <2>3, <5>1 DEF Agrees
        <5> QED
          BY <2>4, <5>1, <5>2
      <4>2. y.pc \notin {"drop", "runtime"}
        BY <1>3, NoJobIs
      <4> QED
        BY <1>3, <2>1, <3>1, <4>1, <4>2 DEF Agrees
    <3>2. CASE k # j
      <4>1. job[k].pc = "drop" => job[k].id # 0
        BY <1>1 DEF TcpType, JobOK, Ids
      <4> QED
        BY <2>1, <2>3, <2>4, <3>2, <4>1 DEF Agrees
    <3> QED
      BY <3>1, <3>2
  <2>6. x2 # 0 => e.id = x2
    BY <2>3, <2>4
  <2>7. ASSUME e.id # 0 PROVE q \in unserved' \/ x2 = e.id \/ e.failed \/ \E k \in Jobs : Serves(job'[k], q, e)
    <3>1. ~Serves(job[j], q, e)
      BY <1>1 DEF Serves, Has
    <3>2. (\E k \in Jobs : Serves(job[k], q, e)) => \E k \in Jobs : Serves(job'[k], q, e)
      BY <2>1, <3>1
    <3>3. CASE <<q, x>> \in S /\ x = e.id
      <4>1. <<q, x>>[1] = q
        OBVIOUS
      <4>2. y = NoJob => q \in unserved'
        BY <1>3, <3>3, <4>1, NoJobIs
      <4>3. e.owner = job[j].project
        BY <1>1, <1>2, <2>2, <3>3 DEF Lists
      <4> QED
        BY <1>3, <2>1, <4>2, <4>3 DEF Serves
    <3>4. CASE ~(<<q, x>> \in S /\ x = e.id)
      <4>1. x = e.id => x2 = e.id
        BY <2>4, <3>4
      <4>2. q \in unserved => q \in unserved'
        BY <1>3
      <4> QED
        BY <2>3, <2>7, <3>2, <4>1, <4>2
    <3> QED
      BY <3>3, <3>4
  <2> QED
    BY <1>1, <2>2, <2>5, <2>6, <2>7 DEF PortInv, Agrees, Serves, Has
<1> QED
  BY <1>1, <1>4, <1>5, TcpMoves

LEMMA RowsGoInv ==
  ASSUME TcpInv, NEW j \in Jobs, RowsGo(j)
  PROVE  TcpInv'
<1>1. /\ TcpType /\ job[j].pc = "gone" /\ job[j].kind = "delete"
      /\ UNCHANGED <<proxy, lastExposure, unserved>> /\ Observe
  BY DEF TcpInv, TcpType, JobOK, RowsGo
<1>2. PICK y : y = NoJob
  OBVIOUS
<1>3. job' = [job EXCEPT ![j] = y]
  BY <1>2 DEF RowsGo, Over
<1>4. IsRow(NoExposure) /\ NoExposure.id = 0
  <2>1. PICK v \in BOOLEAN : v = FALSE
    OBVIOUS
  <2>2. NoExposure = [id |-> 0, owner |-> NoOne, target |-> NoOne, failed |-> v]
    BY <2>1, Zenon DEF NoExposure
  <2> QED
    BY <2>2 DEF IsRow
<1>5. /\ exposure' = [q \in Ports |-> exposure'[q]]
      /\ \A q \in Ports : exposure'[q] = IF exposure[q].owner = job[j].project THEN NoExposure ELSE exposure[q]
  BY DEF RowsGo
<1>6. TcpType'
  <2>1. lastExposure \in Nat /\ lastExposure' = lastExposure /\ lastExposure <= lastExposure' /\ 0 <= lastExposure
    BY <1>1 DEF TcpType
  <2>2. \A q \in Ports :
          /\ IsRow(exposure'[q]) /\ exposure'[q].id \in Nat /\ exposure'[q].id <= lastExposure'
          /\ \/ exposure'[q].id = 0
             \/ exposure'[q].id = exposure[q].id /\ exposure'[q].owner = exposure[q].owner
    BY <1>1, <1>4, <1>5, <2>1 DEF TcpType
  <2>3. JobOK(y) /\ Lists(y, exposure', lastExposure')
    BY <1>2, NoJobIs
  <2>4. proxy' = [q \in Ports |-> proxy'[q]]
    BY <1>1 DEF TcpType
  <2> QED
    BY <1>1, <1>3, <1>5, <2>1, <2>2, <2>3, <2>4, TypeMoves
<1>7. ASSUME NEW q \in Ports \ contended, exposure[q].owner # job[j].project PROVE PortInv(q)'
  <2>1. ~Serves(job[j], q, exposure[q])
    BY <1>1, <1>7 DEF Serves, Has
  <2>2. Agrees(y, q, exposure[q], proxy[q])
    BY <1>2, NoJobIs
  <2> QED
    BY <1>1, <1>3, <1>5, <1>7, <2>1, <2>2, PortStays
<1>8. ASSUME NEW q \in Ports \ contended, exposure[q].owner = job[j].project PROVE PortInv(q)'
  <2>1. job'[j] = y /\ \A k \in Jobs : k # j => job'[k] = job[k]
    BY <1>1, <1>3 DEF TcpType
  <2>2. PICK e : e = NoExposure /\ e = exposure'[q] /\ e.id = 0
    BY <1>4, <1>5, <1>8
  <2>3. proxy[q] = 0
    BY <1>1, <1>8 DEF TcpInv, PortInv, Agrees
  <2>4. \A k \in Jobs : \A h : ~Has(job[k], q, h)
    BY <1>1, <1>8, Apart
  <2>5. \A k \in Jobs : job[k].pc = "drop" => job[k].id # 0
    BY <1>1 DEF TcpType, JobOK, Ids
  <2>6. \A k \in Jobs : k # j => Agrees(job[k], q, e, 0)
    BY <2>2, <2>4, <2>5 DEF Agrees
  <2>7. \A k \in Jobs : Agrees(job'[k], q, e, 0)
    BY <1>2, <2>1, <2>6, NoJobIs
  <2> QED
    BY <1>1, <2>2, <2>3, <2>7 DEF PortInv, Agrees, Has
<1> QED
  BY <1>1, <1>6, <1>7, <1>8, TcpMoves

(* After a restart the reconcile will list every row. *)
LEMMA BootsInv ==
  ASSUME TcpInv, Boots
  PROVE  TcpInv'
<1>1. TcpType /\ UNCHANGED <<exposure, proxy, lastExposure, unserved>> /\ Observe
  BY DEF TcpInv, Boots
<1>2. PICK y : y = [NoJob EXCEPT !.kind = "boot", !.pc = "list"]
  OBVIOUS
<1>3. PICK j \in Jobs : job' = [k \in Jobs |-> IF k = j THEN y ELSE NoJob]
  BY <1>2 DEF Boots
<1>4. JobOK(y) /\ y.pc = "list" /\ y.kind = "boot" /\ \A q, i : ~Has(y, q, i)
  <2>1. PICK v \in BOOLEAN : v = FALSE
    OBVIOUS
  <2>2. y = [kind |-> "boot", pc |-> "list", project |-> NoOne, port |-> NoOne, target |-> NoOne, id |-> 0,
             todo |-> {}, outage |-> v]
    BY <1>2, <2>1, Zenon DEF NoJob
  <2>3. IsJob(y) /\ y.pc = "list" /\ y.kind = "boot" /\ y.todo = {}
    BY <2>2 DEF IsJob
  <2> QED
    BY <2>3 DEF JobOK, Has
<1>5. \A k \in Jobs : job'[k] \in {y, NoJob} /\ JobOK(job'[k]) /\ job'[k].kind # "delete"
  BY <1>3, <1>4, NoJobIs
<1>6. TcpType'
  <2>1. job' = [k \in Jobs |-> job'[k]]
    BY <1>3
  <2>2. \A k \in Jobs : JobOK(job'[k]) /\ Lists(job'[k], exposure', lastExposure')
    BY <1>5 DEF Lists
  <2> QED
    BY <1>1, <2>1, <2>2 DEF TcpType, JobOK, IsJob, IsRow, Lists
<1>7. ASSUME NEW q \in Ports \ contended PROVE PortInv(q)'
  <2>1. PICK e, x : e = exposure[q] /\ x = proxy[q]
    OBVIOUS
  <2>2. x # 0 => e.id = x
    BY <1>7, <2>1 DEF TcpInv, PortInv
  <2>3. Agrees(y, q, e, x) /\ Agrees(NoJob, q, e, x)
    BY <1>4, NoJobIs DEF Agrees
  <2>4. \A k \in Jobs : Agrees(job'[k], q, e, x)
    BY <1>5, <2>3
  <2>5. Serves(job'[j], q, e)
    BY <1>3, <1>4 DEF Serves
  <2> QED
    BY <1>1, <2>1, <2>2, <2>4, <2>5 DEF PortInv, Agrees, Serves, Has
<1> QED
  BY <1>1, <1>6, <1>7, TcpMoves

LEMMA ListRowsInv ==
  ASSUME TcpInv, NEW j \in Jobs, ListRows(j)
  PROVE  TcpInv'
<1>1. /\ TcpType /\ job[j].pc = "list" /\ job[j].kind = "boot" /\ JobOK(job[j])
      /\ UNCHANGED <<exposure, proxy, lastExposure>> /\ Observe
  BY DEF TcpInv, TcpType, JobOK, ListRows
<1>2. PICK S : S = Listed(Ports)
  OBVIOUS
<1>3. /\ \A q \in Ports : \A i : <<q, i>> \in S <=> (i = exposure[q].id /\ i # 0)
      /\ S \subseteq Ports \X Ids
  <2>1. S = {<<q, exposure[q].id>> : q \in {r \in Ports : exposure[r].id # 0}}
    BY <1>2 DEF Listed
  <2>2. \A q \in Ports : exposure[q].id \in Nat
    BY <1>1 DEF TcpType
  <2>3. \A q \in Ports : \A i : <<q, i>> \in S <=> (i = exposure[q].id /\ i # 0)
    BY <2>1
  <2>4. S \subseteq Ports \X Ids
    BY <2>1, <2>2 DEF Ids
  <2> QED
    BY <2>3, <2>4
<1>4. PICK y : y = TakesRow(job[j], S)
  OBVIOUS
<1>5. job' = [job EXCEPT ![j] = y]
  BY <1>2, <1>4, Zenon DEF ListRows
<1>6. /\ JobOK(y) /\ y.kind \in {"boot", "none"} /\ y.pc \in {"check", "idle"}
      /\ \A q, i : Has(y, q, i) <=> <<q, i>> \in S
  BY <1>1, <1>3, <1>4, TakesRowIs DEF JobOK
<1>7. TcpType'
  <2>1. lastExposure \in Nat /\ lastExposure' = lastExposure /\ lastExposure <= lastExposure'
    BY <1>1 DEF TcpType
  <2>2. Lists(y, exposure', lastExposure')
    BY <1>6 DEF Lists
  <2> QED
    BY <1>1, <1>5, <1>6, <2>1, <2>2, TypeMoves DEF TcpType
<1>8. ASSUME NEW q \in Ports \ contended PROVE PortInv(q)'
  <2>1. PICK e, x : e = exposure[q] /\ x = proxy[q]
    OBVIOUS
  <2>2. job'[j] = y /\ \A k \in Jobs : k # j => job'[k] = job[k]
    BY <1>1, <1>5 DEF TcpType
  <2>3. (x # 0 => e.id = x) /\ \A k \in Jobs : Agrees(job[k], q, e, x)
    BY <1>8, <2>1 DEF TcpInv, PortInv
  <2>4. \A i : Has(y, q, i) <=> (i = e.id /\ i # 0)
    BY <1>3, <1>6, <1>8, <2>1
  <2>5. Agrees(y, q, e, x)
    BY <1>6, <2>4 DEF Agrees
  <2>6. \A k \in Jobs : Agrees(job'[k], q, e, x)
    BY <2>2, <2>3, <2>5
  <2>7. e.id # 0 => Serves(job'[j], q, e)
    BY <2>2, <2>4 DEF Serves
  <2> QED
    BY <1>1, <2>1, <2>3, <2>6, <2>7 DEF PortInv, Agrees, Serves, Has
<1> QED
  BY <1>1, <1>7, <1>8, TcpMoves

(* At rest, with no exposure or with each served. *)
LEMMA TcpInit ==
  ASSUME IngressInit
  PROVE  TcpInv
<1>1. ASSUME NoTcp \/ \E p \in Projects, t \in Targets : Exposed(Ports, p, t)
      PROVE  /\ lastExposure \in Nat /\ contended = {} /\ unserved = {}
             /\ exposure = [q \in Ports |-> exposure[q]] /\ proxy = [q \in Ports |-> proxy[q]]
             /\ job = [j \in Jobs |-> NoJob]
             /\ \A q \in Ports : /\ IsRow(exposure[q]) /\ exposure[q].id \in Nat
                                 /\ exposure[q].id <= lastExposure /\ proxy[q] = exposure[q].id
  <2>1. PICK v \in BOOLEAN : v = FALSE
    OBVIOUS
  <2>2. CASE NoTcp
    <3>1. NoExposure = [id |-> 0, owner |-> NoOne, target |-> NoOne, failed |-> v]
      BY <2>1, Zenon DEF NoExposure
    <3>2. IsRow(NoExposure) /\ NoExposure.id = 0
      BY <3>1 DEF IsRow
    <3> QED
      BY <2>2, <3>2 DEF NoTcp
  <2>3. ASSUME NEW p \in Projects, NEW t \in Targets, Exposed(Ports, p, t)
        PROVE  /\ lastExposure \in Nat /\ contended = {} /\ unserved = {}
               /\ exposure = [q \in Ports |-> exposure[q]] /\ proxy = [q \in Ports |-> proxy[q]]
               /\ job = [j \in Jobs |-> NoJob]
               /\ \A q \in Ports : /\ IsRow(exposure[q]) /\ exposure[q].id \in Nat
                                   /\ exposure[q].id <= lastExposure /\ proxy[q] = exposure[q].id
    <3>1. PICK id \in [Ports -> 1 .. Cardinality(Ports)] :
            /\ exposure = [q \in Ports |-> IF q \in Ports THEN Row(id[q], p, t) ELSE NoExposure]
            /\ proxy = [q \in Ports |-> IF q \in Ports THEN id[q] ELSE 0]
            /\ job = [j \in Jobs |-> NoJob]
            /\ lastExposure = Cardinality(Ports) /\ contended = {} /\ unserved = {}
      BY <2>3 DEF Exposed
    <3>2. Cardinality(Ports) \in Nat
      BY TcpAssumption, FS_CardinalityType DEF TcpAssumption
    <3>3. ASSUME NEW q \in Ports
          PROVE  /\ IsRow(exposure[q]) /\ exposure[q].id \in Nat /\ exposure[q].id <= lastExposure
                 /\ proxy[q] = exposure[q].id
      <4>1. PICK i \in 1 .. Cardinality(Ports) : i = id[q]
        OBVIOUS
      <4>2. PICK e : e = Row(i, p, t)
        OBVIOUS
      <4>3. e = [id |-> i, owner |-> p, target |-> t, failed |-> v]
        BY <2>1, <4>2, Zenon DEF Row, NoExposure
      <4>4. IsRow(e) /\ e.id = i
        BY <4>3 DEF IsRow
      <4>5. exposure[q] = e /\ proxy[q] = i /\ i \in Nat /\ i <= lastExposure
        BY <3>1, <3>2, <4>1, <4>2
      <4> QED
        BY <4>4, <4>5
    <3> QED
      BY <3>1, <3>2, <3>3
  <2> QED
    BY <1>1, <2>2, <2>3
<1>2. NoTcp \/ \E p \in Projects, t \in Targets : Exposed(Ports, p, t)
  BY DEF IngressInit, FirstStart, InUse
<1>3. TcpType
  <2>1. \A j \in Jobs : JobOK(job[j]) /\ Lists(job[j], exposure, lastExposure)
    BY <1>1, <1>2, NoJobIs
  <2>2. job = [j \in Jobs |-> job[j]]
    BY <1>1, <1>2
  <2> QED
    BY <1>1, <1>2, <2>1, <2>2 DEF TcpType
<1>4. ASSUME NEW q \in Ports PROVE PortInv(q)
  BY <1>1, <1>2, NoJobIs DEF PortInv
<1>5. Contended = {}
  BY <1>1, <1>2, NoJobIs DEF Contended, Starting
<1> QED
  BY <1>3, <1>4, <1>5 DEF TcpInv

LEMMA TcpNext ==
  ASSUME TcpInv, [IngressNext]_ingressVars
  PROVE  TcpInv'
<1>1. ASSUME UNCHANGED tcpVars PROVE TcpInv'
  BY <1>1 DEF tcpVars, TcpInv, TcpType, JobOK, IsJob, IsRow, Lists, Contended, Starting, Removing,
             PortInv, Agrees, Serves, Has
<1>2. CASE Change
  <2>1. CASE AskTcp
    BY <2>1, AskTcpInv
  <2>2. CASE ~AskTcp
    BY <1>1, <1>2, <2>2 DEF Change, Asked, AddDomain, SetRoute, SetSsl, RemoveDomain, Issue, CertbotAction,
                            EditProject, Pause, Publish, Apply, Renewal, nets
  <2> QED
    BY <2>1, <2>2
<1>3. CASE NginxRecreated
  BY <1>1, <1>3 DEF NginxRecreated
<1>4. CASE Restart
  BY <1>4, BootsInv DEF Restart
<1>5. ASSUME NEW p \in Projects, DeployEnds(p) PROVE TcpInv'
  BY <1>1, <1>5 DEF DeployEnds
<1>6. ASSUME NEW f \in Flows, FlowStep(f) PROVE TcpInv'
  BY <1>1, <1>6 DEF FlowStep, Bootstrap, BootstrapFails, Network, Resolve, Certbot, CertbotDone, Load, ReadRoutes,
                    RenderBlocks, Validate, ApplyFails, Backup, Replace, Check, Activate, Restore, nets
<1>7. ASSUME NEW j \in Jobs, TcpStep(j) PROVE TcpInv'
  BY <1>7, InsertInv, DropRowInv, ListRowsInv, CheckProxyInv, RemoveInv, RemoveRuntimeInv DEF TcpStep
<1>8. ASSUME NEW j \in Jobs, DeleteProject(j) PROVE TcpInv'
  BY <1>8, RowsGoInv DEF DeleteProject
<1>9. ASSUME NEW j \in Jobs, NEW ok \in BOOLEAN, AttachTcp(j, ok) PROVE TcpInv'
  BY <1>9, AttachedInv DEF AttachTcp
<1>10. ASSUME NEW j \in Jobs, NEW ok \in BOOLEAN, StartTcp(j, ok) PROVE TcpInv'
  BY <1>10, RunProxyInv DEF StartTcp
<1>11. ASSUME NEW p \in Projects, NEW off, DeployBegins(p, off) PROVE TcpInv'
  BY <1>1, <1>11 DEF DeployBegins
<1>12. CASE UNCHANGED ingressVars
  BY <1>1, <1>12 DEF ingressVars, nets
<1> QED
  BY <1>2, <1>3, <1>4, <1>5, <1>6, <1>7, <1>8, <1>9, <1>10, <1>11, <1>12 DEF IngressNext

(* The inductive invariant of the exposures holds in every reachable state. *)
THEOREM TcpHolds == IngressSpec => []TcpInv
<1>1. IngressInit => TcpInv
  BY TcpInit
<1>2. TcpInv /\ [IngressNext]_ingressVars => TcpInv'
  BY TcpNext
<1> QED
  BY <1>1, <1>2, PTL DEF IngressSpec

(* Once no request is being worked on, every container that publishes a    *)
(* port belongs to the row of that port, and a row without its container   *)
(* says so in last_error; not for ports exposed and taken away at one      *)
(* time, and for rows that docker failed twice (tcp.ts).                   *)
THEOREM ProxiesFollow == IngressSpec => []TcpProxiesFollowRows
<1>1. TcpInv => TcpProxiesFollowRows
  <2> SUFFICES ASSUME TcpInv, JobsIdle, NEW q \in Ports, q \notin contended
               PROVE  /\ proxy[q] # 0 => exposure[q].id = proxy[q]
                      /\ exposure[q].id # 0 /\ q \notin unserved => proxy[q] = exposure[q].id \/ exposure[q].failed
    BY DEF TcpProxiesFollowRows
  <2>1. \A j \in Jobs : ~Serves(job[j], q, exposure[q])
    BY NoJobIs DEF JobsIdle
  <2> QED
    BY <2>1 DEF TcpInv, PortInv
<1> QED
  BY <1>1, TcpHolds, PTL

-----------------------------------------------------------------------------
(* The networks: the inductive invariant *)

IsProject(x) == x = [there |-> x.there, paused |-> x.paused, port |-> x.port, snippet |-> x.snippet]
IsRoute(x) == x = [owner |-> x.owner, target |-> x.target, ssl |-> x.ssl]

NetType ==
  /\ project = [p \in Projects |-> project[p]] /\ \A p \in Projects : IsProject(project[p])
  /\ route = [d \in Domains |-> route[d]] /\ \A d \in Domains : IsRoute(route[d])
  /\ network = [p \in Projects |-> network[p]]
  /\ attached = [p \in Projects |-> attached[p]]
  /\ bringing = [p \in Projects |-> bringing[p]]

\* A flow or a request is about to put the services of p on its network.
Pending(p) ==
  \/ \E f \in Flows : flow[f].pc = "network" /\ flow[f].project = p
  \/ \E j \in Jobs : job[j].pc = "attach" /\ job[j].project = p

\* nginx is on a network, or was taken off or refused at the last try.
Joined(p) == network[p] = IF p \in cut THEN "made" ELSE "joined"
Reached(p) == Routed(p) # {} => Joined(p)

\* What is routed is on the network, and will be when the deploy in progress ends.
NetAt(p) ==
  /\ ~project[p].there => Routed(p) = {}
  /\ p \notin crossed =>
       \/ Pending(p)
       \/ /\ Reached(p) /\ Routed(p) \subseteq attached[p]
          /\ bringing[p] # NoOne => Routed(p) \subseteq bringing[p]

NetInv == NetType /\ \A p \in Projects : NetAt(p)

-----------------------------------------------------------------------------
(* The networks: what a step can do to a project *)

(* Fewer targets, and nothing taken away. *)
LEMMA NetKept ==
  ASSUME NEW p \in Projects, NetAt(p), Routed(p)' \subseteq Routed(p),
         project'[p].there = project[p].there \/ Routed(p)' = {},
         p \in crossed => p \in crossed', Pending(p) => Pending(p)', Joined(p) => Joined(p)',
         attached[p] \subseteq attached'[p], bringing'[p] = bringing[p]
  PROVE  NetAt(p)'
<1>1. PICK R, S : R = Routed(p) /\ S = Routed(p)' /\ S \subseteq R
  OBVIOUS
<1>2. ~project'[p].there => S = {}
  BY <1>1 DEF NetAt
<1>3. ASSUME p \notin crossed', ~Pending(p)'
      PROVE  /\ S # {} => Joined(p)'
             /\ S \subseteq attached'[p] /\ (bringing'[p] # NoOne => S \subseteq bringing'[p])
  <2>1. (R # {} => Joined(p)) /\ R \subseteq attached[p] /\ (bringing[p] # NoOne => R \subseteq bringing[p])
    BY <1>1, <1>3 DEF NetAt, Reached
  <2> QED
    BY <1>1, <2>1
<1> QED
  BY <1>1, <1>2, <1>3 DEF NetAt, Reached

LEMMA NetPends ==
  ASSUME NEW p \in Projects, project'[p].there, Pending(p)'
  PROVE  NetAt(p)'
BY DEF NetAt

(* The services of p were put on its network, outside a deploy of p. *)
LEMMA NetAttached ==
  ASSUME NEW p \in Projects, project'[p].there \/ Routed(p)' = {},
         p \in crossed' \/ /\ Routed(p)' # {} => Joined(p)'
                           /\ Routed(p)' \subseteq attached'[p]
                           /\ bringing'[p] # NoOne => Routed(p)' \subseteq bringing'[p]
  PROVE  NetAt(p)'
BY DEF NetAt, Reached

(* The targets of p depend on its routes and exposures. *)
LEMMA RoutedKept ==
  ASSUME NEW p, \A d \in Domains : route'[d].owner = p => route[d].owner = p /\ route'[d].target = route[d].target,
         \A q \in Ports : exposure'[q].owner = p => exposure[q].owner = p /\ exposure'[q].target = exposure[q].target
  PROVE  Routed(p)' \subseteq Routed(p)
BY DEF Routed, TcpTargets

\* Every flow but f stays where it is.
OthersStay(f) == \A g \in Flows : g # f => flow'[g].pc = flow[g].pc /\ flow'[g].project = flow[g].project

LEMMA PendingKept ==
  ASSUME NEW p,
         \A f \in Flows : flow[f].pc = "network" /\ flow[f].project = p => flow'[f].pc = "network" /\ flow'[f].project = p,
         \A j \in Jobs : job[j].pc = "attach" /\ job[j].project = p => job'[j].pc = "attach" /\ job'[j].project = p
  PROVE  Pending(p) => Pending(p)'
BY DEF Pending

LEMMA DoubtedStay ==
  ASSUME NEW fl, FlowsOK(flow), NEW g \in Flows, fl[g] = flow[g], flow' = Doubted(fl)
  PROVE  flow'[g].pc = flow[g].pc /\ flow'[g].project = flow[g].project
<1>1. PICK v \in BOOLEAN : v = FALSE
  OBVIOUS
<1>2. flow'[g] = [flow[g] EXCEPT !.solo = v]
  BY <1>1, Zenon DEF Doubted
<1> QED
  BY <1>2, SoloIs DEF FlowsOK, FlowOK

LEMMA RowsGoneStay ==
  ASSUME NEW fl, NEW D, FlowsOK(flow), NEW g \in Flows, fl[g] = flow[g], flow' = RowsGone(fl, D)
  PROVE  flow'[g].pc = flow[g].pc /\ flow'[g].project = flow[g].project
<1>1. PICK v \in BOOLEAN : v = FALSE
  OBVIOUS
<1>2. flow'[g] = [flow[g] EXCEPT !.row = v] \/ flow'[g] = flow[g]
  BY <1>1, Zenon DEF RowsGone
<1>3. Fields(flow[g])
  BY DEF FlowsOK, FlowOK
<1> QED
  BY <1>2, <1>3, RowIs

(* A flow is at most one step further, and no other moves. *)
LEMMA FlowStepStays ==
  ASSUME FlowsOK(flow), NEW f \in Flows, FlowStep(f)
  PROVE  OthersStay(f)
<1> SUFFICES ASSUME NEW g \in Flows, g # f
             PROVE  flow'[g].pc = flow[g].pc /\ flow'[g].project = flow[g].project
  BY DEF OthersStay
<1>1. ASSUME NEW fl, fl[g] = flow[g], flow' = fl \/ flow' = Doubted(fl)
      PROVE  flow'[g].pc = flow[g].pc /\ flow'[g].project = flow[g].project
  BY <1>1, DoubtedStay
<1> DEFINE stays == flow'[g].pc = flow[g].pc /\ flow'[g].project = flow[g].project
<1>2. ASSUME NEW pc, Goto(f, pc) PROVE stays
  <2>1. flow'[g] = flow[g]
    BY <1>2 DEF Goto, FlowsOK
  <2> QED
    BY <2>1
<1>3. ASSUME Ends(f) PROVE stays
  BY <1>3 DEF Ends, FlowsOK
<1>4. ASSUME EndsInVain(f) PROVE stays
  <2>1. PICK fl : fl = [flow EXCEPT ![f] = Idle]
    OBVIOUS
  <2>2. fl[g] = flow[g]
    BY <2>1 DEF FlowsOK
  <2> QED
    BY <1>1, <1>4, <2>1, <2>2 DEF EndsInVain
<1>5. ASSUME Load(f) PROVE stays
  <2>1. PICK fl : fl = [flow EXCEPT ![f].pc = "read", ![f].loaded = LoadProjects, ![f].solo = TRUE]
    OBVIOUS
  <2>2. fl[g] = flow[g]
    BY <2>1 DEF FlowsOK
  <2> QED
    BY <1>1, <1>5, <2>1, <2>2 DEF Load
<1>6. ASSUME ReadRoutes(f) \/ RenderBlocks(f) \/ Backup(f) \/ Replace(f) PROVE stays
  <2>1. flow'[g] = flow[g]
    BY <1>6 DEF ReadRoutes, RenderBlocks, Backup, Replace, FlowsOK
  <2> QED
    BY <2>1
<1>7. ASSUME Activate(f) PROVE stays
  <2>1. CASE flow' = Doubted([flow EXCEPT ![f].pc = "restore"])
    <3>1. PICK fl : fl = [flow EXCEPT ![f].pc = "restore"]
      OBVIOUS
    <3>2. fl[g] = flow[g]
      BY <3>1 DEF FlowsOK
    <3> QED
      BY <1>1, <2>1, <3>1, <3>2
  <2>2. CASE AfterApply(f)
    <3>1. CASE flow' = [flow EXCEPT ![f].pc = "resolve", ![f].backup = NoFile, ![f].solo = FALSE]
      BY <3>1 DEF FlowsOK
    <3> QED
      BY <1>3, <2>2, <3>1 DEF AfterApply
  <2> QED
    BY <1>2, <1>7, <2>1, <2>2 DEF Activate
<1>8. ASSUME Certbot(f) PROVE stays
  <2>1. CASE flow' = [flow EXCEPT ![f].pc = "load", ![f].second = TRUE]
    BY <2>1 DEF FlowsOK
  <2> QED
    BY <1>3, <1>4, <1>8, <2>1 DEF Certbot, CertbotDone
<1>9. ASSUME Bootstrap(f) PROVE stays
  <2>1. CASE flow' = [flow EXCEPT ![f].pc = "load", ![f].domain = envDomain]
    BY <2>1 DEF FlowsOK
  <2> QED
    BY <1>2, <1>3, <1>9, <2>1 DEF Bootstrap
<1> HIDE DEF stays
<1>10. stays
  BY <1>2, <1>3, <1>4, <1>5, <1>6, <1>7, <1>8, <1>9
     DEF FlowStep, BootstrapFails, Network, Resolve, Validate, ApplyFails, Check, Restore
<1> QED
  BY <1>10 DEF stays

\* The flows and the requests that are about to reach a network wait on.
FlowsWait == \A f \in Flows : flow[f].pc = "network" => flow'[f].pc = "network" /\ flow'[f].project = flow[f].project
JobsWait == \A j \in Jobs : job[j].pc = "attach" => job'[j].pc = "attach" /\ job'[j].project = job[j].project

\* The targets of p that were not there before.
NoNewTarget(p) ==
  /\ \A d \in Domains : route'[d].owner = p => route[d].owner = p /\ route'[d].target = route[d].target
  /\ \A q \in Ports : exposure'[q].owner = p => exposure[q].owner = p /\ exposure'[q].target = exposure[q].target

LEMMA Waiting ==
  ASSUME NEW p, FlowsWait, JobsWait
  PROVE  Pending(p) => Pending(p)'
BY PendingKept DEF FlowsWait, JobsWait

(* A step that changes rows: a project either gets no new target, or is about to be attached. *)
LEMMA NetStep ==
  ASSUME NetInv, NetType', FlowsWait, JobsWait, UNCHANGED <<network, attached, bringing, crossed, cut>>,
         \A p \in Projects : \/ project'[p].there /\ Pending(p)'
                             \/ project'[p].there = project[p].there /\ NoNewTarget(p)
  PROVE  NetInv'
<1>1. ASSUME NEW p \in Projects PROVE NetAt(p)'
  <2>1. CASE project'[p].there /\ Pending(p)'
    BY <2>1, NetPends
  <2>2. CASE project'[p].there = project[p].there /\ NoNewTarget(p)
    <3>1. Routed(p)' \subseteq Routed(p)
      BY <2>2, RoutedKept DEF NoNewTarget
    <3>2. (Pending(p) => Pending(p)') /\ (Joined(p) => Joined(p)')
      BY Waiting DEF Joined
    <3> QED
      BY <2>2, <3>1, <3>2, NetKept DEF NetInv
  <2> QED
    BY <2>1, <2>2
<1> QED
  BY <1>1 DEF NetInv

LEMMA StartsWait ==
  ASSUME FlowsOK(flow), NEW k, k # "idle", NEW pc \in {"network", "load", "resolve", "certbot"}, NEW p, NEW d,
         NEW f \in Flows, ~Active(f),
         \/ flow' = [flow EXCEPT ![f] = Begun(k, pc, p, d)]
         \/ \E D : flow' = RowsGone([flow EXCEPT ![f] = Begun(k, pc, p, d)], D)
  PROVE  FlowsWait /\ (pc = "network" => Pending(p)')
<1>1. PICK y : y = Begun(k, pc, p, d)
  OBVIOUS
<1>2. FlowOK(y) /\ y.pc = pc /\ y.project = p
  BY <1>1, BegunIs
<1>3. PICK gl : gl = [flow EXCEPT ![f] = y]
  OBVIOUS
<1>4. FlowsOK(gl) /\ gl[f] = y /\ OthersEqual(flow, gl, f)
  BY <1>2, <1>3 DEF FlowsOK, OthersEqual
<1>5. \A g \in Flows : flow'[g].pc = gl[g].pc /\ flow'[g].project = gl[g].project
  <2>1. CASE flow' = gl
    BY <2>1
  <2>2. CASE \E D : flow' = RowsGone(gl, D)
    BY <1>4, <2>2, RowsGoneIs DEF Same
  <2> QED
    BY <1>1, <1>3, <2>1, <2>2
<1>6. flow[f].pc = "idle"
  BY DEF FlowsOK, FlowOK, Active
<1>7. FlowsWait
  BY <1>4, <1>5, <1>6 DEF FlowsWait, OthersEqual
<1>8. pc = "network" => flow'[f].pc = "network" /\ flow'[f].project = p
  BY <1>2, <1>4, <1>5
<1> QED
  BY <1>7, <1>8 DEF Pending

LEMMA DoubtsWait ==
  ASSUME FlowsOK(flow), flow' = Doubted(flow)
  PROVE  FlowsWait
BY DoubtedIs DEF FlowsWait, Same

LEMMA JobsStill == job' = job => JobsWait
BY DEF JobsWait

-----------------------------------------------------------------------------
(* The networks: the changes *)

(* Nothing that has a type here changed. *)
LEMMA RowsStill ==
  ASSUME NetType, UNCHANGED <<project, route, network, attached, bringing>>
  PROVE  NetType'
BY DEF NetType, IsProject, IsRoute

LEMMA RouteChanged ==
  ASSUME NetType, NEW d \in Domains, NEW x, IsRoute(x), route' = [route EXCEPT ![d] = x],
         UNCHANGED <<project, network, attached, bringing>>
  PROVE  /\ NetType'
         /\ \A e \in Domains : e # d => route'[e] = route[e]
         /\ route'[d] = x
BY DEF NetType, IsProject, IsRoute

(* A domain gets a route, or its route changes: its project is about to be attached. *)
LEMMA RouteBegins ==
  ASSUME NetInv, FlowsOK(flow), NEW d \in Domains, NEW x, IsRoute(x), route' = [route EXCEPT ![d] = x],
         UNCHANGED <<project, nets>>,
         NEW k, k # "idle", NEW p, NEW e, NEW f \in Flows, ~Active(f),
         \/ flow' = [flow EXCEPT ![f] = Begun(k, "network", p, e)]
         \/ \E D : flow' = RowsGone([flow EXCEPT ![f] = Begun(k, "network", p, e)], D),
         \/ x.owner = p /\ (p \in Projects => project[p].there)
         \/ x.owner \notin Projects
         \/ x.owner = route[d].owner /\ x.target = route[d].target
  PROVE  NetInv'
<1>1. /\ NetType' /\ \A c \in Domains : c # d => route'[c] = route[c]
      /\ route'[d] = x
  BY RouteChanged DEF NetInv, nets
<1>2. FlowsWait /\ Pending(p)'
  BY StartsWait
<1>3. JobsWait
  BY JobsStill DEF nets, tcpVars
<1>4. ASSUME NEW r \in Projects
      PROVE  \/ project'[r].there /\ Pending(r)'
             \/ project'[r].there = project[r].there /\ NoNewTarget(r)
  <2>1. CASE r = p /\ x.owner = p /\ project[p].there
    BY <1>2, <2>1
  <2>2. CASE r # x.owner \/ (x.owner = route[d].owner /\ x.target = route[d].target)
    BY <1>1, <1>4, <2>2 DEF NoNewTarget, nets, tcpVars
  <2> QED
    BY <1>4, <2>1, <2>2
<1> QED
  BY <1>1, <1>2, <1>3, <1>4, NetStep DEF nets

(* No target comes. *)
LEMMA NoTargetComes ==
  ASSUME NetInv, NetType', FlowsWait, UNCHANGED <<nets>>,
         \A p \in Projects : project'[p].there = project[p].there,
         \A d \in Domains : route'[d].owner = route[d].owner /\ route'[d].target = route[d].target
  PROVE  NetInv'
<1>1. JobsWait
  BY JobsStill DEF nets, tcpVars
<1>2. \A p \in Projects : NoNewTarget(p)
  BY DEF NoNewTarget, nets, tcpVars
<1> QED
  BY <1>1, <1>2, NetStep DEF nets

(* A route names a project that is there. *)
LEMMA OwnerThere ==
  ASSUME NetInv, NEW d \in Domains, route[d].owner \in Projects
  PROVE  project[route[d].owner].there
<1>1. route[d].target \in Routed(route[d].owner)
  BY DEF Routed
<1> QED
  BY <1>1 DEF NetInv, NetAt

LEMMA RouteFields ==
  ASSUME NEW r, IsRoute(r), NEW v
  PROVE  /\ \A x : x = [r EXCEPT !.target = v] => IsRoute(x) /\ x.owner = r.owner /\ x.target = v
         /\ \A x : x = [r EXCEPT !.ssl = v] => IsRoute(x) /\ x.owner = r.owner /\ x.target = r.target
BY DEF IsRoute

LEMMA PausedIs ==
  ASSUME NEW r, IsProject(r), NEW v, NEW x, x = [r EXCEPT !.paused = v]
  PROVE  IsProject(x) /\ x.there = r.there
BY DEF IsProject

(* A project is edited or paused. *)
LEMMA ProjectChanged ==
  ASSUME NetType, NEW p \in Projects, NEW x, IsProject(x), x.there = project[p].there,
         project' = [project EXCEPT ![p] = x], UNCHANGED <<route, nets>>
  PROVE  NetType' /\ \A q \in Projects : project'[q].there = project[q].there
<1>1. /\ project' = [q \in Projects |-> project'[q]]
      /\ \A q \in Projects : IsProject(project'[q]) /\ project'[q].there = project[q].there
  BY DEF NetType
<1> QED
  BY <1>1 DEF NetType, nets, IsRoute

LEMMA AskedRoutes ==
  ASSUME NetInv, FlowsOK(flow), NEW d \in Domains,
         \/ \E p \in Projects, t \in Targets : AddDomain(p, d, t)
         \/ \E t \in Targets : SetRoute(d, t)
         \/ \E on \in BOOLEAN : SetSsl(d, on)
         \/ RemoveDomain(d) \/ Issue(d)
  PROVE  NetInv'
<1>1. IsRoute(route[d]) /\ (route[d].owner \in Projects => project[route[d].owner].there)
  BY OwnerThere DEF NetInv, NetType
<1>2. ASSUME NEW p \in Projects, NEW t \in Targets, AddDomain(p, d, t) PROVE NetInv'
  <2>1. PICK v \in BOOLEAN : v = FALSE
    OBVIOUS
  <2>2. PICK x : x = [owner |-> p, target |-> t, ssl |-> v]
    OBVIOUS
  <2>3. IsRoute(x) /\ x.owner = p
    BY <2>2 DEF IsRoute
  <2>4. route' = [route EXCEPT ![d] = x]
    BY <1>2, <2>1, <2>2, Zenon DEF AddDomain
  <2>5. PICK f \in Flows : ~Active(f) /\ flow' = [flow EXCEPT ![f] = Begun("route", "network", p, NoOne)]
    BY <1>2 DEF AddDomain, Starts
  <2>6. project[p].there /\ UNCHANGED <<project, nets>>
    BY <1>2 DEF AddDomain
  <2> QED
    BY <2>3, <2>4, <2>5, <2>6, RouteBegins
<1>3. ASSUME NEW t \in Targets, SetRoute(d, t) PROVE NetInv'
  <2>1. PICK x : x = [route[d] EXCEPT !.target = t]
    OBVIOUS
  <2>2. IsRoute(x) /\ x.owner = route[d].owner
    BY <1>1, <2>1, RouteFields
  <2>3. route' = [route EXCEPT ![d] = x]
    BY <1>3, <2>1, Zenon DEF SetRoute
  <2>4. PICK f \in Flows : /\ ~Active(f)
                           /\ flow' = [flow EXCEPT ![f] = Begun("route", "network", route[d].owner, NoOne)]
    BY <1>3 DEF SetRoute, Starts
  <2>5. UNCHANGED <<project, nets>>
    BY <1>3 DEF SetRoute
  <2> QED
    BY <1>1, <2>2, <2>3, <2>4, <2>5, RouteBegins
<1>4. ASSUME NEW on, SetSsl(d, on) PROVE NetInv'
  <2>1. PICK x : x = [route[d] EXCEPT !.ssl = on]
    OBVIOUS
  <2>2. IsRoute(x) /\ x.owner = route[d].owner /\ x.target = route[d].target
    BY <1>1, <2>1, RouteFields
  <2>3. route' = [route EXCEPT ![d] = x]
    BY <1>4, <2>1, Zenon DEF SetSsl
  <2>4. PICK f \in Flows : /\ ~Active(f)
                           /\ flow' = [flow EXCEPT ![f] = Begun("route", "network", route[d].owner, NoOne)]
    BY <1>4 DEF SetSsl, Starts
  <2>5. UNCHANGED <<project, nets>>
    BY <1>4 DEF SetSsl
  <2> QED
    BY <1>1, <2>2, <2>3, <2>4, <2>5, RouteBegins
<1>5. CASE RemoveDomain(d)
  <2>1. IsRoute(NoRoute) /\ NoRoute.owner = NoOne
    BY DEF IsRoute, NoRoute
  <2>2. NoOne \notin Projects
    BY IngressAssumption DEF IngressAssumption
  <2>3. PICK f \in Flows : /\ ~Active(f)
                           /\ flow' = RowsGone([flow EXCEPT ![f] = Begun("route", "network", route[d].owner, NoOne)], {d})
    BY <1>5 DEF RemoveDomain
  <2>4. route' = [route EXCEPT ![d] = NoRoute] /\ UNCHANGED <<project, nets>>
    BY <1>5 DEF RemoveDomain
  <2> QED
    BY <2>1, <2>2, <2>3, <2>4, RouteBegins
<1>6. CASE Issue(d)
  <2>1. PICK x : x = [route[d] EXCEPT !.ssl = FALSE]
    OBVIOUS
  <2>2. IsRoute(x) /\ x.owner = route[d].owner /\ x.target = route[d].target
    BY <1>1, <2>1, RouteFields
  <2>3. route' = [route EXCEPT ![d] = x]
    BY <1>6, <2>1, Zenon DEF Issue
  <2>4. PICK f \in Flows : /\ ~Active(f)
                           /\ flow' = [flow EXCEPT ![f] = Begun("issue", "network", route[d].owner, d)]
    BY <1>6 DEF Issue, Starts
  <2>5. UNCHANGED <<project, nets>>
    BY <1>6 DEF Issue
  <2> QED
    BY <1>1, <2>2, <2>3, <2>4, <2>5, RouteBegins
<1> QED
  BY <1>2, <1>3, <1>4, <1>5, <1>6

(* The changes after which every route leads where it led. *)
LEMMA AskedOthers ==
  ASSUME NetInv, FlowsOK(flow),
         \/ \E d \in Domains, k \in {"certonly", "delete", "renew"} : CertbotAction(d, k)
         \/ \E p \in Projects, port \in BOOLEAN, s \in Snippets : EditProject(p, port, s)
         \/ \E p \in Projects, paused \in BOOLEAN : Pause(p, paused)
         \/ \E on \in BOOLEAN, d \in Domains \cup {NoOne}, ssl \in BOOLEAN : Publish(on, d, ssl)
         \/ Apply \/ Renewal
  PROVE  NetInv'
<1>1. NetType
  BY DEF NetInv
<1>2. ASSUME NEW k, k # "idle", NEW pc \in {"network", "load", "resolve", "certbot"}, NEW p, NEW d,
             Starts(k, pc, p, d)
      PROVE  FlowsWait
  <2>1. PICK f \in Flows : ~Active(f) /\ flow' = [flow EXCEPT ![f] = Begun(k, pc, p, d)]
    BY <1>2 DEF Starts
  <2> QED
    BY <1>2, <2>1, StartsWait
<1>3. ASSUME FlowsWait, UNCHANGED <<project, route, nets>> PROVE NetInv'
  <2>1. NetType'
    BY <1>1, <1>3, RowsStill DEF nets
  <2> QED
    BY <1>3, <2>1, NoTargetComes
<1>4. ASSUME FlowsWait, NEW p \in Projects, NEW x, IsProject(x), x.there = project[p].there,
             project' = [project EXCEPT ![p] = x], UNCHANGED <<route, nets>>
      PROVE  NetInv'
  <2>1. NetType' /\ \A q \in Projects : project'[q].there = project[q].there
    BY <1>1, <1>4, ProjectChanged
  <2> QED
    BY <1>4, <2>1, NoTargetComes
<1>5. ASSUME NEW d \in Domains, NEW k \in {"certonly", "delete", "renew"}, CertbotAction(d, k) PROVE NetInv'
  <2>1. FlowsWait
    BY <1>2, <1>5 DEF CertbotAction
  <2> QED
    BY <1>3, <1>5, <2>1 DEF CertbotAction, rows
<1>6. ASSUME NEW p \in Projects, NEW port \in BOOLEAN, NEW s \in Snippets, EditProject(p, port, s) PROVE NetInv'
  <2>1. PICK x : x = [project[p] EXCEPT !.port = port, !.snippet = s]
    OBVIOUS
  <2>2. project' = [project EXCEPT ![p] = x]
    BY <1>6, <2>1, Zenon DEF EditProject
  <2>3. IsProject(x) /\ x.there = project[p].there
    <3>1. PICK r : r = project[p]
      OBVIOUS
    <3>2. IsProject(r) /\ x = [r EXCEPT !.port = port, !.snippet = s]
      BY <1>1, <2>1, <3>1 DEF NetType
    <3>3. x = [there |-> r.there, paused |-> r.paused, port |-> port, snippet |-> s]
      BY <3>2 DEF IsProject
    <3> QED
      BY <3>1, <3>3 DEF IsProject
  <2>4. Starts("route", "network", p, NoOne) \/ flow' = Doubted(flow)
    BY <1>6 DEF EditProject
  <2>5. FlowsWait
    BY <1>2, <2>4, DoubtsWait
  <2> QED
    BY <1>4, <1>6, <2>2, <2>3, <2>5 DEF EditProject
<1>7. ASSUME NEW p \in Projects, NEW paused \in BOOLEAN, Pause(p, paused) PROVE NetInv'
  <2>1. PICK x : x = [project[p] EXCEPT !.paused = paused]
    OBVIOUS
  <2>2. project' = [project EXCEPT ![p] = x]
    BY <1>7, <2>1, Zenon DEF Pause
  <2>3. IsProject(x) /\ x.there = project[p].there
    <3>1. IsProject(project[p])
      BY <1>1 DEF NetType
    <3> QED
      BY <2>1, <3>1, PausedIs
  <2>4. FlowsWait
    BY <1>2, <1>7 DEF Pause
  <2> QED
    BY <1>4, <1>7, <2>2, <2>3, <2>4 DEF Pause
<1>8. ASSUME NEW on, NEW d, NEW ssl, Publish(on, d, ssl) PROVE NetInv'
  <2>1. Starts("apply", "load", NoOne, NoOne) \/ flow' = Doubted(flow)
    BY <1>8 DEF Publish
  <2>2. FlowsWait
    BY <1>2, <2>1, DoubtsWait
  <2> QED
    BY <1>3, <1>8, <2>2 DEF Publish
<1>9. CASE Apply
  <2>1. FlowsWait
    BY <1>2, <1>9 DEF Apply
  <2> QED
    BY <1>3, <1>9, <2>1 DEF Apply, rows
<1>10. CASE Renewal
  <2>1. FlowsWait
    BY <1>2, <1>10 DEF Renewal
  <2> QED
    BY <1>3, <1>10, <2>1 DEF Renewal, rows
<1> QED
  BY <1>5, <1>6, <1>7, <1>8, <1>9, <1>10

(* nginx joins the networks of ps, or what it could not join is known; the others stay. *)
LEMMA EnsuresIs ==
  ASSUME NetType, NEW ps, NEW off, Ensures(ps, off)
  PROVE  /\ network' = [q \in Projects |-> network'[q]]
         /\ \A q \in Projects : (q \in ps \/ Joined(q)) => Joined(q)'
<1>1. off \subseteq ps
  BY DEF Ensures
<1>2. network' = [q \in Projects |-> IF q \in off THEN "made" ELSE IF q \in ps THEN "joined" ELSE network[q]]
  BY DEF Ensures
<1>3. cut' = (cut \ ps) \cup off
  BY DEF Ensures
<1>4. ASSUME NEW q \in Projects, q \in ps \/ Joined(q) PROVE Joined(q)'
  <2>1. network'[q] = IF q \in off THEN "made" ELSE IF q \in ps THEN "joined" ELSE network[q]
    BY <1>2
  <2>2. CASE q \in ps
    BY <1>3, <2>1, <2>2 DEF Joined
  <2>3. CASE q \notin ps
    BY <1>1, <1>3, <1>4, <2>1, <2>3 DEF Joined
  <2> QED
    BY <2>2, <2>3
<1> QED
  BY <1>2, <1>4

(* A deploy begins: what is routed is on its way, and nginx joins, or could not. *)
LEMMA DeployBeginsNet ==
  ASSUME NetInv, NEW p \in Projects, NEW off, DeployBegins(p, off)
  PROVE  NetInv'
<1>1. /\ NetType /\ \A q \in Projects : NetAt(q)
      /\ UNCHANGED <<project, route, flow, job, exposure, attached, crossed>>
  BY DEF NetInv, DeployBegins, rows, tcpVars
<1>2. PICK ps : ps = IF Routed(p) # {} THEN {p} ELSE {}
  OBVIOUS
<1>3. /\ Ensures(ps, off)
      /\ bringing' = [bringing EXCEPT ![p] = Routed(p)]
  BY <1>2 DEF DeployBegins
<1>4. /\ network' = [q \in Projects |-> network'[q]]
      /\ \A q \in Projects : (q \in ps \/ Joined(q)) => Joined(q)'
  BY <1>1, <1>3, EnsuresIs
<1>5. NetType'
  BY <1>1, <1>3, <1>4 DEF NetType, IsProject, IsRoute
<1>6. ASSUME NEW q \in Projects PROVE NetAt(q)'
  <2>1. (Pending(q)' <=> Pending(q)) /\ Routed(q)' = Routed(q)
    BY <1>1 DEF Pending, Routed, TcpTargets
  <2>2. CASE q # p
    <3>1. bringing'[q] = bringing[q]
      BY <1>1, <1>3, <2>2 DEF NetType
    <3> QED
      BY <1>1, <1>4, <2>1, <3>1, NetKept
  <2>3. CASE q = p
    <3>1. bringing'[p] = Routed(p)
      BY <1>1, <1>3 DEF NetType
    <3>2. NetAt(p)
      BY <1>1
    <3>3. Routed(p) # {} => Joined(p)'
      BY <1>2, <1>4
    <3> QED
      BY <1>1, <2>1, <2>3, <3>1, <3>2, <3>3 DEF NetAt, Reached
  <2> QED
    BY <2>2, <2>3
<1> QED
  BY <1>5, <1>6 DEF NetInv

-----------------------------------------------------------------------------
(* The networks: the requests about exposures *)

OnlyJob(j) == \A k \in Jobs : k # j => job'[k] = job[k]

LEMMA OneJob ==
  ASSUME TcpType, NEW j \in Jobs,
         \/ Over(j) \/ Reconciled(j)
         \/ \E pc : Becomes(j, pc)
         \/ \E out : Throws(j, out)
  PROVE  OnlyJob(j)
<1>1. ASSUME NEW y, job' = [job EXCEPT ![j] = y] PROVE OnlyJob(j)
  BY <1>1 DEF OnlyJob, TcpType
<1>2. CASE Over(j)
  BY <1>1, <1>2 DEF Over
<1>3. CASE Reconciled(j)
  <2>1. PICK y : y = IF job[j].kind = "boot" THEN TakesRow(job[j], job[j].todo) ELSE NoJob
    OBVIOUS
  <2>2. job' = [job EXCEPT ![j] = y]
    BY <1>3, <2>1, Zenon DEF Reconciled
  <2> QED
    BY <1>1, <2>2
<1>4. ASSUME NEW pc, Becomes(j, pc) PROVE OnlyJob(j)
  <2>1. PICK y : y = [job[j] EXCEPT !.pc = pc]
    OBVIOUS
  <2>2. job' = [job EXCEPT ![j] = y]
    BY <1>4, <2>1, Zenon DEF Becomes
  <2> QED
    BY <1>1, <2>2
<1>5. ASSUME NEW out, Throws(j, out) PROVE OnlyJob(j)
  <2>1. PICK y : y = IF job[j].kind = "boot" THEN TakesRow([job[j] EXCEPT !.outage = out], job[j].todo)
                                             ELSE [job[j] EXCEPT !.pc = "remove", !.outage = out]
    OBVIOUS
  <2>2. job' = [job EXCEPT ![j] = y]
    BY <1>5, <2>1, Zenon DEF Throws
  <2> QED
    BY <1>1, <2>2
<1> QED
  BY <1>2, <1>3, <1>4, <1>5

LEMMA OneJobWaits ==
  ASSUME NEW j \in Jobs, job[j].pc # "attach", OnlyJob(j)
  PROVE  JobsWait
BY DEF OnlyJob, JobsWait

\* An exposure leads where it led, or to nothing.
RowsLead ==
  \A q \in Ports : exposure'[q].owner \in Projects =>
                     exposure'[q].owner = exposure[q].owner /\ exposure'[q].target = exposure[q].target

(* A request takes a step after which no exposure leads elsewhere. *)
LEMMA TcpNet ==
  ASSUME NetInv, JobsWait, RowsLead, UNCHANGED <<project, route, flow, network, attached, bringing, crossed, cut>>
  PROVE  NetInv'
<1>1. NetType'
  BY RowsStill DEF NetInv
<1>2. FlowsWait
  BY DEF FlowsWait
<1>3. \A p \in Projects : NoNewTarget(p)
  BY DEF NoNewTarget, RowsLead
<1> QED
  BY <1>1, <1>2, <1>3, NetStep

LEMMA ErrorLeads ==
  ASSUME TcpType, NEW j \in Jobs, NEW failed, SetLastError(j, failed)
  PROVE  RowsLead
<1>1. ASSUME NEW q \in Ports
      PROVE  exposure'[q].owner = exposure[q].owner /\ exposure'[q].target = exposure[q].target
  <2>1. exposure'[q] = exposure[q] \/ exposure'[q] = [exposure[q] EXCEPT !.failed = failed]
    BY DEF SetLastError
  <2> QED
    BY <2>1 DEF TcpType, IsRow
<1> QED
  BY <1>1 DEF RowsLead

LEMMA SameLeads == UNCHANGED exposure => RowsLead
BY DEF RowsLead

LEMMA AskTcpNet ==
  ASSUME NetInv, TcpType, AskTcp
  PROVE  NetInv'
<1>1. PICK first : StartsJob(first)
  BY DEF AskTcp, DeleteBegins, Unexpose, Expose
<1>2. PICK j \in Jobs : job[j] = NoJob /\ job' = [job EXCEPT ![j] = first]
  BY <1>1 DEF StartsJob
<1>3. JobsWait
  <2>1. OnlyJob(j)
    BY <1>2 DEF OnlyJob, TcpType
  <2>2. job[j].pc # "attach"
    BY <1>2, NoJobIs
  <2> QED
    BY <2>1, <2>2, OneJobWaits
<1>4. UNCHANGED exposure
  BY DEF AskTcp, DeleteBegins, Unexpose, Expose
<1>5. UNCHANGED <<project, route, flow, network, attached, bringing, crossed, cut>>
  BY DEF AskTcp, rows
<1> QED
  BY <1>3, <1>4, <1>5, SameLeads, TcpNet

(* A row comes, and its project's services are about to be attached. *)
LEMMA InsertNet ==
  ASSUME NetInv, TcpType, NEW j \in Jobs, Insert(j, Present),
         UNCHANGED <<project, route, flow, network, attached, bringing, crossed, cut>>
  PROVE  NetInv'
<1>1. job[j].pc = "insert" /\ job[j].port \in Ports /\ JobOK(job[j])
  BY DEF Insert, TcpType, JobOK
<1>2. CASE exposure[job[j].port].id = 0 /\ job[j].project \in Present
  <2>1. PICK r \in Projects : r = job[j].project /\ project[r].there
    BY <1>2 DEF Present
  <2>2. PICK i, q : i = lastExposure + 1 /\ q = job[j].port
    OBVIOUS
  <2>3. PICK e : e = Row(i, r, job[j].target)
    OBVIOUS
  <2>4. exposure' = [exposure EXCEPT ![q] = e]
    BY <1>2, <2>1, <2>2, <2>3, Zenon DEF Insert
  <2>5. e.owner = r
    <3>1. PICK v \in BOOLEAN : v = FALSE
      OBVIOUS
    <3>2. e = [id |-> i, owner |-> r, target |-> job[j].target, failed |-> v]
      BY <2>3, <3>1, Zenon DEF Row, NoExposure
    <3> QED
      BY <3>2
  <2>6. PICK y : y = [job[j] EXCEPT !.pc = "attach", !.id = i]
    OBVIOUS
  <2>7. job' = [job EXCEPT ![j] = y]
    BY <1>2, <2>2, <2>6, Zenon DEF Insert
  <2>8. y.pc = "attach" /\ y.project = r
    BY <1>1, <2>1, <2>6 DEF JobOK, IsJob
  <2>9. job'[j] = y /\ OnlyJob(j)
    BY <2>7 DEF TcpType, OnlyJob
  <2>10. Pending(r)' /\ JobsWait
    BY <1>1, <2>8, <2>9, OneJobWaits DEF Pending
  <2>11. \A c \in Ports : exposure'[c] = exposure[c] \/ exposure'[c].owner = r
    BY <2>4, <2>5 DEF TcpType
  <2>12. \A p \in Projects : p # r => NoNewTarget(p)
    BY <2>11 DEF NoNewTarget
  <2>13. NetType' /\ FlowsWait
    BY RowsStill DEF NetInv, FlowsWait
  <2> QED
    BY <2>1, <2>10, <2>12, <2>13, NetStep
<1>3. CASE ~(exposure[job[j].port].id = 0 /\ job[j].project \in Present)
  <2>1. Over(j) /\ UNCHANGED exposure
    BY <1>3 DEF Insert
  <2>2. JobsWait
    BY <1>1, <2>1, OneJob, OneJobWaits
  <2> QED
    BY <2>1, <2>2, SameLeads, TcpNet
<1> QED
  BY <1>2, <1>3

LEMMA TcpStepNet ==
  ASSUME NetInv, TcpType, NEW j \in Jobs, TcpStep(j)
  PROVE  NetInv'
<1>1. UNCHANGED <<project, route, flow, network, attached, bringing, crossed, cut>>
  BY DEF TcpStep, rows
<1>2. ASSUME job[j].pc # "attach", OnlyJob(j), RowsLead PROVE NetInv'
  BY <1>1, <1>2, OneJobWaits, TcpNet
<1>3. CASE Insert(j, Present)
  BY <1>1, <1>3, InsertNet
<1>4. CASE DropRow(j)
  <2>1. NoExposure.owner \notin Projects
    BY IngressAssumption DEF IngressAssumption, NoExposure
  <2>2. ASSUME NEW q \in Ports PROVE exposure'[q] = exposure[q] \/ exposure'[q] = NoExposure
    BY <1>4 DEF DropRow, TcpType
  <2>3. RowsLead
    BY <2>1, <2>2 DEF RowsLead
  <2> QED
    BY <1>2, <1>4, <2>3, OneJob DEF DropRow
<1>5. CASE ListRows(j)
  <2>1. PICK y : y = TakesRow(job[j], Listed(Ports))
    OBVIOUS
  <2>2. job' = [job EXCEPT ![j] = y]
    BY <1>5, <2>1, Zenon DEF ListRows
  <2>3. OnlyJob(j)
    BY <2>2 DEF OnlyJob, TcpType
  <2> QED
    BY <1>2, <1>5, <2>3, SameLeads DEF ListRows
<1>6. ASSUME NEW ok \in BOOLEAN, CheckProxy(j, ok) PROVE NetInv'
  <2>1. Throws(j, TRUE) \/ Throws(j, FALSE) \/ Reconciled(j) \/ Becomes(j, "run")
    BY <1>6 DEF CheckProxy
  <2>2. UNCHANGED exposure \/ SetLastError(j, FALSE) \/ SetLastError(j, TRUE)
    BY <1>6 DEF CheckProxy
  <2>3. OnlyJob(j)
    BY <2>1, OneJob
  <2>4. RowsLead
    BY <2>2, SameLeads, ErrorLeads
  <2> QED
    BY <1>2, <1>6, <2>3, <2>4 DEF CheckProxy
<1>7. ASSUME NEW ok \in BOOLEAN, Remove(j, ok) PROVE NetInv'
  <2>1. Over(j) \/ Becomes(j, "drop")
    BY <1>7 DEF Remove
  <2>2. OnlyJob(j)
    BY <2>1, OneJob
  <2> QED
    BY <1>2, <1>7, <2>2, SameLeads DEF Remove
<1>8. ASSUME NEW ok \in BOOLEAN, RemoveRuntime(j, ok) PROVE NetInv'
  <2>1. Over(j) \/ Becomes(j, "gone")
    BY <1>8 DEF RemoveRuntime
  <2>2. OnlyJob(j)
    BY <2>1, OneJob
  <2> QED
    BY <1>2, <1>8, <2>2, SameLeads DEF RemoveRuntime
<1> QED
  BY <1>3, <1>4, <1>5, <1>6, <1>7, <1>8 DEF TcpStep

(* A step that changes networks: each project by its own lemma. *)
LEMMA StartTcpNet ==
  ASSUME NetInv, TcpType, NEW j \in Jobs, NEW ok \in BOOLEAN, StartTcp(j, ok)
  PROVE  NetInv'
<1>1. /\ NetType /\ job[j].pc = "run"
      /\ UNCHANGED <<project, route, flow, attached, bringing, crossed>>
  BY DEF NetInv, StartTcp, RunProxy, rows
<1>2. Throws(j, ~ok) \/ Reconciled(j)
  BY DEF StartTcp, RunProxy
<1>3. JobsWait
  BY <1>1, <1>2, OneJob, OneJobWaits
<1>4. RowsLead
  <2>1. SetLastError(j, FALSE) \/ SetLastError(j, TRUE)
    BY DEF StartTcp, RunProxy
  <2> QED
    BY <2>1, ErrorLeads
<1>5. UNCHANGED <<network, cut>> \/ \E ps, off : Ensures(ps, off)
  BY DEF StartTcp
<1>6. /\ network' = [q \in Projects |-> network'[q]]
      /\ \A q \in Projects : Joined(q) => Joined(q)'
  <2>1. CASE UNCHANGED <<network, cut>>
    BY <1>1, <2>1 DEF NetType, Joined
  <2>2. ASSUME NEW ps, NEW off, Ensures(ps, off)
        PROVE  /\ network' = [q \in Projects |-> network'[q]]
               /\ \A q \in Projects : Joined(q) => Joined(q)'
    BY <1>1, <2>2, EnsuresIs
  <2> QED
    BY <1>5, <2>1, <2>2
<1>7. NetType'
  BY <1>1, <1>6 DEF NetType, IsProject, IsRoute
<1>8. ASSUME NEW q \in Projects PROVE NetAt(q)'
  <2>1. Routed(q)' \subseteq Routed(q)
    <3>1. NoNewTarget(q)
      BY <1>1, <1>4 DEF NoNewTarget, RowsLead
    <3> QED
      BY <3>1, RoutedKept DEF NoNewTarget
  <2>2. FlowsWait
    BY <1>1 DEF FlowsWait
  <2>3. (Pending(q) => Pending(q)') /\ (Joined(q) => Joined(q)')
    BY <1>3, <1>6, <2>2, Waiting
  <2> QED
    BY <1>1, <2>1, <2>3, NetKept DEF NetInv
<1> QED
  BY <1>7, <1>8 DEF NetInv

-----------------------------------------------------------------------------
(* The networks: attaching *)

LEMMA AttachesIs ==
  ASSUME NetType, NEW ps, NEW thrown, NEW off, ps \subseteq Projects, Attaches(ps, thrown, off)
  PROVE  /\ network' = [q \in Projects |-> network'[q]] /\ attached' = [q \in Projects |-> attached'[q]]
         /\ \A q \in Projects : Joined(q) => Joined(q)'
         /\ \A q \in ps : \/ q \in crossed'
                          \/ /\ attached'[q] = attached[q] \cup Routed(q)
                             /\ Routed(q) # {} => Joined(q)'
                             /\ bringing[q] = NoOne
         /\ \A q \in Projects : q \notin ps => attached'[q] = attached[q] /\ (q \in crossed' <=> q \in crossed)
<1>1. PICK routed : routed = {q \in ps : Routed(q) # {}}
  OBVIOUS
<1>2. /\ thrown \subseteq routed
      /\ \E after \in SUBSET thrown : Ensures((routed \ thrown) \cup after, off)
  BY <1>1 DEF Attaches
<1>3. attached' = [q \in Projects |-> IF q \in ps \ thrown THEN attached[q] \cup Routed(q) ELSE attached[q]]
  BY DEF Attaches
<1>4. crossed' = {q \in Projects : IF q \in ps \ thrown THEN bringing[q] # NoOne ELSE q \in crossed \cup thrown}
  BY DEF Attaches
<1>5. PICK nets0 : nets0 \subseteq ps /\ routed \ thrown \subseteq nets0 /\ Ensures(nets0, off)
  BY <1>1, <1>2
<1>6. /\ network' = [q \in Projects |-> network'[q]]
      /\ \A q \in Projects : (q \in nets0 \/ Joined(q)) => Joined(q)'
  BY <1>5, EnsuresIs
<1>7. ASSUME NEW q \in ps, q \notin crossed'
      PROVE  /\ attached'[q] = attached[q] \cup Routed(q)
             /\ Routed(q) # {} => Joined(q)'
             /\ bringing[q] = NoOne
  <2>1. q \in Projects /\ q \notin thrown /\ bringing[q] = NoOne
    BY <1>4, <1>7
  <2>2. Routed(q) # {} => q \in nets0
    BY <1>1, <1>5, <1>7, <2>1
  <2> QED
    BY <1>3, <1>6, <1>7, <2>1, <2>2
<1>8. ASSUME NEW q \in Projects, q \notin ps
      PROVE  attached'[q] = attached[q] /\ (q \in crossed' <=> q \in crossed)
  BY <1>1, <1>2, <1>3, <1>4, <1>8
<1> QED
  BY <1>3, <1>6, <1>7, <1>8

(* Project p is attached, or attaching it fails; nothing is taken from the others. *)
LEMMA AttachNet ==
  ASSUME NetInv, NEW p, RowsLead, UNCHANGED <<project, route, bringing>>,
         \A q \in Projects : q # p /\ Pending(q) => Pending(q)',
         NEW thrown, NEW off, Attaches({p} \cap Present, thrown, off)
  PROVE  NetInv'
<1>1. NetType /\ \A q \in Projects : NetAt(q)
  BY DEF NetInv
<1>2. \A q \in Projects : Routed(q)' \subseteq Routed(q)
  <2>1. ASSUME NEW q \in Projects PROVE Routed(q)' \subseteq Routed(q)
    <3>1. NoNewTarget(q)
      BY DEF NoNewTarget, RowsLead
    <3> QED
      BY <3>1, RoutedKept DEF NoNewTarget
  <2> QED
    BY <2>1
<1>3. PICK ps : ps = {p} \cap Present /\ ps \subseteq Projects
  BY DEF Present
<1>4. /\ network' = [q \in Projects |-> network'[q]] /\ attached' = [q \in Projects |-> attached'[q]]
      /\ \A q \in Projects : Joined(q) => Joined(q)'
      /\ \A q \in ps : \/ q \in crossed'
                       \/ /\ attached'[q] = attached[q] \cup Routed(q)
                          /\ Routed(q) # {} => Joined(q)'
                          /\ bringing[q] = NoOne
      /\ \A q \in Projects : q \notin ps => attached'[q] = attached[q] /\ (q \in crossed' <=> q \in crossed)
  BY <1>1, <1>3, AttachesIs
<1>5. NetType'
  BY <1>1, <1>4 DEF NetType, IsProject, IsRoute
<1>6. ASSUME NEW q \in Projects PROVE NetAt(q)'
  <2>1. (~project'[q].there => Routed(q)' = {}) /\ Routed(q)' \subseteq Routed(q)
    BY <1>1, <1>2, <1>6 DEF NetAt
  <2>2. CASE q \in ps /\ q \in crossed'
    BY <2>1, <2>2 DEF NetAt
  <2>3. CASE q \in ps /\ q \notin crossed'
    <3>1. /\ Routed(q)' # {} => Joined(q)'
          /\ Routed(q)' \subseteq attached'[q]
          /\ bringing'[q] = NoOne
      BY <1>4, <2>1, <2>3
    <3> QED
      BY <2>1, <3>1 DEF NetAt, Reached
  <2>4. CASE q \notin ps /\ q = p
    <3>1. Routed(q)' = {}
      BY <1>3, <2>1, <2>4 DEF Present
    <3> QED
      BY <3>1 DEF NetAt, Reached
  <2>5. CASE q \notin ps /\ q # p
    <3>1. Pending(q) => Pending(q)'
      BY <2>5
    <3>2. (Joined(q) => Joined(q)') /\ (q \in crossed => q \in crossed') /\ attached[q] \subseteq attached'[q]
      BY <1>4, <2>5
    <3> QED
      BY <1>1, <1>2, <3>1, <3>2, NetKept
  <2> QED
    BY <2>2, <2>3, <2>4, <2>5
<1> QED
  BY <1>5, <1>6 DEF NetInv

LEMMA AttachTcpNet ==
  ASSUME NetInv, TcpType, NEW j \in Jobs, NEW ok \in BOOLEAN, AttachTcp(j, ok)
  PROVE  NetInv'
<1>1. PICK p : p = job[j].project
  OBVIOUS
<1>2. PICK thrown, off : Attaches({p} \cap Present, thrown, off)
  BY <1>1 DEF AttachTcp
<1>3. RowsLead /\ UNCHANGED <<project, route, bringing>> /\ UNCHANGED flow
  BY SameLeads DEF AttachTcp, Attached, rows
<1>4. OnlyJob(j)
  BY OneJob DEF AttachTcp, Attached
<1>5. ASSUME NEW q \in Projects, q # p, Pending(q) PROVE Pending(q)'
  BY <1>1, <1>3, <1>4, <1>5 DEF Pending, OnlyJob
<1> QED
  BY <1>2, <1>3, <1>5, AttachNet

LEMMA NetworkNet ==
  ASSUME NetInv, FlowsOK(flow), NEW f \in Flows, Network(f)
  PROVE  NetInv'
<1>1. PICK p : p = flow[f].project
  OBVIOUS
<1>2. PICK thrown, off : Attaches({p} \cap Present, thrown, off)
  BY <1>1 DEF Network
<1>3. RowsLead /\ UNCHANGED <<project, route, bringing>> /\ UNCHANGED job
  BY SameLeads DEF Network, rows, tcpVars
<1>4. OthersStay(f)
  BY FlowStepStays DEF FlowStep
<1>5. ASSUME NEW q \in Projects, q # p, Pending(q) PROVE Pending(q)'
  BY <1>1, <1>3, <1>4, <1>5 DEF Pending, OthersStay
<1> QED
  BY <1>2, <1>3, <1>5, AttachNet

LEMMA NothingRouted ==
  ASSUME NEW p, Routed(p)' = {}
  PROVE  NetAt(p)'
BY DEF NetAt, Reached

(* An apply begins: nginx joins the networks it needs, or what it could not join is known. *)
LEMMA LoadNet ==
  ASSUME NetInv, FlowsOK(flow), NEW f \in Flows, Load(f)
  PROVE  NetInv'
<1>1. /\ NetType /\ \A q \in Projects : NetAt(q)
      /\ flow[f].pc = "load"
      /\ UNCHANGED <<project, route, job, exposure, attached, bringing, crossed>>
  BY DEF NetInv, Load, rows, tcpVars
<1>2. PICK apart, off : /\ apart = {q \in Projects : Routed(q) # {} /\ network[q] = "made"}
                        /\ off \subseteq apart /\ cut' = off
                        /\ network' = [q \in Projects |-> IF q \in apart \ off THEN "joined" ELSE network[q]]
  BY DEF Load, NginxJoins
<1>3. NetType'
  <2>1. network' = [q \in Projects |-> network'[q]]
    BY <1>2
  <2> QED
    BY <1>1, <2>1 DEF NetType, IsProject, IsRoute
<1>4. FlowsWait
  <2>1. OthersStay(f)
    BY FlowStepStays DEF FlowStep
  <2> QED
    BY <1>1, <2>1 DEF OthersStay, FlowsWait
<1>5. ASSUME NEW q \in Projects PROVE NetAt(q)'
  <2>1. Routed(q)' = Routed(q)
    BY <1>1 DEF Routed, TcpTargets
  <2>2. CASE Routed(q) = {}
    BY <2>1, <2>2, NothingRouted
  <2>3. CASE Routed(q) # {}
    <3>1. network'[q] = IF network[q] = "made" /\ q \notin off THEN "joined" ELSE network[q]
      BY <1>2, <2>3
    <3>2. Joined(q) => Joined(q)'
      BY <1>2, <3>1 DEF Joined
    <3>3. Pending(q) => Pending(q)'
      BY <1>1, <1>4, JobsStill, Waiting
    <3> QED
      BY <1>1, <2>1, <3>2, <3>3, NetKept
  <2> QED
    BY <2>2, <2>3
<1> QED
  BY <1>3, <1>5 DEF NetInv

(* A certificate changed: HTTPS is switched on, and every route leads where it led. *)
LEMMA CertbotNet ==
  ASSUME NetType, NEW f \in Flows, Certbot(f)
  PROVE  /\ NetType'
         /\ \A d \in Domains : route'[d].owner = route[d].owner /\ route'[d].target = route[d].target
<1>1. UNCHANGED <<project, network, attached, bringing>>
  BY DEF Certbot, CertbotDone, rows, nets
<1>2. PICK d : d = flow[f].domain
  OBVIOUS
<1>3. PICK v \in BOOLEAN : v = TRUE
  OBVIOUS
<1>4. route' = route \/ route' = [route EXCEPT ![d].ssl = v]
  BY <1>2, <1>3 DEF Certbot, CertbotDone, rows
<1>5. PICK x : x = [route[d] EXCEPT !.ssl = v]
  OBVIOUS
<1>6. route' = route \/ route' = [route EXCEPT ![d] = x]
  <2>1. [route EXCEPT ![d].ssl = v] = [route EXCEPT ![d] = x]
    BY <1>5, Zenon
  <2> QED
    BY <1>4, <2>1
<1>7. ASSUME NEW e \in Domains
      PROVE  IsRoute(route'[e]) /\ route'[e].owner = route[e].owner /\ route'[e].target = route[e].target
  <2>1. IsRoute(route[e])
    BY DEF NetType
  <2>2. CASE route'[e] = route[e]
    BY <2>1, <2>2
  <2>3. CASE route'[e] = x /\ e = d
    BY <1>5, <2>1, <2>3, RouteFields
  <2> QED
    BY <1>6, <2>2, <2>3 DEF NetType
<1>8. route' = [e \in Domains |-> route'[e]]
  BY <1>6 DEF NetType
<1> QED
  BY <1>1, <1>7, <1>8 DEF NetType, IsProject

LEMMA FlowStepNet ==
  ASSUME NetInv, FlowsOK(flow), NEW f \in Flows, FlowStep(f)
  PROVE  NetInv'
<1>1. CASE Network(f)
  BY <1>1, NetworkNet
<1>2. CASE Load(f)
  BY <1>2, LoadNet
<1>3. CASE ~Network(f) /\ ~Load(f)
  <2>1. OthersStay(f)
    BY FlowStepStays
  <2>2. flow[f].pc # "network"
    BY <1>3 DEF FlowStep, Bootstrap, BootstrapFails, Resolve, Certbot, ReadRoutes, RenderBlocks, Validate, Backup,
                Replace, Check, Activate, Restore
  <2>3. FlowsWait
    BY <2>1, <2>2 DEF OthersStay, FlowsWait
  <2>4. UNCHANGED <<project, nets>>
    BY <1>3 DEF FlowStep, Bootstrap, BootstrapFails, Resolve, Certbot, CertbotDone, ReadRoutes, RenderBlocks,
                Validate, ApplyFails, Backup, Replace, Check, Activate, Restore, rows
  <2>5. CASE Certbot(f)
    <3>1. NetType' /\ \A d \in Domains : route'[d].owner = route[d].owner /\ route'[d].target = route[d].target
      BY <2>5, CertbotNet DEF NetInv
    <3> QED
      BY <2>3, <2>4, <3>1, NoTargetComes
  <2>6. CASE ~Certbot(f)
    <3>1. UNCHANGED route
      BY <1>3, <2>6 DEF FlowStep, Bootstrap, BootstrapFails, Resolve, ReadRoutes, RenderBlocks,
                        Validate, ApplyFails, Backup, Replace, Check, Activate, Restore, rows
    <3>2. NetType'
      BY <2>4, <3>1, RowsStill DEF NetInv, nets
    <3> QED
      BY <2>3, <2>4, <3>1, <3>2, NoTargetComes
  <2> QED
    BY <2>5, <2>6
<1> QED
  BY <1>1, <1>2, <1>3

(* The nginx container was recreated: it is off the networks it was on. *)
LEMMA RecreatedNet ==
  ASSUME NetInv, FlowsOK(flow), NginxRecreated
  PROVE  NetInv'
<1>1. /\ NetType /\ \A q \in Projects : NetAt(q)
      /\ flow' = Doubted(flow)
      /\ UNCHANGED <<project, route, job, exposure, attached, bringing, crossed>>
  BY DEF NetInv, NginxRecreated, rows, tcpVars
<1>2. /\ network' = [q \in Projects |-> network'[q]]
      /\ \A q \in Projects : network'[q] = IF network[q] = "joined" THEN "made" ELSE network[q]
      /\ cut' = cut \cup {q \in Projects : network[q] = "joined"}
  BY DEF NginxRecreated
<1>3. NetType'
  BY <1>1, <1>2 DEF NetType, IsProject, IsRoute
<1>4. ASSUME NEW q \in Projects PROVE NetAt(q)'
  <2>1. Routed(q)' = Routed(q)
    BY <1>1 DEF Routed, TcpTargets
  <2>2. Joined(q) => Joined(q)'
    BY <1>1, <1>2 DEF Joined
  <2>3. Pending(q) => Pending(q)'
    BY <1>1, DoubtsWait, JobsStill, Waiting
  <2> QED
    BY <1>1, <2>1, <2>2, <2>3, NetKept
<1> QED
  BY <1>3, <1>4 DEF NetInv

(* A restart puts every project's services on its network, or that failed. *)
LEMMA RestartNet ==
  ASSUME NetInv, Restart
  PROVE  NetInv'
<1>1. /\ NetType /\ \A q \in Projects : NetAt(q)
      /\ bringing' = [q \in Projects |-> NoOne]
      /\ UNCHANGED <<project, route, exposure>>
  BY DEF NetInv, Restart, Boots, rows
<1>2. PICK ps : ps = {q \in Projects : project[q].there}
  OBVIOUS
<1>3. PICK missed, off : ps \subseteq Projects /\ Attaches(ps, missed, off)
  BY <1>2 DEF Restart, Present
<1>4. /\ network' = [q \in Projects |-> network'[q]] /\ attached' = [q \in Projects |-> attached'[q]]
      /\ \A q \in ps : \/ q \in crossed'
                       \/ /\ attached'[q] = attached[q] \cup Routed(q)
                          /\ Routed(q) # {} => Joined(q)'
  BY <1>1, <1>3, AttachesIs
<1>5. NetType'
  BY <1>1, <1>4 DEF NetType, IsProject, IsRoute
<1>6. ASSUME NEW q \in Projects PROVE NetAt(q)'
  <2>1. Routed(q)' = Routed(q)
    BY <1>1 DEF Routed, TcpTargets
  <2>2. CASE q \in ps
    BY <1>1, <1>2, <1>4, <2>1, <2>2 DEF NetAt, Reached
  <2>3. CASE q \notin ps
    <3>1. Routed(q)' = {}
      BY <1>1, <1>2, <2>1, <2>3 DEF NetAt
    <3> QED
      BY <3>1, NothingRouted
  <2> QED
    BY <2>2, <2>3
<1> QED
  BY <1>5, <1>6 DEF NetInv

(* A deploy ends: what it brought is attached, or its containers stay. *)
LEMMA DeployEndsNet ==
  ASSUME NetInv, NEW p \in Projects, DeployEnds(p)
  PROVE  NetInv'
<1>1. /\ NetType /\ \A q \in Projects : NetAt(q)
      /\ bringing[p] # NoOne /\ bringing' = [bringing EXCEPT ![p] = NoOne]
      /\ UNCHANGED <<project, route, flow, job, exposure, network, crossed, cut>>
  BY DEF NetInv, DeployEnds, rows, tcpVars
<1>2. PICK a : a = IF project[p].there THEN bringing[p] ELSE {}
  OBVIOUS
<1>3. attached' = attached \/ attached' = [attached EXCEPT ![p] = a]
  BY <1>2 DEF DeployEnds
<1>4. /\ bringing' = [q \in Projects |-> bringing'[q]] /\ attached' = [q \in Projects |-> attached'[q]]
      /\ \A q \in Projects : q # p => bringing'[q] = bringing[q] /\ attached'[q] = attached[q]
      /\ bringing'[p] = NoOne /\ (attached'[p] = attached[p] \/ attached'[p] = a)
  BY <1>1, <1>3 DEF NetType
<1>5. NetType'
  BY <1>1, <1>4 DEF NetType, IsProject, IsRoute
<1>6. ASSUME NEW q \in Projects PROVE NetAt(q)'
  <2>1. Routed(q)' = Routed(q) /\ (Pending(q)' <=> Pending(q)) /\ (Joined(q)' <=> Joined(q))
    BY <1>1 DEF Routed, TcpTargets, Pending, Joined
  <2>2. CASE q # p
    BY <1>1, <1>4, <2>1, <2>2, NetKept
  <2>3. CASE q = p /\ ~project[p].there
    <3>1. Routed(q)' = {}
      BY <1>1, <2>1, <2>3 DEF NetAt
    <3> QED
      BY <3>1, NothingRouted
  <2>4. CASE q = p /\ project[p].there
    <3>1. NetAt(p)
      BY <1>1
    <3> QED
      BY <1>1, <1>2, <1>4, <2>1, <2>4, <3>1 DEF NetAt, Reached
  <2> QED
    BY <2>2, <2>3, <2>4
<1> QED
  BY <1>5, <1>6 DEF NetInv

(* A project goes, and with it everything that led to it. *)
LEMMA DeleteProjectNet ==
  ASSUME NetInv, TcpType, FlowsOK(flow), NEW j \in Jobs, DeleteProject(j)
  PROVE  NetInv'
<1>1. PICK p : p = job[j].project
  OBVIOUS
<1>2. /\ NetType /\ \A q \in Projects : NetAt(q)
      /\ job[j].pc = "gone" /\ Over(j) /\ UNCHANGED <<bringing, crossed, cut>>
  BY DEF NetInv, DeleteProject, RowsGo
<1>3. /\ route' = [d \in Domains |-> IF d \in {e \in Domains : route[e].owner = p} THEN NoRoute ELSE route[d]]
      /\ exposure' = [q \in Ports |-> IF exposure[q].owner = p THEN NoExposure ELSE exposure[q]]
      /\ network' = [network EXCEPT ![p] = "none"] /\ attached' = [attached EXCEPT ![p] = {}]
  BY <1>1 DEF DeleteProject, RowsGo
<1>4. /\ NoOne \notin Projects /\ NoExposure.owner = NoOne /\ NoRoute.owner = NoOne /\ IsRoute(NoRoute)
  BY IngressAssumption DEF IngressAssumption, NoExposure, NoRoute, IsRoute
<1>5. FlowsWait
  <2>1. PICK D : D = {e \in Domains : route[e].owner = p}
    OBVIOUS
  <2>2. PICK f \in Flows : ~Active(f) /\ flow' = RowsGone([flow EXCEPT ![f] = Begun("route", "load", p, NoOne)], D)
    BY <1>1, <2>1 DEF DeleteProject
  <2> QED
    BY <2>2, StartsWait
<1>6. JobsWait
  BY <1>2, OneJob, OneJobWaits
<1>7. /\ project' = [q \in Projects |-> project'[q]]
      /\ \A q \in Projects : IsProject(project'[q])
      /\ \A q \in Projects : q # p => project'[q].there = project[q].there
  <2>1. PICK v \in BOOLEAN : v = FALSE
    OBVIOUS
  <2>2. PICK x : x = [project[p] EXCEPT !.there = v]
    OBVIOUS
  <2>3. project' = [project EXCEPT ![p] = x]
    BY <1>1, <2>1, <2>2, Zenon DEF DeleteProject
  <2>4. p \in Projects => IsProject(x)
    <3>1. p \in Projects => IsProject(project[p])
      BY <1>2 DEF NetType
    <3> QED
      BY <2>2, <3>1 DEF IsProject
  <2> QED
    BY <1>2, <2>3, <2>4 DEF NetType
<1>8. NetType'
  BY <1>2, <1>3, <1>4, <1>7 DEF NetType, IsRoute
<1>9. ASSUME NEW q \in Projects PROVE NetAt(q)'
  <2>1. CASE q = p
    <3>1. Routed(q)' = {}
      <4>1. \A d \in Domains : route'[d].owner # p
        BY <1>3, <1>4, <1>9, <2>1
      <4>2. \A r \in Ports : exposure'[r].owner # p
        BY <1>3, <1>4, <1>9, <2>1
      <4> QED
        BY <2>1, <4>1, <4>2 DEF Routed, TcpTargets
    <3> QED
      BY <3>1, NothingRouted
  <2>2. CASE q # p
    <3>1. NoNewTarget(q)
      BY <1>3, <1>4, <1>9 DEF NoNewTarget
    <3>2. Routed(q)' \subseteq Routed(q)
      BY <3>1, RoutedKept DEF NoNewTarget
    <3>3. network'[q] = network[q] /\ attached'[q] = attached[q]
      BY <1>2, <1>3, <2>2 DEF NetType
    <3>4. (Pending(q) => Pending(q)') /\ (Joined(q) => Joined(q)')
      BY <1>2, <1>5, <1>6, <3>3, Waiting DEF Joined
    <3> QED
      BY <1>2, <1>7, <2>2, <3>2, <3>3, <3>4, NetKept
  <2> QED
    BY <2>1, <2>2
<1> QED
  BY <1>8, <1>9 DEF NetInv

-----------------------------------------------------------------------------
(* The networks: the invariant and the theorem *)

LEMMA NetInit ==
  ASSUME IngressInit
  PROVE  NetInv
<1>1. bringing = [q \in Projects |-> NoOne]
  BY DEF IngressInit
<1>2. PICK v, w \in BOOLEAN : v = FALSE /\ w = TRUE
  OBVIOUS
<1>3. NoOne \notin Projects /\ NoRoute = [owner |-> NoOne, target |-> NoOne, ssl |-> v]
  <2>1. NoRoute = [owner |-> NoOne, target |-> NoOne, ssl |-> v]
    BY <1>2, Zenon DEF NoRoute
  <2> QED
    BY <2>1, IngressAssumption DEF IngressAssumption
<1>4. IsRoute(NoRoute) /\ NoRoute.owner = NoOne
  BY <1>3 DEF IsRoute
<1>5. CASE FirstStart
  <2>1. /\ project = [p \in Projects |-> [there |-> w, paused |-> v, port |-> v, snippet |-> "plain"]]
        /\ route = [d \in Domains |-> NoRoute]
        /\ network = [p \in Projects |-> "none"] /\ attached = [p \in Projects |-> {}]
    BY <1>2, <1>5, Zenon DEF FirstStart
  <2>2. NetType
    <3>1. \A p \in Projects : IsProject(project[p])
      BY <2>1 DEF IsProject
    <3> QED
      BY <1>1, <1>4, <2>1, <3>1 DEF NetType
  <2>3. ASSUME NEW p \in Projects PROVE NetAt(p)
    <3>1. \A q \in Ports : exposure[q].owner = NoOne
      <4>1. exposure = [q \in Ports |-> NoExposure]
        BY <1>5 DEF FirstStart, NoTcp
      <4>2. NoExposure.owner = NoOne
        BY DEF NoExposure
      <4> QED
        BY <4>1, <4>2
    <3>2. \A d \in Domains : route[d].owner = NoOne
      BY <1>4, <2>1
    <3>3. Routed(p) = {}
      BY <1>3, <3>1, <3>2 DEF Routed, TcpTargets
    <3> QED
      BY <3>3 DEF NetAt, Reached
  <2> QED
    BY <2>2, <2>3 DEF NetInv
<1>6. CASE InUse
  <2>1. /\ project \in [Projects -> [there : {TRUE}, paused : {FALSE}, port : BOOLEAN, snippet : {"plain"}]]
        /\ network = [p \in Projects |-> IF Routed(p) = {} THEN "none" ELSE IF p \in cut THEN "made" ELSE "joined"]
        /\ attached = [p \in Projects |-> Routed(p)]
    BY <1>6 DEF InUse
  <2>2. PICK d \in Domains \ EnvDomains, p \in Projects, t \in Targets :
           /\ route = [e \in Domains |-> IF e = d THEN [owner |-> p, target |-> t, ssl |-> TRUE] ELSE NoRoute]
           /\ cert = {d}
           /\ app \in [enabled : {TRUE}, domain : Domains \ {d}, ssl : {FALSE}]
           /\ IF project[p].port THEN NoTcp ELSE \E u \in Targets \ {t} : Exposed(Ports, p, u)
    BY <1>6, Zenon DEF InUse
  <2>3. PICK x : x = [owner |-> p, target |-> t, ssl |-> w]
    OBVIOUS
  <2>4. route = [e \in Domains |-> IF e = d THEN x ELSE NoRoute]
    BY <1>2, <2>2, <2>3, Zenon
  <2>5. NetType
    <3>1. \A q \in Projects : IsProject(project[q])
      BY <2>1 DEF IsProject
    <3>2. IsRoute(x)
      BY <2>3 DEF IsRoute
    <3> QED
      BY <1>1, <1>4, <2>1, <2>4, <3>1, <3>2 DEF NetType
  <2>6. ASSUME NEW q \in Projects PROVE NetAt(q)
    <3>1. project[q].there
      BY <2>1
    <3>2. /\ Routed(q) # {} => Joined(q)
          /\ attached[q] = Routed(q) /\ bringing[q] = NoOne
      BY <1>1, <2>1 DEF Joined
    <3> QED
      BY <3>1, <3>2 DEF NetAt, Reached
  <2> QED
    BY <2>5, <2>6 DEF NetInv
<1> QED
  BY <1>5, <1>6 DEF IngressInit

LEMMA NetNext ==
  ASSUME RouteInv, TcpInv, NetInv, [IngressNext]_ingressVars
  PROVE  NetInv'
<1>1. FlowsOK(flow) /\ TcpType
  BY DEF RouteInv, TcpInv
<1>2. CASE Change
  BY <1>1, <1>2, AskedRoutes, AskedOthers, AskTcpNet DEF Change, Asked
<1>3. CASE NginxRecreated
  BY <1>1, <1>3, RecreatedNet
<1>4. CASE Restart
  BY <1>4, RestartNet
<1>5. ASSUME NEW p \in Projects, DeployEnds(p) PROVE NetInv'
  BY <1>5, DeployEndsNet
<1>6. ASSUME NEW f \in Flows, FlowStep(f) PROVE NetInv'
  BY <1>1, <1>6, FlowStepNet
<1>7. ASSUME NEW j \in Jobs, TcpStep(j) PROVE NetInv'
  BY <1>1, <1>7, TcpStepNet
<1>8. ASSUME NEW j \in Jobs, DeleteProject(j) PROVE NetInv'
  BY <1>1, <1>8, DeleteProjectNet
<1>9. ASSUME NEW j \in Jobs, NEW ok \in BOOLEAN, AttachTcp(j, ok) PROVE NetInv'
  BY <1>1, <1>9, AttachTcpNet
<1>10. ASSUME NEW j \in Jobs, NEW ok \in BOOLEAN, StartTcp(j, ok) PROVE NetInv'
  BY <1>1, <1>10, StartTcpNet
<1>11. CASE UNCHANGED ingressVars
  <2>1. UNCHANGED <<project, route, flow, nets>>
    BY <1>11 DEF ingressVars, rows
  <2>2. NetType'
    BY <2>1, RowsStill DEF NetInv, nets
  <2>3. FlowsWait
    BY <2>1 DEF FlowsWait
  <2> QED
    BY <2>1, <2>2, <2>3, NoTargetComes
<1>12. ASSUME NEW p \in Projects, NEW off, DeployBegins(p, off) PROVE NetInv'
  BY <1>12, DeployBeginsNet
<1> QED
  BY <1>2, <1>3, <1>4, <1>5, <1>6, <1>7, <1>8, <1>9, <1>10, <1>11, <1>12 DEF IngressNext

(* The inductive invariant of the networks holds in every reachable state. *)
THEOREM NetHolds == IngressSpec => []NetInv
<1>1. IngressInit => NetInv
  BY NetInit
<1>2. RouteInv /\ TcpInv /\ NetInv /\ [IngressNext]_ingressVars => NetInv'
  BY NetNext
<1> QED
  BY <1>1, <1>2, RouteHolds, TcpHolds, PTL DEF IngressSpec

(* A server block of a project leads to one of its targets. *)
LEMMA BlocksAreRouted ==
  ASSUME NEW b \in Configured.blocks, b.owner \in Projects
  PROVE  b.target \in Routed(b.owner)
<1>1. PICK t : t = RouteTargets(LoadProjects)
  OBVIOUS
<1>2. Configured.blocks = {[a EXCEPT !.https = a.https /\ a.domain \in cert] : a \in t}
  BY <1>1 DEF Configured, Render
<1>3. PICK a \in t : b = [a EXCEPT !.https = a.https /\ a.domain \in cert]
  BY <1>2
<1>4. PICK v : v = (a.https /\ a.domain \in cert)
  OBVIOUS
<1>5. b = [a EXCEPT !.https = v]
  BY <1>3, <1>4, Zenon
<1>6. IsBlock(a)
  BY <1>1, TargetsAreBlocks
<1>7. b.owner = a.owner /\ b.target = a.target
  BY <1>5, <1>6 DEF IsBlock
<1>8. CASE a \in AppTarget
  <2>1. a.owner = App
    BY <1>8 DEF AppTarget
  <2> QED
    BY <1>7, <2>1, IngressAssumption DEF IngressAssumption
<1>9. CASE a \notin AppTarget
  <2>1. PICK x \in {y \in Domains \X LoadProjects : route[y[1]].owner = y[2][1]} :
           a = [domain |-> x[1], owner |-> x[2][1], target |-> route[x[1]].target,
                snippet |-> x[2][2], https |-> route[x[1]].ssl]
    BY <1>1, <1>9 DEF RouteTargets
  <2>2. x[1] \in Domains /\ a.owner = route[x[1]].owner /\ a.target = route[x[1]].target
    BY <2>1
  <2> QED
    BY <1>7, <2>2 DEF Routed
<1> QED
  BY <1>8, <1>9

(* At rest, every service nginx or a TCP proxy forwards to is on the       *)
(* project's network under its alias, and nginx too, unless its container  *)
(* was recreated or its connect failed, which is only logged, and none has *)
(* succeeded since; not when a deploy and a change of routes crossed, or   *)
(* attaching failed (networking.ts, networks.ts).                          *)
THEOREM Upstreams == IngressSpec => []UpstreamsReachable
<1>1. RouteInv /\ NetInv => UpstreamsReachable
  <2> SUFFICES ASSUME RouteInv, NetInv, Quiet, JobsIdle,
                      NEW p \in Projects \ crossed, NEW t,
                      \/ \E b \in Configured.blocks : p = b.owner /\ t = b.target
                      \/ \E q \in Ports : p = exposure[q].owner /\ t = exposure[q].target
               PROVE  Joined(p) /\ t \in attached[p]
    BY DEF UpstreamsReachable, Joined
  <2>1. t \in Routed(p)
    <3>1. CASE \E b \in Configured.blocks : p = b.owner /\ t = b.target
      BY <3>1, BlocksAreRouted
    <3>2. CASE \E q \in Ports : p = exposure[q].owner /\ t = exposure[q].target
      BY <3>2 DEF Routed, TcpTargets
    <3> QED
      BY <3>1, <3>2
  <2>2. ~Pending(p)
    <3>1. \A f \in Flows : flow[f].pc # "network"
      BY DEF Quiet, Active, RouteInv, FlowsOK, FlowOK
    <3>2. \A j \in Jobs : job[j].pc # "attach"
      BY NoJobIs DEF JobsIdle
    <3> QED
      BY <3>1, <3>2 DEF Pending
  <2> QED
    BY <2>1, <2>2 DEF NetInv, NetAt, Reached
<1> QED
  BY <1>1, RouteHolds, NetHolds, PTL
=============================================================================

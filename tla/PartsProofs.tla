----------------------------- MODULE PartsProofs -----------------------------
(***************************************************************************)
(* The parts MCParts checks.  GithubHook, proved for every set of          *)
(* repositories and of calls in flight and every number of requests and    *)
(* failures; MountMigration, for every set of mounts and files, every      *)
(* number of versions and of faults; HistoryAudit, for every set of        *)
(* revisions, retention limit and number of rows; GroupNetworks, for every *)
(* set of projects, services, groups and syncs and every number of changes *)
(* and outages.                                                            *)
(***************************************************************************)
EXTENDS HistoryAudit, DeploymentHistoryProofs, GithubHook, MountMigration, GroupNetworks, TLAPS

-----------------------------------------------------------------------------
(* GithubHook: the inductive invariant *)

HookRow == [here : BOOLEAN, trigger : Triggers, url : Nat, hook : Nat, repo : Repos \cup {NoRepo}]
CallRecord ==
  [pc : {"idle", "leaving", "creating", "created", "deleting", "deleted"},
   then : {"none", "poller", "manual", "reinstall", "move", "delete"},
   repo : Repos \cup {NoRepo}, url : Nat, hook : Nat, newRepo : Repos \cup {NoRepo}]
HookRecord == [id : Nat, repo : Repos, url : Nat \ {0}]

HookTypeOK ==
  /\ project \in HookRow /\ published \in BOOLEAN
  /\ hooks \subseteq HookRecord
  /\ call \in [Calls -> CallRecord]
  /\ urls \in Nat /\ ids \in Nat

\* What a call in flight is for
Purposeful(x) ==
  /\ x.pc \in {"leaving", "deleting", "deleted"} => x.then # "none"
  /\ x.pc = "leaving" => x.then = "delete"
  /\ x.pc = "creating" => x.repo # NoRepo /\ x.url # None
  /\ x.then = "move" /\ x.newRepo = NoRepo => cleared
Purposes == \A c \in Calls : Purposeful(call[c])

\* Hooks are told apart by their id.
HookIds == /\ \A h \in hooks : h.id \in 1 .. ids
           /\ \A g, h \in hooks : g.id = h.id => g = h

\* All hooks on GitHub are known, but for failures, and the one the project knows is there.
Known == /\ \A h \in hooks : (project.here /\ h.id = project.hook) \/ h.id \in failed
         /\ project.here /\ project.hook # None =>
              [id |-> project.hook, repo |-> project.repo, url |-> project.url] \in hooks

AllFailed == \A h \in hooks : h.id \in failed

\* The same in the middle of a call that runs alone
Stage(x) ==
  /\ x.pc = "leaving" => project.here /\ Known /\ x.hook = project.hook
  /\ x.pc = "creating" => /\ project.here /\ project.hook = None
                          /\ x.repo = project.repo /\ x.url = project.url /\ AllFailed
  /\ x.pc = "created" => /\ project.here /\ project.hook = None
                         /\ \A h \in hooks : h.id = x.hook \/ h.id \in failed
                         /\ [id |-> x.hook, repo |-> project.repo, url |-> project.url] \in hooks
  /\ x.pc = "deleting" => /\ project.here
                          /\ \A h \in hooks : h.id = x.hook \/ h.id \in failed
                          /\ [id |-> x.hook, repo |-> x.repo, url |-> project.url] \in hooks
  /\ x.pc = "deleted" => project.here /\ AllFailed

LoneCall ==
  ~overlapped /\ ~cut =>
    /\ Quiet => Known
    /\ \A c \in Calls : call[c].pc # "idle" =>
         Stage(call[c]) /\ \A d \in Calls \ {c} : call[d].pc = "idle"

HookInv == HookTypeOK /\ Purposes /\ TriggerHasUrl /\ HookIds /\ LoneCall

-----------------------------------------------------------------------------
(* What the parts of a call do to the row *)

LEMMA NoCallType == NoCall \in CallRecord /\ NoCall.pc = "idle" /\ Purposeful(NoCall)
BY DEF NoCall, CallRecord, Purposeful, None

(* A row the project is given when its hook is off GitHub: it knows no hook, and c has ended,
   or is about to create one for the row as it is. *)
Freed(c, r, x) ==
  /\ project' \in HookRow /\ urls' \in Nat /\ x \in CallRecord
  /\ call' = [call EXCEPT ![c] = x]
  /\ project'.hook = None /\ project'.repo = r.repo
  /\ \/ x = NoCall
     \/ /\ x.pc = "creating" /\ x.then = "none" /\ project'.here
        /\ x.repo = r.repo /\ r.repo # NoRepo /\ x.url = project'.url /\ x.url # None

LEMMA EnableFrees ==
  ASSUME NEW c \in Calls, NEW r \in HookRow, r.here, Minted(r).hook = None, r.repo # NoRepo,
         urls \in Nat, Enable(c, r)
  PROVE  /\ \E x : Freed(c, r, x)
         /\ project'.trigger = "webhook" /\ project'.url # None
<1> DEFINE m == Minted(r)
           x == [NoCall EXCEPT !.pc = "creating", !.repo = m.repo, !.url = m.url]
<1>1. /\ m \in HookRow /\ m.here /\ m.hook = None /\ m.repo = r.repo /\ m.trigger = "webhook" /\ m.url # None
      /\ m.url \in Nat /\ m.repo \in Repos \cup {NoRepo}
  <2>1. CASE r.url # None
    <3>1. m = [r EXCEPT !.trigger = "webhook"]
      BY <2>1 DEF Minted
    <3> QED
      BY <2>1, <3>1 DEF HookRow, Triggers, Minted
  <2>2. CASE r.url = None
    <3>1. PICK u \in Nat \ {0} : u = urls + 1
      OBVIOUS
    <3>2. m = [r EXCEPT !.trigger = "webhook", !.url = u, !.hook = 0]
      BY <2>2, <3>1 DEF Minted, None
    <3>3. m.here = r.here /\ m.hook = 0 /\ m.repo = r.repo /\ m.trigger = "webhook" /\ m.url = u
      BY <3>2 DEF HookRow
    <3>4. m \in HookRow
      <4>1. m = [here |-> r.here, trigger |-> "webhook", url |-> u, hook |-> 0, repo |-> r.repo]
        BY <3>2 DEF HookRow
      <4> QED
        BY <4>1 DEF HookRow, Triggers
    <3>5. m.repo \in Repos \cup {NoRepo} /\ m.url # None /\ m.url \in Nat
      BY <3>1, <3>3, <3>4 DEF HookRow, None
    <3> QED
      BY <3>3, <3>4, <3>5 DEF None
  <2> QED
    BY <2>1, <2>2
<1>2. /\ project' = m /\ call' = [call EXCEPT ![c] = x] /\ urls' \in Nat
  BY <1>1 DEF Enable
<1>3. x \in CallRecord /\ x.pc = "creating" /\ x.then = "none" /\ x.repo = m.repo /\ x.url = m.url
  BY <1>1 DEF NoCall, CallRecord, None
<1>4. Freed(c, r, x)
  BY <1>1, <1>2, <1>3 DEF Freed
<1> QED
  BY <1>1, <1>2, <1>4

LEMMA ContinueFrees ==
  ASSUME NEW c \in Calls, NEW r \in HookRow, r.here, NEW op \in CallRecord, op.then # "none",
         urls \in Nat, Continue(c, op, r)
  PROVE  /\ \E x : Freed(c, r, x)
         /\ project'.here => \/ project'.trigger = "webhook" <=> project'.url # None
                             \/ ~(r.trigger = "webhook" <=> r.url # None)
                             \/ op.then = "move" /\ op.newRepo = NoRepo
<1> DEFINE bare == [r EXCEPT !.hook = None]
           moves == op.then = "move" /\ op.newRepo # NoRepo
           enables == r.here /\ r.repo # NoRepo /\ published /\ (op.then = "reinstall" \/ moves)
           trigger == IF op.then \in Triggers THEN op.then
                      ELSE IF moves /\ ~enables THEN "poller" ELSE r.trigger
           gone == [bare EXCEPT !.url = None, !.trigger = trigger, !.here = op.then # "delete"]
           written == IF op.then = "reinstall" THEN bare ELSE gone
<1>1. bare \in HookRow /\ bare.hook = None /\ bare.repo = r.repo /\ bare.here /\ bare.url = r.url
      /\ bare.trigger = r.trigger
  BY DEF HookRow, None
<1>2. /\ gone \in HookRow /\ gone.hook = None /\ gone.repo = r.repo /\ gone.here = (op.then # "delete")
      /\ gone.url = None /\ gone.trigger = trigger
  BY <1>1 DEF HookRow, None, Triggers
<1>3. written \in HookRow /\ written.hook = None /\ written.repo = r.repo
  BY <1>1, <1>2
<1>4. CASE enables
  <2>1. Enable(c, written)
    BY <1>4 DEF Continue
  <2>2. written.here /\ Minted(written).hook = None
    <3>1. written.here
      BY <1>1, <1>2, <1>4
    <3>2. CASE written.url # None
      BY <1>3, <3>1, <3>2 DEF Minted, HookRow
    <3>3. CASE written.url = None
      BY <1>3, <3>1, <3>3 DEF Minted, HookRow
    <3> QED
      BY <3>2, <3>3
  <2>3. \E x : Freed(c, written, x)
    BY <1>3, <1>4, <2>1, <2>2, EnableFrees
  <2>4. project'.trigger = "webhook" /\ project'.url # None
    BY <1>3, <1>4, <2>1, <2>2, EnableFrees
  <2> QED
    BY <1>3, <2>3, <2>4 DEF Freed
<1>5. CASE ~enables
  <2>1. project' = written /\ call' = [call EXCEPT ![c] = NoCall] /\ urls' = urls
    BY <1>5 DEF Continue
  <2>2. Freed(c, r, NoCall)
    BY <1>3, <2>1, NoCallType DEF Freed
  <2>3. CASE op.then = "reinstall"
    BY <1>1, <2>1, <2>2, <2>3
  <2>4. CASE op.then # "reinstall"
    <3>1. op.then \in {"poller", "manual", "move", "delete"}
      BY <2>4 DEF CallRecord
    <3>2. op.then \in {"poller", "manual"} => trigger # "webhook"
      BY DEF Triggers
    <3>3. moves => trigger = "poller"
      BY <1>5 DEF Triggers
    <3> QED
      BY <1>2, <2>1, <2>2, <2>4, <3>1, <3>2, <3>3
  <2> QED
    BY <2>3, <2>4
<1> QED
  BY <1>4, <1>5

-----------------------------------------------------------------------------
(* What keeps the invariant *)

LEMMA CallStep ==
  ASSUME HookInv, NEW c \in Calls, NEW x \in CallRecord, call' = [call EXCEPT ![c] = x],
         project' \in HookRow, published' \in BOOLEAN, urls' \in Nat, cleared => cleared',
         Purposeful(x)', TriggerHasUrl',
         hooks' \subseteq HookRecord, ids' \in Nat, HookIds',
         ~overlapped' /\ ~cut' => /\ \A d \in Calls \ {c} : call[d].pc = "idle"
                                  /\ x.pc = "idle" => Known'
                                  /\ x.pc # "idle" => Stage(x)'
  PROVE  HookInv'
<1>1. call \in [Calls -> CallRecord]
  BY DEF HookInv, HookTypeOK
<1>2. call' \in [Calls -> CallRecord] /\ \A d \in Calls : call'[d] = IF d = c THEN x ELSE call[d]
  BY <1>1
<1>3. HookTypeOK'
  BY <1>2 DEF HookTypeOK
<1>4. Purposes'
  BY <1>2 DEF HookInv, Purposes, Purposeful
<1>5. LoneCall'
  <2>1. ASSUME ~overlapped', ~cut' PROVE Quiet' => Known'
    BY <1>2, <2>1 DEF Quiet
  <2>2. ASSUME ~overlapped', ~cut', NEW e \in Calls, call'[e].pc # "idle"
        PROVE  Stage(call[e])' /\ \A d \in Calls \ {e} : call'[d].pc = "idle"
    <3>1. e = c /\ call'[e] = x
      BY <1>2, <2>2
    <3>2. Stage(x)'
      BY <2>2, <3>1
    <3>3. Stage(call[e])'
      BY <3>1, <3>2 DEF Stage
    <3> QED
      BY <1>2, <2>2, <3>1, <3>3
  <2> QED
    BY <2>1, <2>2 DEF LoneCall
<1> QED
  BY <1>3, <1>4, <1>5 DEF HookInv

(* A hook that is known can be found and named. *)
LEMMA KnownHook ==
  ASSUME HookInv, Known, project.here
  PROVE  /\ project.hook # None => project.repo # NoRepo /\ project.url # None
         /\ project.hook = None => AllFailed
<1>1. ASSUME project.hook # None PROVE project.repo # NoRepo /\ project.url # None
  <2>1. [id |-> project.hook, repo |-> project.repo, url |-> project.url] \in HookRecord
    BY <1>1 DEF Known, HookInv, HookTypeOK
  <2> QED
    BY <2>1, HookAssumption DEF HookRecord, None
<1>2. ASSUME project.hook = None PROVE AllFailed
  BY <1>2 DEF Known, HookInv, HookIds, HookTypeOK, HookRecord, AllFailed, None
<1> QED
  BY <1>1, <1>2

LEMMA FreedKeeps ==
  ASSUME HookInv, NEW c \in Calls, NEW r \in HookRow, NEW x, Freed(c, r, x),
         UNCHANGED <<published, hooks, ids, failed>>, cleared => cleared', TriggerHasUrl',
         ~overlapped' /\ ~cut' => AllFailed /\ \A d \in Calls \ {c} : call[d].pc = "idle"
  PROVE  HookInv'
<1>1. /\ x \in CallRecord /\ call' = [call EXCEPT ![c] = x] /\ project' \in HookRow /\ urls' \in Nat
      /\ project'.hook = None /\ project'.repo = r.repo
  BY DEF Freed
<1>2. published' \in BOOLEAN /\ hooks' \subseteq HookRecord /\ ids' \in Nat /\ HookIds'
  BY DEF HookInv, HookTypeOK, HookIds
<1>3. CASE x = NoCall
  <2>1. Purposeful(x)' /\ x.pc = "idle"
    BY <1>3 DEF NoCall, Purposeful
  <2>2. AllFailed => Known'
    BY <1>1 DEF AllFailed, Known
  <2> QED
    BY <1>1, <1>2, <2>1, <2>2, CallStep
<1>4. CASE /\ x.pc = "creating" /\ x.then = "none" /\ project'.here
           /\ x.repo = r.repo /\ r.repo # NoRepo /\ x.url = project'.url /\ x.url # None
  <2>1. Purposeful(x)'
    BY <1>4 DEF Purposeful
  <2>2. AllFailed => Stage(x)'
    BY <1>1, <1>4 DEF AllFailed, Stage
  <2> QED
    BY <1>1, <1>2, <1>4, <2>1, <2>2, CallStep
<1> QED
  BY <1>3, <1>4 DEF Freed

LEMMA ContinueKeeps ==
  ASSUME HookInv, NEW c \in Calls, NEW r \in HookRow, r.here, NEW op \in CallRecord, op.then # "none",
         Continue(c, op, r), UNCHANGED <<published, hooks, ids, failed>>, cleared => cleared',
         (r.trigger = "webhook" <=> r.url # None) \/ cleared',
         op.then = "move" /\ op.newRepo = NoRepo => cleared',
         ~overlapped' /\ ~cut' => AllFailed /\ \A d \in Calls \ {c} : call[d].pc = "idle"
  PROVE  HookInv'
<1>0. urls \in Nat
  BY DEF HookInv, HookTypeOK
<1>1. PICK x : Freed(c, r, x)
  BY <1>0, ContinueFrees
<1>2. project'.here => \/ project'.trigger = "webhook" <=> project'.url # None
                       \/ ~(r.trigger = "webhook" <=> r.url # None)
                       \/ op.then = "move" /\ op.newRepo = NoRepo
  BY <1>0, ContinueFrees
<1>3. TriggerHasUrl'
  BY <1>2 DEF TriggerHasUrl
<1> QED
  BY <1>1, <1>3, FreedKeeps

(* The project was deleted meanwhile: a call that goes on finds no row. *)
LEMMA ContinueGone ==
  ASSUME HookInv, NEW c \in Calls, NEW op, ~project.here, Continue(c, op, project),
         call[c].pc \in {"leaving", "deleted"}, UNCHANGED <<published, hooks, ids, history>>
  PROVE  HookInv'
<1>1. project' = project /\ call' = [call EXCEPT ![c] = NoCall] /\ urls' = urls
  BY DEF Continue
<1>2. overlapped' \/ cut'
  BY DEF HookInv, LoneCall, Stage, history
<1>3. /\ project' \in HookRow /\ published' \in BOOLEAN /\ urls' \in Nat /\ cleared' = cleared
      /\ hooks' \subseteq HookRecord /\ ids' \in Nat
  BY <1>1 DEF HookInv, HookTypeOK, history
<1>4. TriggerHasUrl' /\ HookIds' /\ Purposeful(NoCall)'
  BY <1>1, <1>3 DEF HookInv, TriggerHasUrl, HookIds, NoCall, Purposeful
<1> QED
  BY <1>1, <1>2, <1>3, <1>4, NoCallType, CallStep

LEMMA RemovingKeeps ==
  ASSUME HookInv, NEW c \in Calls, NEW r \in HookRow, r.here, NEW op \in CallRecord, op.then # "none",
         Removing(c, op, r), UNCHANGED <<published, hooks, ids, failed>>, cleared => cleared',
         (r.trigger = "webhook" <=> r.url # None) \/ cleared',
         op.then = "move" /\ op.newRepo = NoRepo => cleared',
         ~overlapped' /\ ~cut' =>
           /\ project.here /\ Known /\ \A d \in Calls \ {c} : call[d].pc = "idle"
           /\ r.hook = project.hook /\ r.url = project.url /\ (r.hook # None => op.repo = project.repo)
  PROVE  HookInv'
<1>1. CASE r.hook # None /\ op.repo # NoRepo
  <2> DEFINE x == [op EXCEPT !.pc = "deleting", !.hook = r.hook]
  <2>1. project' = r /\ call' = [call EXCEPT ![c] = x] /\ urls' = urls
    BY <1>1 DEF Removing
  <2>2. /\ x \in CallRecord /\ x.pc = "deleting" /\ x.hook = r.hook /\ x.then = op.then
        /\ x.repo = op.repo /\ x.newRepo = op.newRepo
    BY DEF CallRecord, HookRow
  <2>3. Purposeful(x)' /\ TriggerHasUrl'
    BY <2>1, <2>2 DEF Purposeful, TriggerHasUrl
  <2>4. /\ project' \in HookRow /\ published' \in BOOLEAN /\ urls' \in Nat
        /\ hooks' \subseteq HookRecord /\ ids' \in Nat /\ HookIds'
    BY <2>1 DEF HookInv, HookTypeOK, HookIds
  <2>5. ~overlapped' /\ ~cut' => Stage(x)'
    <3> SUFFICES ASSUME ~overlapped', ~cut' PROVE Stage(x)'
      OBVIOUS
    <3>1. /\ \A h \in hooks' : h.id = x.hook \/ h.id \in failed'
          /\ [id |-> x.hook, repo |-> x.repo, url |-> project'.url] \in hooks'
      BY <1>1, <2>1, <2>2 DEF Known
    <3> QED
      BY <2>1, <2>2, <3>1 DEF Stage
  <2> QED
    BY <2>1, <2>2, <2>3, <2>4, <2>5, CallStep
<1>2. CASE ~(r.hook # None /\ op.repo # NoRepo)
  <2>1. Continue(c, op, r)
    BY <1>2 DEF Removing
  <2>2. ~overlapped' /\ ~cut' => AllFailed
    BY <1>2, KnownHook
  <2> QED
    BY <2>1, <2>2, ContinueKeeps
<1> QED
  BY <1>1, <1>2

-----------------------------------------------------------------------------
(* GithubHook: every action *)

LEMMA Requested ==
  ASSUME HookInv, NEW c \in Calls, Request(c)
  PROVE  /\ project \in HookRow /\ project.here /\ call[c].pc = "idle" /\ cut' = cut
         /\ ~overlapped' /\ ~cut' => /\ ~overlapped /\ ~cut /\ Known
                                     /\ \A d \in Calls \ {c} : call[d].pc = "idle"
BY DEF Request, HookInv, HookTypeOK, LoneCall, Quiet

(* A row that only changes what no hook depends on *)
LEMMA RowKeeps ==
  ASSUME HookInv, NEW c \in Calls, Request(c), NEW r \in HookRow, project' = r, UNCHANGED call,
         UNCHANGED <<published, hooks, ids, failed, urls>>, cleared => cleared', TriggerHasUrl',
         ~overlapped' /\ ~cut' => Known'
  PROVE  HookInv'
<1>1. PICK x \in CallRecord : x = call[c]
  BY DEF HookInv, HookTypeOK
<1>2. call' = [call EXCEPT ![c] = x] /\ Purposeful(x)
  BY <1>1 DEF HookInv, HookTypeOK, Purposes
<1>3. Purposeful(x)'
  BY <1>2 DEF Purposeful
<1>4. /\ published' \in BOOLEAN /\ urls' \in Nat /\ hooks' \subseteq HookRecord /\ ids' \in Nat
      /\ HookIds'
  BY DEF HookInv, HookTypeOK, HookIds
<1>5. /\ x.pc = "idle"
      /\ ~overlapped' /\ ~cut' => \A d \in Calls \ {c} : call[d].pc = "idle"
  BY <1>1, Requested
<1> QED
  BY <1>1, <1>2, <1>3, <1>4, <1>5, CallStep

LEMMA PutWebhookKeeps ==
  ASSUME HookInv, NEW c \in Calls, PutWebhook(c)
  PROVE  HookInv'
<1>1. /\ Request(c) /\ project.repo # NoRepo /\ Enable(c, project)
      /\ UNCHANGED <<published, hooks, ids, failed, cleared>>
  BY DEF PutWebhook
<1>2. project \in HookRow /\ project.here /\ urls \in Nat
  BY <1>1, Requested DEF HookInv, HookTypeOK
<1>3. ~overlapped' /\ ~cut' => Known /\ \A d \in Calls \ {c} : call[d].pc = "idle"
  BY <1>1, Requested
<1>4. CASE Minted(project).hook # None
  <2>1. project.url # None /\ project.hook # None
    BY <1>2, <1>4 DEF Minted, HookRow
  <2>2. project' = [project EXCEPT !.trigger = "webhook"] /\ urls' = urls
        /\ call' = [call EXCEPT ![c] = NoCall]
    BY <1>1, <1>4, <2>1 DEF Enable, Minted
  <2>3. /\ project' \in HookRow /\ project'.here /\ project'.hook = project.hook
        /\ project'.repo = project.repo /\ project'.url = project.url /\ project'.trigger = "webhook"
    BY <1>2, <2>2 DEF HookRow, Triggers
  <2>4. TriggerHasUrl'
    BY <2>1, <2>3 DEF TriggerHasUrl
  <2>5. Known => Known'
    BY <1>1, <1>2, <2>3 DEF Known
  <2>6. /\ published' \in BOOLEAN /\ urls' \in Nat /\ hooks' \subseteq HookRecord /\ ids' \in Nat
        /\ HookIds' /\ cleared' = cleared
    BY <1>1, <2>2 DEF HookInv, HookTypeOK, HookIds
  <2>7. Purposeful(NoCall)' /\ NoCall \in CallRecord /\ NoCall.pc = "idle"
    BY NoCallType DEF Purposeful, NoCall
  <2> QED
    BY <1>3, <2>2, <2>3, <2>4, <2>5, <2>6, <2>7, CallStep
<1>5. CASE Minted(project).hook = None
  <2>1. PICK x : Freed(c, project, x)
    BY <1>1, <1>2, <1>5, EnableFrees
  <2>2. TriggerHasUrl'
    BY <1>1, <1>2, <1>5, EnableFrees DEF TriggerHasUrl
  <2>3. Known => AllFailed
    <3>1. project.hook = None \/ project.url = None
      BY <1>2, <1>5 DEF Minted, HookRow
    <3> QED
      BY <1>2, <3>1, KnownHook
  <2> QED
    BY <1>1, <1>2, <1>3, <2>1, <2>2, <2>3, FreedKeeps
<1> QED
  BY <1>4, <1>5

LEMMA PutTriggerKeeps ==
  ASSUME HookInv, NEW c \in Calls, NEW t \in Triggers \ {"webhook"}, PutTrigger(c, t)
  PROVE  HookInv'
<1>1. Request(c) /\ UNCHANGED <<published, hooks, ids, failed, cleared>>
  BY DEF PutTrigger
<1>2. /\ project \in HookRow /\ project.here
      /\ ~overlapped' /\ ~cut' => Known /\ \A d \in Calls \ {c} : call[d].pc = "idle"
  BY <1>1, Requested
<1>3. CASE project.url = None
  <2> DEFINE r == [project EXCEPT !.trigger = t]
  <2>1. project' = r /\ UNCHANGED <<call, urls>>
    BY <1>3 DEF PutTrigger
  <2>2. /\ r \in HookRow /\ r.hook = project.hook /\ r.url = None /\ r.repo = project.repo
        /\ r.trigger # "webhook" /\ r.here
    BY <1>2, <1>3 DEF HookRow
  <2>3. TriggerHasUrl'
    BY <2>1, <2>2 DEF TriggerHasUrl
  <2>4. Known => Known'
    BY <1>1, <1>2, <1>3, <2>1, <2>2 DEF Known
  <2> QED
    BY <1>1, <1>2, <2>1, <2>2, <2>3, <2>4, RowKeeps
<1>4. CASE project.url # None
  <2> DEFINE op == [NoCall EXCEPT !.then = t, !.repo = project.repo]
  <2>1. Removing(c, op, project)
    BY <1>4 DEF PutTrigger
  <2>2. op \in CallRecord /\ op.then = t /\ op.then # "none" /\ op.then # "move" /\ op.repo = project.repo
    BY <1>2 DEF HookRow, CallRecord, NoCall, Triggers, None
  <2>3. (project.trigger = "webhook" <=> project.url # None) \/ cleared'
    BY <1>1, <1>2 DEF HookInv, TriggerHasUrl
  <2> HIDE DEF op
  <2> QED
    BY <1>1, <1>2, <2>1, <2>2, <2>3, RemovingKeeps
<1> QED
  BY <1>3, <1>4

LEMMA ReinstallKeeps ==
  ASSUME HookInv, NEW c \in Calls, Reinstall(c)
  PROVE  HookInv'
<1> DEFINE op == [NoCall EXCEPT !.then = "reinstall", !.repo = project.repo]
<1>1. Request(c) /\ UNCHANGED <<published, hooks, ids, failed, cleared>> /\ Removing(c, op, project)
  BY DEF Reinstall
<1>2. /\ project \in HookRow /\ project.here
      /\ ~overlapped' /\ ~cut' => Known /\ \A d \in Calls \ {c} : call[d].pc = "idle"
  BY <1>1, Requested
<1>3. op \in CallRecord /\ op.then = "reinstall" /\ op.repo = project.repo
  BY <1>2 DEF HookRow, CallRecord, NoCall, None
<1>4. (project.trigger = "webhook" <=> project.url # None) \/ cleared'
  BY <1>1, <1>2 DEF HookInv, TriggerHasUrl
<1> HIDE DEF op
<1> QED
  BY <1>1, <1>2, <1>3, <1>4, RemovingKeeps

(* The row names the new repository at once; its hook is looked for where it is. *)
LEMMA SetRepoKeeps ==
  ASSUME HookInv, NEW c \in Calls, NEW q \in Repos \cup {NoRepo}, SetRepo(c, q)
  PROVE  HookInv'
<1> DEFINE r == [project EXCEPT !.repo = q]
           op == [NoCall EXCEPT !.then = "move",
                                !.repo = IF project.repo = NoRepo THEN q ELSE project.repo,
                                !.newRepo = IF project.trigger = "webhook" THEN q ELSE NoRepo]
<1>1. /\ Request(c) /\ UNCHANGED <<published, hooks, ids, failed>>
      /\ cleared' = (cleared \/ (q = NoRepo /\ project.trigger = "webhook"))
  BY DEF SetRepo
<1>2. /\ project \in HookRow /\ project.here
      /\ ~overlapped' /\ ~cut' => Known /\ \A d \in Calls \ {c} : call[d].pc = "idle"
  BY <1>1, Requested
<1>3. /\ r \in HookRow /\ r.hook = project.hook /\ r.url = project.url /\ r.repo = q
      /\ r.trigger = project.trigger /\ r.here
  BY <1>2 DEF HookRow
<1>4. (project.trigger = "webhook" <=> project.url # None) \/ cleared
  BY <1>2 DEF HookInv, TriggerHasUrl
<1>5. CASE project.url = None
  <2>1. project' = r /\ UNCHANGED <<call, urls>>
    BY <1>5 DEF SetRepo
  <2>2. TriggerHasUrl'
    BY <1>1, <1>3, <1>4, <2>1 DEF TriggerHasUrl
  <2>3. Known => Known'
    <3>1. Known => project.hook = None /\ AllFailed
      BY <1>2, <1>5, KnownHook
    <3> QED
      BY <1>1, <1>3, <2>1, <3>1 DEF Known, AllFailed
  <2> HIDE DEF r
  <2> QED
    BY <1>1, <1>2, <1>3, <2>1, <2>2, <2>3, RowKeeps
<1>6. CASE project.url # None
  <2>1. Removing(c, op, r)
    BY <1>6 DEF SetRepo
  <2>2. /\ op \in CallRecord /\ op.then = "move"
        /\ op.repo = IF project.repo = NoRepo THEN q ELSE project.repo
        /\ op.newRepo = IF project.trigger = "webhook" THEN q ELSE NoRepo
    BY <1>2 DEF HookRow, CallRecord, NoCall, None
  <2>3. op.newRepo = NoRepo => cleared'
    BY <1>1, <1>4, <1>6, <2>2
  <2>4. (r.trigger = "webhook" <=> r.url # None) \/ cleared'
    BY <1>1, <1>3, <1>4
  <2>5. Known => (r.hook # None => op.repo = project.repo)
    BY <1>2, <1>3, <2>2, KnownHook
  <2> HIDE DEF r, op
  <2> QED
    BY <1>1, <1>2, <1>3, <2>1, <2>2, <2>3, <2>4, <2>5, RemovingKeeps
<1> QED
  BY <1>5, <1>6

LEMMA DeleteProjectKeeps ==
  ASSUME HookInv, NEW c \in Calls, DeleteProject(c)
  PROVE  HookInv'
<1>1. PICK x : x = [NoCall EXCEPT !.pc = "leaving", !.then = "delete", !.hook = project.hook]
  OBVIOUS
<1>2. /\ Request(c) /\ call' = [call EXCEPT ![c] = x]
      /\ UNCHANGED <<project, published, hooks, urls, ids, failed, cleared>>
  BY <1>1 DEF DeleteProject
<1>3. /\ project \in HookRow /\ project.here
      /\ ~overlapped' /\ ~cut' => Known /\ \A d \in Calls \ {c} : call[d].pc = "idle"
  BY <1>2, Requested
<1>4. x \in CallRecord /\ x.pc = "leaving" /\ x.then = "delete" /\ x.hook = project.hook
  BY <1>1, <1>3 DEF HookRow, CallRecord, NoCall, None
<1>5. /\ project' \in HookRow /\ published' \in BOOLEAN /\ urls' \in Nat /\ cleared' = cleared
      /\ hooks' \subseteq HookRecord /\ ids' \in Nat /\ HookIds'
  BY <1>2 DEF HookInv, HookTypeOK, HookIds
<1>6. Purposeful(x)' /\ TriggerHasUrl'
  BY <1>2, <1>4 DEF HookInv, Purposeful, TriggerHasUrl
<1>7. Known => Stage(x)'
  <2> SUFFICES ASSUME Known PROVE Stage(x)'
    OBVIOUS
  <2>1. Known'
    BY <1>2 DEF Known
  <2> QED
    BY <1>2, <1>3, <1>4, <2>1 DEF Stage
<1>8. ~overlapped' /\ ~cut' => /\ \A d \in Calls \ {c} : call[d].pc = "idle"
                               /\ x.pc = "idle" => Known'
                               /\ x.pc # "idle" => Stage(x)'
  BY <1>3, <1>4, <1>7
<1>9. x \in CallRecord /\ call' = [call EXCEPT ![c] = x] /\ (cleared => cleared')
  BY <1>2, <1>4
<1> QED
  BY <1>5, <1>6, <1>8, <1>9, CallStep

(* Facts about a call in flight *)
LEMMA InFlightCall ==
  ASSUME HookInv, NEW c \in Calls, call[c].pc # "idle"
  PROVE  /\ call[c] \in CallRecord /\ Purposeful(call[c])
         /\ ~overlapped /\ ~cut => Stage(call[c]) /\ \A d \in Calls \ {c} : call[d].pc = "idle"
BY DEF HookInv, HookTypeOK, Purposes, LoneCall

(* A call that ends without a trace on the row *)
LEMMA EndKeeps ==
  ASSUME HookInv, NEW c \in Calls, call' = [call EXCEPT ![c] = NoCall],
         UNCHANGED <<published, hooks, ids, urls, overlapped, cut, cleared>>,
         project' \in HookRow, TriggerHasUrl', call[c].pc # "idle",
         ~overlapped /\ ~cut => Known'
  PROVE  HookInv'
<1>1. ~overlapped /\ ~cut => \A d \in Calls \ {c} : call[d].pc = "idle"
  BY InFlightCall
<1>2. /\ published' \in BOOLEAN /\ urls' \in Nat /\ hooks' \subseteq HookRecord /\ ids' \in Nat
      /\ HookIds'
  BY DEF HookInv, HookTypeOK, HookIds
<1>3. Purposeful(NoCall)'
  BY DEF NoCall, Purposeful
<1> QED
  BY <1>1, <1>2, <1>3, NoCallType, CallStep

LEMMA DeleteRowKeeps ==
  ASSUME HookInv, NEW c \in Calls, DeleteRow(c)
  PROVE  HookInv'
<1>1. /\ call[c].pc = "leaving" /\ UNCHANGED <<published, hooks, ids, history>>
      /\ UNCHANGED <<failed, overlapped, cut, cleared>>
  BY DEF DeleteRow, history
<1>2. /\ call[c] \in CallRecord /\ call[c].then = "delete" /\ project \in HookRow
      /\ ~overlapped /\ ~cut => /\ project.here /\ Known /\ call[c].hook = project.hook
                                /\ \A d \in Calls \ {c} : call[d].pc = "idle"
  BY <1>1, InFlightCall DEF Purposeful, Stage, HookInv, HookTypeOK
<1>3. PICK op : op = [call[c] EXCEPT !.repo = project.repo]
  OBVIOUS
<1>4. op \in CallRecord /\ op.then = "delete" /\ op.hook = call[c].hook /\ op.repo = project.repo
  BY <1>2, <1>3 DEF CallRecord, HookRow
<1>5. project.here => (project.trigger = "webhook" <=> project.url # None) \/ cleared'
  BY <1>1 DEF HookInv, TriggerHasUrl
<1>6. CASE Removing(c, op, project) /\ project.here
  BY <1>1, <1>2, <1>4, <1>5, <1>6, RemovingKeeps
<1>7. CASE Continue(c, op, project) /\ project.here /\ op.hook = None
  <2>1. ~overlapped /\ ~cut => AllFailed
    BY <1>2, <1>4, <1>7, KnownHook
  <2> QED
    BY <1>1, <1>2, <1>4, <1>5, <1>7, <2>1, ContinueKeeps
<1>8. CASE (Removing(c, op, project) \/ Continue(c, op, project)) /\ ~project.here
  <2>1. Continue(c, op, project)
    BY <1>8 DEF Removing
  <2> QED
    BY <1>1, <1>8, <2>1, ContinueGone
<1>9. CASE call' = [call EXCEPT ![c] = NoCall] /\ UNCHANGED <<project, urls>>
  <2>1. project' \in HookRow /\ TriggerHasUrl'
    BY <1>1, <1>2, <1>9 DEF HookInv, TriggerHasUrl
  <2>2. ~overlapped /\ ~cut => Known'
    BY <1>1, <1>2, <1>9 DEF Known
  <2> QED
    BY <1>1, <1>9, <2>1, <2>2, EndKeeps
<1> QED
  BY <1>3, <1>6, <1>7, <1>8, <1>9 DEF DeleteRow

LEMMA CreateKeeps ==
  ASSUME HookInv, NEW c \in Calls, Create(c)
  PROVE  HookInv'
<1>1. /\ call[c].pc = "creating"
      /\ UNCHANGED <<project, published, urls, failed, overlapped, cut, cleared>>
  BY DEF Create, history
<1>2. /\ call[c] \in CallRecord /\ project \in HookRow /\ call[c].repo \in Repos /\ call[c].url \in Nat \ {0}
      /\ call[c].then = "move" /\ call[c].newRepo = NoRepo => cleared
      /\ ~overlapped /\ ~cut => /\ project.here /\ project.hook = None /\ AllFailed
                                /\ call[c].repo = project.repo /\ call[c].url = project.url
                                /\ \A d \in Calls \ {c} : call[d].pc = "idle"
  BY <1>1, InFlightCall DEF CallRecord, Purposeful, Stage, HookInv, HookTypeOK, None
<1>3. TriggerHasUrl'
  BY <1>1 DEF HookInv, TriggerHasUrl
<1>4. CASE End(c) /\ UNCHANGED <<hooks, ids>>
  <2>1. ~overlapped /\ ~cut => Known'
    BY <1>1, <1>2, <1>4 DEF Known, AllFailed
  <2> QED
    BY <1>1, <1>2, <1>3, <1>4, <2>1, EndKeeps DEF End
<1>5. CASE /\ hooks' = hooks \cup {[id |-> ids + 1, repo |-> call[c].repo, url |-> call[c].url]}
           /\ ids' = ids + 1
           /\ call' = [call EXCEPT ![c].pc = "created", ![c].hook = ids + 1]
  <2>1. PICK i \in Nat : i = ids + 1
    BY DEF HookInv, HookTypeOK
  <2>2. PICK h : h = [id |-> i, repo |-> call[c].repo, url |-> call[c].url]
    OBVIOUS
  <2>3. PICK x : x = [call[c] EXCEPT !.pc = "created", !.hook = i]
    OBVIOUS
  <2>4. hooks' = hooks \cup {h} /\ h \in HookRecord
    BY <1>2, <1>5, <2>1, <2>2 DEF HookRecord
  <2>5. call' = [call EXCEPT ![c] = x]
    BY <1>5, <2>1, <2>3 DEF HookInv, HookTypeOK
  <2>6. /\ x \in CallRecord /\ x.pc = "created" /\ x.hook = i /\ x.then = call[c].then
        /\ x.newRepo = call[c].newRepo
    BY <1>2, <2>3 DEF CallRecord
  <2>7. HookIds'
    <3>1. ids \in Nat /\ hooks \subseteq HookRecord /\ \A g \in hooks : g.id \in 1 .. ids
      BY DEF HookInv, HookTypeOK, HookIds
    <3>2. h.id = i /\ i \in 1 .. ids' /\ \A g \in hooks : g.id # i /\ g.id \in 1 .. ids'
      BY <1>5, <2>1, <2>2, <3>1
    <3> QED
      BY <2>4, <3>2 DEF HookInv, HookIds
  <2>8. Purposeful(x)'
    BY <1>1, <1>2, <2>6 DEF Purposeful
  <2>9. ~overlapped /\ ~cut => Stage(x)'
    <3> SUFFICES ASSUME ~overlapped, ~cut PROVE Stage(x)'
      OBVIOUS
    <3>1. /\ \A g \in hooks' : g.id = x.hook \/ g.id \in failed'
          /\ [id |-> x.hook, repo |-> project'.repo, url |-> project'.url] \in hooks'
      BY <1>1, <1>2, <2>2, <2>4, <2>6 DEF AllFailed
    <3> QED
      BY <1>1, <1>2, <2>6, <3>1 DEF Stage
  <2>10. /\ project' \in HookRow /\ published' \in BOOLEAN /\ urls' \in Nat /\ ids' \in Nat
         /\ hooks' \subseteq HookRecord
    BY <1>1, <1>5, <2>1, <2>4 DEF HookInv, HookTypeOK
  <2> QED
    BY <1>1, <1>2, <1>3, <2>5, <2>6, <2>7, <2>8, <2>9, <2>10, CallStep
<1> QED
  BY <1>4, <1>5 DEF Create

LEMMA CreatedKeeps ==
  ASSUME HookInv, NEW c \in Calls, Created(c)
  PROVE  HookInv'
<1>1. /\ call[c].pc = "created" /\ call' = [call EXCEPT ![c] = NoCall]
      /\ UNCHANGED <<published, hooks, urls, ids, overlapped, cut, cleared>>
  BY DEF Created, End
<1>2. /\ call[c] \in CallRecord /\ project \in HookRow
      /\ ~overlapped /\ ~cut =>
           /\ project.here /\ project.hook = None
           /\ \A h \in hooks : h.id = call[c].hook \/ h.id \in failed
           /\ [id |-> call[c].hook, repo |-> project.repo, url |-> project.url] \in hooks
  BY <1>1, InFlightCall DEF Stage, HookInv, HookTypeOK
<1>3. CASE /\ project' = IF project.here THEN [project EXCEPT !.hook = call[c].hook] ELSE project
           /\ UNCHANGED failed
  <2>1. CASE project.here
    <3>1. /\ project' \in HookRow /\ project'.hook = call[c].hook /\ project'.repo = project.repo
          /\ project'.url = project.url /\ project'.trigger = project.trigger /\ project'.here
      BY <1>2, <1>3, <2>1 DEF HookRow, CallRecord
    <3>2. TriggerHasUrl'
      BY <1>1, <2>1, <3>1 DEF HookInv, TriggerHasUrl
    <3>3. ~overlapped /\ ~cut => Known'
      BY <1>1, <1>2, <1>3, <3>1 DEF Known
    <3> QED
      BY <1>1, <3>1, <3>2, <3>3, EndKeeps
  <2>2. CASE ~project.here
    <3>1. project' = project
      BY <1>3, <2>2
    <3>2. project' \in HookRow /\ TriggerHasUrl'
      BY <1>1, <1>2, <3>1 DEF HookInv, TriggerHasUrl
    <3> QED
      BY <1>1, <1>2, <2>2, <3>2, EndKeeps
  <2> QED
    BY <2>1, <2>2
<1>4. CASE project' = project /\ failed' = failed \cup {call[c].hook}
  <2>1. project' \in HookRow /\ TriggerHasUrl'
    BY <1>1, <1>2, <1>4 DEF HookInv, TriggerHasUrl
  <2>2. ~overlapped /\ ~cut => Known'
    BY <1>1, <1>2, <1>4 DEF Known
  <2> QED
    BY <1>1, <2>1, <2>2, EndKeeps
<1> QED
  BY <1>3, <1>4 DEF Created

LEMMA DeleteKeeps ==
  ASSUME HookInv, NEW c \in Calls, Delete(c)
  PROVE  HookInv'
<1>1. /\ call[c].pc = "deleting" /\ call' = [call EXCEPT ![c].pc = "deleted"]
      /\ UNCHANGED <<project, published, urls, ids, overlapped, cut, cleared>>
      /\ hooks' \subseteq hooks /\ failed \subseteq failed'
      /\ \A h \in hooks' : h.id = call[c].hook => h.repo # call[c].repo \/ h.id \in failed'
  BY DEF Delete
<1>2. /\ call[c] \in CallRecord /\ project \in HookRow
      /\ call[c].then # "none" /\ (call[c].then = "move" /\ call[c].newRepo = NoRepo => cleared)
      /\ ~overlapped /\ ~cut =>
           /\ project.here
           /\ \A h \in hooks : h.id = call[c].hook \/ h.id \in failed
           /\ [id |-> call[c].hook, repo |-> call[c].repo, url |-> project.url] \in hooks
           /\ \A d \in Calls \ {c} : call[d].pc = "idle"
  BY <1>1, InFlightCall DEF Purposeful, Stage, HookInv, HookTypeOK
<1>3. PICK x : x = [call[c] EXCEPT !.pc = "deleted"]
  OBVIOUS
<1>4. /\ x \in CallRecord /\ x.pc = "deleted" /\ x.then = call[c].then /\ x.newRepo = call[c].newRepo
  BY <1>2, <1>3 DEF CallRecord
<1>5. call' = [call EXCEPT ![c] = x]
  BY <1>1, <1>3 DEF HookInv, HookTypeOK
<1>6. Purposeful(x)' /\ TriggerHasUrl'
  BY <1>1, <1>2, <1>4 DEF Purposeful, HookInv, TriggerHasUrl
<1>7. /\ project' \in HookRow /\ published' \in BOOLEAN /\ urls' \in Nat /\ ids' \in Nat
      /\ hooks' \subseteq HookRecord /\ HookIds'
  BY <1>1, <1>2 DEF HookInv, HookTypeOK, HookIds
<1>8. ~overlapped /\ ~cut => Stage(x)'
  <2> SUFFICES ASSUME ~overlapped, ~cut PROVE Stage(x)'
    OBVIOUS
  <2>1. \A h \in hooks : h.id = call[c].hook => h.repo = call[c].repo
    BY <1>2 DEF HookInv, HookIds
  <2>2. AllFailed'
    BY <1>1, <1>2, <2>1 DEF AllFailed
  <2> QED
    BY <1>1, <1>2, <1>4, <2>2 DEF Stage
<1> QED
  BY <1>1, <1>2, <1>4, <1>5, <1>6, <1>7, <1>8, CallStep

LEMMA DeletedKeeps ==
  ASSUME HookInv, NEW c \in Calls, Deleted(c)
  PROVE  HookInv'
<1>1. /\ call[c].pc = "deleted" /\ Continue(c, call[c], project)
      /\ UNCHANGED <<published, hooks, ids, history>>
      /\ UNCHANGED <<failed, overlapped, cut, cleared>>
  BY DEF Deleted, history
<1>2. PICK op \in CallRecord : op = call[c]
  BY <1>1, InFlightCall
<1>3. /\ op.then # "none" /\ (op.then = "move" /\ op.newRepo = NoRepo => cleared) /\ project \in HookRow
      /\ ~overlapped /\ ~cut => /\ project.here /\ AllFailed
                                /\ \A d \in Calls \ {c} : call[d].pc = "idle"
  BY <1>1, <1>2, InFlightCall DEF Purposeful, Stage, HookInv, HookTypeOK
<1>4. CASE project.here
  <2>1. (project.trigger = "webhook" <=> project.url # None) \/ cleared'
    BY <1>1, <1>4 DEF HookInv, TriggerHasUrl
  <2> QED
    BY <1>1, <1>2, <1>3, <1>4, <2>1, ContinueKeeps
<1>5. CASE ~project.here
  BY <1>1, <1>2, <1>5, ContinueGone
<1> QED
  BY <1>4, <1>5

LEMMA HookCrashKeeps ==
  ASSUME HookInv, Crash
  PROVE  HookInv'
<1>1. /\ call' = [c \in Calls |-> NoCall] /\ cut' = (cut \/ ~Quiet)
      /\ UNCHANGED <<project, published, hooks, urls, ids, failed, overlapped, cleared>>
  BY DEF Crash
<1>2. HookTypeOK'
  BY <1>1, NoCallType DEF HookInv, HookTypeOK
<1>3. Purposes' /\ TriggerHasUrl' /\ HookIds'
  BY <1>1 DEF HookInv, Purposes, Purposeful, NoCall, TriggerHasUrl, HookIds
<1>4. LoneCall'
  BY <1>1, NoCallType DEF HookInv, LoneCall, Known
<1> QED
  BY <1>2, <1>3, <1>4 DEF HookInv

LEMMA PublishKeeps ==
  ASSUME HookInv, Publish \/ UNCHANGED hookVars
  PROVE  HookInv'
<1>1. /\ UNCHANGED <<project, hooks, call, urls, ids, failed, overlapped, cut, cleared>>
      /\ published' \in BOOLEAN
  BY DEF Publish, hookVars, history, HookInv, HookTypeOK
<1>2. HookTypeOK' /\ Purposes' /\ TriggerHasUrl' /\ HookIds'
  BY <1>1 DEF HookInv, HookTypeOK, Purposes, Purposeful, TriggerHasUrl, HookIds
<1>3. LoneCall'
  BY <1>1 DEF HookInv, LoneCall, Known, Stage, AllFailed, Quiet
<1> QED
  BY <1>2, <1>3 DEF HookInv

LEMMA HookInitInv == HookInit => HookInv
<1> SUFFICES ASSUME HookInit PROVE HookInv
  OBVIOUS
<1>1. /\ project \in HookRow /\ project.hook = None /\ project.url = None /\ project.trigger = "poller"
      /\ project.here /\ hooks = {} /\ call = [c \in Calls |-> NoCall] /\ ids = 0 /\ urls = 0
      /\ published = TRUE
  BY HookAssumption DEF HookInit, HookRow, Triggers, None
<1>2. HookTypeOK
  BY <1>1, NoCallType DEF HookTypeOK
<1>3. Purposes /\ TriggerHasUrl /\ HookIds
  BY <1>1, NoCallType DEF Purposes, TriggerHasUrl, HookIds
<1>4. LoneCall
  BY <1>1, NoCallType DEF LoneCall, Known
<1> QED
  BY <1>2, <1>3, <1>4 DEF HookInv

LEMMA HookInvariant == HookSpec => []HookInv
<1>1. HookInv /\ [HookNext]_hookVars => HookInv'
  <2> SUFFICES ASSUME HookInv, [HookNext]_hookVars PROVE HookInv'
    OBVIOUS
  <2>1. ASSUME NEW c \in Calls, PutWebhook(c) \/ Reinstall(c) \/ DeleteProject(c) PROVE HookInv'
    BY <2>1, PutWebhookKeeps, ReinstallKeeps, DeleteProjectKeeps
  <2>2. ASSUME NEW c \in Calls, NEW t \in Triggers \ {"webhook"}, PutTrigger(c, t) PROVE HookInv'
    BY <2>2, PutTriggerKeeps
  <2>3. ASSUME NEW c \in Calls, NEW r \in Repos \cup {NoRepo}, SetRepo(c, r) PROVE HookInv'
    BY <2>3, SetRepoKeeps
  <2>4. ASSUME NEW c \in Calls, DeleteRow(c) \/ Create(c) \/ Created(c) \/ Delete(c) \/ Deleted(c)
        PROVE  HookInv'
    BY <2>4, DeleteRowKeeps, CreateKeeps, CreatedKeeps, DeleteKeeps, DeletedKeeps
  <2>5. CASE Publish \/ Crash \/ UNCHANGED hookVars
    BY <2>5, PublishKeeps, HookCrashKeeps
  <2> QED
    BY <2>1, <2>2, <2>3, <2>4, <2>5 DEF HookNext
<1> QED
  BY <1>1, HookInitInv, PTL DEF HookSpec

(* Operations that do not overlap leave no hook on GitHub that the project does not know, but
   for failures, and the hook it knows is there: for any number of repositories, calls, requests
   and failures. *)
THEOREM HooksAccountedFor == HookSpec => []NoStrayHook
<1>1. HookInv => NoStrayHook
  BY DEF HookInv, LoneCall, Known, NoStrayHook
<1> QED
  BY <1>1, HookInvariant, PTL

(* The trigger and the URL of a project agree at every moment, whatever calls overlap, fail or
   are cut. *)
THEOREM TriggerMatchesUrl == HookSpec => []TriggerHasUrl
<1>1. HookInv => TriggerHasUrl
  BY DEF HookInv
<1> QED
  BY <1>1, HookInvariant, PTL

-----------------------------------------------------------------------------
(* MountMigration: the inductive invariant *)

Job(pcs) == [pc : pcs, todo : SUBSET Mounts, mount : SUBSET Mounts, problem : BOOLEAN]

MountTypeOK ==
  /\ original \in [Mounts -> Directory] /\ copy \in [Mounts -> Directory]
  /\ newest \in [Mounts -> [Files -> Version]]
  /\ switched \in BOOLEAN /\ release \in {"new", "old"}
  /\ containers \in [state : {"none", "running", "stopped"}, on : {"original", "copy"}]
  /\ deploy \in {"none", "original", "copy"}
  /\ migration \in Job({"idle", "check", "mounts", "copy", "verify"})
  /\ cleanup \in Job({"idle", "mounts", "managed", "list", "cover", "remove", "mark"})

\* No directory holds more than was written, and one that is not there holds nothing.
Bounded ==
  \A m \in Mounts :
    /\ \A f \in Files : original[m].file[f] <= newest[m][f] /\ copy[m].file[f] <= newest[m][f]
    /\ ~original[m].here => \A f \in Files : original[m].file[f] = 0
    /\ ~copy[m].here => \A f \in Files : copy[m].file[f] = 0

\* Before the switch nobody writes to a managed directory, and only then copies are made.
BeforeSwitch ==
  /\ migration.pc # "idle" => ~switched
  /\ ~switched => /\ deploy # "copy" /\ containers.on = "original"
                  /\ \A m \in Mounts, f \in Files : original[m].file[f] \in {0, newest[m][f]}
  /\ containers.on = "copy" => \A m \in Mounts : copy[m].here

\* What the cleanup is about to remove is in the copy, and nobody can write to it.
Removable ==
  /\ cleanup.pc \in {"list", "cover", "remove"} => \A m \in cleanup.mount : copy[m].here
  /\ cleanup.pc \in {"cover", "remove"} => crossed \/ Unused
  /\ cleanup.pc = "remove" => crossed \/ \A m \in cleanup.mount : Covers(m)

Smooth == ~raced /\ ~early /\ ~reverted
Holds(d, v) == \A f \in Files : d.file[f] = v[f]

\* While nothing went wrong, the newest data is in one known place.
InPlace ==
  Smooth =>
    /\ release = "new"
    /\ Copying \/ switched => containers.on = "copy" \/ containers.state # "running"
    /\ ~switched => \A m \in Mounts : Holds(original[m], newest[m])
    /\ switched => \A m \in Mounts : IF copy[m].here THEN Holds(copy[m], newest[m])
                                     ELSE Holds(original[m], newest[m])

\* ... and the mounts the migration is done with were copied.
CopiedSoFar ==
  Copying =>
    /\ migration.mount \subseteq migration.todo
    /\ \A m \in migration.mount : copy[m].here
    /\ Smooth /\ ~migration.problem =>
         \A m \in Mounts \ migration.todo : copy[m].here /\ Holds(copy[m], newest[m])

MountInv == /\ MountTypeOK /\ Bounded /\ BeforeSwitch /\ NothingLost /\ Removable
            /\ InPlace /\ CopiedSoFar

-----------------------------------------------------------------------------
(* Facts about one file of one mount *)

LEMMA Types ==
  ASSUME MountTypeOK, NEW m \in Mounts
  PROVE  /\ original[m] \in Directory /\ copy[m] \in Directory /\ newest[m] \in [Files -> Version]
         /\ original[m].here \in BOOLEAN /\ copy[m].here \in BOOLEAN
         /\ original[m].file \in [Files -> Version] /\ copy[m].file \in [Files -> Version]
         /\ \A f \in Files : /\ original[m].file[f] \in Nat /\ copy[m].file[f] \in Nat /\ newest[m][f] \in Nat
                             /\ original[m].file[f] \in Version /\ copy[m].file[f] \in Version
                             /\ newest[m][f] \in Version
<1>1. /\ original[m] \in Directory /\ copy[m] \in Directory /\ newest[m] \in [Files -> Version]
  BY DEF MountTypeOK
<1>2. /\ original[m].here \in BOOLEAN /\ copy[m].here \in BOOLEAN
      /\ original[m].file \in [Files -> Version] /\ copy[m].file \in [Files -> Version]
  BY <1>1 DEF Directory
<1>3. \A v \in Version : v \in Nat
  BY MountAssumption DEF Version
<1> QED
  BY <1>1, <1>2, <1>3

LEMMA Empty ==
  /\ EmptyDirectory \in Directory /\ EmptyDirectory.here
  /\ NoDirectory \in Directory /\ ~NoDirectory.here
  /\ \A f \in Files : EmptyDirectory.file[f] = 0 /\ NoDirectory.file[f] = 0
<1>1. 0 \in Version
  BY MountAssumption DEF Version
<1>2. [f \in Files |-> 0] \in [Files -> Version]
  BY <1>1
<1>3. EmptyDirectory \in Directory /\ EmptyDirectory.here /\ EmptyDirectory.file = [f \in Files |-> 0]
  BY <1>2 DEF EmptyDirectory, Directory
<1>4. NoDirectory \in Directory /\ NoDirectory.here = FALSE /\ NoDirectory.file = [f \in Files |-> 0]
  BY <1>3 DEF NoDirectory, Directory
<1> QED
  BY <1>3, <1>4

LEMMA Opened ==
  ASSUME NEW d \in Directory
  PROVE  /\ [d EXCEPT !.here = TRUE] \in Directory
         /\ [d EXCEPT !.here = TRUE].here /\ [d EXCEPT !.here = TRUE].file = d.file
BY DEF Directory

LEMMA MountInitInv == MountInit => MountInv
<1> SUFFICES ASSUME MountInit PROVE MountInv
  OBVIOUS
<1>1. /\ original \in [Mounts -> {d \in Directory : /\ d.here \/ d = NoDirectory
                                                    /\ \A f \in Files : d.file[f] <= 1}]
      /\ copy = [m \in Mounts |-> NoDirectory] /\ newest = [m \in Mounts |-> original[m].file]
      /\ switched \in BOOLEAN /\ release = "new" /\ deploy = "none"
      /\ migration = AtRest /\ cleanup = AtRest /\ containers.on = "original"
      /\ containers.state \in {"none", "running"} /\ (switched => containers.state = "none")
      /\ containers = [state |-> containers.state, on |-> containers.on]
      /\ raced = FALSE /\ early = FALSE /\ reverted = FALSE
  BY DEF MountInit
<1>2. MountTypeOK
  <2>1. original \in [Mounts -> Directory] /\ copy \in [Mounts -> Directory]
    BY <1>1, Empty
  <2>2. newest \in [Mounts -> [Files -> Version]]
    BY <1>1, <2>1 DEF Directory
  <2>3. containers \in [state : {"none", "running", "stopped"}, on : {"original", "copy"}]
    BY <1>1
  <2>4. /\ migration \in Job({"idle", "check", "mounts", "copy", "verify"})
        /\ cleanup \in Job({"idle", "mounts", "managed", "list", "cover", "remove", "mark"})
    BY <1>1 DEF AtRest, Job
  <2> QED
    BY <1>1, <2>1, <2>2, <2>3, <2>4 DEF MountTypeOK
<1>3. ASSUME NEW m \in Mounts
      PROVE  /\ ~copy[m].here /\ newest[m] = original[m].file
             /\ original[m].here \/ original[m] = NoDirectory
             /\ \A f \in Files : copy[m].file[f] = 0 /\ original[m].file[f] \in Nat
  BY <1>1, <1>2, Empty, Types
<1>4. Bounded
  BY <1>3, Empty DEF Bounded
<1>5. BeforeSwitch
  BY <1>1, <1>3 DEF BeforeSwitch, AtRest
<1>6. NothingLost
  BY <1>3 DEF NothingLost
<1>7. Removable
  BY <1>1 DEF Removable, AtRest
<1>8. InPlace
  BY <1>1, <1>3 DEF InPlace, Copying, AtRest, Holds
<1>9. CopiedSoFar
  BY <1>1 DEF CopiedSoFar, Copying, AtRest
<1> QED
  BY <1>2, <1>4, <1>5, <1>6, <1>7, <1>8, <1>9 DEF MountInv

-----------------------------------------------------------------------------
(* MountMigration: the project *)

LEMMA MountControlKeeps ==
  ASSUME MountInv, StartDeploy \/ DeployFails \/ StopProject \/ ContainersExit \/ UNCHANGED mountVars
  PROVE  MountInv'
<1>1. /\ UNCHANGED <<original, copy, newest, switched, release, migration, cleanup>>
      /\ UNCHANGED <<raced, crossed, early, reverted>>
  BY DEF StartDeploy, DeployFails, StopProject, ContainersExit, mountVars, observed
<1>2. containers \in [state : {"none", "running", "stopped"}, on : {"original", "copy"}]
  BY DEF MountInv, MountTypeOK
<1>3. /\ containers' \in [state : {"none", "running", "stopped"}, on : {"original", "copy"}]
      /\ containers'.on = containers.on
      /\ containers'.state = "running" => containers.state = "running"
      /\ containers.state = "none" => containers'.state = "none"
  BY <1>2 DEF StartDeploy, DeployFails, StopProject, ContainersExit, mountVars
<1>4. deploy' \in {"none", "original", "copy"} /\ (deploy' = "copy" => switched \/ deploy = "copy")
  BY DEF StartDeploy, DeployFails, StopProject, ContainersExit, mountVars, MountInv, MountTypeOK
<1>5. MountTypeOK'
  BY <1>1, <1>3, <1>4 DEF MountInv, MountTypeOK
<1>6. Bounded' /\ NothingLost'
  BY <1>1 DEF MountInv, Bounded, NothingLost
<1>7. BeforeSwitch'
  BY <1>1, <1>3, <1>4 DEF MountInv, BeforeSwitch
<1>8. Removable'
  BY <1>1, <1>3 DEF MountInv, Removable, Unused, Covers
<1>9. InPlace' /\ CopiedSoFar'
  BY <1>1, <1>3 DEF MountInv, InPlace, CopiedSoFar, Smooth, Copying, Holds
<1> QED
  BY <1>5, <1>6, <1>7, <1>8, <1>9 DEF MountInv

(* Containers come up where the row says, or on the originals: the history tells when that
   crossed a migration or a cleanup. *)
LEMMA ComeUpKeeps ==
  ASSUME MountInv, NEW on \in {"original", "copy"}, ComeUp(on),
         on = "copy" => switched /\ \A m \in Mounts : copy[m].here,
         deploy' \in {deploy, "none"},
         UNCHANGED <<copy, newest, switched, release, migration, cleanup, early, reverted>>
  PROVE  MountInv'
<1>1. /\ containers' = [state |-> "running", on |-> on]
      /\ on = "copy" => original' = original
      /\ on = "original" => original' = [m \in Mounts |-> [original[m] EXCEPT !.here = TRUE]]
      /\ raced' = (raced \/ (on = "original" /\ release = "new" /\ (Copying \/ switched)))
      /\ crossed' = (crossed \/ (on = "original" /\ cleanup.pc \in {"cover", "remove"}))
  BY DEF ComeUp
<1>2. original' \in [Mounts -> Directory]
  <2>1. CASE on = "copy"
    BY <1>1, <2>1 DEF MountInv, MountTypeOK
  <2>2. CASE on = "original"
    <3>1. ASSUME NEW m \in Mounts PROVE [original[m] EXCEPT !.here = TRUE] \in Directory
      BY Types, Opened DEF MountInv
    <3> QED
      BY <1>1, <2>2, <3>1
  <2> QED
    BY <2>1, <2>2
<1>3. ASSUME NEW m \in Mounts
      PROVE  original'[m].file = original[m].file /\ (original[m].here => original'[m].here)
  <2>1. CASE on = "copy"
    BY <1>1, <2>1
  <2>2. CASE on = "original"
    <3>1. original[m] \in Directory /\ original'[m] = [original[m] EXCEPT !.here = TRUE]
      BY <1>1, <2>2, Types DEF MountInv
    <3> QED
      BY <3>1 DEF Directory
  <2> QED
    BY <2>1, <2>2
<1>4. MountTypeOK'
  BY <1>1, <1>2 DEF MountInv, MountTypeOK
<1>5. Bounded' /\ NothingLost'
  <2>1. Bounded'
    BY <1>3 DEF MountInv, Bounded
  <2>2. NothingLost'
    BY <1>1, <1>3 DEF MountInv, NothingLost
  <2> QED
    BY <2>1, <2>2
<1>6. BeforeSwitch'
  BY <1>1, <1>3 DEF MountInv, BeforeSwitch, MountTypeOK
<1>7. Removable'
  BY <1>1, <1>3 DEF MountInv, Removable, Unused, Covers
<1>8. InPlace'
  BY <1>1, <1>3 DEF MountInv, InPlace, Smooth, Copying, Holds
<1>9. CopiedSoFar'
  BY <1>1, <1>3 DEF MountInv, CopiedSoFar, Smooth, Copying, Holds
<1> QED
  BY <1>4, <1>5, <1>6, <1>7, <1>8, <1>9 DEF MountInv

LEMMA UpKeeps ==
  ASSUME MountInv, Up
  PROVE  MountInv'
<1>1. /\ deploy \in {"original", "copy"} /\ ComeUp(deploy) /\ deploy' = "none"
      /\ deploy = "copy" => \A m \in Mounts : copy[m].here
      /\ UNCHANGED <<copy, newest, switched, release, migration, cleanup, early, reverted>>
  BY DEF Up, MountInv, MountTypeOK
<1>2. deploy = "copy" => switched
  BY DEF MountInv, BeforeSwitch
<1> QED
  BY <1>1, <1>2, ComeUpKeeps

LEMMA ReviveKeeps ==
  ASSUME MountInv, Revive
  PROVE  MountInv'
<1>1. /\ containers.on \in {"original", "copy"} /\ ComeUp(containers.on) /\ deploy' = deploy
      /\ UNCHANGED <<copy, newest, switched, release, migration, cleanup, early, reverted>>
  BY DEF Revive, MountInv, MountTypeOK
<1>2. containers.on = "copy" => switched /\ \A m \in Mounts : copy[m].here
  BY DEF MountInv, MountTypeOK, BeforeSwitch
<1> QED
  BY <1>1, <1>2, ComeUpKeeps

(* The app writes to the directories its containers mount. *)
LEMMA WriteKeeps ==
  ASSUME MountInv, NEW m \in Mounts, NEW f \in Files, Write(m, f)
  PROVE  MountInv'
<1>1. PICK v : v = newest[m][f] + 1
  OBVIOUS
<1>2. /\ containers.state = "running" /\ newest' = [newest EXCEPT ![m][f] = v]
      /\ UNCHANGED <<switched, release, containers, deploy, migration, cleanup>>
      /\ UNCHANGED <<raced, crossed, early, reverted>>
  BY <1>1 DEF Write, observed
<1>3. v \in Version /\ v \in Nat /\ newest[m][f] <= v /\ newest[m][f] \in Nat
  <2>1. newest[m][f] \in Version /\ newest[m][f] < MaxVersion /\ newest[m][f] \in Nat
    BY Types DEF MountInv, Write
  <2> QED
    BY <1>1, <2>1, MountAssumption DEF Version
<1>4. newest' \in [Mounts -> [Files -> Version]]
  BY <1>2, <1>3 DEF MountInv, MountTypeOK
<1>5. ASSUME NEW n \in Mounts, NEW g \in Files
      PROVE  newest'[n][g] = IF n = m /\ g = f THEN v ELSE newest[n][g]
  BY <1>2 DEF MountInv, MountTypeOK
<1>6. containers.on \in {"original", "copy"}
  BY DEF MountInv, MountTypeOK
<1>7. CASE containers.on = "copy"
  <2>1. original' = original /\ copy' = [copy EXCEPT ![m].file[f] = v]
    BY <1>1, <1>7 DEF Write
  <2>2. copy' \in [Mounts -> Directory]
    BY <1>3, <2>1 DEF MountInv, MountTypeOK, Directory
  <2>3. ASSUME NEW n \in Mounts
        PROVE  /\ copy'[n].here = copy[n].here
               /\ \A g \in Files : copy'[n].file[g] = IF n = m /\ g = f THEN v ELSE copy[n].file[g]
    BY <2>1 DEF MountInv, MountTypeOK, Directory
  <2>4. switched /\ copy[m].here /\ migration.pc = "idle" /\ \A n \in Mounts : copy[n].here
    BY <1>7 DEF MountInv, MountTypeOK, BeforeSwitch
  <2>5. MountTypeOK'
    BY <1>2, <1>4, <2>1, <2>2 DEF MountInv, MountTypeOK
  <2>6. ASSUME NEW n \in Mounts, NEW g \in Files
        PROVE  /\ original[n].file[g] <= newest'[n][g] /\ copy'[n].file[g] <= newest'[n][g]
               /\ copy[n].file[g] <= copy'[n].file[g]
    <3>1. /\ original[n].file[g] <= newest[n][g] /\ copy[n].file[g] <= newest[n][g]
          /\ original[n].file[g] \in Nat /\ copy[n].file[g] \in Nat /\ newest[n][g] \in Nat
      BY Types DEF MountInv, Bounded
    <3> QED
      BY <1>3, <1>5, <2>3, <3>1
  <2>7. Bounded'
    BY <2>1, <2>3, <2>4, <2>6 DEF MountInv, Bounded
  <2>8. BeforeSwitch'
    BY <1>2, <2>3, <2>4 DEF MountInv, BeforeSwitch
  <2>9. NothingLost'
    BY <1>2, <1>5, <2>1, <2>3 DEF MountInv, NothingLost
  <2>10. Removable'
    <3>1. ASSUME NEW n \in Mounts, Covers(n) PROVE Covers(n)'
      <4>1. ASSUME NEW g \in Files, original[n].file[g] # 0
            PROVE  copy'[n].file[g] # 0 /\ copy'[n].file[g] >= original[n].file[g]
        <5>1. /\ copy[n].file[g] # 0 /\ copy[n].file[g] >= original[n].file[g]
              /\ original[n].file[g] \in Nat /\ copy[n].file[g] \in Nat
          BY <3>1, <4>1, Types DEF Covers, MountInv
        <5>2. copy[n].file[g] <= copy'[n].file[g] /\ copy'[n].file[g] \in Nat
          BY <1>3, <2>3, <2>6, <5>1
        <5> QED
          BY <5>1, <5>2
      <4> QED
        BY <2>1, <4>1 DEF Covers
    <3>2. cleanup.mount \subseteq Mounts
      BY DEF MountInv, MountTypeOK, Job
    <3> QED
      BY <1>2, <2>3, <3>1, <3>2 DEF MountInv, Removable, Unused
  <2>11. InPlace'
    BY <1>2, <1>5, <1>7, <2>3, <2>4 DEF MountInv, InPlace, Smooth, Holds
  <2>12. CopiedSoFar'
    BY <1>2, <2>4 DEF CopiedSoFar, Copying
  <2> QED
    BY <2>5, <2>7, <2>8, <2>9, <2>10, <2>11, <2>12 DEF MountInv
<1>8. CASE containers.on = "original"
  <2>1. copy' = copy /\ original' = [original EXCEPT ![m].here = TRUE, ![m].file[f] = v]
    BY <1>1, <1>8 DEF Write
  <2>2. copy' = copy
    BY <2>1
  <2>3. PICK d \in Directory : d = original[m]
    BY Types DEF MountInv
  <2>4. PICK e : e = [d EXCEPT !.here = TRUE, !.file[f] = v]
    OBVIOUS
  <2>5. /\ e = [here |-> TRUE, file |-> [d.file EXCEPT ![f] = v]]
        /\ d.file \in [Files -> Version]
    BY <2>4 DEF Directory
  <2>6. /\ e \in Directory /\ e.here
        /\ \A g \in Files : e.file[g] = IF g = f THEN v ELSE d.file[g]
    BY <1>3, <2>5 DEF Directory
  <2>7. original \in [Mounts -> Directory]
    BY DEF MountInv, MountTypeOK
  <2>8. original' = [original EXCEPT ![m] = e]
    BY <2>1, <2>3, <2>4, <2>7, Zenon
  <2>9. original' \in [Mounts -> Directory]
    BY <2>6, <2>7, <2>8
  <2>10. ASSUME NEW n \in Mounts
         PROVE  /\ ~original'[n].here => n # m /\ ~original[n].here
                /\ \A g \in Files : original'[n].file[g] = IF n = m /\ g = f THEN v ELSE original[n].file[g]
    BY <2>3, <2>6, <2>7, <2>8
  <2>11. MountTypeOK'
    BY <1>2, <1>4, <2>2, <2>9 DEF MountInv, MountTypeOK
  <2>12. ASSUME NEW n \in Mounts, NEW g \in Files
         PROVE  original'[n].file[g] <= newest'[n][g] /\ copy'[n].file[g] <= newest'[n][g]
    <3>1. /\ original[n].file[g] <= newest[n][g] /\ copy[n].file[g] <= newest[n][g]
          /\ original[n].file[g] \in Nat /\ copy[n].file[g] \in Nat /\ newest[n][g] \in Nat
      BY Types DEF MountInv, Bounded
    <3> QED
      BY <1>3, <1>5, <2>2, <2>10, <3>1
  <2>13. Bounded'
    BY <2>2, <2>10, <2>12 DEF MountInv, Bounded
  <2>14. BeforeSwitch'
    BY <1>2, <1>5, <2>2, <2>10 DEF MountInv, BeforeSwitch
  <2>15. NothingLost'
    BY <1>2, <1>5, <2>2, <2>10 DEF MountInv, NothingLost
  <2>16. Removable'
    BY <1>2, <1>8, <2>2 DEF MountInv, Removable, Unused
  <2>17. Smooth => ~switched /\ ~Copying /\ \A n \in Mounts : Holds(original[n], newest[n])
    BY <1>2, <1>8 DEF MountInv, InPlace, MountTypeOK
  <2>18. InPlace'
    BY <1>2, <1>5, <1>8, <2>10, <2>17 DEF MountInv, InPlace, Smooth, Holds, Copying
  <2>19. CopiedSoFar'
    BY <1>2, <2>2, <2>17 DEF MountInv, CopiedSoFar, Copying, Smooth
  <2> QED
    BY <2>11, <2>13, <2>14, <2>15, <2>16, <2>18, <2>19 DEF MountInv
<1> QED
  BY <1>6, <1>7, <1>8

(* A deploy fills a managed directory that is not there. *)
LEMMA SeedKeeps ==
  ASSUME MountInv, NEW m \in Mounts, Seed(m)
  PROVE  MountInv'
<1>1. /\ deploy = "copy" /\ ~copy[m].here
      /\ UNCHANGED <<original, newest, switched, release, containers, deploy, migration, cleanup>>
      /\ UNCHANGED <<raced, crossed, early, reverted>>
  BY DEF Seed, observed
<1>2. switched /\ migration.pc = "idle"
  BY <1>1 DEF MountInv, BeforeSwitch
<1>3. PICK d : d = Seeded(m)
  OBVIOUS
<1>4. d \in Directory /\ d.here /\ \A g \in Files : d.file[g] = original[m].file[g]
  <2>1. CASE original[m].here
    BY <1>3, <2>1, Types DEF Seeded, MountInv
  <2>2. CASE ~original[m].here
    BY <1>3, <2>2, Empty DEF Seeded, MountInv, Bounded
  <2> QED
    BY <2>1, <2>2
<1>5. copy' = [copy EXCEPT ![m] = d]
  BY <1>3 DEF Seed
<1>6. copy \in [Mounts -> Directory]
  BY DEF MountInv, MountTypeOK
<1>7. copy' \in [Mounts -> Directory]
  BY <1>4, <1>5, <1>6
<1>8. copy'[m] = d /\ \A n \in Mounts : n # m => copy'[n] = copy[n]
  BY <1>5, <1>6
<1>9. MountTypeOK'
  BY <1>1, <1>7 DEF MountInv, MountTypeOK
<1>10. Bounded'
  BY <1>1, <1>4, <1>8 DEF MountInv, Bounded
<1>11. BeforeSwitch'
  BY <1>1, <1>2, <1>4, <1>8 DEF MountInv, BeforeSwitch
<1>12. NothingLost'
  <2>1. ASSUME NEW n \in Mounts, NEW g \in Files, newest[n][g] \in {original[n].file[g], copy[n].file[g]}
        PROVE  newest[n][g] \in {original[n].file[g], copy'[n].file[g]}
    <3>1. CASE n = m
      <4>1. copy[m].file[g] = 0 /\ original[m].file[g] <= newest[m][g] /\ original[m].file[g] \in Nat
        BY <1>1, Types DEF MountInv, Bounded
      <4> QED
        BY <2>1, <3>1, <4>1
    <3> QED
      BY <1>8, <2>1, <3>1
  <2> QED
    BY <1>1, <2>1 DEF MountInv, NothingLost
<1>13. Removable'
  <2>1. cleanup.mount \subseteq Mounts
    BY DEF MountInv, MountTypeOK, Job
  <2>2. cleanup.pc \in {"list", "cover", "remove"} => m \notin cleanup.mount
    BY <1>1 DEF MountInv, Removable
  <2> QED
    BY <1>1, <1>8, <2>1, <2>2 DEF MountInv, Removable, Unused, Covers
<1>14. InPlace'
  BY <1>1, <1>2, <1>4, <1>8 DEF MountInv, InPlace, Smooth, Holds, Copying
<1>15. CopiedSoFar'
  BY <1>1, <1>2 DEF CopiedSoFar, Copying
<1> QED
  BY <1>9, <1>10, <1>11, <1>12, <1>13, <1>14, <1>15 DEF MountInv

-----------------------------------------------------------------------------
(* MountMigration: copies and removals.  What they may do to the two directories, so that the
   newest data is in neither less than before. *)

CopyMoves ==
  /\ copy' \in [Mounts -> Directory]
  /\ \A n \in Mounts :
       /\ copy[n].here => copy'[n].here
       /\ \A g \in Files :
            \/ copy'[n].file[g] = copy[n].file[g]
            \/ /\ copy'[n].file[g] = original[n].file[g]
               /\ original[n].file[g] # 0 /\ copy[n].here /\ ~switched

OriginalMoves ==
  /\ original' \in [Mounts -> Directory]
  /\ \A n \in Mounts :
       /\ ~original'[n].here => \A g \in Files : original'[n].file[g] = 0
       /\ \A g \in Files :
            \/ original'[n].file[g] = original[n].file[g]
            \/ original'[n].file[g] = 0 /\ (crossed \/ Covers(n))

LEMMA DataKept ==
  ASSUME MountInv, CopyMoves, OriginalMoves, UNCHANGED <<newest, switched, containers, crossed>>,
         migration'.pc # "idle" => ~switched', ~switched' => deploy' # "copy"
  PROVE  Bounded' /\ NothingLost' /\ BeforeSwitch'
<1>1. ASSUME NEW n \in Mounts, NEW g \in Files
      PROVE  /\ original'[n].file[g] <= newest[n][g] /\ copy'[n].file[g] <= newest[n][g]
             /\ ~switched => original'[n].file[g] \in {0, newest[n][g]}
             /\ ~crossed => newest[n][g] \in {original'[n].file[g], copy'[n].file[g]}
  <2>1. /\ original[n].file[g] <= newest[n][g] /\ copy[n].file[g] <= newest[n][g]
        /\ original[n].file[g] \in Nat /\ copy[n].file[g] \in Nat /\ newest[n][g] \in Nat
        /\ ~switched => original[n].file[g] \in {0, newest[n][g]}
        /\ ~crossed => newest[n][g] \in {original[n].file[g], copy[n].file[g]}
    BY Types DEF MountInv, Bounded, BeforeSwitch, NothingLost
  <2>2. Covers(n) => newest[n][g] = copy[n].file[g] \/ ~(newest[n][g] = original[n].file[g])
    <3>1. Covers(n) => original[n].file[g] = 0 \/ copy[n].file[g] >= original[n].file[g]
      BY DEF Covers
    <3> QED
      BY <2>1, <3>1
  <2>3. \/ copy'[n].file[g] = copy[n].file[g]
        \/ /\ copy'[n].file[g] = original[n].file[g]
           /\ original[n].file[g] # 0 /\ copy[n].here /\ ~switched
    BY DEF CopyMoves
  <2>4. \/ original'[n].file[g] = original[n].file[g]
        \/ original'[n].file[g] = 0 /\ (crossed \/ Covers(n))
    BY DEF OriginalMoves
  <2> QED
    BY <2>1, <2>2, <2>3, <2>4
<1>2. ASSUME NEW n \in Mounts, ~copy'[n].here, NEW g \in Files PROVE copy'[n].file[g] = 0
  <2>1. ~copy[n].here
    BY <1>2 DEF CopyMoves
  <2>2. copy'[n].file[g] = copy[n].file[g]
    BY <2>1 DEF CopyMoves
  <2> QED
    BY <2>1, <2>2 DEF MountInv, Bounded
<1>3. Bounded'
  <2>1. ASSUME NEW n \in Mounts, ~original'[n].here PROVE \A g \in Files : original'[n].file[g] = 0
    BY <2>1 DEF OriginalMoves
  <2> QED
    BY <1>1, <1>2, <2>1 DEF Bounded
<1>4. NothingLost'
  BY <1>1 DEF NothingLost
<1>5. BeforeSwitch'
  <2>1. containers'.on = "copy" => \A n \in Mounts : copy'[n].here
    BY DEF MountInv, BeforeSwitch, CopyMoves
  <2>2. ~switched' => containers'.on = "original"
    BY DEF MountInv, BeforeSwitch
  <2> QED
    BY <1>1, <2>1, <2>2 DEF BeforeSwitch
<1> QED
  BY <1>3, <1>4, <1>5

LEMMA OverlayMoves ==
  ASSUME MountInv, NEW m \in Mounts, NEW fs \in SUBSET Files, copy' = Overlay(m, fs),
         copy[m].here, ~switched
  PROVE  /\ CopyMoves
         /\ \A n \in Mounts : n # m => copy'[n] = copy[n]
<1>1. PICK d \in Directory : d = copy[m]
  BY Types DEF MountInv
<1>2. PICK h : h = [f \in Files |-> IF f \in fs /\ original[m].file[f] # 0
                                    THEN original[m].file[f] ELSE copy[m].file[f]]
  OBVIOUS
<1>3. h \in [Files -> Version]
  BY <1>2, Types DEF MountInv
<1>4. PICK e : e = [d EXCEPT !.file = h]
  OBVIOUS
<1>5. e = [here |-> d.here, file |-> h] /\ d.here \in BOOLEAN
  BY <1>4 DEF Directory
<1>6. e \in Directory /\ e.file = h /\ e.here = d.here
  BY <1>3, <1>5 DEF Directory
<1>7. copy \in [Mounts -> Directory]
  BY DEF MountInv, MountTypeOK
<1>8. copy' = [copy EXCEPT ![m] = e]
  BY <1>1, <1>2, <1>4, <1>7, Zenon DEF Overlay
<1>9. copy' \in [Mounts -> Directory] /\ copy'[m] = e /\ \A n \in Mounts : n # m => copy'[n] = copy[n]
  BY <1>6, <1>7, <1>8
<1>10. copy'[m].here
  BY <1>1, <1>6, <1>9
<1>11. ASSUME NEW g \in Files
       PROVE  \/ copy'[m].file[g] = copy[m].file[g]
              \/ copy'[m].file[g] = original[m].file[g] /\ original[m].file[g] # 0
  BY <1>2, <1>6, <1>9
<1> QED
  BY <1>9, <1>10, <1>11 DEF CopyMoves

LEMMA StillCopy ==
  ASSUME MountInv, copy' = copy
  PROVE  CopyMoves
BY DEF CopyMoves, MountInv, MountTypeOK

LEMMA StillOriginal ==
  ASSUME MountInv, original' = original
  PROVE  OriginalMoves
BY DEF OriginalMoves, MountInv, MountTypeOK, Bounded

-----------------------------------------------------------------------------
(* MountMigration: the migration *)

LEMMA NextMountIs ==
  ASSUME NEW P, "mounts" \in P, NEW job \in Job(P), NEW m \in Mounts
  PROVE  /\ NextMount(job, m, TRUE) \in Job(P) /\ NextMount(job, m, FALSE) \in Job(P)
         /\ NextMount(job, m, TRUE).pc = "mounts" /\ NextMount(job, m, FALSE).pc = "mounts"
         /\ NextMount(job, m, TRUE).mount = {} /\ NextMount(job, m, FALSE).mount = {}
         /\ NextMount(job, m, TRUE).problem
         /\ NextMount(job, m, FALSE).problem = job.problem
         /\ NextMount(job, m, FALSE).todo = job.todo \ {m}
         /\ NextMount(job, m, TRUE).todo = job.todo \ {m}
<1>1. job.todo \in SUBSET Mounts /\ job.mount \in SUBSET Mounts /\ job.problem \in BOOLEAN
  BY DEF Job
<1>2. /\ NextMount(job, m, TRUE).pc = "mounts" /\ NextMount(job, m, FALSE).pc = "mounts"
      /\ NextMount(job, m, TRUE).mount = {} /\ NextMount(job, m, FALSE).mount = {}
      /\ NextMount(job, m, TRUE).todo = job.todo \ {m} /\ NextMount(job, m, FALSE).todo = job.todo \ {m}
  BY DEF NextMount, Job
<1>3. (job.problem \/ TRUE) = TRUE /\ (job.problem \/ FALSE) = job.problem
  BY <1>1
<1>4. PICK t \in SUBSET Mounts : t = job.todo \ {m}
  BY <1>1
<1>5. PICK b \in BOOLEAN : b = job.problem
  BY <1>1
<1>6. PICK e \in SUBSET Mounts : e = {}
  OBVIOUS
<1>7. /\ NextMount(job, m, TRUE) = [job EXCEPT !.pc = "mounts", !.todo = t, !.mount = e, !.problem = TRUE]
      /\ NextMount(job, m, FALSE) = [job EXCEPT !.pc = "mounts", !.todo = t, !.mount = e, !.problem = b]
  BY <1>3, <1>4, <1>5, <1>6 DEF NextMount
<1>8. ASSUME NEW c \in BOOLEAN
      PROVE  /\ [job EXCEPT !.pc = "mounts", !.todo = t, !.mount = e, !.problem = c] \in Job(P)
             /\ [job EXCEPT !.pc = "mounts", !.todo = t, !.mount = e, !.problem = c].problem = c
  BY DEF Job
<1>9. /\ NextMount(job, m, TRUE) \in Job(P) /\ NextMount(job, m, TRUE).problem = TRUE
      /\ NextMount(job, m, FALSE) \in Job(P) /\ NextMount(job, m, FALSE).problem = b
  BY <1>7, <1>8
<1> QED
  BY <1>2, <1>5, <1>9

MigrationPcs == {"idle", "check", "mounts", "copy", "verify"}
CleanupPcs == {"idle", "mounts", "managed", "list", "cover", "remove", "mark"}

LEMMA MigrationStep ==
  ASSUME MountInv, ~switched, CopyMoves,
         UNCHANGED <<original, newest, switched, release, containers, deploy, cleanup>>,
         UNCHANGED <<raced, crossed, early, reverted>>,
         migration' \in Job(MigrationPcs), Copying' => Copying \/ containers.state # "running",
         CopiedSoFar'
  PROVE  MountInv'
<1>1. MountTypeOK'
  BY DEF MountInv, MountTypeOK, CopyMoves, MigrationPcs
<1>2. Bounded' /\ NothingLost' /\ BeforeSwitch'
  <2>1. OriginalMoves
    BY StillOriginal
  <2>2. ~switched' => deploy' # "copy"
    BY DEF MountInv, BeforeSwitch
  <2> QED
    BY <2>1, <2>2, DataKept
<1>3. Removable'
  <2>1. cleanup.mount \subseteq Mounts
    BY DEF MountInv, MountTypeOK, Job
  <2>2. ASSUME NEW n \in Mounts PROVE /\ copy[n].here => copy'[n].here
                                      /\ Covers(n) => Covers(n)'
    <3>1. copy[n].here => copy'[n].here
      BY DEF CopyMoves
    <3>2. ASSUME Covers(n), NEW g \in Files, original[n].file[g] # 0
          PROVE  copy'[n].file[g] # 0 /\ copy'[n].file[g] >= original[n].file[g]
      <4>1. copy[n].file[g] # 0 /\ copy[n].file[g] >= original[n].file[g] /\ original[n].file[g] \in Nat
        BY <3>2, Types DEF Covers, MountInv
      <4>2. copy'[n].file[g] = copy[n].file[g] \/ copy'[n].file[g] = original[n].file[g]
        BY DEF CopyMoves
      <4> QED
        BY <3>2, <4>1, <4>2
    <3>3. Covers(n) => Covers(n)'
      BY <3>2 DEF Covers
    <3> QED
      BY <3>1, <3>3
  <2> QED
    BY <2>1, <2>2 DEF MountInv, Removable, Unused
<1>4. InPlace'
  BY DEF MountInv, InPlace, Smooth, Copying
<1> QED
  BY <1>1, <1>2, <1>3, <1>4 DEF MountInv

LEMMA StartMigrationKeeps ==
  ASSUME MountInv, StartMigration
  PROVE  MountInv'
<1>1. /\ UNCHANGED <<original, copy, newest, switched, release, containers, deploy, cleanup>>
      /\ UNCHANGED <<raced, crossed, early, reverted>> /\ ~switched
      /\ migration' = [AtRest EXCEPT !.pc = "check"]
  BY DEF StartMigration, observed
<1>2. migration' \in Job(MigrationPcs) /\ ~Copying'
  BY <1>1 DEF AtRest, Job, Copying, MigrationPcs
<1>3. CopyMoves /\ CopiedSoFar'
  BY <1>1, <1>2, StillCopy DEF CopiedSoFar
<1> QED
  BY <1>1, <1>2, <1>3, MigrationStep

LEMMA CheckStoppedKeeps ==
  ASSUME MountInv, CheckStopped
  PROVE  MountInv'
<1>1. /\ UNCHANGED <<original, copy, newest, switched, release, containers, deploy, cleanup>>
      /\ UNCHANGED <<raced, crossed, early, reverted>> /\ ~switched
      /\ \/ migration' = AtRest
         \/ containers.state # "running" /\ migration' = [AtRest EXCEPT !.pc = "mounts", !.todo = Mounts]
  BY DEF CheckStopped, observed, MountInv, BeforeSwitch
<1>2. CopyMoves
  BY <1>1, StillCopy
<1>3. /\ migration' \in Job(MigrationPcs)
      /\ Copying' => containers.state # "running" /\ migration'.mount = {} /\ migration'.todo = Mounts
  <2>1. CASE migration' = AtRest
    BY <2>1 DEF AtRest, Job, Copying, MigrationPcs
  <2>2. CASE containers.state # "running" /\ migration' = [AtRest EXCEPT !.pc = "mounts", !.todo = Mounts]
    <3>1. migration' = [pc |-> "mounts", todo |-> Mounts, mount |-> {}, problem |-> FALSE]
      BY <2>2 DEF AtRest
    <3> QED
      <4>1. migration' \in Job(MigrationPcs)
        BY <3>1 DEF Job, MigrationPcs
      <4>2. migration'.mount = {} /\ migration'.todo = Mounts
        BY <3>1
      <4> QED
        BY <2>2, <4>1, <4>2
  <2> QED
    BY <1>1, <2>1, <2>2
<1>4. CopiedSoFar'
  BY <1>3 DEF CopiedSoFar
<1> QED
  BY <1>1, <1>2, <1>3, <1>4, MigrationStep

LEMMA ProbeKeeps ==
  ASSUME MountInv, NEW m \in Mounts, Probe(m)
  PROVE  MountInv'
<1>1. /\ UNCHANGED <<original, newest, switched, release, containers, deploy, cleanup>>
      /\ UNCHANGED <<raced, crossed, early, reverted>>
      /\ migration.pc = "mounts" /\ m \in migration.todo
      /\ \/ migration' \in {NextMount(migration, m, TRUE), AtRest} /\ copy' = copy
         \/ /\ copy' = [copy EXCEPT ![m].here = TRUE]
            /\ migration' = IF HasData(original[m])
                            THEN [migration EXCEPT !.pc = "copy", !.mount = {m}]
                            ELSE NextMount(migration, m, FALSE)
  BY DEF Probe, observed
<1>2. ~switched /\ Copying /\ migration \in Job(MigrationPcs)
  BY <1>1 DEF Copying, MountInv, MountTypeOK, BeforeSwitch, MigrationPcs
<1>3. /\ NextMount(migration, m, TRUE) \in Job(MigrationPcs)
      /\ NextMount(migration, m, FALSE) \in Job(MigrationPcs)
      /\ NextMount(migration, m, TRUE).problem /\ NextMount(migration, m, TRUE).mount = {}
      /\ NextMount(migration, m, FALSE).problem = migration.problem
      /\ NextMount(migration, m, FALSE).todo = migration.todo \ {m}
      /\ NextMount(migration, m, FALSE).mount = {}
  <2>1. "mounts" \in MigrationPcs
    BY DEF MigrationPcs
  <2> QED
    BY <1>2, <2>1, NextMountIs
<1>4. CASE migration' \in {NextMount(migration, m, TRUE), AtRest} /\ copy' = copy
  <2>1. AtRest \in Job(MigrationPcs) /\ AtRest.pc = "idle"
    BY DEF AtRest, Job, MigrationPcs
  <2>2. migration' \in Job(MigrationPcs) /\ CopyMoves
    BY <1>3, <1>4, <2>1, StillCopy
  <2>3. CopiedSoFar'
    BY <1>3, <1>4, <2>1 DEF CopiedSoFar, Copying
  <2> QED
    BY <1>1, <1>2, <2>2, <2>3, MigrationStep
<1>5. CASE /\ copy' = [copy EXCEPT ![m].here = TRUE]
           /\ migration' = IF HasData(original[m])
                           THEN [migration EXCEPT !.pc = "copy", !.mount = {m}]
                           ELSE NextMount(migration, m, FALSE)
  <2>1. PICK d \in Directory : d = copy[m]
    BY Types DEF MountInv
  <2>2. PICK e : e = [d EXCEPT !.here = TRUE]
    OBVIOUS
  <2>3. e \in Directory /\ e.here /\ e.file = d.file
    BY <2>2, Opened
  <2>4. copy \in [Mounts -> Directory]
    BY DEF MountInv, MountTypeOK
  <2>5. copy' = [copy EXCEPT ![m] = e]
    BY <1>5, <2>1, <2>2, <2>4, Zenon
  <2>6. /\ copy' \in [Mounts -> Directory] /\ copy'[m] = e
        /\ \A n \in Mounts : n # m => copy'[n] = copy[n]
    BY <2>3, <2>4, <2>5
  <2>7. CopyMoves
    BY <2>1, <2>3, <2>6 DEF CopyMoves
  <2>8. ASSUME HasData(original[m]) PROVE MountInv'
    <3>1. /\ migration' = [migration EXCEPT !.pc = "copy", !.mount = {m}]
      BY <1>5, <2>8
    <3>2. /\ migration' \in Job(MigrationPcs)
          /\ migration'.mount = {m} /\ migration'.todo = migration.todo
          /\ migration'.problem = migration.problem
      BY <1>2, <3>1 DEF Job, MigrationPcs
    <3>3. CopiedSoFar'
      BY <1>1, <1>2, <2>3, <2>6, <3>2 DEF MountInv, CopiedSoFar, Smooth
    <3> QED
      BY <1>1, <1>2, <2>7, <3>2, <3>3, MigrationStep
  <2>9. ASSUME ~HasData(original[m]) PROVE MountInv'
    <3>1. migration' = NextMount(migration, m, FALSE)
      BY <1>5, <2>9
    <3>2. Smooth => Holds(copy'[m], newest[m])
      <4>1. ASSUME Smooth, NEW g \in Files PROVE copy'[m].file[g] = newest[m][g]
        <5>1. original[m].file[g] = 0 /\ newest[m][g] = 0
          BY <1>2, <2>9, <4>1 DEF HasData, MountInv, InPlace, Holds
        <5>2. copy[m].file[g] \in Nat /\ copy[m].file[g] <= newest[m][g]
          BY Types DEF MountInv, Bounded
        <5> QED
          BY <2>1, <2>3, <2>6, <5>1, <5>2
      <4> QED
        BY <4>1 DEF Holds
    <3>3. CopiedSoFar'
      BY <1>1, <1>2, <1>3, <2>3, <2>6, <3>1, <3>2 DEF MountInv, CopiedSoFar, Smooth
    <3> QED
      BY <1>1, <1>2, <1>3, <2>7, <3>1, <3>3, MigrationStep
  <2> QED
    BY <2>8, <2>9
<1> QED
  BY <1>1, <1>4, <1>5

LEMMA CopyFilesKeeps ==
  ASSUME MountInv, NEW m \in Mounts, CopyFiles(m)
  PROVE  MountInv'
<1>1. /\ UNCHANGED <<original, newest, switched, release, containers, deploy, cleanup>>
      /\ UNCHANGED <<raced, crossed, early, reverted>>
      /\ migration.pc = "copy" /\ migration.mount = {m}
      /\ migration' \in {NextMount(migration, m, TRUE), [migration EXCEPT !.pc = "verify"]}
  BY DEF CopyFiles, observed
<1>2. PICK fs \in SUBSET Files : copy' = Overlay(m, fs)
  BY DEF CopyFiles
<1>3. ~switched /\ Copying /\ migration \in Job(MigrationPcs)
  BY <1>1 DEF Copying, MountInv, MountTypeOK, BeforeSwitch, MigrationPcs
<1>4. copy[m].here /\ m \in migration.todo
  BY <1>1, <1>3 DEF MountInv, CopiedSoFar
<1>5. CopyMoves /\ \A n \in Mounts : n # m => copy'[n] = copy[n]
  BY <1>2, <1>3, <1>4, OverlayMoves
<1>6. copy'[m].here
  BY <1>4, <1>5 DEF CopyMoves
<1>7. CASE migration' = NextMount(migration, m, TRUE)
  <2>1. migration' \in Job(MigrationPcs) /\ migration'.problem /\ migration'.mount = {}
    BY <1>3, <1>7, NextMountIs DEF MigrationPcs
  <2>2. CopiedSoFar'
    BY <2>1 DEF CopiedSoFar
  <2> QED
    BY <1>1, <1>3, <1>5, <2>1, <2>2, MigrationStep
<1>8. CASE migration' = [migration EXCEPT !.pc = "verify"]
  <2>1. /\ migration' \in Job(MigrationPcs) /\ migration'.mount = {m}
        /\ migration'.todo = migration.todo /\ migration'.problem = migration.problem
    BY <1>1, <1>3, <1>8 DEF Job, MigrationPcs
  <2>2. CopiedSoFar'
    BY <1>1, <1>3, <1>4, <1>5, <1>6, <2>1 DEF MountInv, CopiedSoFar, Smooth
  <2> QED
    BY <1>1, <1>3, <1>5, <2>1, <2>2, MigrationStep
<1> QED
  BY <1>1, <1>7, <1>8

LEMMA VerifyKeeps ==
  ASSUME MountInv, NEW m \in Mounts, Verify(m)
  PROVE  MountInv'
<1>1. /\ UNCHANGED <<original, copy, newest, switched, release, containers, deploy, cleanup>>
      /\ UNCHANGED <<raced, crossed, early, reverted>>
      /\ migration.pc = "verify" /\ migration.mount = {m}
      /\ \/ migration' = NextMount(migration, m, TRUE)
         \/ migration' = NextMount(migration, m, FALSE) /\ Matches(m)
  BY DEF Verify, observed
<1>2. ~switched /\ Copying /\ migration \in Job(MigrationPcs) /\ CopyMoves
  BY <1>1, StillCopy DEF Copying, MountInv, MountTypeOK, BeforeSwitch, MigrationPcs
<1>3. /\ NextMount(migration, m, TRUE) \in Job(MigrationPcs)
      /\ NextMount(migration, m, FALSE) \in Job(MigrationPcs)
      /\ NextMount(migration, m, TRUE).problem /\ NextMount(migration, m, TRUE).mount = {}
      /\ NextMount(migration, m, FALSE).problem = migration.problem
      /\ NextMount(migration, m, FALSE).todo = migration.todo \ {m}
      /\ NextMount(migration, m, FALSE).mount = {}
  <2>1. "mounts" \in MigrationPcs
    BY DEF MigrationPcs
  <2> QED
    BY <1>2, <2>1, NextMountIs
<1>4. CASE migration' = NextMount(migration, m, TRUE)
  <2>1. CopiedSoFar'
    BY <1>3, <1>4 DEF CopiedSoFar
  <2> QED
    BY <1>1, <1>2, <1>3, <1>4, <2>1, MigrationStep
<1>5. CASE migration' = NextMount(migration, m, FALSE) /\ Matches(m)
  <2>1. Smooth => Holds(copy[m], newest[m])
    BY <1>2, <1>5 DEF MountInv, InPlace, Holds, Matches
  <2>2. copy[m].here
    BY <1>1, <1>2 DEF MountInv, CopiedSoFar
  <2>3. CopiedSoFar'
    BY <1>1, <1>2, <1>3, <1>5, <2>1, <2>2 DEF MountInv, CopiedSoFar, Smooth
  <2> QED
    BY <1>1, <1>2, <1>3, <1>5, <2>3, MigrationStep
<1> QED
  BY <1>1, <1>4, <1>5

LEMMA EndMigrationKeeps ==
  ASSUME MountInv, EndMigration
  PROVE  MountInv'
<1>1. /\ UNCHANGED <<original, copy, newest, release, containers, deploy, cleanup>>
      /\ UNCHANGED <<raced, crossed, early, reverted>>
      /\ migration.pc = "mounts" /\ migration.todo = {}
      /\ switched' = ~migration.problem /\ migration' = AtRest
  BY DEF EndMigration, observed
<1>2. /\ AtRest \in Job(MigrationPcs) /\ AtRest.pc = "idle" /\ switched' \in BOOLEAN /\ ~switched /\ Copying
      /\ containers.on = "original"
  BY <1>1 DEF AtRest, Job, MigrationPcs, MountInv, BeforeSwitch, Copying
<1>3. MountTypeOK'
  BY <1>1, <1>2 DEF MountInv, MountTypeOK, MigrationPcs
<1>4. Bounded' /\ NothingLost'
  BY <1>1 DEF MountInv, Bounded, NothingLost
<1>5. BeforeSwitch'
  BY <1>1, <1>2 DEF MountInv, BeforeSwitch
<1>6. Removable'
  BY <1>1 DEF MountInv, Removable, Unused, Covers
<1>7. InPlace'
  <2>1. Smooth /\ switched' => \A m \in Mounts : copy[m].here /\ Holds(copy[m], newest[m])
    BY <1>1, <1>2 DEF MountInv, CopiedSoFar
  <2>2. Smooth => /\ release = "new" /\ containers.state # "running"
                  /\ \A m \in Mounts : Holds(original[m], newest[m])
    BY <1>2 DEF MountInv, InPlace
  <2> QED
    BY <1>1, <2>1, <2>2 DEF InPlace, Smooth, Holds
<1>8. CopiedSoFar'
  BY <1>1, <1>2 DEF CopiedSoFar, Copying
<1> QED
  BY <1>3, <1>4, <1>5, <1>6, <1>7, <1>8 DEF MountInv

-----------------------------------------------------------------------------
(* MountMigration: the cleanup *)

LEMMA CleanupStep ==
  ASSUME MountInv, UNCHANGED <<original, copy, newest, switched, release, containers, deploy, migration>>,
         UNCHANGED <<raced, crossed, early, reverted>>,
         cleanup' \in Job(CleanupPcs), Removable'
  PROVE  MountInv'
<1>1. MountTypeOK'
  BY DEF MountInv, MountTypeOK, CleanupPcs
<1>2. Bounded' /\ NothingLost' /\ BeforeSwitch'
  BY DEF MountInv, Bounded, NothingLost, BeforeSwitch
<1>3. InPlace' /\ CopiedSoFar'
  BY DEF MountInv, InPlace, CopiedSoFar, Smooth, Copying, Holds
<1> QED
  BY <1>1, <1>2, <1>3 DEF MountInv

LEMMA SkipIs ==
  ASSUME MountTypeOK, NEW m \in Mounts, Skip(m)
  PROVE  cleanup' \in Job(CleanupPcs) /\ cleanup'.pc = "mounts"
<1>1. cleanup \in Job(CleanupPcs) /\ "mounts" \in CleanupPcs
  BY DEF MountTypeOK, CleanupPcs
<1> QED
  BY <1>1, NextMountIs DEF Skip

LEMMA ProceedIs ==
  ASSUME MountTypeOK, NEW m \in Mounts, NEW pc \in CleanupPcs, Proceed(m, pc)
  PROVE  cleanup' \in Job(CleanupPcs) /\ cleanup'.pc = pc /\ cleanup'.mount = {m}
<1>1. cleanup \in Job(CleanupPcs) /\ {m} \in SUBSET Mounts
  BY DEF MountTypeOK, CleanupPcs
<1> QED
  BY <1>1 DEF Proceed, Job

LEMMA CleanupTurnsKeep ==
  ASSUME MountInv, StartCleanup \/ EndCleanup \/ \E m \in Mounts : ProbeOriginal(m) \/ MarkRemoved(m)
  PROVE  MountInv'
<1>1. /\ UNCHANGED <<original, copy, newest, switched, release, containers, deploy, migration>>
      /\ UNCHANGED <<raced, crossed, early, reverted>>
  BY DEF StartCleanup, EndCleanup, ProbeOriginal, MarkRemoved, observed
<1>2. cleanup' \in Job(CleanupPcs) /\ cleanup'.pc \in {"idle", "mounts", "managed"}
  <2>1. CASE StartCleanup
    <3>1. cleanup' = [AtRest EXCEPT !.pc = "mounts", !.todo = Sources] /\ Sources \in SUBSET Mounts
      BY <2>1 DEF StartCleanup, Sources
    <3>2. PICK t \in SUBSET Mounts : t = Sources
      BY <3>1
    <3>3. cleanup' = [pc |-> "mounts", todo |-> t, mount |-> {}, problem |-> FALSE]
      BY <3>1, <3>2 DEF AtRest
    <3> QED
      BY <3>3 DEF Job, CleanupPcs
  <2>2. CASE EndCleanup
    BY <2>2 DEF EndCleanup, AtRest, Job, CleanupPcs
  <2>3. ASSUME NEW m \in Mounts, ProbeOriginal(m) \/ MarkRemoved(m)
        PROVE  cleanup' \in Job(CleanupPcs) /\ cleanup'.pc \in {"mounts", "managed"}
    <3>1. MountTypeOK /\ "managed" \in CleanupPcs
      BY DEF MountInv, CleanupPcs
    <3>2. Skip(m) \/ Proceed(m, "managed")
      BY <2>3 DEF ProbeOriginal, MarkRemoved
    <3> QED
      BY <3>1, <3>2, SkipIs, ProceedIs
  <2> QED
    BY <2>1, <2>2, <2>3
<1>3. Removable'
  BY <1>2 DEF Removable
<1> QED
  BY <1>1, <1>2, <1>3, CleanupStep

LEMMA ChecksKeep ==
  ASSUME MountInv, NEW m \in Mounts, ProbeManaged(m) \/ ListContainers(m) \/ Compare(m)
  PROVE  MountInv'
<1>1. /\ UNCHANGED <<original, copy, newest, switched, release, containers, deploy, migration>>
      /\ UNCHANGED <<raced, crossed, early, reverted>> /\ cleanup.mount = {m}
  BY DEF ProbeManaged, ListContainers, Compare, Check, observed
<1>2. MountTypeOK /\ {"list", "cover", "remove"} \subseteq CleanupPcs
  BY DEF MountInv, CleanupPcs
<1>3. CASE Skip(m)
  <2>1. cleanup' \in Job(CleanupPcs) /\ cleanup'.pc = "mounts"
    BY <1>2, <1>3, SkipIs
  <2>2. Removable'
    BY <2>1 DEF Removable
  <2> QED
    BY <1>1, <2>1, <2>2, CleanupStep
<1>4. CASE copy[m].here /\ Proceed(m, "list")
  <2>1. cleanup' \in Job(CleanupPcs) /\ cleanup'.pc = "list" /\ cleanup'.mount = {m}
    BY <1>2, <1>4, ProceedIs
  <2>2. Removable'
    BY <1>1, <1>4, <2>1 DEF Removable
  <2> QED
    BY <1>1, <2>1, <2>2, CleanupStep
<1>5. CASE cleanup.pc = "list" /\ Unused /\ Proceed(m, "cover")
  <2>1. cleanup' \in Job(CleanupPcs) /\ cleanup'.pc = "cover" /\ cleanup'.mount = {m}
    BY <1>2, <1>5, ProceedIs
  <2>2. copy[m].here
    BY <1>1, <1>5 DEF MountInv, Removable
  <2>3. Removable'
    BY <1>1, <1>5, <2>1, <2>2 DEF Removable, Unused
  <2> QED
    BY <1>1, <2>1, <2>3, CleanupStep
<1>6. CASE cleanup.pc = "cover" /\ Covers(m) /\ Proceed(m, "remove")
  <2>1. cleanup' \in Job(CleanupPcs) /\ cleanup'.pc = "remove" /\ cleanup'.mount = {m}
    BY <1>2, <1>6, ProceedIs
  <2>2. copy[m].here /\ (crossed \/ Unused)
    BY <1>1, <1>6 DEF MountInv, Removable
  <2>3. Removable'
    BY <1>1, <1>6, <2>1, <2>2 DEF Removable, Unused, Covers
  <2> QED
    BY <1>1, <2>1, <2>3, CleanupStep
<1>7. \/ Skip(m) \/ (copy[m].here /\ Proceed(m, "list"))
      \/ (cleanup.pc = "list" /\ Unused /\ Proceed(m, "cover"))
      \/ (cleanup.pc = "cover" /\ Covers(m) /\ Proceed(m, "remove"))
  BY DEF ProbeManaged, ListContainers, Compare, Check
<1> QED
  BY <1>3, <1>4, <1>5, <1>6, <1>7

(* What a removal takes away, whole or in part, is in the copy. *)
LEMMA RemovalMoves ==
  ASSUME MountInv, NEW m \in cleanup.mount, cleanup.pc = "remove", NEW d \in Remains(m) \cup {NoDirectory},
         original' = [original EXCEPT ![m] = d]
  PROVE  /\ OriginalMoves /\ copy[m].here
         /\ \A n \in Mounts : n # m => original'[n] = original[n]
<1>1. m \in Mounts /\ (crossed \/ Covers(m)) /\ copy[m].here
  BY DEF MountInv, MountTypeOK, Job, Removable
<1>2. original \in [Mounts -> Directory]
  BY DEF MountInv, MountTypeOK
<1>3. /\ d \in Directory /\ (d.here \/ \A g \in Files : d.file[g] = 0)
      /\ \A g \in Files : d.file[g] \in {0, original[m].file[g]}
  BY Empty DEF Remains
<1>4. /\ original' \in [Mounts -> Directory] /\ original'[m] = d
      /\ \A n \in Mounts : n # m => original'[n] = original[n]
  BY <1>1, <1>2, <1>3
<1>5. ASSUME NEW n \in Mounts, ~original'[n].here PROVE \A g \in Files : original'[n].file[g] = 0
  BY <1>3, <1>4, <1>5 DEF MountInv, Bounded
<1>6. ASSUME NEW n \in Mounts, NEW g \in Files
      PROVE  \/ original'[n].file[g] = original[n].file[g]
             \/ original'[n].file[g] = 0 /\ (crossed \/ Covers(n))
  BY <1>1, <1>3, <1>4
<1> QED
  BY <1>1, <1>4, <1>5, <1>6 DEF OriginalMoves

LEMMA RemoveKeeps ==
  ASSUME MountInv, NEW m \in Mounts, Remove(m)
  PROVE  MountInv'
<1>1. /\ UNCHANGED <<copy, newest, switched, release, containers, deploy, migration>>
      /\ UNCHANGED <<raced, crossed, reverted>> /\ early' = (early \/ ~switched)
      /\ cleanup.pc = "remove" /\ cleanup.mount = {m}
      /\ Skip(m) \/ Proceed(m, "mark")
  BY DEF Remove
<1>2. PICK d \in Remains(m) \cup {NoDirectory} : original' = [original EXCEPT ![m] = d]
  BY DEF Remove
<1>3. /\ OriginalMoves /\ CopyMoves /\ copy[m].here
      /\ \A n \in Mounts : n # m => original'[n] = original[n]
  <2>1. m \in cleanup.mount /\ cleanup.pc = "remove" /\ copy' = copy
    BY <1>1
  <2>2. CopyMoves
    BY <2>1, StillCopy
  <2>3. /\ OriginalMoves /\ copy[m].here
        /\ \A n \in Mounts : n # m => original'[n] = original[n]
    BY <1>2, <2>1, RemovalMoves
  <2> QED
    BY <2>2, <2>3
<1>4. MountTypeOK /\ "mark" \in CleanupPcs
  BY DEF MountInv, CleanupPcs
<1>5. cleanup' \in Job(CleanupPcs) /\ cleanup'.pc \in {"mounts", "mark"}
  BY <1>1, <1>4, SkipIs, ProceedIs
<1>6. MountTypeOK'
  BY <1>1, <1>3, <1>5 DEF MountInv, MountTypeOK, OriginalMoves, CleanupPcs
<1>7. Bounded' /\ NothingLost' /\ BeforeSwitch'
  <2>1. migration'.pc # "idle" => ~switched'
    BY <1>1 DEF MountInv, BeforeSwitch
  <2>2. ~switched' => deploy' # "copy"
    BY <1>1 DEF MountInv, BeforeSwitch
  <2> QED
    BY <1>1, <1>3, <2>1, <2>2, DataKept
<1>8. Removable'
  BY <1>5 DEF Removable
<1>9. Smooth' => Smooth /\ switched
  <2>1. ~early' => ~early /\ switched
    BY <1>1, Zenon
  <2> QED
    BY <1>1, <2>1 DEF Smooth
<1>10. InPlace'
  BY <1>1, <1>3, <1>9 DEF MountInv, InPlace, Holds, Copying
<1>11. CopiedSoFar'
  BY <1>1, <1>9 DEF MountInv, CopiedSoFar, Smooth, Holds, Copying
<1> QED
  BY <1>6, <1>7, <1>8, <1>10, <1>11 DEF MountInv

(* A restart ends both jobs, in the middle of a copy and of a removal. *)
LEMMA ProcessRestartsKeeps ==
  ASSUME MountInv, ProcessRestarts
  PROVE  MountInv'
<1>1. /\ UNCHANGED <<newest, switched, containers, raced, crossed>>
      /\ release' \in {"new", "old"} /\ reverted' = (reverted \/ release' = "old")
      /\ deploy' = "none" /\ migration' = AtRest /\ cleanup' = AtRest
  BY DEF ProcessRestarts
<1>2. AtRest \in Job(MigrationPcs) /\ AtRest \in Job(CleanupPcs) /\ AtRest.pc = "idle"
  BY DEF AtRest, Job, MigrationPcs, CleanupPcs
<1>3. CopyMoves /\ (switched => copy' = copy)
  <2>1. CASE migration.pc = "copy"
    <3>1. PICK m \in migration.mount, fs \in SUBSET Files : copy' = Overlay(m, fs)
      BY <2>1 DEF ProcessRestarts
    <3>2. m \in Mounts /\ copy[m].here /\ ~switched
      BY <2>1 DEF MountInv, MountTypeOK, Job, BeforeSwitch, CopiedSoFar, Copying
    <3> QED
      BY <3>1, <3>2, OverlayMoves
  <2>2. CASE migration.pc # "copy"
    BY <2>2, StillCopy DEF ProcessRestarts
  <2> QED
    BY <2>1, <2>2
<1>4. /\ OriginalMoves
      /\ \/ original' = original /\ early' = early
         \/ /\ early' = (early \/ ~switched)
            /\ \A n \in Mounts : copy[n].here \/ original'[n] = original[n]
  <2>1. CASE cleanup.pc = "remove"
    <3>1. PICK m \in cleanup.mount :
            original' \in {[original EXCEPT ![m] = d] : d \in Remains(m) \cup {NoDirectory}}
      BY <2>1 DEF ProcessRestarts
    <3>2. PICK d \in Remains(m) \cup {NoDirectory} : original' = [original EXCEPT ![m] = d]
      BY <3>1
    <3>3. early' = (early \/ ~switched)
      BY <2>1 DEF ProcessRestarts
    <3> QED
      BY <2>1, <3>2, <3>3, RemovalMoves
  <2>2. CASE cleanup.pc # "remove"
    BY <2>2, StillOriginal DEF ProcessRestarts
  <2> QED
    BY <2>1, <2>2
<1>5. MountTypeOK'
  BY <1>1, <1>2, <1>3, <1>4 DEF MountInv, MountTypeOK, CopyMoves, OriginalMoves, MigrationPcs, CleanupPcs
<1>6. Bounded' /\ NothingLost' /\ BeforeSwitch'
  <2>1. migration'.pc = "idle" /\ deploy' # "copy"
    BY <1>1, <1>2
  <2> QED
    BY <1>1, <1>3, <1>4, <2>1, DataKept
<1>7. Removable' /\ CopiedSoFar'
  BY <1>1, <1>2 DEF Removable, CopiedSoFar, Copying
<1>8. InPlace'
  <2>1. ASSUME Smooth' PROVE Smooth /\ release' = "new"
    <3>1. ~reverted' => ~reverted /\ release' # "old"
      BY <1>1, Zenon
    <3>2. ~early' => ~early
      BY <1>4, Zenon
    <3> QED
      BY <1>1, <2>1, <3>1, <3>2 DEF Smooth
  <2>2. ASSUME Smooth', ~switched, NEW m \in Mounts PROVE Holds(original'[m], newest[m])
    <3>1. original' = original
      BY <1>4, <2>2 DEF Smooth
    <3> QED
      BY <2>1, <2>2, <3>1 DEF MountInv, InPlace, Holds
  <2>3. ASSUME Smooth', switched, NEW m \in Mounts
        PROVE  IF copy'[m].here THEN Holds(copy'[m], newest[m]) ELSE Holds(original'[m], newest[m])
    <3>1. copy' = copy /\ (copy[m].here \/ original'[m] = original[m])
      BY <1>3, <1>4, <2>3
    <3> QED
      BY <2>1, <2>3, <3>1 DEF MountInv, InPlace, Holds
  <2>4. ASSUME Smooth', Copying' \/ switched' PROVE containers.on = "copy" \/ containers.state # "running"
    BY <1>1, <1>2, <2>1, <2>4 DEF MountInv, InPlace, Copying
  <2> QED
    BY <1>1, <2>1, <2>2, <2>3, <2>4 DEF InPlace, Holds
<1> QED
  BY <1>5, <1>6, <1>7, <1>8 DEF MountInv

LEMMA MountNextInv == MountInv /\ [MountNext]_mountVars => MountInv'
<1> SUFFICES ASSUME MountInv, [MountNext]_mountVars PROVE MountInv'
  OBVIOUS
<1>1. CASE StartDeploy \/ DeployFails \/ StopProject \/ ContainersExit \/ UNCHANGED mountVars
  BY <1>1, MountControlKeeps
<1>2. CASE Up \/ Revive
  BY <1>2, UpKeeps, ReviveKeeps
<1>3. CASE \E m \in Mounts : Seed(m) \/ \E f \in Files : Write(m, f)
  BY <1>3, SeedKeeps, WriteKeeps
<1>4. CASE StartMigration \/ CheckStopped \/ EndMigration
  BY <1>4, StartMigrationKeeps, CheckStoppedKeeps, EndMigrationKeeps
<1>5. CASE \E m \in Mounts : Probe(m) \/ CopyFiles(m) \/ Verify(m)
  BY <1>5, ProbeKeeps, CopyFilesKeeps, VerifyKeeps
<1>6. CASE CleanupNext
  <2>1. CASE StartCleanup \/ EndCleanup \/ \E m \in Mounts : ProbeOriginal(m) \/ MarkRemoved(m)
    BY <2>1, CleanupTurnsKeep
  <2>2. CASE \E m \in Mounts : ProbeManaged(m) \/ ListContainers(m) \/ Compare(m)
    BY <2>2, ChecksKeep
  <2>3. CASE \E m \in Mounts : Remove(m)
    BY <2>3, RemoveKeeps
  <2> QED
    BY <1>6, <2>1, <2>2, <2>3 DEF CleanupNext
<1>7. CASE ProcessRestarts
  BY <1>7, ProcessRestartsKeeps
<1> QED
  BY <1>1, <1>2, <1>3, <1>4, <1>5, <1>6, <1>7 DEF MountNext, MigrationNext

LEMMA MountInvariant == MountSpec => []MountInv
<1> QED
  BY MountInitInv, MountNextInv, PTL DEF MountSpec

\* The data of the mounts survives the move: whatever fails or dies, and after a return to the old
\* release, the newest version of every file is in one of its two directories.
THEOREM DataSurvivesMove == MountSpec => []NothingLost
<1>1. MountInv => NothingLost
  BY DEF MountInv
<1> QED
  BY <1>1, MountInvariant, PTL

\* An Up mounts the directories that hold the newest data, unless one of the three things that
\* StartsOnItsData names came between.
THEOREM UpOnNewestData == MountSpec => StartsOnItsData
<1> DEFINE Starts == Up => OnItsData \/ raced' \/ early \/ reverted
<1>1. MountInv /\ [MountNext]_mountVars => [Starts]_mountVars
  <2> SUFFICES ASSUME MountInv, Up, ~raced', ~early, ~reverted PROVE OnItsData
    OBVIOUS
  <2>1. /\ deploy \in {"original", "copy"} /\ containers' = [state |-> "running", on |-> deploy]
        /\ deploy = "copy" => original' = original /\ \A m \in Mounts : copy[m].here
        /\ deploy = "original" => original' = [m \in Mounts |-> [original[m] EXCEPT !.here = TRUE]]
        /\ raced' = (raced \/ (deploy = "original" /\ release = "new" /\ (Copying \/ switched)))
        /\ copy' = copy
    BY DEF Up, ComeUp, MountInv, MountTypeOK
  <2>2. Smooth /\ release = "new"
    BY <2>1 DEF Smooth, MountInv, InPlace
  <2>3. ASSUME NEW m \in Mounts, deploy = "copy" PROVE newest[m] = copy'[m].file
    <3>1. switched /\ copy[m].here
      BY <2>1, <2>3 DEF MountInv, BeforeSwitch
    <3>2. Holds(copy[m], newest[m])
      BY <2>2, <3>1 DEF MountInv, InPlace
    <3> QED
      BY <2>1, <3>2, Types DEF Holds, MountInv
  <2>4. ASSUME NEW m \in Mounts, deploy = "original" PROVE newest[m] = original'[m].file
    <3>1. ~switched
      BY <2>1, <2>2, <2>4
    <3>2. Holds(original[m], newest[m])
      BY <2>2, <3>1 DEF MountInv, InPlace
    <3>3. original[m] \in Directory /\ original'[m] = [original[m] EXCEPT !.here = TRUE]
      BY <2>1, <2>4, Types DEF MountInv
    <3>4. original'[m].file = original[m].file
      BY <3>3, Opened
    <3> QED
      BY <3>2, <3>4, Types DEF Holds, MountInv
  <2> QED
    BY <2>1, <2>3, <2>4 DEF OnItsData
<1>2. MountSpec => [][Starts]_mountVars
  BY <1>1, MountInvariant, PTL DEF MountSpec
<1> QED
  BY <1>2 DEF StartsOnItsData

-----------------------------------------------------------------------------
(* HistoryAudit: how many newer rows there are, and what pruning leaves of them *)

Deep(S, x) == Cardinality({j \in S : j > x}) >= RetentionLimit

LEMMA Above ==
  ASSUME NEW n \in Nat, NEW S \in SUBSET (1..n), NEW x \in Nat
  PROVE  /\ IsFiniteSet({j \in S : j > x})
         /\ Cardinality({j \in S : j > x}) \in Nat
<1>1. IsFiniteSet(S)
  <2>1. IsFiniteSet(1..n)
    BY FS_Interval
  <2> QED
    BY <2>1, FS_Subset
<1>2. {j \in S : j > x} \subseteq S
  OBVIOUS
<1>3. IsFiniteSet({j \in S : j > x})
  BY <1>1, <1>2, FS_Subset
<1> QED
  BY <1>3, FS_CardinalityType

(* What is above y is above x when x <= y, and a larger set has no fewer above. *)
LEMMA DeepGrows ==
  ASSUME NEW n \in Nat, NEW S \in SUBSET (1..n), NEW R \in SUBSET (1..n), NEW x \in Nat, NEW y \in Nat,
         x <= y, \A j \in S : j > y => j \in R, Deep(S, y)
  PROVE  Deep(R, x)
<1>1. {j \in S : j > y} \subseteq {j \in R : j > x}
  <2>1. ASSUME NEW j \in S, j > y PROVE j \in R /\ j > x
    <3>1. j \in Nat
      OBVIOUS
    <3> QED
      BY <2>1, <3>1
  <2> QED
    BY <2>1
<1>2. /\ IsFiniteSet({j \in R : j > x}) /\ Cardinality({j \in R : j > x}) \in Nat
      /\ Cardinality({j \in S : j > y}) \in Nat
  BY Above
<1>3. Cardinality({j \in S : j > y}) <= Cardinality({j \in R : j > x})
  BY <1>1, <1>2, FS_Subset
<1> QED
  BY <1>2, <1>3, HistoryAssumption DEF Deep

(* The newest rows are those that are not deep. *)
LEMMA NewestNotDeep ==
  ASSUME NEW n \in Nat, NEW S \in SUBSET (1..n), NEW x \in S
  PROVE  x \in Newest(S) <=> ~Deep(S, x)
<1>1. x \in Nat
  OBVIOUS
<1>2. Cardinality({j \in S : j > x}) \in Nat
  BY <1>1, Above
<1> QED
  BY <1>2, HistoryAssumption DEF Newest, Deep

LEMMA DeepKept ==
  ASSUME NEW n \in Nat, NEW S \in SUBSET (1..n), NEW R \in SUBSET S, Newest(S) \subseteq R,
         NEW x \in Nat, Deep(S, x)
  PROVE  Deep(R, x)
<1> DEFINE Left == {j \in S : j > x /\ j \notin Newest(S)}
<1>1. R \in SUBSET (1..n) /\ Left \in SUBSET Nat /\ \A j \in Left : j <= n
  <2>1. \A j \in S : j \in Nat /\ j <= n
    OBVIOUS
  <2>2. R \in SUBSET (1..n)
    OBVIOUS
  <2> QED
    BY <2>1, <2>2
<1>2. CASE Left = {}
  <2>1. \A j \in S : j > x => j \in R
    BY <1>2
  <2>2. x <= x
    OBVIOUS
  <2> QED
    BY <1>1, <2>1, <2>2, DeepGrows
<1>3. CASE Left # {}
  <2> DEFINE y == Max(Left)
  <2>1. y \in Left /\ \A j \in Left : j <= y
    <3> HIDE DEF Left
    <3> QED
      BY <1>1, <1>3, MaxOfBounded
  <2> HIDE DEF y
  <2>2. y \in S /\ y \in Nat /\ x <= y /\ y \notin Newest(S)
    BY <2>1
  <2>3. Deep(S, y)
    BY <2>2, NewestNotDeep
  <2>4. ASSUME NEW j \in S, j > y PROVE j \in R
    <3>1. j \in Nat /\ j > x
      BY <2>2, <2>4
    <3>2. j \notin Left
      BY <2>1, <2>2, <2>4, <3>1
    <3> QED
      BY <3>1, <3>2
  <2> QED
    BY <1>1, <2>2, <2>3, <2>4, DeepGrows
<1> QED
  BY <1>2, <1>3

-----------------------------------------------------------------------------
(* HistoryAudit: which row runs and which a default rollback would restore *)

Eligible(t) == {i \in DOMAIN t : /\ t[i].status = "superseded" /\ ~t[i].rolledBack
                                 /\ t[i].rev \notin Unrestorable}

LEMMA ActiveIs ==
  ASSUME NEW t, NEW n \in Nat, IsTable(t, n), IsSingle(t)
  PROVE  /\ ActiveIds(t) = {} => \A i \in DOMAIN t : ~IsRunningRevision(t, i)
         /\ \A a \in ActiveIds(t) : ActiveId(t) = a /\ a # NoRow
         /\ \A a \in ActiveIds(t), i \in DOMAIN t : IsRunningRevision(t, i) <=> t[i].rev = t[a].rev
<1>1. ActiveIds(t) \in SUBSET (1..n)
  BY DEF ActiveIds, IsTable
<1>2. ActiveIds(t) = {} => ActiveId(t) = NoRow
  BY <1>1, NewestOfIds DEF ActiveId
<1>3. ASSUME NEW a \in ActiveIds(t) PROVE ActiveId(t) = a /\ a # NoRow
  <2>1. ActiveId(t) \in ActiveIds(t)
    BY <1>1, NewestOfIds DEF ActiveId
  <2> QED
    BY <1>1, <2>1 DEF IsSingle, NoRow
<1> QED
  BY <1>2, <1>3 DEF IsRunningRevision

LEMMA TargetIs ==
  ASSUME NEW t, NEW n \in Nat, IsTable(t, n)
  PROVE  /\ \A i \in DOMAIN t : i \in DefaultCandidates(t) <=> i \in Eligible(t) /\ ~IsRunningRevision(t, i)
         /\ DefaultCandidates(t) \subseteq DOMAIN t
         /\ DefaultCandidates(t) = {} => DefaultTarget(t) = NoRow
         /\ DefaultTarget(t) # NoRow => DefaultTarget(t) \in DefaultCandidates(t)
         /\ \A i \in DefaultCandidates(t) : DefaultTarget(t) # NoRow /\ i <= DefaultTarget(t)
<1>1. DefaultCandidates(t) \in SUBSET (1..n) /\ DefaultCandidates(t) \subseteq DOMAIN t
  BY DEF DefaultCandidates, IsTable
<1>2. DefaultCandidates(t) = {} => DefaultTarget(t) = NoRow
  BY <1>1, NewestOfIds DEF DefaultTarget
<1>3. DefaultCandidates(t) # {} => /\ DefaultTarget(t) \in DefaultCandidates(t)
                                   /\ \A i \in DefaultCandidates(t) : i <= DefaultTarget(t)
  BY <1>1, NewestOfIds DEF DefaultTarget
<1>4. NoRow \notin DefaultCandidates(t)
  BY <1>1 DEF NoRow
<1>5. \A i \in DOMAIN t : i \in DefaultCandidates(t) <=> i \in Eligible(t) /\ ~IsRunningRevision(t, i)
  BY DEF DefaultCandidates, Eligible, IsRestorable
<1> QED
  BY <1>1, <1>2, <1>3, <1>4, <1>5

LEMMA PruneKeepsTarget ==
  ASSUME NEW t, NEW n \in Nat, IsTable(t, n)
  PROVE  ActiveId(Prune(t)) = ActiveId(t) /\ DefaultTarget(Prune(t)) = DefaultTarget(t)
<1> DEFINE P == Prune(t)
<1>1. /\ DOMAIN P \subseteq DOMAIN t /\ \A i \in DOMAIN P : P[i] = t[i]
      /\ ActiveIds(P) = ActiveIds(t)
  BY PruneKeeps
<1>2. DefaultTarget(t) \in DOMAIN t => DefaultTarget(t) \in DOMAIN P
  BY DEF Prune, Keep
<1> HIDE DEF P
<1>3. ActiveId(P) = ActiveId(t)
  BY <1>1 DEF ActiveId
<1>4. ActiveId(t) # NoRow => ActiveId(t) \in ActiveIds(t)
  <2>1. ActiveIds(t) \in SUBSET (1..n)
    BY DEF ActiveIds, IsTable
  <2> QED
    BY <2>1, NewestOfIds DEF ActiveId, NewestOf
<1>5. ActiveId(t) # NoRow => P[ActiveId(t)] = t[ActiveId(t)]
  BY <1>1, <1>4 DEF ActiveIds
<1>6. DefaultCandidates(P) = DefaultCandidates(t) \cap DOMAIN P
  <2>1. ASSUME NEW i \in DOMAIN P PROVE i \in DefaultCandidates(P) <=> i \in DefaultCandidates(t)
    BY <1>1, <1>3, <1>5 DEF DefaultCandidates, IsRestorable, IsRunningRevision
  <2>2. DefaultCandidates(P) \subseteq DOMAIN P
    BY DEF DefaultCandidates
  <2> QED
    BY <2>1, <2>2
<1>7. DefaultCandidates(t) \in SUBSET (1..n)
  BY DEF DefaultCandidates, IsTable
<1>8. DefaultCandidates(t) # {} => DefaultTarget(t) \in DefaultCandidates(P)
  <2>1. DefaultCandidates(t) # {} => DefaultTarget(t) \in DefaultCandidates(t)
    BY <1>7, NewestOfIds DEF DefaultTarget
  <2>2. DefaultCandidates(t) \subseteq DOMAIN t
    BY DEF DefaultCandidates
  <2> QED
    BY <1>2, <1>6, <2>1, <2>2
<1>9. DefaultTarget(P) = DefaultTarget(t)
  BY <1>6, <1>7, <1>8, NewestOfSubset DEF DefaultTarget
<1> QED
  BY <1>3, <1>9 DEF P

-----------------------------------------------------------------------------
(* HistoryAudit: the table beside the one that was never pruned *)

Dropped(t, u) == DOMAIN u \ DOMAIN t

\* u has every row of t, and its active row is the newest that was ever brought up.
Beside(t, u, n) ==
  /\ IsTable(t, n) /\ IsTable(u, n) /\ IsSingle(u)
  /\ DOMAIN t \subseteq DOMAIN u /\ \A i \in DOMAIN t : t[i] = u[i]
  /\ ActiveIds(t) = ActiveIds(u)
  /\ \A i \in DOMAIN u : u[i].status = "superseded" => \E a \in ActiveIds(u) : i < a
  /\ \A x \in Dropped(t, u) : Deep(DOMAIN t, x)

\* Of the rows older than one that was dropped, only the fallback is left.
Gap(t, u) ==
  \A x \in Dropped(t, u) \cap Eligible(u), q \in Eligible(t) : q < x => q = DefaultTarget(t)

\* A row dropped although it was newer than the fallback is of the revision that runs.
Covered(t, u) ==
  \A x \in Dropped(t, u) \cap Eligible(u) :
    DefaultTarget(t) # NoRow /\ DefaultTarget(t) < x => \A a \in ActiveIds(u) : u[x].rev = u[a].rev

LEMMA PruneBeside ==
  ASSUME NEW t, NEW u, NEW n \in Nat, Beside(t, u, n)
  PROVE  /\ Beside(Prune(t), u, n) /\ Gap(Prune(t), u)
         /\ DefaultTarget(Prune(t)) = DefaultTarget(t)
         /\ Covered(t, u) => Covered(Prune(t), u)
<1> DEFINE P == Prune(t)
<1>1. /\ DOMAIN P \subseteq DOMAIN t /\ \A i \in DOMAIN P : P[i] = t[i]
      /\ ActiveIds(P) = ActiveIds(t) /\ IsTable(P, n)
      /\ DefaultTarget(P) = DefaultTarget(t)
  BY PruneKeeps, PruneKeepsTarget DEF Beside
<1>2. /\ Newest(DOMAIN t) \subseteq DOMAIN P
      /\ \A i \in DOMAIN P : i \in ActiveIds(t) \/ i = DefaultTarget(t) \/ i \in Newest(DOMAIN t)
  BY DEF Prune, Keep
<1> HIDE DEF P
<1>3. DOMAIN t \in SUBSET (1..n) /\ DOMAIN u \in SUBSET (1..n) /\ DOMAIN P \in SUBSET DOMAIN t
  BY <1>1 DEF Beside, IsTable
<1>4. \A x \in DOMAIN u : x \in Nat
  BY <1>3
<1>5. ASSUME NEW x \in Dropped(P, u) PROVE Deep(DOMAIN t, x)
  <2>1. CASE x \in DOMAIN t
    <3>1. x \notin Newest(DOMAIN t)
      BY <1>2, <1>5 DEF Dropped
    <3> QED
      BY <1>3, <2>1, <3>1, NewestNotDeep
  <2>2. CASE x \notin DOMAIN t
    BY <1>5, <2>2 DEF Beside, Dropped
  <2> QED
    BY <2>1, <2>2
<1>6. Beside(P, u, n)
  <2>1. ASSUME NEW x \in Dropped(P, u) PROVE Deep(DOMAIN P, x)
    <3>1. Deep(DOMAIN t, x) /\ x \in Nat
      BY <1>4, <1>5 DEF Dropped
    <3> QED
      BY <1>2, <1>3, <3>1, DeepKept
  <2> QED
    BY <1>1, <2>1 DEF Beside
<1>7. Gap(P, u)
  <2> SUFFICES ASSUME NEW x \in Dropped(P, u) \cap Eligible(u), NEW q \in Eligible(P), q < x
               PROVE  q = DefaultTarget(P)
    BY DEF Gap
  <2>1. q \in DOMAIN P /\ q \in DOMAIN t /\ P[q].status = "superseded" /\ x \in Nat /\ q \in Nat
    BY <1>1, <1>3, <1>4 DEF Eligible, Dropped
  <2>2. q \notin ActiveIds(t)
    BY <1>1, <2>1 DEF ActiveIds
  <2>3. q \notin Newest(DOMAIN t)
    <3>1. Deep(DOMAIN t, x) /\ q <= x
      BY <1>5, <2>1
    <3>2. \A j \in DOMAIN t : j > x => j \in DOMAIN t
      OBVIOUS
    <3>3. Deep(DOMAIN t, q)
      BY <1>3, <2>1, <3>1, <3>2, DeepGrows
    <3> QED
      BY <1>3, <2>1, <3>3, NewestNotDeep
  <2> QED
    BY <1>1, <1>2, <2>1, <2>2, <2>3
<1>8. ASSUME Covered(t, u) PROVE Covered(P, u)
  <2> SUFFICES ASSUME NEW x \in Dropped(P, u) \cap Eligible(u), NEW a \in ActiveIds(u),
                      DefaultTarget(t) # NoRow, DefaultTarget(t) < x
               PROVE  u[x].rev = u[a].rev
    BY <1>1 DEF Covered
  <2>1. CASE x \notin DOMAIN t
    BY <1>8, <2>1 DEF Covered, Dropped
  <2>2. CASE x \in DOMAIN t
    <3>1. x \in Eligible(t) /\ t[x] = u[x]
      BY <2>2 DEF Beside, Eligible
    <3>2. x \notin DefaultCandidates(t)
      <4>1. DefaultTarget(t) \in Nat /\ x \in Nat
        BY <1>3, <2>2, TargetIs DEF Beside
      <4> QED
        BY <4>1, TargetIs DEF Beside
    <3>3. IsRunningRevision(t, x)
      BY <2>2, <3>1, <3>2, TargetIs DEF Beside
    <3>4. a \in ActiveIds(t) /\ a \in DOMAIN t /\ t[a] = u[a]
      BY DEF Beside, ActiveIds
    <3>5. IsSingle(t)
      BY DEF Beside, IsSingle, ActiveIds
    <3> QED
      BY <2>2, <3>1, <3>3, <3>4, <3>5, ActiveIs DEF Beside
  <2> QED
    BY <2>1, <2>2
<1> QED
  BY <1>1, <1>6, <1>7, <1>8 DEF P

(* A failed attempt is one more row of both, and one that no rollback restores. *)
LEMMA FailedBeside ==
  ASSUME NEW t, NEW u, NEW n \in Nat, Beside(t, u, n), NEW r \in Revisions
  PROVE  LET W == WithRow(t, n + 1, NewRow(r, "failed"))
             F == WithRow(u, n + 1, NewRow(r, "failed"))
         IN  /\ Beside(W, F, n + 1) /\ (Covered(t, u) => Covered(W, F))
             /\ DefaultTarget(W) = DefaultTarget(t) /\ DefaultTarget(F) = DefaultTarget(u)
             /\ \A i \in DOMAIN u : F[i] = u[i]
<1> DEFINE W == WithRow(t, n + 1, NewRow(r, "failed"))
           F == WithRow(u, n + 1, NewRow(r, "failed"))
<1>1. /\ IsTable(W, n + 1) /\ DOMAIN W = DOMAIN t \cup {n + 1} /\ \A i \in DOMAIN t : W[i] = t[i]
      /\ ActiveIds(W) = ActiveIds(t)
  BY FailedRow DEF Beside
<1>2. /\ IsTable(F, n + 1) /\ DOMAIN F = DOMAIN u \cup {n + 1} /\ \A i \in DOMAIN u : F[i] = u[i]
      /\ F[n + 1].status = "failed" /\ ActiveIds(F) = ActiveIds(u)
  BY FailedRow DEF Beside
<1>3. /\ DefaultTarget(Rejected(t, n + 1, r)) = DefaultTarget(t)
      /\ DefaultTarget(Rejected(u, n + 1, r)) = DefaultTarget(u)
  BY RejectedKeepsFallback DEF Beside
<1>4. Rejected(t, n + 1, r) = Prune(W) /\ Rejected(u, n + 1, r) = Prune(F)
  BY DEF Rejected
<1>5. W[n + 1] = F[n + 1]
  BY DEF WithRow
<1> HIDE DEF W, F
<1>6. n + 1 \in Nat
  OBVIOUS
<1>7. DefaultTarget(W) = DefaultTarget(t) /\ DefaultTarget(F) = DefaultTarget(u)
  BY <1>1, <1>2, <1>3, <1>4, <1>6, PruneKeepsTarget
<1>8. Dropped(W, F) \subseteq Dropped(t, u) /\ \A x \in Dropped(W, F) : x \in DOMAIN u /\ F[x] = u[x]
  BY <1>1, <1>2 DEF Dropped
<1>9. Beside(W, F, n + 1)
  <2>1. IsSingle(F)
    BY <1>2 DEF Beside, IsSingle, ActiveIds
  <2>2. DOMAIN W \subseteq DOMAIN F /\ \A i \in DOMAIN W : W[i] = F[i]
    BY <1>1, <1>2, <1>5 DEF Beside
  <2>3. \A i \in DOMAIN F : F[i].status = "superseded" => \E a \in ActiveIds(F) : i < a
    BY <1>2 DEF Beside
  <2>4. ASSUME NEW x \in Dropped(W, F) PROVE Deep(DOMAIN W, x)
    <3>1. Deep(DOMAIN t, x) /\ x \in DOMAIN u
      BY <1>8, <2>4 DEF Beside
    <3>2. DOMAIN t \in SUBSET (1..(n + 1)) /\ DOMAIN W \in SUBSET (1..(n + 1)) /\ x \in Nat /\ x <= x
      BY <3>1 , <1>1 DEF Beside, IsTable
    <3> QED
      BY <1>1, <1>6, <3>1, <3>2, DeepGrows
  <2> QED
    BY <1>1, <1>2, <2>1, <2>2, <2>3, <2>4 DEF Beside
<1>10. ASSUME Covered(t, u) PROVE Covered(W, F)
  <2>1. ASSUME NEW x \in Dropped(W, F) \cap Eligible(F) PROVE x \in Dropped(t, u) \cap Eligible(u)
    BY <1>8, <2>1 DEF Eligible
  <2>2. \A a \in ActiveIds(u) : a \in DOMAIN u
    BY DEF ActiveIds
  <2> QED
    BY <1>2, <1>7, <1>8, <1>10, <2>1, <2>2 DEF Covered
<1> QED
  BY <1>2, <1>7, <1>9, <1>10 DEF W, F

(* The health check's mark is on the same row of both. *)
LEMMA MarkedRows ==
  ASSUME NEW t, NEW n \in Nat, IsTable(t, n), IsSingle(t)
  PROVE  /\ DOMAIN Unhealthy(t) = DOMAIN t /\ IsTable(Unhealthy(t), n) /\ IsSingle(Unhealthy(t))
         /\ ActiveIds(Unhealthy(t)) = ActiveIds(t) /\ Eligible(Unhealthy(t)) = Eligible(t)
         /\ \A i \in DOMAIN t : /\ Unhealthy(t)[i].rev = t[i].rev
                                /\ Unhealthy(t)[i].status = t[i].status
         /\ DefaultTarget(Unhealthy(t)) = DefaultTarget(t)
<1> DEFINE U == Unhealthy(t)
<1>1. DOMAIN U = DOMAIN t /\ IsTable(U, n) /\ IsSingle(U)
  BY UnhealthyKeeps
<1>2. \A i \in DOMAIN t : U[i] = IF t[i].status = "active"
                                 THEN [t[i] EXCEPT !.unhealthy = TRUE] ELSE t[i]
  BY DEF Unhealthy
<1> HIDE DEF U
<1>3. ASSUME NEW i \in DOMAIN t
      PROVE  U[i].rev = t[i].rev /\ U[i].status = t[i].status /\ U[i].rolledBack = t[i].rolledBack
  <2>1. t[i] \in Row
    BY DEF IsTable
  <2> QED
    BY <1>2, <2>1 DEF Row
<1>4. ActiveIds(U) = ActiveIds(t) /\ Eligible(U) = Eligible(t)
  BY <1>1, <1>3 DEF ActiveIds, Eligible
<1>5. ActiveId(U) = ActiveId(t)
  BY <1>4 DEF ActiveId
<1>6. ActiveId(t) # NoRow => ActiveId(t) \in DOMAIN t
  <2>1. ActiveIds(t) \in SUBSET (1..n) /\ ActiveIds(t) \subseteq DOMAIN t
    BY DEF ActiveIds, IsTable
  <2> QED
    BY <2>1, NewestOfIds DEF ActiveId, NewestOf
<1>7. DefaultCandidates(U) = DefaultCandidates(t)
  BY <1>1, <1>3, <1>5, <1>6 DEF DefaultCandidates, IsRestorable, IsRunningRevision
<1> QED
  BY <1>1, <1>3, <1>4, <1>7 DEF U, DefaultTarget

LEMMA MarkedBeside ==
  ASSUME NEW t, NEW u, NEW n \in Nat, Beside(t, u, n)
  PROVE  /\ Beside(Unhealthy(t), Unhealthy(u), n)
         /\ Gap(t, u) => Gap(Unhealthy(t), Unhealthy(u))
         /\ Covered(t, u) => Covered(Unhealthy(t), Unhealthy(u))
<1>1. IsTable(t, n) /\ IsSingle(t) /\ IsTable(u, n) /\ IsSingle(u)
  BY DEF Beside, IsSingle, ActiveIds
<1> DEFINE T == Unhealthy(t)
           U == Unhealthy(u)
<1>2. /\ DOMAIN T = DOMAIN t /\ IsTable(T, n) /\ ActiveIds(T) = ActiveIds(t) /\ Eligible(T) = Eligible(t)
      /\ DefaultTarget(T) = DefaultTarget(t)
  BY <1>1, MarkedRows
<1>3. /\ DOMAIN U = DOMAIN u /\ IsTable(U, n) /\ IsSingle(U)
      /\ ActiveIds(U) = ActiveIds(u) /\ Eligible(U) = Eligible(u)
      /\ \A i \in DOMAIN u : U[i].rev = u[i].rev /\ U[i].status = u[i].status
  BY <1>1, MarkedRows
<1>4. ASSUME NEW i \in DOMAIN t PROVE T[i] = U[i]
  BY DEF Beside, Unhealthy
<1>5. Dropped(T, U) = Dropped(t, u)
  BY <1>2, <1>3 DEF Dropped
<1> HIDE DEF T, U
<1>6. Beside(T, U, n)
  BY <1>2, <1>3, <1>4, <1>5 DEF Beside
<1>7. Gap(t, u) => Gap(T, U)
  BY <1>2, <1>3, <1>5 DEF Gap
<1>8. Covered(t, u) => Covered(T, U)
  <2>1. \A a \in ActiveIds(u) : a \in DOMAIN u
    BY DEF ActiveIds
  <2> QED
    BY <1>2, <1>3, <1>5, <2>1 DEF Covered, Dropped
<1> QED
  BY <1>6, <1>7, <1>8 DEF T, U

(* A deploy or a rollback puts its row on top, and sets the one that ran aside. *)
LEMMA ActivatedRows ==
  ASSUME NEW t, NEW n \in Nat, IsTable(t, n), NEW r \in Revisions, NEW rollback \in BOOLEAN,
         NEW A, A = Activate(t, n + 1, r, rollback)
  PROVE  /\ DOMAIN A = DOMAIN t \cup {n + 1} /\ IsTable(A, n + 1) /\ IsSingle(A)
         /\ ActiveIds(A) = {n + 1} /\ A[n + 1] = NewRow(r, "active")
         /\ \A i \in DOMAIN t : /\ A[i].rev = t[i].rev
                                /\ t[i].status # "active" => A[i] = t[i]
         /\ \A i \in ActiveIds(t) : /\ A[i].status = "superseded"
                                    /\ ~rollback /\ ~t[i].rolledBack => ~A[i].rolledBack
                                    /\ rollback => A[i].rolledBack
<1>1. A = [i \in DOMAIN t \cup {n + 1} |->
            IF i = n + 1 THEN NewRow(r, "active")
            ELSE IF t[i].status = "active"
              THEN [t[i] EXCEPT !.status = "superseded", !.rolledBack = @ \/ rollback]
              ELSE t[i]]
  <2>1. n + 1 \notin DOMAIN t
    BY DEF IsTable
  <2> QED
    BY <2>1 DEF Activate, WithRow
<1>2. IsTable(A, n + 1) /\ IsSingle(A)
  BY ActivateSingle
<1>3. n + 1 \notin DOMAIN t
  BY DEF IsTable
<1>4. DOMAIN A = DOMAIN t \cup {n + 1} /\ A[n + 1] = NewRow(r, "active")
  BY <1>1
<1>5. ASSUME NEW i \in DOMAIN t, t[i].status # "active" PROVE A[i] = t[i]
  BY <1>1, <1>3, <1>5
<1>6. ASSUME NEW i \in DOMAIN t, t[i].status = "active"
      PROVE  /\ A[i].rev = t[i].rev /\ A[i].status = "superseded"
             /\ ~rollback /\ ~t[i].rolledBack => ~A[i].rolledBack
             /\ rollback => A[i].rolledBack
  <2>1. t[i] \in Row
    BY DEF IsTable
  <2>2. PICK b \in BOOLEAN : b = (t[i].rolledBack \/ rollback)
    BY <2>1 DEF Row
  <2>3. A[i] = [t[i] EXCEPT !.status = "superseded", !.rolledBack = b]
    BY <1>1, <1>3, <1>6, <2>2
  <2>4. A[i].rev = t[i].rev /\ A[i].status = "superseded" /\ A[i].rolledBack = b
    BY <2>1, <2>3 DEF Row
  <2> QED
    BY <2>2, <2>4
<1>7. ActiveIds(A) = {n + 1}
  <2>1. A[n + 1].status = "active"
    BY <1>4 DEF NewRow
  <2> QED
    BY <1>4, <1>5, <1>6, <2>1 DEF ActiveIds
<1>8. \A i \in ActiveIds(t) : i \in DOMAIN t /\ t[i].status = "active"
  BY DEF ActiveIds
<1> QED
  BY <1>2, <1>4, <1>5, <1>6, <1>7, <1>8

(* The row an activation writes is the only active one. *)
LEMMA ActivatedNew ==
  ASSUME NEW t, NEW n \in Nat, IsTable(t, n), NEW r \in Revisions, NEW rollback \in BOOLEAN,
         NEW m, m = n + 1, NEW A, A = Activate(t, m, r, rollback)
  PROVE  /\ DOMAIN A = DOMAIN t \cup {m} /\ ActiveIds(A) = {m}
         /\ A[m].rev = r /\ A[m].status = "active" /\ IsTable(A, m) /\ IsSingle(A)
<1>1. n + 1 \notin DOMAIN t
  BY DEF IsTable
<1>2. A = [i \in DOMAIN t \cup {m} |->
            IF i = m THEN NewRow(r, "active")
            ELSE IF t[i].status = "active"
              THEN [t[i] EXCEPT !.status = "superseded", !.rolledBack = @ \/ rollback]
              ELSE t[i]]
  BY <1>1 DEF Activate, WithRow
<1>3. A[m].rev = r /\ A[m].status = "active"
  <2>1. A[m] = NewRow(r, "active")
    BY <1>2
  <2> QED
    BY <2>1 DEF NewRow
<1>4. ASSUME NEW i \in DOMAIN t
      PROVE  A[i].status # "active"
  <2>1. t[i] \in Row
    BY DEF IsTable
  <2>2. CASE t[i].status = "active"
    <3>1. PICK b : b = (t[i].rolledBack \/ rollback)
      OBVIOUS
    <3>2. A[i] = [t[i] EXCEPT !.status = "superseded", !.rolledBack = b]
      BY <1>1, <1>2, <2>2, <3>1
    <3> QED
      BY <2>1, <3>2 DEF Row
  <2>3. CASE t[i].status # "active"
    BY <1>1, <1>2, <2>3
  <2> QED
    BY <2>2, <2>3
<1>5. DOMAIN A = DOMAIN t \cup {m}
  BY <1>2
<1>6. IsTable(A, m) /\ IsSingle(A)
  BY ActivateSingle
<1> QED
  BY <1>3, <1>4, <1>5, <1>6 DEF ActiveIds

(* An activation changes no revision and calls no other row failed. *)
LEMMA ActivatedKeepsRevision ==
  ASSUME NEW t, NEW n \in Nat, IsTable(t, n), NEW r \in Revisions, NEW rollback \in BOOLEAN,
         NEW m, m = n + 1, NEW A, A = Activate(t, m, r, rollback), NEW i \in DOMAIN t
  PROVE  A[i].rev = t[i].rev /\ (A[i].status = "failed" <=> t[i].status = "failed")
<1>1. n + 1 \notin DOMAIN t
  BY DEF IsTable
<1>2. A = [x \in DOMAIN t \cup {m} |->
            IF x = m THEN NewRow(r, "active")
            ELSE IF t[x].status = "active"
              THEN [t[x] EXCEPT !.status = "superseded", !.rolledBack = @ \/ rollback]
              ELSE t[x]]
  BY <1>1 DEF Activate, WithRow
<1>3. A[i].rev = t[i].rev /\ (A[i].status = "failed" <=> t[i].status = "failed")
  <2>1. t[i] \in Row
    BY DEF IsTable
  <2>2. CASE t[i].status = "active"
    <3>1. PICK b : b = (t[i].rolledBack \/ rollback)
      OBVIOUS
    <3>2. A[i] = [t[i] EXCEPT !.status = "superseded", !.rolledBack = b]
      BY <1>1, <1>2, <2>2, <3>1
    <3> QED
      BY <2>1, <2>2, <3>2 DEF Row
  <2>3. CASE t[i].status # "active"
    BY <1>1, <1>2, <2>3
  <2> QED
    BY <2>2, <2>3
<1> QED
  BY <1>3

LEMMA ActivatedBeside ==
  ASSUME NEW t, NEW u, NEW n \in Nat, Beside(t, u, n), NEW r \in Revisions, NEW rollback \in BOOLEAN
  PROVE  Beside(Activate(t, n + 1, r, rollback), Activate(u, n + 1, r, rollback), n + 1)
<1> PICK T : T = Activate(t, n + 1, r, rollback)
  OBVIOUS
<1> PICK U : U = Activate(u, n + 1, r, rollback)
  OBVIOUS
<1> PICK m : m = n + 1
  OBVIOUS
<1>0. /\ IsTable(t, n) /\ T = Activate(t, m, r, rollback)
      /\ IsTable(u, n) /\ U = Activate(u, m, r, rollback)
  BY DEF Beside
<1>1. DOMAIN T = DOMAIN t \cup {n + 1} /\ IsTable(T, n + 1) /\ ActiveIds(T) = {n + 1}
  BY <1>0, ActivatedNew
<1>2. /\ DOMAIN U = DOMAIN u \cup {n + 1} /\ IsTable(U, n + 1) /\ ActiveIds(U) = {n + 1} /\ IsSingle(U)
      /\ U[n + 1].status = "active"
  BY <1>0, ActivatedNew
<1>3. ASSUME NEW i \in DOMAIN T PROVE T[i] = U[i]
  BY <1>1 DEF Beside, Activate, WithRow
<1>4. \A i \in DOMAIN U : U[i].status = "superseded" => \E a \in ActiveIds(U) : i < a
  BY <1>2 DEF Beside, IsTable
<1>5. ASSUME NEW x \in Dropped(T, U) PROVE Deep(DOMAIN T, x)
  <2>1. x \in Dropped(t, u) /\ Deep(DOMAIN t, x)
    BY <1>1, <1>2, <1>5 DEF Dropped, Beside
  <2>2. DOMAIN t \in SUBSET (1..(n + 1)) /\ DOMAIN T \in SUBSET (1..(n + 1)) /\ x \in Nat /\ x <= x
    BY <1>1, <2>1 DEF Beside, IsTable, Dropped
  <2>3. n + 1 \in Nat
    OBVIOUS
  <2> QED
    BY <1>1, <2>1, <2>2, <2>3, DeepGrows
<1>6. DOMAIN T \subseteq DOMAIN U
  BY <1>1, <1>2 DEF Beside
<1> QED
  BY <1>1, <1>2, <1>3, <1>4, <1>5, <1>6 DEF Beside

(* What is eligible after a row was set aside was so before, or is that row. *)
LEMMA ActivatedEligible ==
  ASSUME NEW t, NEW n \in Nat, IsTable(t, n), IsSingle(t), NEW r \in Revisions, NEW rollback \in BOOLEAN,
         NEW A, A = Activate(t, n + 1, r, rollback)
  PROVE  /\ Eligible(A) \subseteq DOMAIN t
         /\ \A i \in DOMAIN t \ ActiveIds(t) : i \in Eligible(A) <=> i \in Eligible(t)
         /\ \A i \in ActiveIds(t) :
              ~rollback => (i \in Eligible(A) <=> t[i].rev \notin Unrestorable)
         /\ rollback => Eligible(A) = Eligible(t)
         /\ \A i \in DOMAIN t : i \in DefaultCandidates(A) <=> i \in Eligible(A) /\ t[i].rev # r
         /\ DefaultCandidates(A) \subseteq DOMAIN t
<1>1. /\ DOMAIN A = DOMAIN t \cup {n + 1} /\ IsTable(A, n + 1) /\ IsSingle(A)
      /\ ActiveIds(A) = {n + 1} /\ A[n + 1] = NewRow(r, "active")
      /\ \A i \in DOMAIN t : /\ A[i].rev = t[i].rev
                             /\ t[i].status # "active" => A[i] = t[i]
      /\ \A i \in ActiveIds(t) : /\ A[i].status = "superseded"
                                 /\ ~rollback /\ ~t[i].rolledBack => ~A[i].rolledBack
                                 /\ rollback => A[i].rolledBack
  BY ActivatedRows
<1>2. A[n + 1].status = "active" /\ A[n + 1].rev = r /\ n + 1 \notin DOMAIN t
  BY <1>1 DEF NewRow, IsTable
<1>3. Eligible(A) \subseteq DOMAIN t
  BY <1>1, <1>2 DEF Eligible
<1>4. \A i \in DOMAIN t \ ActiveIds(t) : i \in Eligible(A) <=> i \in Eligible(t)
  BY <1>1 DEF Eligible, ActiveIds
<1>5. \A i \in ActiveIds(t) : ~t[i].rolledBack /\ i \in DOMAIN t /\ i \notin Eligible(t)
  BY DEF IsSingle, ActiveIds, Eligible
<1>6. \A i \in ActiveIds(t) : ~rollback => (i \in Eligible(A) <=> t[i].rev \notin Unrestorable)
  BY <1>1, <1>5 DEF Eligible
<1>7. rollback => Eligible(A) = Eligible(t)
  <2>1. rollback => \A i \in ActiveIds(t) : i \notin Eligible(A)
    BY <1>1 DEF Eligible
  <2>2. Eligible(t) \subseteq DOMAIN t
    BY DEF Eligible
  <2> QED
    BY <1>3, <1>4, <1>5, <2>1, <2>2
<1>8. n + 1 \in Nat /\ n + 1 \in ActiveIds(A)
  BY <1>1
<1>9. ASSUME NEW i \in DOMAIN t PROVE i \in DefaultCandidates(A) <=> i \in Eligible(A) /\ t[i].rev # r
  <2>1. IsRunningRevision(A, i) <=> A[i].rev = A[n + 1].rev
    BY <1>1, <1>8, ActiveIs
  <2>2. i \in DefaultCandidates(A) <=> i \in Eligible(A) /\ ~IsRunningRevision(A, i)
    BY <1>1, <1>8, TargetIs
  <2> QED
    BY <1>1, <1>2, <2>1, <2>2
<1>10. DefaultCandidates(A) \subseteq DOMAIN t
  BY <1>1, <1>2 DEF DefaultCandidates
<1> QED
  BY <1>3, <1>4, <1>6, <1>7, <1>9, <1>10

(* A rollback to a row that no rollback moved away from, and every deploy, leaves no older row to
   stand in for a dropped one. *)
LEMMA ActivatedCovered ==
  ASSUME NEW t, NEW u, NEW n \in Nat, Beside(t, u, n), Gap(t, u), Covered(t, u),
         NEW r \in Revisions, NEW rollback \in BOOLEAN,
         rollback => \E i \in ExplicitTargets(t) : t[i].rev = r /\ ~t[i].rolledBack
  PROVE  Covered(Activate(t, n + 1, r, rollback), Activate(u, n + 1, r, rollback))
<1> PICK T : T = Activate(t, n + 1, r, rollback)
  OBVIOUS
<1> PICK U : U = Activate(u, n + 1, r, rollback)
  OBVIOUS
<1>1. IsTable(t, n) /\ IsSingle(t) /\ IsTable(u, n) /\ IsSingle(u) /\ n + 1 \in Nat
  BY DEF Beside, IsSingle, ActiveIds
<1>2. /\ Eligible(T) \subseteq DOMAIN t
      /\ \A i \in DOMAIN t \ ActiveIds(t) : i \in Eligible(T) <=> i \in Eligible(t)
      /\ \A i \in ActiveIds(t) : ~rollback => (i \in Eligible(T) <=> t[i].rev \notin Unrestorable)
      /\ \A i \in DOMAIN t : i \in DefaultCandidates(T) <=> i \in Eligible(T) /\ t[i].rev # r
      /\ DefaultCandidates(T) \subseteq DOMAIN t
  BY <1>1, ActivatedEligible
<1>3. Eligible(U) \subseteq DOMAIN u /\ \A i \in DOMAIN u \ ActiveIds(u) : i \in Eligible(U) <=> i \in Eligible(u)
  BY <1>1, ActivatedEligible
<1>4. DOMAIN T = DOMAIN t \cup {n + 1} /\ IsTable(T, n + 1)
  BY ActivatedRows DEF Beside
<1>5. /\ DOMAIN U = DOMAIN u \cup {n + 1} /\ ActiveIds(U) = {n + 1}
      /\ U[n + 1].rev = r /\ \A i \in DOMAIN u : U[i].rev = u[i].rev
  <2>1. PICK m : m = n + 1
    OBVIOUS
  <2>2. IsTable(u, n) /\ U = Activate(u, m, r, rollback)
    BY <1>1, <2>1
  <2>3. DOMAIN U = DOMAIN u \cup {m} /\ ActiveIds(U) = {m} /\ U[m].rev = r
    <3>1. /\ DOMAIN U = DOMAIN u \cup {m} /\ ActiveIds(U) = {m}
          /\ U[m].rev = r /\ U[m].status = "active" /\ IsTable(U, m) /\ IsSingle(U)
      BY <2>1, <2>2, ActivatedNew
    <3> QED
      BY <3>1
  <2>4. ASSUME NEW i \in DOMAIN u PROVE U[i].rev = u[i].rev
    BY <2>1, <2>2, ActivatedKeepsRevision
  <2> QED
    BY <2>1, <2>3, <2>4
<1> SUFFICES Covered(T, U)
  OBVIOUS
<1> SUFFICES ASSUME NEW x \in Dropped(T, U) \cap Eligible(U), DefaultTarget(T) # NoRow, DefaultTarget(T) < x
             PROVE  u[x].rev = r
  BY <1>3, <1>5 DEF Covered
<1> PICK q : q = DefaultTarget(T)
  OBVIOUS
<1>6. q \in DefaultCandidates(T) /\ \A i \in DefaultCandidates(T) : i <= q
  BY <1>1, <1>4, TargetIs
<1>7. x \in DOMAIN u /\ x \notin DOMAIN t /\ q \in DOMAIN t /\ q \in Nat /\ x \in Nat
  BY <1>2, <1>3, <1>4, <1>5, <1>6 DEF Dropped, IsTable, Beside
<1>8. x \in Dropped(t, u) /\ x \in Eligible(u)
  BY <1>3, <1>7 DEF Dropped, Beside, ActiveIds
<1>9. PICK a \in ActiveIds(u) : x < a
  BY <1>7, <1>8 DEF Beside, Eligible
<1>10. a \in ActiveIds(t) /\ a \in DOMAIN t /\ t[a] = u[a] /\ a \in Nat
  BY <1>1, <1>9 DEF Beside, ActiveIds, IsTable
<1>11. q \notin ActiveIds(t)
  BY <1>1, <1>7, <1>9, <1>10 DEF IsSingle
<1>12. q \in Eligible(t) /\ t[q].rev # r
  BY <1>2, <1>6, <1>7, <1>11
<1>13. q = DefaultTarget(t)
  BY <1>8, <1>12 DEF Gap
<1>14. u[x].rev = u[a].rev
  BY <1>8, <1>9, <1>13 DEF Covered
<1>15. CASE ~rollback
  <2>1. t[a].rev \notin Unrestorable
    BY <1>8, <1>10, <1>14 DEF Eligible
  <2>2. t[a].rev # r => a \in DefaultCandidates(T)
    BY <1>2, <1>10, <1>15, <2>1
  <2>3. ~(a <= q)
    BY <1>7, <1>9, <1>10
  <2> QED
    BY <1>6, <1>10, <1>14, <2>2, <2>3
<1>16. CASE rollback
  <2>1. PICK i \in ExplicitTargets(t) : t[i].rev = r /\ ~t[i].rolledBack
    BY <1>16
  <2>2. i \in DOMAIN t /\ IsRestorable(t[i]) /\ ~IsRunningRevision(t, i)
    BY DEF ExplicitTargets
  <2>3. t[i].rev # t[a].rev
    BY <1>1, <1>10, <2>2, ActiveIs
  <2>4. i \notin ActiveIds(t)
    BY <1>1, <1>10, <2>3 DEF IsSingle
  <2>5. i \in Eligible(t)
    BY <2>1, <2>2, <2>4 DEF Eligible, IsRestorable, ActiveIds
  <2>6. i <= q
    BY <1>1, <1>13, <2>2, <2>5, TargetIs
  <2>7. i < x
    <3>1. i \in Nat
      BY <1>1, <2>2 DEF IsTable
    <3> QED
      BY <1>7, <2>6, <3>1
  <2>8. i = q
    BY <1>8, <1>13, <2>5, <2>7 DEF Gap
  <2> QED
    BY <1>12, <2>1, <2>8
<1> QED
  BY <1>15, <1>16

(* A row that stands in for a dropped one would be of a revision that runs: none does. *)
LEMMA NoSubstitute ==
  ASSUME NEW t, NEW u, NEW n \in Nat, Beside(t, u, n), Covered(t, u)
  PROVE  DefaultTarget(t) \in {DefaultTarget(u), NoRow}
<1>1. IsTable(t, n) /\ IsSingle(t) /\ IsTable(u, n) /\ IsSingle(u)
  BY DEF Beside, IsSingle, ActiveIds
<1> SUFFICES ASSUME DefaultTarget(t) # NoRow PROVE DefaultTarget(t) = DefaultTarget(u)
  OBVIOUS
<1> PICK q : q = DefaultTarget(t)
  OBVIOUS
<1> PICK f : f = DefaultTarget(u)
  OBVIOUS
<1>2. q \in DefaultCandidates(t) /\ \A i \in DefaultCandidates(t) : i <= q
  BY <1>1, TargetIs
<1>3. q \in DOMAIN t /\ q \in Eligible(t) /\ ~IsRunningRevision(t, q)
  BY <1>1, <1>2, TargetIs
<1>4. q \in DOMAIN u /\ t[q] = u[q] /\ q \in Nat
  BY <1>1, <1>3 DEF Beside, IsTable
<1>5. q \in Eligible(u)
  BY <1>3, <1>4 DEF Eligible
<1>6. PICK a \in ActiveIds(u) : q < a
  BY <1>4, <1>5 DEF Beside, Eligible
<1>7. a \in ActiveIds(t) /\ a \in DOMAIN t /\ t[a] = u[a]
  BY <1>6 DEF Beside, ActiveIds
<1>8. u[q].rev # u[a].rev
  BY <1>1, <1>3, <1>4, <1>7, ActiveIs
<1>9. q \in DefaultCandidates(u)
  BY <1>1, <1>4, <1>5, <1>6, <1>8, ActiveIs, TargetIs
<1>10. f \in DefaultCandidates(u) /\ q <= f
  BY <1>1, <1>9, TargetIs
<1>11. f \in DOMAIN u /\ f \in Eligible(u) /\ ~IsRunningRevision(u, f)
  BY <1>1, <1>10, TargetIs
<1>12. f \in Nat /\ u[f].rev # u[a].rev
  BY <1>1, <1>6, <1>11, ActiveIs DEF IsTable
<1>13. CASE f \in DOMAIN t
  <2>1. t[f] = u[f]
    BY <1>13 DEF Beside
  <2>2. f \in Eligible(t)
    BY <1>11, <1>13, <2>1 DEF Eligible
  <2>3. ~IsRunningRevision(t, f)
    BY <1>1, <1>7, <1>12, <1>13, <2>1, ActiveIs
  <2>4. f \in DefaultCandidates(t)
    BY <1>1, <1>13, <2>2, <2>3, TargetIs
  <2>5. f <= q
    BY <1>2, <2>4
  <2> QED
    BY <1>4, <1>10, <1>12, <2>5
<1>14. CASE f \notin DOMAIN t
  <2>1. f \in Dropped(t, u) \cap Eligible(u)
    BY <1>11, <1>14 DEF Dropped
  <2>2. ~(q < f)
    BY <1>6, <1>12, <2>1 DEF Covered
  <2> QED
    BY <1>4, <1>10, <1>12, <2>2
<1> QED
  BY <1>13, <1>14

-----------------------------------------------------------------------------
(* HistoryAudit: when every revision that was brought up can be restored *)

AllRestorable(u) == \A i \in DOMAIN u : u[i].status = "failed" \/ u[i].rev \notin Unrestorable

Visible(t, u) == AllRestorable(u) => DefaultTarget(t) = DefaultTarget(u)

LEMMA ActivatedRestorable ==
  ASSUME NEW u, NEW n \in Nat, IsTable(u, n), NEW r \in Revisions, NEW rollback \in BOOLEAN,
         AllRestorable(Activate(u, n + 1, r, rollback))
  PROVE  AllRestorable(u)
<1> PICK U : U = Activate(u, n + 1, r, rollback)
  OBVIOUS
<1> PICK m : m = n + 1
  OBVIOUS
<1>1. DOMAIN U = DOMAIN u \cup {m} /\ U = Activate(u, m, r, rollback)
  BY ActivatedNew
<1> SUFFICES ASSUME NEW i \in DOMAIN u, u[i].status # "failed" PROVE u[i].rev \notin Unrestorable
  BY DEF AllRestorable
<1>2. U[i].rev = u[i].rev /\ U[i].status # "failed"
  BY <1>1, ActivatedKeepsRevision
<1> QED
  BY <1>1, <1>2 DEF AllRestorable

(* Then a deploy leaves a fallback in the pruned table whenever it leaves one in the full one. *)
LEMMA ActivatedVisible ==
  ASSUME NEW t, NEW u, NEW n \in Nat, Beside(t, u, n), Gap(t, u), Covered(t, u), Visible(t, u),
         NEW r \in Revisions, NEW rollback \in BOOLEAN, ~rollback
  PROVE  Visible(Activate(t, n + 1, r, rollback), Activate(u, n + 1, r, rollback))
<1> PICK T : T = Activate(t, n + 1, r, rollback)
  OBVIOUS
<1> PICK U : U = Activate(u, n + 1, r, rollback)
  OBVIOUS
<1>1. IsTable(t, n) /\ IsSingle(t) /\ IsTable(u, n) /\ IsSingle(u) /\ n + 1 \in Nat
  BY DEF Beside, IsSingle, ActiveIds
<1> SUFFICES ASSUME AllRestorable(U) PROVE DefaultTarget(T) = DefaultTarget(U)
  BY DEF Visible
<1>2. AllRestorable(u)
  BY <1>1, ActivatedRestorable
<1>3. DefaultTarget(t) = DefaultTarget(u)
  BY <1>2 DEF Visible
<1>4. Beside(T, U, n + 1) /\ Covered(T, U)
  BY ActivatedBeside, ActivatedCovered
<1>5. DefaultTarget(T) \in {DefaultTarget(U), NoRow} /\ IsTable(T, n + 1) /\ IsTable(U, n + 1)
  BY <1>1, <1>4, NoSubstitute DEF Beside
<1>6. /\ \A i \in DOMAIN t \ ActiveIds(t) : i \in Eligible(T) <=> i \in Eligible(t)
      /\ \A i \in ActiveIds(t) : (i \in Eligible(T) <=> t[i].rev \notin Unrestorable)
      /\ \A i \in DOMAIN t : i \in DefaultCandidates(T) <=> i \in Eligible(T) /\ t[i].rev # r
  BY <1>1, ActivatedEligible
<1>7. /\ \A i \in DOMAIN u \ ActiveIds(u) : i \in Eligible(U) <=> i \in Eligible(u)
      /\ \A i \in DOMAIN u : i \in DefaultCandidates(U) <=> i \in Eligible(U) /\ u[i].rev # r
      /\ DefaultCandidates(U) \subseteq DOMAIN u
  BY <1>1, ActivatedEligible
<1> SUFFICES ASSUME DefaultTarget(T) = NoRow, DefaultTarget(U) # NoRow PROVE FALSE
  BY <1>5
<1>8. DefaultCandidates(T) = {}
  BY <1>5, TargetIs
<1> PICK y : y = DefaultTarget(U)
  OBVIOUS
<1>9. y \in DefaultCandidates(U)
  BY <1>5, TargetIs
<1>10. y \in DOMAIN u /\ y \in Eligible(U) /\ u[y].rev # r
  BY <1>7, <1>9
<1>11. ASSUME NEW a \in ActiveIds(u) PROVE t[a].rev = r /\ a \in ActiveIds(t) /\ t[a] = u[a]
  <2>1. a \in ActiveIds(t) /\ a \in DOMAIN t /\ t[a] = u[a] /\ u[a].status = "active"
    BY DEF Beside, ActiveIds
  <2>2. t[a].rev \notin Unrestorable
    BY <1>2, <2>1 DEF AllRestorable, ActiveIds
  <2>3. a \in Eligible(T)
    BY <1>6, <2>1, <2>2
  <2> QED
    BY <1>6, <1>8, <2>1, <2>3
<1>12. y \notin ActiveIds(u)
  BY <1>10, <1>11
<1>13. y \in Eligible(u)
  BY <1>7, <1>10, <1>12
<1>14. PICK a \in ActiveIds(u) : y < a
  BY <1>10, <1>13 DEF Beside, Eligible
<1>15. ~IsRunningRevision(u, y)
  BY <1>1, <1>10, <1>11, <1>14, ActiveIs
<1>16. y \in DefaultCandidates(u)
  BY <1>1, <1>10, <1>13, <1>15, TargetIs
<1>17. DefaultTarget(t) # NoRow
  BY <1>1, <1>3, <1>16, TargetIs
<1> PICK q : q = DefaultTarget(t)
  OBVIOUS
<1>18. q \in DOMAIN t /\ q \in Eligible(t) /\ ~IsRunningRevision(t, q)
  BY <1>1, <1>17, TargetIs
<1>19. t[q].rev # r /\ q \notin ActiveIds(t)
  BY <1>1, <1>11, <1>14, <1>18, ActiveIs DEF Eligible, ActiveIds
<1>20. q \in DefaultCandidates(T)
  BY <1>6, <1>18, <1>19
<1> QED
  BY <1>8, <1>20

-----------------------------------------------------------------------------
(* HistoryAudit: the inductive invariant *)

\* Pruning is invisible while nobody rolled back, and uncovers nothing until someone returned.
AuditInv ==
  /\ HistoryInv /\ Beside(rows, full, lastId) /\ Gap(rows, full)
  /\ returned \/ Covered(rows, full)
  /\ returned => rolledEver
  /\ rolledEver \/ Visible(rows, full)

LEMMA AuditInvInit == AuditInit => AuditInv
<1> SUFFICES ASSUME AuditInit PROVE AuditInv
  OBVIOUS
<1>1. HistoryInv
  BY InitInv DEF AuditInit
<1>2. rows = <<>> /\ full = <<>> /\ ~returned /\ lastId = 0
  BY DEF AuditInit, HistoryInit
<1>3. Dropped(rows, full) = {} /\ DOMAIN full = {} /\ rows = full
  BY <1>2 DEF Dropped
<1>4. Beside(rows, full, lastId)
  BY <1>1, <1>3 DEF Beside, HistoryInv
<1> QED
  BY <1>1, <1>2, <1>3, <1>4 DEF AuditInv, Gap, Covered, Visible

(* The prune of a recorded success keeps what the activation left. *)
LEMMA RecordedBeside ==
  ASSUME NEW t, NEW u, NEW n \in Nat, Beside(t, u, n), NEW r \in Revisions, NEW rollback \in BOOLEAN,
         NEW P, P = Recorded(t, n + 1, r, rollback), NEW U, U = Activate(u, n + 1, r, rollback)
  PROVE  /\ Beside(P, U, n + 1) /\ Gap(P, U)
         /\ DefaultTarget(P) = DefaultTarget(Activate(t, n + 1, r, rollback))
         /\ Covered(Activate(t, n + 1, r, rollback), U) => Covered(P, U)
<1> PICK T : T = Activate(t, n + 1, r, rollback)
  OBVIOUS
<1>1. P = Prune(T) /\ n + 1 \in Nat
  BY DEF Recorded
<1>2. Beside(T, U, n + 1)
  BY ActivatedBeside
<1> QED
  BY <1>1, <1>2, PruneBeside

(* A recorded deploy, and a rollback to a row no rollback left, uncover no dropped row. *)
LEMMA RecordedCovered ==
  ASSUME NEW t, NEW u, NEW n \in Nat, Beside(t, u, n), Gap(t, u), Covered(t, u),
         NEW r \in Revisions, NEW rollback \in BOOLEAN,
         rollback => \E i \in ExplicitTargets(t) : t[i].rev = r /\ ~t[i].rolledBack,
         NEW P, P = Recorded(t, n + 1, r, rollback), NEW U, U = Activate(u, n + 1, r, rollback)
  PROVE  Covered(P, U)
<1>1. Covered(Activate(t, n + 1, r, rollback), U)
  BY ActivatedCovered
<1> QED
  BY <1>1, RecordedBeside

(* A deploy is as good with the rows pruned while every revision can be restored. *)
LEMMA RecordedVisible ==
  ASSUME NEW t, NEW u, NEW n \in Nat, Beside(t, u, n), Gap(t, u), Covered(t, u), Visible(t, u),
         NEW r \in Revisions, NEW rollback \in BOOLEAN, ~rollback,
         NEW P, P = Recorded(t, n + 1, r, rollback), NEW U, U = Activate(u, n + 1, r, rollback)
  PROVE  Visible(P, U)
<1>1. Visible(Activate(t, n + 1, r, rollback), U)
  BY ActivatedVisible
<1> QED
  BY <1>1, RecordedBeside DEF Visible

(* A failed attempt, pruned, changes none of it. *)
LEMMA RejectedBeside ==
  ASSUME NEW t, NEW u, NEW n \in Nat, Beside(t, u, n), NEW r \in Revisions,
         NEW P, P = Rejected(t, n + 1, r), NEW F, F = WithRow(u, n + 1, NewRow(r, "failed"))
  PROVE  /\ Beside(P, F, n + 1) /\ Gap(P, F)
         /\ Covered(t, u) => Covered(P, F)
         /\ Visible(t, u) => Visible(P, F)
<1> PICK W : W = WithRow(t, n + 1, NewRow(r, "failed"))
  OBVIOUS
<1>1. P = Prune(W) /\ n + 1 \in Nat
  BY DEF Rejected
<1>2. /\ Beside(W, F, n + 1) /\ (Covered(t, u) => Covered(W, F))
      /\ DefaultTarget(W) = DefaultTarget(t) /\ DefaultTarget(F) = DefaultTarget(u)
      /\ \A i \in DOMAIN u : F[i] = u[i]
  BY FailedBeside
<1>3. /\ Beside(P, F, n + 1) /\ Gap(P, F) /\ DefaultTarget(P) = DefaultTarget(W)
      /\ Covered(W, F) => Covered(P, F)
  BY <1>1, <1>2, PruneBeside
<1>4. DOMAIN u \subseteq DOMAIN F
  BY DEF WithRow
<1>5. AllRestorable(F) => AllRestorable(u)
  BY <1>2, <1>4 DEF AllRestorable
<1> QED
  BY <1>2, <1>3, <1>5 DEF Visible

(* Nor does the mark of a failed health check. *)
LEMMA MarkedVisible ==
  ASSUME NEW t, NEW u, NEW n \in Nat, Beside(t, u, n), Visible(t, u)
  PROVE  Visible(Unhealthy(t), Unhealthy(u))
<1>1. IsTable(t, n) /\ IsSingle(t) /\ IsTable(u, n) /\ IsSingle(u)
  BY DEF Beside, IsSingle, ActiveIds
<1> PICK U : U = Unhealthy(u)
  OBVIOUS
<1>2. DefaultTarget(Unhealthy(t)) = DefaultTarget(t) /\ DefaultTarget(U) = DefaultTarget(u)
  BY <1>1, MarkedRows
<1>3. DOMAIN U = DOMAIN u /\ \A i \in DOMAIN u : U[i].rev = u[i].rev /\ U[i].status = u[i].status
  BY <1>1, MarkedRows
<1>4. AllRestorable(U) => AllRestorable(u)
  BY <1>3 DEF AllRestorable
<1> QED
  BY <1>2, <1>4 DEF Visible

LEMMA AuditInvNext == AuditInv /\ [AuditNext]_auditVars => AuditInv'
<1> SUFFICES ASSUME AuditInv, [AuditNext]_auditVars PROVE AuditInv'
  OBVIOUS
<1>1. /\ HistoryInv /\ Beside(rows, full, lastId) /\ Gap(rows, full) /\ lastId \in Nat
      /\ returned \/ Covered(rows, full)
      /\ returned => rolledEver
      /\ rolledEver \/ Visible(rows, full)
  BY HistoryAssumption DEF AuditInv, HistoryInv
<1>2. HistoryInv'
  <2>1. [HistoryNext]_historyVars
    BY DEF AuditNext, Deploys, Fails, RollsBack, FailsHealth, HistoryNext, auditVars, historyVars
  <2> QED
    BY <1>1, <2>1, NextInv
<1>3. ASSUME NEW r \in Revisions, Deploys(r) PROVE AuditInv'
  <2>1. /\ rows' = Recorded(rows, lastId + 1, r, FALSE) /\ lastId' = lastId + 1
        /\ full' = Activate(full, lastId + 1, r, FALSE)
    BY <1>3 DEF Deploys, RecordSuccess, TakeId
  <2>2. returned' = returned /\ rolledEver' = rolledEver
    BY <1>3 DEF Deploys
  <2> PICK P : P = rows'
    OBVIOUS
  <2> PICK U : U = full'
    OBVIOUS
  <2> PICK rollback \in BOOLEAN : rollback = FALSE
    OBVIOUS
  <2>3. P = Recorded(rows, lastId + 1, r, rollback) /\ U = Activate(full, lastId + 1, r, rollback)
    BY <2>1
  <2>4. Beside(P, U, lastId + 1) /\ Gap(P, U)
    BY <1>1, <2>3, RecordedBeside
  <2>5. Beside(rows', full', lastId') /\ Gap(rows', full')
    BY <2>1, <2>4
  <2>6. Covered(rows, full) => Covered(rows', full')
    BY <1>1, <2>3, RecordedCovered
  <2>7. Covered(rows, full) /\ Visible(rows, full) => Visible(rows', full')
    BY <1>1, <2>3, RecordedVisible
  <2> QED
    BY <1>1, <1>2, <2>2, <2>5, <2>6, <2>7 DEF AuditInv
<1>4. ASSUME NEW r \in Revisions, Fails(r) PROVE AuditInv'
  <2>1. /\ rows' = Rejected(rows, lastId + 1, r) /\ lastId' = lastId + 1
        /\ full' = WithRow(full, lastId + 1, NewRow(r, "failed"))
    BY <1>4 DEF Fails, RecordFailed, TakeId
  <2>2. returned' = returned /\ rolledEver' = rolledEver
    BY <1>4 DEF Fails
  <2> PICK P : P = rows'
    OBVIOUS
  <2> PICK F : F = full'
    OBVIOUS
  <2>4. /\ Beside(P, F, lastId + 1) /\ Gap(P, F)
        /\ Covered(rows, full) => Covered(P, F)
        /\ Visible(rows, full) => Visible(P, F)
    BY <1>1, <2>1, RejectedBeside
  <2>5. Beside(rows', full', lastId') /\ Gap(rows', full')
    BY <2>1, <2>4
  <2>6. (returned' \/ Covered(rows', full')) /\ (rolledEver' \/ Visible(rows', full'))
    BY <1>1, <2>2, <2>4
  <2> QED
    BY <1>1, <1>2, <2>2, <2>5, <2>6 DEF AuditInv
<1>5. ASSUME NEW i \in ExplicitTargets(rows), RollsBack(i) PROVE AuditInv'
  <2>1. /\ rows' = Recorded(rows, lastId + 1, rows[i].rev, TRUE) /\ lastId' = lastId + 1
        /\ full' = Activate(full, lastId + 1, rows[i].rev, TRUE)
    BY <1>5 DEF RollsBack, RecordRollback, TakeId
  <2>2. rolledEver' /\ (~returned' => ~returned /\ ~rows[i].rolledBack)
    <3>1. rolledEver' = TRUE /\ returned' = (returned \/ rows[i].rolledBack)
      BY <1>5, Zenon DEF RollsBack
    <3> QED
      BY <3>1, Zenon
  <2>3. PICK r \in Revisions : r = rows[i].rev
    BY <1>1 DEF HistoryInv, IsTable, Row, ExplicitTargets
  <2> PICK P : P = rows'
    OBVIOUS
  <2> PICK U : U = full'
    OBVIOUS
  <2>4. PICK rollback \in BOOLEAN : /\ P = Recorded(rows, lastId + 1, r, rollback)
                                    /\ U = Activate(full, lastId + 1, r, rollback)
    BY <2>1, <2>3
  <2>5. Beside(P, U, lastId + 1) /\ Gap(P, U)
    BY <1>1, <2>4, RecordedBeside
  <2>6. Beside(rows', full', lastId') /\ Gap(rows', full')
    BY <2>1, <2>5
  <2>7. ASSUME ~returned' PROVE Covered(rows', full')
    <3>1. Covered(rows, full) /\ \E j \in ExplicitTargets(rows) : rows[j].rev = r /\ ~rows[j].rolledBack
      BY <1>1, <2>2, <2>3, <2>7
    <3>2. Covered(P, U)
      BY <1>1, <2>4, <3>1, RecordedCovered
    <3> QED
      BY <3>2
  <2> QED
    BY <1>2, <2>2, <2>6, <2>7 DEF AuditInv
<1>6. CASE FailsHealth
  <2>1. /\ rows' = Unhealthy(rows) /\ full' = Unhealthy(full) /\ lastId' = lastId
        /\ returned' = returned /\ rolledEver' = rolledEver
    BY <1>6 DEF FailsHealth, MarkUnhealthy
  <2>2. /\ Beside(rows', full', lastId') /\ Gap(rows', full')
        /\ Covered(rows, full) => Covered(rows', full')
    BY <1>1, <2>1, MarkedBeside
  <2>3. Visible(rows, full) => Visible(rows', full')
    BY <1>1, <2>1, MarkedVisible
  <2> QED
    BY <1>1, <1>2, <2>1, <2>2, <2>3 DEF AuditInv
<1>7. CASE UNCHANGED auditVars
  <2>1. /\ rows' = rows /\ full' = full /\ lastId' = lastId
        /\ returned' = returned /\ rolledEver' = rolledEver
    BY <1>7 DEF auditVars
  <2> QED
    BY <1>1, <1>2, <2>1 DEF AuditInv
<1> QED
  BY <1>3, <1>4, <1>5, <1>6, <1>7 DEF AuditNext

(* While every revision brought up can be restored and nobody rolled back, the prune is invisible:
   the default rollback goes where it would have gone with every row kept (pruneOldDeployments). *)
THEOREM PruningUnseen == AuditSpec => []PruningInvisible
<1>1. AuditInv => PruningInvisible
  BY DEF AuditInv, PruningInvisible, Visible, AllRestorable
<1> QED
  BY AuditInvInit, AuditInvNext, <1>1, PTL DEF AuditSpec

(* Whatever was rolled back, the pruned table never offers an older row where the full history
   would offer another one, unless someone returned to a revision that a rollback had left. *)
THEOREM NoOlderSubstitute == AuditSpec => []PruningNeverSubstitutes
<1>1. AuditInv => PruningNeverSubstitutes
  <2> SUFFICES ASSUME AuditInv, ~returned
               PROVE  DefaultTarget(rows) \in {DefaultTarget(full), NoRow}
    BY DEF PruningNeverSubstitutes
  <2>1. Beside(rows, full, lastId) /\ Covered(rows, full) /\ lastId \in Nat
    BY HistoryAssumption DEF AuditInv, HistoryInv
  <2> QED
    BY <2>1, NoSubstitute
<1> QED
  BY AuditInvInit, AuditInvNext, <1>1, PTL DEF AuditSpec


-----------------------------------------------------------------------------
(* GroupNetworks: the inductive invariant adds what a sync that works alone has done so far and  *)
(* has left to do (AloneOK), and for each network without a container a sync that is yet to look  *)
(* at it (Watched). *)

GroupRow == [group : Groups \cup {NoGroup}, services : SUBSET Services, here : BOOLEAN]
ContainerRecord == [here : BOOLEAN, on : SUBSET Groups]
\* The positions of a sync that places one container, and of one that prunes
Placing == {"disconnect", "ensure", "connect"}
Pruned == {"prune", "inspect", "rm", "remove"}
SyncRecord ==
  [pc : {"idle", "list", "boot"} \cup Placing \cup Pruned,
   kind : {"none", "assign", "up", "delete", "boot"},
   project : SUBSET Projects, wanted : Groups \cup {NoGroup}, joining : SUBSET Services,
   seen : [Services -> SUBSET Groups], todo : SUBSET Services, service : SUBSET Services,
   drop : SUBSET Groups, names : SUBSET Groups, boot : SUBSET Projects, gone : SUBSET Services,
   alone : BOOLEAN]

\* Container s is to leave a network or to join one.
HasWork(x, s) == Surplus(x, s) # {} \/ NeedsJoin(x, s)

\* A sync's local variables fit its position:
Formed(x) ==
  /\ x \in SyncRecord
  /\ x.project = {} \/ \E p \in Projects : x.project = {p}
  /\ x.pc = "remove" => x.kind = "delete"
  /\ x.pc = "boot" => x.kind = "boot" /\ x.project = {}
  /\ \A s \in x.todo : HasWork(x, s)
  /\ x.pc \in Placing => \E s \in Services : /\ x.service = {s}
                                             /\ x.drop # {} \/ NeedsJoin(x, s)
                                             /\ x.pc # "disconnect" => x.drop = {}

\* in pruneGroupNetworks, one network is being removed.
Shaped(x) == Formed(x) /\ (x.pc = "rm" => \E n \in Groups : x.drop = {n})

\* The sync is for what row r says now.
Fits(x, r) ==
  /\ x.joining = IF x.kind = "delete" THEN {} ELSE r.services
  /\ x.kind # "delete" => x.wanted = Wanted(r)

\* The networks the sync wants s on, and that s is on them
Target(x, s) == IF Joins(x, s) THEN {x.wanted} ELSE {}
Done(x, c, s) == c[s].here => c[s].on = Target(x, s)

\* Of the containers c, those the sync is done with are where it wants them, the one it
\* is at is in between, and the others are as the sync saw them.
Working(x, c) ==
  /\ x.gone = {}
  /\ x.pc \in Pruned => \A s \in Services : Done(x, c, s)
  /\ x.pc \in Placing =>
       \A s \in Services :
         /\ s \in x.todo => s \notin x.service /\ c[s].on = x.seen[s]
         /\ s \in x.service => /\ c[s].on = x.drop \cup (x.seen[s] \cap Target(x, s))
                               /\ x.drop \cap Target(x, s) = {}
         /\ s \notin x.todo \cup x.service => Done(x, c, s)

\* Only sync i is for project p.
Lone(i, p) == \A j \in Syncs : Of(sync[j], p) => j = i

\* The sync may still remove network n.
Watches(x, n) ==
  \/ x.pc \in {"boot", "list", "prune"} \cup Placing
  \/ x.kind = "boot" /\ x.project # {} /\ x.pc # "idle"
  \/ x.pc \in {"inspect", "rm"} /\ n \in x.names
  \/ x.pc = "rm" /\ n \in x.drop

GroupTypeOK ==
  /\ row \in [Projects -> GroupRow]
  /\ \A p \in Projects : row[p].group = NoGroup => row[p].services = {}
  /\ container \in [Projects -> [Services -> ContainerRecord]]
  /\ networks \subseteq Groups
  /\ sync \in [Syncs -> SyncRecord] /\ \A i \in Syncs : Shaped(sync[i])

AloneOK == \A i \in Syncs, p \in Projects :
  Of(sync[i], p) /\ sync[i].alone =>
     Lone(i, p) /\ Fits(sync[i], row[p]) /\ Working(sync[i], container[p])

Watched == \A n \in networks \ loose : Member(n) \/ \E i \in Syncs : Watches(sync[i], n)

GroupInv == GroupTypeOK /\ AloneOK /\ GroupsFollowRows /\ Watched
-----------------------------------------------------------------------------
(* The fields of a sync's record *)

\* x and y are records of one sync.
SameTask(x, y) ==
  /\ y.kind = x.kind /\ y.project = x.project /\ y.wanted = x.wanted
  /\ y.joining = x.joining /\ y.alone = x.alone

(* The record of no sync is well formed. *)
LEMMA NoSyncShaped == Shaped(NoSync) /\ NoSync.pc = "idle"
<1>1. PICK e \in SUBSET Services : e = {}
  OBVIOUS
<1>2. PICK f \in SUBSET Groups : f = {}
  OBVIOUS
<1>3. PICK h \in SUBSET Projects : h = {}
  OBVIOUS
<1>4. PICK seen \in [Services -> SUBSET Groups] : seen = [s \in Services |-> {}]
  <2>1. [s \in Services |-> {}] \in [Services -> SUBSET Groups]
    OBVIOUS
  <2> QED
    BY <2>1
<1>5. NoSync = [pc |-> "idle", kind |-> "none", project |-> h, wanted |-> NoGroup, joining |-> e,
           seen |-> seen, todo |-> e, service |-> e, drop |-> f,
           names |-> f, boot |-> h, gone |-> e, alone |-> TRUE]
  BY <1>1, <1>2, <1>3, <1>4 DEF NoSync
<1>6. NoSync \in SyncRecord
  BY <1>5 DEF SyncRecord
<1>7. NoSync.pc = "idle" /\ NoSync.project = {} /\ NoSync.todo = {}
  BY DEF NoSync
<1> QED
  BY <1>6, <1>7 DEF Shaped, Formed, Placing

(* The record of a sync that starts: alone if no other is for its project. *)
LEMMA NewSyncIs ==
  ASSUME NEW kind \in {"assign", "up", "delete", "boot"}, NEW p \in Projects, NEW r \in GroupRow,
         NEW x, x = NewSync(kind, p, r)
  PROVE  /\ Shaped(x)
         /\ x.pc = "list" /\ x.kind = kind /\ x.project = {p} /\ x.wanted = Wanted(r)
         /\ x.joining = r.services /\ x.todo = {} /\ x.gone = {}
         /\ x.alone => \A i \in Syncs : ~Of(sync[i], p)
<1>1. PICK alone \in BOOLEAN : alone = (\A i \in Syncs : ~Of(sync[i], p))
  OBVIOUS
<1>2. PICK w \in Groups \cup {NoGroup} : w = Wanted(r)
  BY DEF Wanted, GroupRow
<1>3. PICK j \in SUBSET Services : j = r.services
  BY DEF GroupRow
<1>h. PICK h \in SUBSET Projects : h = {p}
  OBVIOUS
<1>4. x = [NoSync EXCEPT !.pc = "list", !.kind = kind, !.project = h, !.wanted = w,
                         !.joining = j, !.alone = alone]
  BY <1>1, <1>2, <1>3, <1>h DEF NewSync
<1>5. NoSync \in SyncRecord /\ NoSync.todo = {} /\ NoSync.gone = {}
  BY NoSyncShaped DEF Shaped, Formed, NoSync
<1>6. x \in SyncRecord
  BY <1>4, <1>5 DEF SyncRecord
<1>7. /\ x.pc = "list" /\ x.kind = kind /\ x.project = h /\ x.wanted = w
      /\ x.joining = j /\ x.todo = {} /\ x.gone = {} /\ x.alone = alone
  BY <1>4, <1>5 DEF SyncRecord
<1>8. Shaped(x)
  BY <1>6, <1>7, <1>h DEF Shaped, Formed, Placing
<1>9. x.alone => \A i \in Syncs : ~Of(sync[i], p)
  BY <1>1, <1>7, Zenon
<1> QED
  BY <1>2, <1>3, <1>7, <1>8, <1>9, <1>h

(* The record of a sync at the container it takes next *)
LEMMA PlacedIs ==
  ASSUME NEW x \in SyncRecord, NEW s \in Services, NEW y, y = Placed(x, s)
  PROVE  /\ y \in SyncRecord /\ SameTask(x, y) /\ y.service = {s}
         /\ y.seen = x.seen /\ y.todo = x.todo /\ y.drop = x.drop /\ y.gone = x.gone
         /\ y.names = x.names /\ y.boot = x.boot
         /\ y.pc = IF x.drop # {} THEN "disconnect" ELSE "ensure"
<1>1. PICK pc \in Placing : pc = IF x.drop # {} THEN "disconnect" ELSE "ensure"
  BY DEF Placing
<1>2. PICK e \in SUBSET Services : e = {s}
  OBVIOUS
<1>3. y = [x EXCEPT !.service = e, !.pc = pc]
  BY <1>1, <1>2 DEF Placed
<1>4. y \in SyncRecord
  BY <1>3 DEF SyncRecord
<1> QED
  BY <1>1, <1>2, <1>3, <1>4 DEF SameTask, SyncRecord

(* The next container's turn, or the prune. *)
LEMMA TurnsAre ==
  ASSUME NEW x \in SyncRecord, \A s \in x.todo : HasWork(x, s), x.project = {} \/ \E p \in Projects : x.project = {p},
         NEW y \in Turns(x)
  PROVE  /\ Shaped(y) /\ SameTask(x, y)
         /\ \/ /\ x.todo = {} /\ y.pc = "prune"
               /\ y.todo = {} /\ y.service = {} /\ y.gone = {}
            \/ \E s \in x.todo :
                 /\ y.pc \in Placing \ {"connect"} /\ y.service = {s} /\ y.todo = x.todo \ {s}
                 /\ y.drop = Surplus(x, s) /\ y.seen = x.seen /\ y.gone = x.gone
<1>1. CASE x.todo = {}
  <2>1. PICK e \in SUBSET Services : e = {}
    OBVIOUS
  <2>2. PICK seen \in [Services -> SUBSET Groups] : seen = NoSync.seen
    BY NoSyncShaped DEF Shaped, Formed, SyncRecord
  <2>3. y = [x EXCEPT !.pc = "prune", !.service = e, !.seen = seen, !.gone = e]
    BY <1>1, <2>1, <2>2 DEF Turns
  <2>4. y \in SyncRecord
    BY <2>3 DEF SyncRecord, Pruned
  <2>5. SameTask(x, y) /\ y.pc = "prune" /\ y.todo = {} /\ y.service = {} /\ y.gone = {}
    BY <1>1, <2>1, <2>3 DEF SameTask, SyncRecord
  <2>6. Shaped(y)
    BY <2>4, <2>5 DEF Shaped, Formed, Placing, SameTask
  <2> QED
    BY <1>1, <2>5, <2>6
<1>2. CASE x.todo # {}
  <2>1. PICK s \in x.todo : y = Placed([x EXCEPT !.todo = @ \ {s}, !.drop = Surplus(x, s)], s)
    BY <1>2 DEF Turns
  <2>2. s \in Services
    BY DEF SyncRecord
  <2>3. PICK d \in SUBSET Groups : d = Surplus(x, s)
    BY <2>2 DEF Surplus, SyncRecord
  <2>4. PICK t \in SUBSET Services : t = x.todo \ {s}
    BY DEF SyncRecord
  <2>5. PICK z : z = [x EXCEPT !.todo = t, !.drop = d]
    OBVIOUS
  <2>6. y = Placed(z, s)
    BY <2>1, <2>3, <2>4, <2>5
  <2>7. z \in SyncRecord
    BY <2>5 DEF SyncRecord
  <2>8. z.todo = t /\ z.drop = d /\ z.seen = x.seen /\ z.gone = x.gone /\ SameTask(x, z)
    BY <2>5 DEF SyncRecord, SameTask
  <2>9. /\ y \in SyncRecord /\ SameTask(z, y) /\ y.service = {s}
        /\ y.seen = z.seen /\ y.todo = z.todo /\ y.drop = z.drop /\ y.gone = z.gone
        /\ y.pc = IF z.drop # {} THEN "disconnect" ELSE "ensure"
    BY <2>2, <2>6, <2>7, PlacedIs
  <2>10. SameTask(x, y)
    BY <2>8, <2>9 DEF SameTask
  <2>11. ASSUME NEW u \in x.todo PROVE HasWork(y, u) /\ (Surplus(x, u) # {} \/ NeedsJoin(y, u))
    BY <2>8, <2>9, <2>10 DEF HasWork, Surplus, NeedsJoin, Joins, SameTask
  <2>12. y.pc \in Placing \ {"connect"} /\ (y.pc # "disconnect" => y.drop = {})
    BY <2>9 DEF Placing
  <2>13. Shaped(y)
    BY <2>2, <2>3, <2>4, <2>8, <2>9, <2>10, <2>11, <2>12 DEF Shaped, Formed, SameTask, Placing
  <2> QED
    BY <2>3, <2>4, <2>8, <2>9, <2>10, <2>12, <2>13
<1> QED
  BY <1>1, <1>2

(* Where a sync's record goes once its prune is over, or it failed. *)
LEMMA EndedIs ==
  ASSUME NEW x, Formed(x), NEW y, y = Ended(x)
  PROVE  /\ Shaped(y)
         /\ x.kind = "delete" => /\ y.pc = "remove" /\ SameTask(x, y) /\ y.gone = x.gone
         /\ x.kind # "delete" => \A p \in Projects : ~Of(y, p)
         /\ x.kind = "boot" /\ x.project # {} => y.pc = "boot"
<1>1. CASE x.kind = "delete"
  <2>1. y = [x EXCEPT !.pc = "remove"]
    <3>1. NextBoot(x) = [x EXCEPT !.pc = "remove"]
      BY <1>1 DEF NextBoot
    <3>2. NextBoot(x).pc = "remove"
      BY <3>1 DEF Shaped, Formed, SyncRecord
    <3> QED
      BY <3>1, <3>2 DEF Ended
  <2>2. y \in SyncRecord
    BY <2>1 DEF Shaped, Formed, SyncRecord, Pruned
  <2>3. /\ y.pc = "remove" /\ SameTask(x, y) /\ y.gone = x.gone /\ y.seen = x.seen
        /\ y.todo = x.todo
    BY <2>1 DEF Shaped, Formed, SyncRecord, SameTask
  <2>4. \A s \in y.todo : HasWork(y, s)
    BY <2>3 DEF Shaped, Formed, HasWork, Surplus, NeedsJoin, Joins, SameTask
  <2>5. Shaped(y)
    BY <1>1, <2>2, <2>3, <2>4 DEF Shaped, Formed, SameTask, Placing
  <2> QED
    BY <1>1, <2>3, <2>5
<1>2. CASE x.kind = "boot" /\ x.project # {}
  <2>1. PICK b \in SUBSET Projects : b = x.boot
    BY DEF Shaped, Formed, SyncRecord
  <2>2. NextBoot(x) = [NoSync EXCEPT !.kind = "boot", !.boot = b, !.pc = "boot"]
    BY <1>2, <2>1 DEF NextBoot
  <2>3. PICK z : z = [NoSync EXCEPT !.kind = "boot", !.boot = b, !.pc = "boot"]
    OBVIOUS
  <2>4. NoSync \in SyncRecord /\ NoSync.project = {} /\ NoSync.todo = {}
    BY NoSyncShaped DEF Shaped, Formed, NoSync
  <2>5. z \in SyncRecord /\ z.pc = "boot" /\ z.kind = "boot" /\ z.project = {} /\ z.todo = {}
    BY <2>3, <2>4 DEF SyncRecord
  <2>6. y = z
    BY <2>2, <2>3, <2>5 DEF Ended
  <2>7. Shaped(z)
    BY <2>5 DEF Shaped, Formed, Placing
  <2>8. \A p \in Projects : ~Of(z, p)
    BY <2>5 DEF Of
  <2> QED
    BY <1>2, <2>5, <2>6, <2>7, <2>8
<1>3. CASE x.kind # "delete" /\ ~(x.kind = "boot" /\ x.project # {})
  <2>1. y = NoSync
    <3>1. CASE x.kind = "boot"
      <4>1. PICK b \in SUBSET Projects : b = x.boot
        BY DEF Shaped, Formed, SyncRecord
      <4>2. NextBoot(x) = [NoSync EXCEPT !.kind = "boot", !.boot = b, !.pc = "idle"]
        BY <1>3, <3>1, <4>1 DEF NextBoot
      <4>3. NextBoot(x).pc = "idle"
        BY <4>2, NoSyncShaped DEF Shaped, Formed, SyncRecord
      <4> QED
        BY <4>3 DEF Ended
    <3>2. CASE x.kind # "boot"
      <4>1. NextBoot(x) = [x EXCEPT !.pc = "idle"]
        BY <1>3, <3>2 DEF NextBoot
      <4>2. NextBoot(x).pc = "idle"
        BY <4>1 DEF Shaped, Formed, SyncRecord
      <4> QED
        BY <4>2 DEF Ended
    <3> QED
      BY <3>1, <3>2
  <2>2. \A p \in Projects : ~Of(y, p)
    BY <2>1, NoSyncShaped DEF Of
  <2> QED
    BY <1>3, <2>1, <2>2, NoSyncShaped
<1> QED
  BY <1>1, <1>2, <1>3

(* Touching a project only tells its syncs that they are not alone. *)
LEMMA TouchedIs ==
  ASSUME NEW p \in Projects, NEW replaced \in SUBSET Services, NEW i \in Syncs, NEW x, x = sync[i], Shaped(x),
         NEW y, y = Touched(p, replaced)[i]
  PROVE  /\ Shaped(y) /\ y.pc = x.pc /\ y.project = x.project /\ y.kind = x.kind
         /\ y.names = x.names /\ y.drop = x.drop
         /\ Of(x, p) => ~y.alone
         /\ ~Of(x, p) => y = x
<1>1. y = IF Of(x, p) THEN [x EXCEPT !.alone = FALSE, !.gone = @ \cup replaced] ELSE x
  BY DEF Touched
<1>2. CASE Of(x, p)
  <2>1. PICK g \in SUBSET Services : g = x.gone \cup replaced
    BY DEF Shaped, Formed, SyncRecord
  <2>2. y = [x EXCEPT !.alone = FALSE, !.gone = g]
    BY <1>1, <1>2, <2>1
  <2>3. y \in SyncRecord
    BY <2>2 DEF Shaped, Formed, SyncRecord
  <2>4. /\ y.pc = x.pc /\ y.project = x.project /\ y.kind = x.kind
        /\ y.names = x.names /\ y.drop = x.drop /\ y.wanted = x.wanted /\ y.joining = x.joining
        /\ y.todo = x.todo /\ y.seen = x.seen /\ y.service = x.service /\ ~y.alone
    BY <2>2 DEF Shaped, Formed, SyncRecord
  <2>5. \A s : HasWork(x, s) => HasWork(y, s)
    BY <2>4 DEF HasWork, Surplus, NeedsJoin, Joins
  <2>6. \A s : NeedsJoin(x, s) => NeedsJoin(y, s)
    BY <2>4 DEF NeedsJoin, Joins
  <2>7. Shaped(y)
    BY <2>3, <2>4, <2>5, <2>6 DEF Shaped, Formed
  <2> QED
    BY <1>2, <2>4, <2>7
<1>3. CASE ~Of(x, p)
  BY <1>1, <1>3
<1> QED
  BY <1>2, <1>3

-----------------------------------------------------------------------------
(* A step of one sync *)

\* A sync steps from x to y: nothing happens to other projects,
OthersSame(x) == \A q \in Projects : x.project # {q} =>
  container'[q] = container[q] /\ (q \in upset => q \in upset')

\* it goes on as a sync that is alone should, if it is one,
KeepsAlone(x, y) == \A p \in Projects : Of(y, p) =>
  /\ Of(x, p)
  /\ y.alone => x.alone /\ Fits(y, row[p]) /\ Working(y, container'[p])

\* and a project it leaves is upset or as its row says.
LeavesFollowing(x, y) == \A p \in Projects : x.project = {p} =>
  \/ Of(y, p) \/ p \in upset'
  \/ \A s \in Services : container'[p][s].here =>
       container'[p][s].on = IF s \in row[p].services THEN {row[p].group} ELSE {}

\* Every network without a container that it does not see to is another's to see to.
StillWatched(x, y) == \A n \in networks' \ loose' :
  \/ Watches(y, n) \/ Member(n)'
  \/ n \in networks \ loose /\ ~Member(n) /\ ~Watches(x, n)

(* A sync that steps changes what the invariants say of its own project only. *)
LEMMA LocalStep ==
  ASSUME GroupTypeOK, AloneOK, GroupsFollowRows, NEW i \in Syncs, NEW x, x = sync[i], x.pc # "idle",
         NEW y, sync' = [sync EXCEPT ![i] = y], row' = row,
         OthersSame(x), KeepsAlone(x, y), LeavesFollowing(x, y)
  PROVE  AloneOK' /\ GroupsFollowRows'
<1>1. sync' \in [Syncs -> {sync'[j] : j \in Syncs}] /\ sync'[i] = y /\ \A j \in Syncs : j # i => sync'[j] = sync[j]
  BY DEF GroupTypeOK
<1>2. ASSUME NEW j \in Syncs, NEW p \in Projects, Of(sync'[j], p)
      PROVE  Of(sync[j], p)
  BY <1>1, <1>2 DEF KeepsAlone
<1>3. ASSUME NEW j \in Syncs, NEW p \in Projects, Of(sync'[j], p), sync'[j].alone
      PROVE  /\ \A k \in Syncs : Of(sync'[k], p) => k = j
             /\ Fits(sync'[j], row'[p]) /\ Working(sync'[j], container'[p])
  <2>1. Of(sync[j], p) /\ sync[j].alone
    BY <1>1, <1>2, <1>3 DEF KeepsAlone
  <2>2. Lone(j, p) /\ Fits(sync[j], row[p]) /\ Working(sync[j], container[p])
    BY <2>1 DEF AloneOK
  <2>3. \A k \in Syncs : Of(sync'[k], p) => k = j
    BY <1>2, <2>2 DEF Lone
  <2>4. CASE j = i
    BY <1>1, <1>3, <2>3, <2>4 DEF KeepsAlone
  <2>5. CASE j # i
    <3>1. ~Of(x, p)
      BY <2>2, <2>5 DEF Lone
    <3>2. x.project # {p}
      BY <3>1 DEF Of
    <3> QED
      BY <1>1, <2>2, <2>3, <2>5, <3>2 DEF OthersSame
  <2> QED
    BY <2>4, <2>5
<1>4. AloneOK'
  BY <1>3 DEF AloneOK, Lone
<1>5. ASSUME NEW p \in Projects, NEW s \in Services,
             p \notin upset', container'[p][s].here, \A j \in Syncs : ~Of(sync'[j], p)
      PROVE  container'[p][s].on = IF s \in row'[p].services THEN {row'[p].group} ELSE {}
  <2>1. CASE x.project = {p}
    <3>1. ~Of(y, p)
      BY <1>1, <1>5
    <3> QED
      BY <1>5, <2>1, <3>1 DEF LeavesFollowing
  <2>2. CASE x.project # {p}
    <3>1. container'[p] = container[p] /\ p \notin upset
      BY <1>5, <2>2 DEF OthersSame
    <3>2. ~Of(x, p)
      BY <2>2 DEF Of
    <3>3. \A j \in Syncs : ~Of(sync[j], p)
      BY <1>1, <1>5, <3>2
    <3> QED
      BY <1>5, <3>1, <3>3 DEF GroupsFollowRows
  <2> QED
    BY <2>1, <2>2
<1>6. GroupsFollowRows'
  BY <1>5 DEF GroupsFollowRows
<1> QED
  BY <1>4, <1>6

(* Networks it leaves without a container are its own to look at, or another's still. *)
LEMMA WatchStep ==
  ASSUME GroupTypeOK, Watched, NEW i \in Syncs, NEW x, x = sync[i], NEW y, sync' = [sync EXCEPT ![i] = y],
         StillWatched(x, y)
  PROVE  Watched'
<1>1. sync'[i] = y /\ \A j \in Syncs : j # i => sync'[j] = sync[j]
  BY DEF GroupTypeOK
<1>2. ASSUME NEW n \in networks' \ loose' PROVE Member(n)' \/ \E j \in Syncs : Watches(sync'[j], n)
  <2>0. \/ Watches(y, n) \/ Member(n)'
        \/ n \in networks \ loose /\ ~Member(n) /\ ~Watches(x, n)
    BY DEF StillWatched
  <2>1. CASE Watches(y, n)
    BY <1>1, <2>1
  <2>2. CASE n \in networks \ loose /\ ~Member(n) /\ ~Watches(x, n)
    <3>1. PICK j \in Syncs : Watches(sync[j], n)
      BY <2>2 DEF Watched
    <3>2. j # i
      BY <2>2, <3>1
    <3> QED
      BY <1>1, <3>1, <3>2
  <2> QED
    BY <2>0, <2>1, <2>2
<1> QED
  BY <1>2 DEF Watched

-----------------------------------------------------------------------------
(* A step that touches a project *)

LEMMA TouchedSyncs ==
  ASSUME GroupTypeOK, NEW p \in Projects, NEW replaced \in SUBSET Services,
         NEW T, T = Touched(p, replaced)
  PROVE  /\ T = [j \in Syncs |-> T[j]]
         /\ \A j \in Syncs : /\ Shaped(T[j])
                             /\ \A q \in Projects : Of(T[j], q) <=> Of(sync[j], q)
                             /\ Of(sync[j], p) => ~T[j].alone
                             /\ ~Of(sync[j], p) => T[j] = sync[j]
                             /\ \A n : Watches(T[j], n) <=> Watches(sync[j], n)
<1>1. T = [j \in Syncs |-> T[j]]
  BY DEF Touched
<1>2. ASSUME NEW j \in Syncs
      PROVE  /\ Shaped(T[j])
             /\ \A q \in Projects : Of(T[j], q) <=> Of(sync[j], q)
             /\ Of(sync[j], p) => ~T[j].alone
             /\ ~Of(sync[j], p) => T[j] = sync[j]
             /\ \A n : Watches(T[j], n) <=> Watches(sync[j], n)
  <2>1. Shaped(sync[j])
    BY DEF GroupTypeOK
  <2>2. PICK y : y = T[j]
    OBVIOUS
  <2>3. /\ Shaped(y) /\ y.pc = sync[j].pc /\ y.project = sync[j].project /\ y.kind = sync[j].kind
        /\ y.names = sync[j].names /\ y.drop = sync[j].drop
        /\ Of(sync[j], p) => ~y.alone
        /\ ~Of(sync[j], p) => y = sync[j]
    BY <2>1, <2>2, TouchedIs
  <2> QED
    BY <2>2, <2>3 DEF Of, Watches
<1> QED
  BY <1>1, <1>2

(* A sync starts, and the others of its project are not alone any more. *)
LEMMA StartStep ==
  ASSUME GroupTypeOK, AloneOK, GroupsFollowRows,
         NEW p \in Projects, NEW replaced \in SUBSET Services, NEW i \in Syncs,
         \A q \in Projects : ~Of(sync[i], q),
         NEW y, Shaped(y), sync' = [Touched(p, replaced) EXCEPT ![i] = y],
         y.project = {p}, y.pc = "list", y.gone = {}, Fits(y, row'[p]),
         y.alone => \A j \in Syncs : ~Of(sync[j], p),
         \A q \in Projects : q # p => row'[q] = row[q] /\ container'[q] = container[q],
         upset' = upset
  PROVE  /\ sync' \in [Syncs -> SyncRecord] /\ \A j \in Syncs : Shaped(sync'[j])
         /\ AloneOK' /\ GroupsFollowRows'
<1> PICK T : T = Touched(p, replaced)
  OBVIOUS
<1>1. /\ T = [j \in Syncs |-> T[j]]
      /\ \A j \in Syncs : /\ Shaped(T[j])
                          /\ \A q \in Projects : Of(T[j], q) <=> Of(sync[j], q)
                          /\ Of(sync[j], p) => ~T[j].alone
                          /\ ~Of(sync[j], p) => T[j] = sync[j]
  BY TouchedSyncs
<1>2. /\ sync' = [j \in Syncs |-> sync'[j]]
      /\ sync'[i] = y /\ \A j \in Syncs : j # i => sync'[j] = T[j]
  BY <1>1
<1>3. sync' \in [Syncs -> SyncRecord] /\ \A j \in Syncs : Shaped(sync'[j])
  BY <1>1, <1>2 DEF Shaped, Formed
<1>4. \A q \in Projects : Of(y, q) <=> q = p
  BY DEF Of
<1>5. ASSUME NEW j \in Syncs, NEW q \in Projects
      PROVE  Of(sync'[j], q) <=> IF j = i THEN q = p ELSE Of(sync[j], q)
  BY <1>1, <1>2, <1>4
<1>6. ASSUME NEW j \in Syncs, NEW q \in Projects, Of(sync'[j], q), sync'[j].alone
      PROVE  /\ \A k \in Syncs : Of(sync'[k], q) => k = j
             /\ Fits(sync'[j], row'[q]) /\ Working(sync'[j], container'[q])
  <2>1. CASE j = i
    <3>1. q = p /\ y.alone
      BY <1>2, <1>5, <1>6, <2>1
    <3>2. \A k \in Syncs : Of(sync'[k], q) => k = j
      BY <1>5, <2>1, <3>1
    <3>3. Working(y, container'[q])
      BY DEF Working, Placing, Pruned
    <3> QED
      BY <1>2, <2>1, <3>1, <3>2, <3>3
  <2>2. CASE j # i
    <3>1. Of(sync[j], q)
      BY <1>5, <1>6, <2>2
    <3>2. q # p
      BY <1>1, <1>2, <1>6, <2>2, <3>1
    <3>3. ~Of(sync[j], p)
      BY <3>1, <3>2 DEF Of
    <3>4. sync'[j] = sync[j]
      BY <1>1, <1>2, <2>2, <3>3
    <3>5. Lone(j, q) /\ Fits(sync[j], row[q]) /\ Working(sync[j], container[q])
      BY <1>6, <3>1, <3>4 DEF AloneOK
    <3>6. \A k \in Syncs : Of(sync'[k], q) => k = j
      BY <1>5, <3>2, <3>5 DEF Lone
    <3> QED
      BY <3>2, <3>4, <3>5, <3>6
  <2> QED
    BY <2>1, <2>2
<1>7. AloneOK'
  BY <1>6 DEF AloneOK, Lone
<1>8. ASSUME NEW q \in Projects, NEW s \in Services,
             q \notin upset', container'[q][s].here, \A j \in Syncs : ~Of(sync'[j], q)
      PROVE  container'[q][s].on = IF s \in row'[q].services THEN {row'[q].group} ELSE {}
  <2>1. q # p
    BY <1>5, <1>8
  <2>2. \A j \in Syncs : ~Of(sync[j], q)
    BY <1>5, <1>8, <2>1
  <2> QED
    BY <1>8, <2>1, <2>2 DEF GroupsFollowRows
<1>9. GroupsFollowRows'
  BY <1>8 DEF GroupsFollowRows
<1> QED
  BY <1>3, <1>7, <1>9

(* Containers of a project are replaced or go without a sync. *)
LEMMA TouchStep ==
  ASSUME GroupTypeOK, AloneOK, GroupsFollowRows,
         NEW p \in Projects, NEW replaced \in SUBSET Services, sync' = Touched(p, replaced), row' = row,
         \A q \in Projects : q # p => container'[q] = container[q],
         upset \subseteq upset',
         p \in upset' \/ \A s \in Services : ~container'[p][s].here
  PROVE  /\ sync' \in [Syncs -> SyncRecord] /\ \A j \in Syncs : Shaped(sync'[j])
         /\ AloneOK' /\ GroupsFollowRows'
<1> PICK T : T = Touched(p, replaced)
  OBVIOUS
<1>1. /\ T = [j \in Syncs |-> T[j]] /\ sync' = T
      /\ \A j \in Syncs : /\ Shaped(T[j])
                          /\ \A q \in Projects : Of(T[j], q) <=> Of(sync[j], q)
                          /\ Of(sync[j], p) => ~T[j].alone
                          /\ ~Of(sync[j], p) => T[j] = sync[j]
  BY TouchedSyncs
<1>2. sync' \in [Syncs -> SyncRecord] /\ \A j \in Syncs : Shaped(sync'[j])
  BY <1>1 DEF Shaped, Formed
<1>3. ASSUME NEW j \in Syncs, NEW q \in Projects, Of(sync'[j], q), sync'[j].alone
      PROVE  /\ \A k \in Syncs : Of(sync'[k], q) => k = j
             /\ Fits(sync'[j], row'[q]) /\ Working(sync'[j], container'[q])
  <2>1. Of(sync[j], q) /\ q # p
    BY <1>1, <1>3
  <2>2. ~Of(sync[j], p)
    BY <2>1 DEF Of
  <2>3. sync'[j] = sync[j]
    BY <1>1, <2>2
  <2>4. Lone(j, q) /\ Fits(sync[j], row[q]) /\ Working(sync[j], container[q])
    BY <1>3, <2>1, <2>3 DEF AloneOK
  <2>5. \A k \in Syncs : Of(sync'[k], q) => k = j
    BY <1>1, <2>4 DEF Lone
  <2> QED
    BY <2>1, <2>3, <2>4, <2>5
<1>4. AloneOK'
  BY <1>3 DEF AloneOK, Lone
<1>5. ASSUME NEW q \in Projects, NEW s \in Services,
             q \notin upset', container'[q][s].here, \A j \in Syncs : ~Of(sync'[j], q)
      PROVE  container'[q][s].on = IF s \in row'[q].services THEN {row'[q].group} ELSE {}
  <2>1. q # p /\ q \notin upset
    BY <1>5
  <2>2. \A j \in Syncs : ~Of(sync[j], q)
    BY <1>1, <1>5
  <2> QED
    BY <1>5, <2>1, <2>2 DEF GroupsFollowRows
<1>6. GroupsFollowRows'
  BY <1>5 DEF GroupsFollowRows
<1> QED
  BY <1>2, <1>4, <1>6

LEMMA ReplaceIs ==
  ASSUME GroupTypeOK, NEW p \in Projects, NEW services \in SUBSET Services,
         NEW new \in ContainerRecord, Replace(p, services, new)
  PROVE  /\ container' \in [Projects -> [Services -> ContainerRecord]]
         /\ \A q \in Projects : q # p => container'[q] = container[q]
         /\ \A s \in Services : container'[p][s] = IF s \in services THEN new ELSE container[p][s]
         /\ loose \subseteq loose' /\ \A n : Member(n) => Member(n)' \/ n \in loose'
<1>1. container \in [Projects -> [Services -> ContainerRecord]]
  BY DEF GroupTypeOK
<1>2. container' = [container EXCEPT ![p] = [s \in Services |-> IF s \in services THEN new ELSE container[p][s]]]
  BY DEF Replace
<1>3. [s \in Services |-> IF s \in services THEN new ELSE container[p][s]] \in [Services -> ContainerRecord]
  BY <1>1
<1>4. /\ container' \in [Projects -> [Services -> ContainerRecord]]
      /\ \A q \in Projects : q # p => container'[q] = container[q]
      /\ \A s \in Services : container'[p][s] = IF s \in services THEN new ELSE container[p][s]
  BY <1>1, <1>2, <1>3
<1>5. loose' = loose \cup UNION {container[p][s].on : s \in services}
  BY DEF Replace
<1>6. ASSUME NEW n, Member(n), n \notin loose' PROVE Member(n)'
  <2>1. PICK q \in Projects, s \in Services : n \in container[q][s].on
    BY <1>6 DEF Member
  <2>2. ~(q = p /\ s \in services)
    BY <1>5, <1>6, <2>1
  <2>3. container'[q][s] = container[q][s]
    BY <1>4, <2>2
  <2> QED
    BY <2>1, <2>3 DEF Member
<1> QED
  BY <1>4, <1>5, <1>6

-----------------------------------------------------------------------------
(* The actions that touch a project *)

LEMMA StartInv ==
  ASSUME GroupInv, NEW p \in Projects, NEW replaced \in SUBSET Services, NEW i \in Syncs,
         NEW kind \in {"assign", "up", "delete"}, NEW r \in GroupRow, Start(i, kind, p, r, replaced),
         IF kind = "delete" THEN r.services = {} ELSE r = row'[p],
         row' \in [Projects -> GroupRow], \A q \in Projects : row'[q].group = NoGroup => row'[q].services = {},
         container' \in [Projects -> [Services -> ContainerRecord]], networks' = networks,
         \A q \in Projects : q # p => row'[q] = row[q] /\ container'[q] = container[q],
         upset' = upset
  PROVE  GroupInv'
<1> PICK y : y = NewSync(kind, p, r)
  OBVIOUS
<1>1. GroupTypeOK /\ AloneOK /\ GroupsFollowRows
  BY DEF GroupInv
<1>2. sync' = [Touched(p, replaced) EXCEPT ![i] = y] /\ sync[i].pc = "idle"
  BY DEF Start
<1>3. \A q \in Projects : ~Of(sync[i], q)
  BY <1>2 DEF Of
<1>4. /\ Shaped(y) /\ y.pc = "list" /\ y.kind = kind /\ y.project = {p} /\ y.wanted = Wanted(r)
      /\ y.joining = r.services /\ y.gone = {}
      /\ y.alone => \A j \in Syncs : ~Of(sync[j], p)
  <2>1. PICK k \in {"assign", "up", "delete", "boot"} : k = kind
    OBVIOUS
  <2>2. y = NewSync(k, p, r)
    BY <2>1
  <2> QED
    BY <2>1, <2>2, NewSyncIs
<1>5. Fits(y, row'[p])
  BY <1>4 DEF Fits
<1>7. /\ sync' \in [Syncs -> SyncRecord] /\ \A j \in Syncs : Shaped(sync'[j])
      /\ AloneOK' /\ GroupsFollowRows'
  BY <1>1, <1>2, <1>3, <1>4, <1>5, StartStep
<1>8. GroupTypeOK'
  BY <1>1, <1>7 DEF GroupTypeOK
<1>9. Watched'
  <2>1. sync'[i] = y
    BY <1>2, <1>7 DEF Touched
  <2>2. \A n : Watches(sync'[i], n)
    BY <1>4, <2>1 DEF Watches
  <2> QED
    BY <2>2 DEF Watched
<1> QED
  BY <1>7, <1>8, <1>9 DEF GroupInv

LEMMA AssignInv ==
  ASSUME GroupInv, NEW p \in Projects, NEW i \in Syncs, NEW g \in Groups \cup {NoGroup},
         NEW services \in SUBSET Services, Assign(i, p, g, services)
  PROVE  GroupInv'
<1>1. PICK r : r = [group |-> g, services |-> services, here |-> TRUE]
  OBVIOUS
<1>2. r \in GroupRow /\ (r.group = NoGroup => r.services = {})
  BY <1>1 DEF GroupRow, Assign
<1>3. row \in [Projects -> GroupRow] /\ \A q \in Projects : row[q].group = NoGroup => row[q].services = {}
  BY DEF GroupInv, GroupTypeOK
<1>4. row' = [row EXCEPT ![p] = r]
  BY <1>1 DEF Assign
<1>5. /\ row' \in [Projects -> GroupRow] /\ row'[p] = r
      /\ \A q \in Projects : q # p => row'[q] = row[q]
  BY <1>2, <1>3, <1>4
<1>6. \A q \in Projects : row'[q].group = NoGroup => row'[q].services = {}
  BY <1>2, <1>3, <1>5
<1>7. PICK e \in SUBSET Services : e = {}
  OBVIOUS
<1>8. Start(i, "assign", p, r, e) /\ networks' = networks /\ upset' = upset /\ container' = container
  BY <1>5, <1>7 DEF Assign
<1>9. container' \in [Projects -> [Services -> ContainerRecord]]
  BY <1>8 DEF GroupInv, GroupTypeOK
<1> QED
  BY <1>2, <1>5, <1>6, <1>8, <1>9, StartInv

LEMMA BringUpInv ==
  ASSUME GroupInv, NEW p \in Projects, NEW i \in Syncs, NEW services \in SUBSET Services, BringUp(i, p, services)
  PROVE  GroupInv'
<1>1. GroupTypeOK
  BY DEF GroupInv
<1>2. PICK new : new = [here |-> TRUE, on |-> {}]
  OBVIOUS
<1>3. new \in ContainerRecord
  BY <1>2 DEF ContainerRecord
<1>4. /\ Replace(p, services, new) /\ Start(i, "up", p, row[p], services)
      /\ row' = row /\ networks' = networks /\ upset' = upset
  BY <1>2 DEF BringUp
<1>5. /\ container' \in [Projects -> [Services -> ContainerRecord]]
      /\ \A q \in Projects : q # p => container'[q] = container[q]
  BY <1>1, <1>3, <1>4, ReplaceIs
<1>6. /\ row' \in [Projects -> GroupRow] /\ \A q \in Projects : row'[q].group = NoGroup => row'[q].services = {}
      /\ row[p] \in GroupRow /\ row[p] = row'[p]
  BY <1>1, <1>4 DEF GroupTypeOK
<1> QED
  BY <1>4, <1>5, <1>6, StartInv

LEMMA LeaveForDeleteInv ==
  ASSUME GroupInv, NEW p \in Projects, NEW i \in Syncs, LeaveForDelete(i, p)
  PROVE  GroupInv'
<1>1. PICK e \in SUBSET Services : e = {}
  OBVIOUS
<1>2. PICK r : r = Ungrouped
  OBVIOUS
<1>3. r = Ungrouped /\ r \in GroupRow /\ r.services = {}
  <2>1. PICK g : g = RowGone
    OBVIOUS
  <2>2. g = [group |-> NoGroup, services |-> e, here |-> FALSE]
    BY <1>1, <2>1 DEF RowGone
  <2>3. g \in GroupRow /\ g.services = {}
    BY <1>1, <2>2 DEF GroupRow
  <2>4. r = [g EXCEPT !.here = TRUE]
    BY <1>2, <2>1 DEF Ungrouped
  <2> QED
    BY <1>2, <2>3, <2>4 DEF GroupRow
<1>4. /\ Start(i, "delete", p, r, e) /\ row' = row /\ container' = container
      /\ networks' = networks /\ upset' = upset
  BY <1>1, <1>3 DEF LeaveForDelete
<1>5. /\ row' \in [Projects -> GroupRow] /\ \A q \in Projects : row'[q].group = NoGroup => row'[q].services = {}
      /\ container' \in [Projects -> [Services -> ContainerRecord]]
  BY <1>4 DEF GroupInv, GroupTypeOK
<1> QED
  BY <1>3, <1>4, <1>5, StartInv

LEMMA TouchInv ==
  ASSUME GroupInv, NEW p \in Projects, NEW services \in SUBSET Services, NEW new \in ContainerRecord,
         Replace(p, services, new), sync' = Touched(p, services), row' = row, networks' = networks,
         upset \subseteq upset', p \in upset' \/ (services = Services /\ ~new.here)
  PROVE  GroupInv'
<1>1. GroupTypeOK /\ AloneOK /\ GroupsFollowRows
  BY DEF GroupInv
<1>2. /\ container' \in [Projects -> [Services -> ContainerRecord]]
      /\ \A q \in Projects : q # p => container'[q] = container[q]
      /\ \A s \in Services : container'[p][s] = IF s \in services THEN new ELSE container[p][s]
      /\ loose \subseteq loose' /\ \A n : Member(n) => Member(n)' \/ n \in loose'
  BY <1>1, ReplaceIs
<1>3. p \in upset' \/ \A s \in Services : ~container'[p][s].here
  BY <1>2
<1>4. /\ sync' \in [Syncs -> SyncRecord] /\ \A j \in Syncs : Shaped(sync'[j])
      /\ AloneOK' /\ GroupsFollowRows'
  BY <1>1, <1>2, <1>3, TouchStep
<1>5. GroupTypeOK'
  BY <1>1, <1>2, <1>4 DEF GroupTypeOK
<1>6. \A j \in Syncs, n \in networks : Watches(sync'[j], n) <=> Watches(sync[j], n)
  BY <1>1, TouchedSyncs
<1>7. Watched'
  <2> SUFFICES ASSUME NEW n \in networks' \ loose' PROVE Member(n)' \/ \E j \in Syncs : Watches(sync'[j], n)
    BY DEF Watched
  <2>1. n \in networks \ loose
    BY <1>2
  <2>2. Member(n) \/ \E j \in Syncs : Watches(sync[j], n)
    BY <2>1 DEF GroupInv, Watched
  <2> QED
    BY <1>2, <1>6, <2>1, <2>2
<1> QED
  BY <1>4, <1>5, <1>7 DEF GroupInv

LEMMA UpFailsInv ==
  ASSUME GroupInv, NEW p \in Projects, NEW services \in SUBSET Services, UpFails(p, services)
  PROVE  GroupInv'
<1>1. PICK new : new = [here |-> TRUE, on |-> {}]
  OBVIOUS
<1>2. new \in ContainerRecord
  BY <1>1 DEF ContainerRecord
<1> QED
  BY <1>1, <1>2, TouchInv DEF UpFails

LEMMA TakeDownInv ==
  ASSUME GroupInv, NEW p \in Projects, TakeDown(p)
  PROVE  GroupInv'
<1>1. Down \in ContainerRecord /\ ~Down.here
  BY DEF Down, ContainerRecord
<1>2. Services \in SUBSET Services
  OBVIOUS
<1> QED
  BY <1>1, <1>2, TouchInv DEF TakeDown

-----------------------------------------------------------------------------
(* What a sync that works alone leaves behind *)

LEMMA SameTarget ==
  ASSUME NEW x, NEW y, SameTask(x, y)
  PROVE  /\ \A s : Joins(y, s) <=> Joins(x, s)
         /\ \A s : Target(y, s) = Target(x, s)
         /\ \A c, s : Done(y, c, s) <=> Done(x, c, s)
         /\ \A r : Fits(y, r) <=> Fits(x, r)
<1>1. \A s : Joins(y, s) <=> Joins(x, s)
  BY DEF SameTask, Joins
<1>2. \A s : Target(y, s) = Target(x, s)
  BY <1>1 DEF SameTask, Target
<1>3. \A c, s : Done(y, c, s) <=> Done(x, c, s)
  BY <1>2 DEF Done
<1>4. \A r : Fits(y, r) <=> Fits(x, r)
  BY DEF SameTask, Fits
<1> QED
  BY <1>1, <1>2, <1>3, <1>4

LEMMA NoWork ==
  ASSUME NEW x, NEW s, ~HasWork(x, s)
  PROVE  x.seen[s] = Target(x, s)
  BY DEF HasWork, Surplus, NeedsJoin, Target

LEMMA SurplusRest ==
  ASSUME NEW x, NEW s
  PROVE  /\ x.seen[s] = Surplus(x, s) \cup (x.seen[s] \cap Target(x, s))
         /\ Surplus(x, s) \cap Target(x, s) = {}
  BY DEF Surplus, Target

LEMMA TurnWorks ==
  ASSUME NEW x \in SyncRecord, \A s \in x.todo : HasWork(x, s),
         x.project = {} \/ \E p \in Projects : x.project = {p},
         NEW y \in Turns(x), NEW c, x.gone = {},
         \A u \in Services : IF u \in x.todo THEN c[u].on = x.seen[u] ELSE Done(x, c, u)
  PROVE  Working(y, c)
<1>1. /\ Shaped(y) /\ SameTask(x, y)
      /\ \/ /\ x.todo = {} /\ y.pc = "prune"
            /\ y.todo = {} /\ y.service = {} /\ y.gone = {}
         \/ \E s \in x.todo :
              /\ y.pc \in Placing \ {"connect"} /\ y.service = {s} /\ y.todo = x.todo \ {s}
              /\ y.drop = Surplus(x, s) /\ y.seen = x.seen /\ y.gone = x.gone
  BY TurnsAre
<1>2. /\ \A s : Target(y, s) = Target(x, s)
      /\ \A u \in Services : Done(y, c, u) <=> Done(x, c, u)
  BY <1>1, SameTarget
<1>3. CASE x.todo = {} /\ y.pc = "prune" /\ y.gone = {}
  BY <1>2, <1>3 DEF Working, Placing
<1>4. ASSUME NEW s \in x.todo,
             y.pc \in Placing \ {"connect"}, y.service = {s}, y.todo = x.todo \ {s},
             y.drop = Surplus(x, s), y.seen = x.seen, y.gone = x.gone
      PROVE  Working(y, c)
  <2>1. /\ c[s].on = y.drop \cup (y.seen[s] \cap Target(y, s)) /\ y.drop \cap Target(y, s) = {}
        /\ s \in Services
    BY <1>2, <1>4, SurplusRest DEF SyncRecord
  <2>2. y.pc \notin Pruned
    BY <1>4 DEF Placing, Pruned
  <2>3. ASSUME NEW u \in Services
        PROVE  /\ u \in y.todo => u \notin y.service /\ c[u].on = y.seen[u]
               /\ u \in y.service => /\ c[u].on = y.drop \cup (y.seen[u] \cap Target(y, u))
                                     /\ y.drop \cap Target(y, u) = {}
               /\ u \notin y.todo \cup y.service => Done(y, c, u)
    BY <1>2, <1>4, <2>1
  <2> QED
    BY <1>4, <2>2, <2>3 DEF Working
<1> QED
  BY <1>1, <1>3, <1>4

(* A project whose sync was alone and done is as its row says. *)
LEMMA DoneFollows ==
  ASSUME GroupTypeOK, NEW p \in Projects, NEW x, x.kind # "delete", Fits(x, row[p]),
         NEW c, NEW s \in Services, Done(x, c, s), c[s].here
  PROVE  c[s].on = IF s \in row[p].services THEN {row[p].group} ELSE {}
<1>1. x.wanted = Wanted(row[p]) /\ x.joining = row[p].services
  BY DEF Fits
<1>2. row[p].services # {} => row[p].group # NoGroup
  BY DEF GroupTypeOK
<1>3. CASE s \in row[p].services
  BY <1>1, <1>2, <1>3 DEF Done, Target, Joins, Wanted
<1>4. CASE s \notin row[p].services
  BY <1>1, <1>4 DEF Done, Target, Joins
<1> QED
  BY <1>3, <1>4

-----------------------------------------------------------------------------
(* The invariant under a step of one sync *)

LEMMA StepInv ==
  ASSUME GroupInv, NEW i \in Syncs, NEW x, x = sync[i], x.pc # "idle",
         NEW y, Shaped(y), sync' = [sync EXCEPT ![i] = y], row' = row,
         container' \in [Projects -> [Services -> ContainerRecord]], networks' \subseteq Groups,
         OthersSame(x), KeepsAlone(x, y), LeavesFollowing(x, y), StillWatched(x, y)
  PROVE  GroupInv'
<1>1. GroupTypeOK /\ AloneOK /\ GroupsFollowRows /\ Watched
  BY DEF GroupInv
<1>2. sync' \in [Syncs -> SyncRecord] /\ \A j \in Syncs : Shaped(sync'[j])
  BY <1>1 DEF GroupTypeOK, Shaped, Formed
<1>3. GroupTypeOK'
  BY <1>1, <1>2 DEF GroupTypeOK
<1>4. AloneOK' /\ GroupsFollowRows'
  BY <1>1, LocalStep
<1>5. Watched'
  BY <1>1, WatchStep
<1> QED
  BY <1>3, <1>4, <1>5 DEF GroupInv

(* A sync that fails leaves its project to another. *)
LEMMA AbortInv ==
  ASSUME GroupInv, NEW i \in Syncs, sync[i].pc # "idle", Abort(i), row' = row,
         container' \in [Projects -> [Services -> ContainerRecord]], networks' \subseteq Groups,
         \A q \in Projects : sync[i].project # {q} => container'[q] = container[q]
  PROVE  GroupInv'
<1> PICK x : x = sync[i]
  OBVIOUS
<1>1. Shaped(x)
  BY DEF GroupInv, GroupTypeOK
<1>2. PICK z : z = [x EXCEPT !.alone = FALSE]
  OBVIOUS
<1>3. /\ z \in SyncRecord /\ ~z.alone /\ z.kind = x.kind /\ z.project = x.project /\ z.wanted = x.wanted
      /\ z.joining = x.joining /\ z.seen = x.seen /\ z.todo = x.todo /\ z.pc = x.pc /\ z.drop = x.drop
      /\ z.service = x.service
  BY <1>1, <1>2 DEF Shaped, Formed, SyncRecord
<1>4. Shaped(z)
  <2>1. \A s : (HasWork(z, s) <=> HasWork(x, s)) /\ (NeedsJoin(z, s) <=> NeedsJoin(x, s))
    BY <1>3 DEF HasWork, Surplus, NeedsJoin, Joins
  <2> QED
    BY <1>1, <1>3, <2>1 DEF Shaped, Formed
<1>5. PICK y : y = Ended(z)
  OBVIOUS
<1>6. /\ Shaped(y)
      /\ z.kind = "delete" => y.pc = "remove" /\ SameTask(z, y)
      /\ z.kind # "delete" => \A p \in Projects : ~Of(y, p)
  BY <1>4, <1>5, EndedIs DEF Shaped
<1>7. sync' = [sync EXCEPT ![i] = y] /\ upset' = upset \cup x.project /\ loose' = Groups
  BY <1>2, <1>5 DEF Abort
<1>8. \A p \in Projects : Of(y, p) => Of(x, p) /\ ~y.alone
  BY <1>3, <1>6 DEF SameTask, Of
<1>9. \A p \in Projects : x.project = {p} => p \in upset'
  BY <1>7
<1>10. OthersSame(x) /\ KeepsAlone(x, y) /\ LeavesFollowing(x, y)
  BY <1>7, <1>8, <1>9 DEF OthersSame, KeepsAlone, LeavesFollowing
<1>11. StillWatched(x, y)
  BY <1>7 DEF StillWatched
<1> QED
  BY <1>6, <1>7, <1>10, <1>11, StepInv

\* Which is what pruning does, on its way to the record z.
PrunesOn(x, z) ==
  \/ z.kind = "boot" /\ z.project # {}
  \/ \A n \in networks' \ loose' :
       n \in z.names \/ Member(n)' \/ (n \in networks \ loose /\ ~Member(n) /\ ~Watches(x, n))

LEMMA PruningInv ==
  ASSUME GroupInv, NEW i \in Syncs, NEW x, x = sync[i], x.pc \in {"prune", "inspect", "rm"},
         NEW z, Formed(z), SameTask(x, z), z.gone = x.gone, z.todo = x.todo,
         Pruning(i, z), PrunesOn(x, z),
         row' = row, container' = container, networks' \subseteq Groups
  PROVE  GroupInv'
<1>1. GroupTypeOK /\ AloneOK /\ Shaped(x)
  BY DEF GroupInv, GroupTypeOK
<1>2. container' \in [Projects -> [Services -> ContainerRecord]]
  BY <1>1 DEF GroupTypeOK
<1>3. x.pc # "idle" /\ x.pc # "remove" /\ x.pc \in Pruned /\ x.pc \notin Placing
  BY DEF Pruned, Placing
<1>4. ASSUME NEW p \in Projects, Of(x, p), x.alone
      PROVE  Fits(x, row[p]) /\ x.gone = {} /\ \A s \in Services : Done(x, container[p], s)
  BY <1>1, <1>3, <1>4 DEF AloneOK, Working
<1>5. ASSUME NEW y, y.pc \in Pruned, SameTask(x, y), y.gone = x.gone
      PROVE  KeepsAlone(x, y)
  <2> SUFFICES ASSUME NEW p \in Projects, Of(y, p)
               PROVE  Of(x, p) /\ (y.alone => x.alone /\ Fits(y, row[p]) /\ Working(y, container'[p]))
    BY DEF KeepsAlone
  <2>1. Of(x, p)
    BY <1>3, <1>5 DEF Of, SameTask
  <2>2. ASSUME y.alone PROVE x.alone /\ Fits(y, row[p]) /\ Working(y, container'[p])
    <3>1. x.alone
      BY <1>5, <2>2 DEF SameTask
    <3>2. Fits(x, row[p]) /\ x.gone = {} /\ \A s \in Services : Done(x, container[p], s)
      BY <1>4, <2>1, <3>1
    <3>3. Fits(y, row[p]) /\ \A s \in Services : Done(y, container[p], s)
      BY <1>5, <3>2, SameTarget
    <3>4. y.pc \notin Placing
      BY <1>5 DEF Pruned, Placing
    <3> QED
      BY <1>5, <3>1, <3>2, <3>3, <3>4 DEF Working
  <2> QED
    BY <2>1, <2>2
<1>6. CASE z.names = {}
  <2>1. PICK y : y = Ended(z)
    OBVIOUS
  <2>2. /\ sync' = [sync EXCEPT ![i] = y]
        /\ upset' = IF z.alone THEN upset \ z.project ELSE upset \cup z.project
    BY <1>6, <2>1 DEF Pruning, EndSync
  <2>3. /\ Shaped(y)
        /\ z.kind = "delete" => y.pc = "remove" /\ SameTask(z, y) /\ y.gone = z.gone
        /\ z.kind # "delete" => \A p \in Projects : ~Of(y, p)
        /\ z.kind = "boot" /\ z.project # {} => y.pc = "boot"
    BY <2>1, EndedIs
  <2>4. OthersSame(x)
    <3> SUFFICES ASSUME NEW q \in Projects, x.project # {q}, q \in upset PROVE q \in upset'
      BY DEF OthersSame
    <3>1. q \notin z.project
      BY <1>1 DEF Shaped, Formed, SameTask
    <3> QED
      BY <2>2, <3>1
  <2>5. KeepsAlone(x, y)
    <3>1. CASE z.kind = "delete"
      <4>1. y.pc \in Pruned /\ SameTask(x, y) /\ y.gone = x.gone
        BY <2>3, <3>1 DEF Pruned, SameTask
      <4> QED
        BY <1>5, <4>1
    <3>2. CASE z.kind # "delete"
      BY <2>3, <3>2 DEF KeepsAlone
    <3> QED
      BY <3>1, <3>2
  <2>6. LeavesFollowing(x, y)
    <3> SUFFICES ASSUME NEW p \in Projects, x.project = {p}, ~Of(y, p), p \notin upset'
                 PROVE  \A s \in Services : container'[p][s].here =>
                          container'[p][s].on = IF s \in row[p].services THEN {row[p].group} ELSE {}
      BY DEF LeavesFollowing
    <3>1. Of(x, p)
      BY <1>3 DEF Of
    <3>2. x.kind # "delete"
      <4>1. CASE z.kind = "delete"
        <5>1. y.pc = "remove" /\ y.project = {p}
          BY <2>3, <4>1 DEF SameTask
        <5> QED
          BY <5>1 DEF Of
      <4> QED
        BY <4>1 DEF SameTask
    <3>3. z.alone
      BY <2>2 DEF SameTask
    <3>4. x.alone
      BY <3>3 DEF SameTask
    <3>5. Fits(x, row[p]) /\ \A s \in Services : Done(x, container[p], s)
      BY <1>4, <3>1, <3>4
    <3>6. ASSUME NEW s \in Services, container[p][s].here
          PROVE  container[p][s].on = IF s \in row[p].services THEN {row[p].group} ELSE {}
      BY <1>1, <3>2, <3>5, <3>6, DoneFollows
    <3> QED
      BY <3>6
  <2>7. StillWatched(x, y)
    <3>1. CASE z.kind = "boot" /\ z.project # {}
      BY <2>3, <3>1 DEF StillWatched, Watches
    <3>2. CASE ~(z.kind = "boot" /\ z.project # {})
      BY <1>6, <3>2 DEF StillWatched, PrunesOn
    <3> QED
      BY <3>1, <3>2
  <2> QED
    BY <1>2, <1>3, <2>2, <2>3, <2>4, <2>5, <2>6, <2>7, StepInv
<1>7. CASE z.names # {}
  <2>1. PICK y : y = [z EXCEPT !.pc = "inspect"]
    OBVIOUS
  <2>2. sync' = [sync EXCEPT ![i] = y] /\ upset' = upset
    BY <1>7, <2>1 DEF Pruning
  <2>3. /\ y \in SyncRecord /\ y.pc = "inspect" /\ SameTask(z, y) /\ y.gone = z.gone
        /\ y.seen = z.seen /\ y.todo = z.todo /\ y.names = z.names
    BY <2>1 DEF Shaped, Formed, SyncRecord, Pruned, SameTask
  <2>4. \A s : HasWork(z, s) => HasWork(y, s)
    BY <2>3 DEF HasWork, Surplus, NeedsJoin, Joins, SameTask
  <2>5. Shaped(y)
    BY <2>3, <2>4 DEF Shaped, Formed, SameTask, Placing
  <2>6. SameTask(x, y) /\ y.gone = x.gone /\ y.pc \in Pruned
    BY <2>3 DEF SameTask, Pruned
  <2>7. KeepsAlone(x, y)
    BY <1>5, <2>6
  <2>8. OthersSame(x)
    BY <2>2 DEF OthersSame
  <2>9. LeavesFollowing(x, y)
    BY <1>3, <2>3, <2>6 DEF LeavesFollowing, Of, SameTask
  <2>10. StillWatched(x, y)
    <3>1. CASE z.kind = "boot" /\ z.project # {}
      BY <2>3, <3>1 DEF StillWatched, Watches, SameTask
    <3>2. CASE ~(z.kind = "boot" /\ z.project # {})
      BY <2>3, <3>2 DEF StillWatched, PrunesOn, Watches
    <3> QED
      BY <3>1, <3>2
  <2> QED
    BY <1>2, <1>3, <2>2, <2>5, <2>7, <2>8, <2>9, <2>10, StepInv
<1> QED
  BY <1>6, <1>7

-----------------------------------------------------------------------------
(* The steps of a sync that list, leave and join networks *)

\* Placing containers and having yet to prune: the sync sees to every network.
LEMMA PlacingInv ==
  ASSUME GroupInv, NEW i \in Syncs, NEW x, x = sync[i], x.pc \in {"list"} \cup Placing,
         NEW p \in Projects, x.project = {p},
         NEW y, Shaped(y), SameTask(x, y), y.pc \in {"prune"} \cup Placing,
         sync' = [sync EXCEPT ![i] = y], row' = row, upset' = upset, networks' \subseteq Groups,
         container' \in [Projects -> [Services -> ContainerRecord]],
         \A q \in Projects : q # p => container'[q] = container[q],
         Working(x, container[p]) => Working(y, container'[p])
  PROVE  GroupInv'
<1>1. x.pc # "idle" /\ y.pc # "idle"
  BY DEF Placing
<1>2. OthersSame(x)
  BY DEF OthersSame
<1>3. KeepsAlone(x, y)
  <2> SUFFICES ASSUME NEW q \in Projects, Of(y, q)
               PROVE  Of(x, q) /\ (y.alone => x.alone /\ Fits(y, row[q]) /\ Working(y, container'[q]))
    BY DEF KeepsAlone
  <2>1. q = p /\ Of(x, q)
    BY <1>1 DEF Of, SameTask
  <2>2. ASSUME y.alone PROVE x.alone /\ Fits(y, row[q]) /\ Working(y, container'[q])
    <3>1. x.alone
      BY <2>2 DEF SameTask
    <3>2. Fits(x, row[q]) /\ Working(x, container[q])
      BY <2>1, <3>1 DEF GroupInv, AloneOK
    <3> QED
      BY <2>1, <3>1, <3>2, SameTarget
  <2> QED
    BY <2>1, <2>2
<1>4. LeavesFollowing(x, y)
  BY <1>1 DEF LeavesFollowing, Of, SameTask
<1>5. StillWatched(x, y)
  BY DEF StillWatched, Watches
<1> QED
  BY <1>1, <1>2, <1>3, <1>4, <1>5, StepInv

LEMMA AnsweredInv ==
  ASSUME GroupInv, NEW i \in Syncs, NEW x, x = sync[i], x.pc \in Placing,
         NEW p \in Projects, x.project = {p},
         NEW y, Shaped(y), SameTask(x, y), y.pc \in {"prune"} \cup Placing,
         Answered(i, y), row' = row, networks' \subseteq Groups,
         container' \in [Projects -> [Services -> ContainerRecord]],
         \A q \in Projects : q # p => container'[q] = container[q],
         Working(x, container[p]) => Working(y, container'[p])
  PROVE  GroupInv'
<1>1. CASE sync' = [sync EXCEPT ![i] = y] /\ upset' = upset
  BY <1>1, PlacingInv
<1>2. CASE Abort(i)
  <2>1. x.pc # "idle"
    BY DEF Placing
  <2>2. \A q \in Projects : x.project # {q} => container'[q] = container[q]
    OBVIOUS
  <2> QED
    BY <1>2, <2>1, <2>2, AbortInv
<1> QED
  BY <1>1, <1>2 DEF Answered

LEMMA ListInv ==
  ASSUME GroupInv, NEW i \in Syncs, List(i)
  PROVE  GroupInv'
<1> PICK v : v = sync[i]
  OBVIOUS
<1>1. Shaped(v) /\ container \in [Projects -> [Services -> ContainerRecord]] /\ networks \subseteq Groups
  BY DEF GroupInv, GroupTypeOK
<1>2. PICK p \in v.project :
        LET x == [sync[i] EXCEPT !.gone = {}, !.seen = [s \in Services |-> container[p][s].on]]
            work == {s \in Services : container[p][s].here /\ (Surplus(x, s) # {} \/ NeedsJoin(x, s))}
        IN  /\ x.pc = "list" /\ Calm
            /\ \E y \in Turns([x EXCEPT !.todo = work]) : sync' = [sync EXCEPT ![i] = y]
            /\ UNCHANGED <<row, container, networks, upset, loose>>
  BY DEF List
<1>3. p \in Projects /\ v.project = {p}
  BY <1>1 DEF Shaped, Formed, SyncRecord
<1>4. PICK seen \in [Services -> SUBSET Groups] : seen = [s \in Services |-> container[p][s].on]
  <2>1. [s \in Services |-> container[p][s].on] \in [Services -> SUBSET Groups]
    BY <1>1, <1>3 DEF ContainerRecord
  <2> QED
    BY <2>1
<1>5. PICK e \in SUBSET Services : e = {}
  OBVIOUS
<1>6. PICK x : x = [v EXCEPT !.gone = e, !.seen = seen]
  OBVIOUS
<1>7. x = [sync[i] EXCEPT !.gone = {}, !.seen = [s \in Services |-> container[p][s].on]]
  BY <1>4, <1>5, <1>6
<1>8. PICK work \in SUBSET Services :
        work = {s \in Services : container[p][s].here /\ (Surplus(x, s) # {} \/ NeedsJoin(x, s))}
  OBVIOUS
<1>9. /\ x.pc = "list" /\ row' = row /\ container' = container /\ networks' = networks /\ upset' = upset
      /\ \E y \in Turns([x EXCEPT !.todo = work]) : sync' = [sync EXCEPT ![i] = y]
  BY <1>2, <1>7, <1>8
<1>10. PICK z : z = [x EXCEPT !.todo = work]
  OBVIOUS
<1>11. PICK y \in Turns(z) : sync' = [sync EXCEPT ![i] = y]
  BY <1>9, <1>10
<1>12. x \in SyncRecord /\ SameTask(v, x) /\ x.pc = v.pc /\ x.gone = {} /\ x.seen = seen
  BY <1>1, <1>5, <1>6 DEF Shaped, Formed, SyncRecord, SameTask
<1>13. z \in SyncRecord /\ SameTask(v, z) /\ z.gone = {} /\ z.seen = seen /\ z.todo = work
       /\ z.wanted = x.wanted /\ z.joining = x.joining
  BY <1>10, <1>12 DEF SyncRecord, SameTask
<1>14. \A s : HasWork(z, s) <=> (Surplus(x, s) # {} \/ NeedsJoin(x, s))
  BY <1>12, <1>13 DEF HasWork, Surplus, NeedsJoin, Joins
<1>15. \A s \in z.todo : HasWork(z, s)
  BY <1>8, <1>13, <1>14
<1>16. z.project = {p}
  BY <1>3, <1>13 DEF SameTask
<1>17. /\ Shaped(y) /\ SameTask(z, y)
       /\ y.pc = "prune" \/ y.pc \in Placing
  BY <1>3, <1>13, <1>15, <1>16, TurnsAre
<1>18. ASSUME NEW u \in Services
       PROVE  IF u \in z.todo THEN container[p][u].on = z.seen[u] ELSE Done(z, container[p], u)
  <2>1. z.seen[u] = container[p][u].on
    BY <1>4, <1>13
  <2>2. CASE u \in z.todo
    BY <2>1, <2>2
  <2>3. CASE u \notin z.todo /\ container[p][u].here
    <3>1. ~HasWork(z, u)
      BY <1>8, <1>13, <1>14, <2>3
    <3> QED
      BY <2>1, <2>3, <3>1, NoWork DEF Done
  <2>4. CASE u \notin z.todo /\ ~container[p][u].here
    BY <2>4 DEF Done
  <2> QED
    BY <2>2, <2>3, <2>4
<1>19. Working(y, container[p])
  BY <1>3, <1>11, <1>13, <1>15, <1>16, <1>18, TurnWorks
<1>20. SameTask(v, y)
  BY <1>13, <1>17 DEF SameTask
<1>21. Working(y, container'[p]) /\ y.pc \in {"prune"} \cup Placing /\ v.pc \in {"list"} \cup Placing
  BY <1>9, <1>12, <1>17, <1>19
<1> QED
  BY <1>1, <1>3, <1>9, <1>11, <1>17, <1>20, <1>21, PlacingInv

LEMMA DisconnectInv ==
  ASSUME GroupInv, NEW i \in Syncs, Disconnect(i)
  PROVE  GroupInv'
<1> PICK v : v = sync[i]
  OBVIOUS
<1>1. Shaped(v) /\ container \in [Projects -> [Services -> ContainerRecord]] /\ networks \subseteq Groups
  BY DEF GroupInv, GroupTypeOK
<1>2. PICK n \in v.drop, p \in v.project, s \in v.service :
        LET x == [sync[i] EXCEPT !.drop = @ \ {n}] IN
        /\ x.pc = "disconnect"
        /\ container' = IF s \in x.gone THEN container
                         ELSE [container EXCEPT ![p][s].on = @ \ {n}]
        /\ \E y \in IF x.drop # {} \/ NeedsJoin(x, s) THEN {Placed(x, s)} ELSE Turns(x) : Answered(i, y)
        /\ UNCHANGED <<row, networks>>
  BY DEF Disconnect
<1>3. p \in Projects /\ v.project = {p} /\ s \in Services
  BY <1>1 DEF Shaped, Formed, SyncRecord
<1>4. PICK d \in SUBSET Groups : d = v.drop \ {n}
  BY <1>1 DEF Shaped, Formed, SyncRecord
<1>5. PICK x : x = [v EXCEPT !.drop = d]
  OBVIOUS
<1>6. x = [sync[i] EXCEPT !.drop = @ \ {n}]
  BY <1>4, <1>5
<1>7. /\ x.pc = "disconnect"
      /\ container' = IF s \in x.gone THEN container
                       ELSE [container EXCEPT ![p][s].on = @ \ {n}]
      /\ row' = row /\ networks' = networks
  BY <1>2, <1>6
<1>8. PICK y \in IF x.drop # {} \/ NeedsJoin(x, s) THEN {Placed(x, s)} ELSE Turns(x) : Answered(i, y)
  BY <1>2, <1>6
<1>9. /\ x \in SyncRecord /\ SameTask(v, x) /\ x.pc = v.pc /\ x.gone = v.gone /\ x.seen = v.seen
      /\ x.todo = v.todo /\ x.service = v.service /\ x.drop = d /\ x.names = v.names
  BY <1>1, <1>5 DEF Shaped, Formed, SyncRecord, SameTask
<1>10. \A u : (HasWork(x, u) <=> HasWork(v, u)) /\ Target(x, u) = Target(v, u)
  BY <1>9 DEF HasWork, Surplus, NeedsJoin, Joins, SameTask, Target
<1>11. /\ \A u \in x.todo : HasWork(x, u)
       /\ x.project = {p} /\ v.pc = "disconnect" /\ v.service = {s}
  BY <1>1, <1>3, <1>7, <1>9, <1>10 DEF Shaped, Formed, Placing, SameTask
<1>12. /\ container' \in [Projects -> [Services -> ContainerRecord]]
       /\ \A q \in Projects : q # p => container'[q] = container[q]
       /\ \A u \in Services : u # s => container'[p][u] = container[p][u]
       /\ container'[p][s].here = container[p][s].here
       /\ s \notin x.gone => container'[p][s].on = container[p][s].on \ {n}
  <2>1. CASE s \in x.gone
    BY <1>1, <1>3, <1>7, <2>1
  <2>2. CASE s \notin x.gone
    <3>1. PICK c \in ContainerRecord : c = [container[p][s] EXCEPT !.on = @ \ {n}]
      <4>1. container[p][s] \in ContainerRecord
        BY <1>1, <1>3
      <4> QED
        BY <4>1 DEF ContainerRecord
    <3>2. c.here = container[p][s].here /\ c.on = container[p][s].on \ {n}
      <4>1. container[p][s] \in ContainerRecord
        BY <1>1, <1>3
      <4> QED
        BY <3>1, <4>1 DEF ContainerRecord
    <3>3. PICK f \in [Services -> ContainerRecord] : f = [container[p] EXCEPT ![s] = c]
      BY <1>1, <1>3
    <3>4. container' = [container EXCEPT ![p] = f]
      BY <1>7, <2>2, <3>1, <3>3, Zenon
    <3>5. /\ container' \in [Projects -> [Services -> ContainerRecord]]
          /\ \A q \in Projects : q # p => container'[q] = container[q]
          /\ container'[p] = f
      BY <1>1, <1>3, <3>4
    <3>6. f[s] = c /\ \A u \in Services : u # s => f[u] = container[p][u]
      BY <1>1, <1>3, <3>3
    <3> QED
      BY <3>2, <3>5, <3>6
  <2> QED
    BY <2>1, <2>2
\* the container is off the network, and everything else is as it was
<1>13. ASSUME Working(v, container[p])
       PROVE  /\ x.gone = {}
              /\ container'[p][s].on = x.drop \cup (x.seen[s] \cap Target(x, s))
              /\ x.drop \cap Target(x, s) = {} /\ s \notin x.todo
              /\ \A u \in Services \ {s} : IF u \in x.todo THEN container'[p][u].on = x.seen[u]
                                           ELSE Done(x, container'[p], u)
  <2>1. v.pc \in Placing
    BY <1>11 DEF Placing
  <2>2. /\ v.gone = {} /\ s \notin v.todo
        /\ container[p][s].on = v.drop \cup (v.seen[s] \cap Target(v, s))
        /\ v.drop \cap Target(v, s) = {}
    BY <1>3, <1>11, <1>13, <2>1 DEF Working
  <2>3. ASSUME NEW u \in Services \ {s}
        PROVE  IF u \in v.todo THEN container[p][u].on = v.seen[u] ELSE Done(v, container[p], u)
    BY <1>11, <1>13, <2>1 DEF Working
  <2>4. ASSUME NEW u \in Services \ {s}
        PROVE  IF u \in x.todo THEN container'[p][u].on = x.seen[u] ELSE Done(x, container'[p], u)
    BY <1>9, <1>10, <1>12, <2>3 DEF Done
  <2>5. container'[p][s].on = container[p][s].on \ {n}
    BY <1>9, <1>12, <2>2
  <2>6. container'[p][s].on = x.drop \cup (x.seen[s] \cap Target(x, s)) /\ x.drop \cap Target(x, s) = {}
    BY <1>4, <1>9, <1>10, <2>2, <2>5
  <2> QED
    BY <1>9, <2>2, <2>4, <2>6
<1>14. CASE x.drop # {} \/ NeedsJoin(x, s)
  <2>1. y = Placed(x, s)
    BY <1>8, <1>14
  <2>2. /\ y \in SyncRecord /\ SameTask(x, y) /\ y.service = {s}
        /\ y.seen = x.seen /\ y.todo = x.todo /\ y.drop = x.drop /\ y.gone = x.gone
        /\ y.pc = IF x.drop # {} THEN "disconnect" ELSE "ensure"
    BY <1>3, <1>9, <2>1, PlacedIs
  <2>3. /\ \A u : (HasWork(y, u) <=> HasWork(x, u)) /\ (NeedsJoin(y, u) <=> NeedsJoin(x, u))
        /\ \A u : Target(y, u) = Target(x, u) /\ \A c : Done(y, c, u) <=> Done(x, c, u)
    BY <2>2 DEF HasWork, Surplus, NeedsJoin, Joins, SameTask, Target, Done
  <2>4. y.pc \in Placing /\ y.pc \notin Pruned /\ (y.pc # "disconnect" => y.drop = {})
    BY <2>2 DEF Placing, Pruned
  <2>5. y.project = {p}
    BY <1>11, <2>2 DEF SameTask
  <2>6. Shaped(y)
    BY <1>3, <1>11, <1>14, <2>2, <2>3, <2>4, <2>5 DEF Shaped, Formed, Placing
  <2>7. ASSUME Working(v, container[p]) PROVE Working(y, container'[p])
    <3>1. ASSUME NEW u \in Services
          PROVE  /\ u \in y.todo => u \notin y.service /\ container'[p][u].on = y.seen[u]
                 /\ u \in y.service => /\ container'[p][u].on = y.drop \cup (y.seen[u] \cap Target(y, u))
                                       /\ y.drop \cap Target(y, u) = {}
                 /\ u \notin y.todo \cup y.service => Done(y, container'[p], u)
      BY <1>13, <2>2, <2>3, <2>7
    <3> QED
      BY <1>13, <2>2, <2>4, <2>7, <3>1 DEF Working
  <2>8. SameTask(v, y) /\ v.pc \in Placing
    BY <1>9, <1>11, <2>2 DEF SameTask, Placing
  <2> QED
    BY <1>1, <1>3, <1>7, <1>8, <1>12, <2>4, <2>6, <2>7, <2>8, AnsweredInv
<1>15. CASE ~(x.drop # {} \/ NeedsJoin(x, s))
  <2>1. y \in Turns(x)
    BY <1>8, <1>15
  <2>2. /\ Shaped(y) /\ SameTask(x, y)
        /\ y.pc = "prune" \/ y.pc \in Placing
    BY <1>3, <1>9, <1>11, <2>1, TurnsAre
  <2>3. ASSUME Working(v, container[p]) PROVE Working(y, container'[p])
    <3>1. container'[p][s].on = Target(x, s)
      BY <1>13, <1>15, <2>3 DEF Target, NeedsJoin
    <3>2. ASSUME NEW u \in Services
          PROVE  IF u \in x.todo THEN container'[p][u].on = x.seen[u] ELSE Done(x, container'[p], u)
      <4>1. CASE u = s
        BY <1>13, <2>3, <3>1, <4>1 DEF Done
      <4>2. CASE u # s
        BY <1>13, <2>3, <4>2
      <4> QED
        BY <4>1, <4>2
    <3> QED
      BY <1>3, <1>9, <1>11, <1>13, <2>1, <2>3, <3>2, TurnWorks
  <2>4. SameTask(v, y) /\ v.pc \in Placing /\ y.pc \in {"prune"} \cup Placing
    BY <1>9, <1>11, <2>2 DEF SameTask, Placing
  <2> QED
    BY <1>1, <1>3, <1>7, <1>8, <1>12, <2>2, <2>3, <2>4, AnsweredInv
<1> QED
  BY <1>14, <1>15

LEMMA EnsureInv ==
  ASSUME GroupInv, NEW i \in Syncs, Ensure(i)
  PROVE  GroupInv'
<1> PICK v : v = sync[i]
  OBVIOUS
<1>1. Shaped(v) /\ container \in [Projects -> [Services -> ContainerRecord]] /\ networks \subseteq Groups
  BY DEF GroupInv, GroupTypeOK
<1>2. PICK y : y = [v EXCEPT !.pc = "connect"]
  OBVIOUS
<1>3. /\ v.pc = "ensure" /\ networks' = networks \cup {v.wanted} /\ Answered(i, y)
      /\ row' = row /\ container' = container
  BY <1>2 DEF Ensure
<1>4. PICK s \in Services : v.service = {s} /\ NeedsJoin(v, s) /\ v.drop = {}
  BY <1>1, <1>3 DEF Shaped, Formed, Placing
<1>5. v.wanted \in Groups
  BY <1>1, <1>4 DEF NeedsJoin, Joins, Shaped, Formed, SyncRecord
<1>6. /\ y \in SyncRecord /\ SameTask(v, y) /\ y.pc = "connect" /\ y.seen = v.seen /\ y.todo = v.todo
      /\ y.service = v.service /\ y.drop = v.drop /\ y.gone = v.gone
  BY <1>1, <1>2 DEF Shaped, Formed, SyncRecord, SameTask, Placing
<1>7. /\ \A u : (HasWork(y, u) <=> HasWork(v, u)) /\ (NeedsJoin(y, u) <=> NeedsJoin(v, u))
      /\ \A u : Target(y, u) = Target(v, u) /\ \A c : Done(y, c, u) <=> Done(v, c, u)
  BY <1>6 DEF HasWork, Surplus, NeedsJoin, Joins, SameTask, Target, Done
<1>8. Shaped(y)
  BY <1>1, <1>4, <1>6, <1>7 DEF Shaped, Formed, Placing, SameTask
<1>9. v.pc \in Placing /\ y.pc \in Placing /\ y.pc \notin Pruned
  BY <1>3, <1>6 DEF Placing, Pruned
<1>10. ASSUME NEW c, Working(v, c) PROVE Working(y, c)
  BY <1>6, <1>7, <1>9, <1>10 DEF Working
<1>11. CASE v.project = {}
  <2>1. CASE Abort(i)
    <3>1. networks' \subseteq Groups /\ container' \in [Projects -> [Services -> ContainerRecord]]
      BY <1>1, <1>3, <1>5
    <3> QED
      BY <1>3, <2>1, <3>1, AbortInv
  <2>2. CASE sync' = [sync EXCEPT ![i] = y] /\ upset' = upset
    <3>1. \A q \in Projects : ~Of(y, q)
      BY <1>6, <1>11 DEF Of, SameTask
    <3>2. OthersSame(v) /\ KeepsAlone(v, y) /\ LeavesFollowing(v, y) /\ StillWatched(v, y)
      BY <1>3, <1>9, <1>11, <2>2, <3>1 DEF OthersSame, KeepsAlone, LeavesFollowing, StillWatched, Watches
    <3>3. networks' \subseteq Groups /\ container' \in [Projects -> [Services -> ContainerRecord]] /\ v.pc # "idle"
      BY <1>1, <1>3, <1>5
    <3> QED
      BY <1>3, <1>8, <2>2, <3>2, <3>3, StepInv
  <2> QED
    BY <1>3, <2>1, <2>2 DEF Answered
<1>12. ASSUME NEW p \in Projects, v.project = {p} PROVE GroupInv'
  <2>1. /\ networks' \subseteq Groups /\ container' \in [Projects -> [Services -> ContainerRecord]]
        /\ \A q \in Projects : q # p => container'[q] = container[q]
        /\ Working(v, container[p]) => Working(y, container'[p])
    BY <1>1, <1>3, <1>5, <1>10
  <2>2. y.pc \in {"prune"} \cup Placing
    BY <1>9
  <2> QED
    BY <1>3, <1>6, <1>8, <1>9, <1>12, <2>1, <2>2, AnsweredInv
<1> QED
  BY <1>1, <1>11, <1>12 DEF Shaped, Formed

LEMMA ConnectInv ==
  ASSUME GroupInv, NEW i \in Syncs, Connect(i)
  PROVE  GroupInv'
<1> PICK v : v = sync[i]
  OBVIOUS
<1>1. Shaped(v) /\ container \in [Projects -> [Services -> ContainerRecord]] /\ networks \subseteq Groups
  BY DEF GroupInv, GroupTypeOK
<1>2. PICK p \in v.project, s \in v.service :
        /\ v.pc = "connect"
        /\ IF v.wanted \in networks /\ s \notin v.gone
           THEN /\ container' = [container EXCEPT ![p][s].on = @ \cup {v.wanted}]
                /\ \E y \in Turns(v) : Answered(i, y)
           ELSE Calm /\ Abort(i) /\ UNCHANGED container
        /\ UNCHANGED <<row, networks>>
  BY DEF Connect
<1>3. p \in Projects /\ v.project = {p} /\ s \in Services
  BY <1>1 DEF Shaped, Formed, SyncRecord
<1>4. v.service = {s} /\ NeedsJoin(v, s) /\ v.drop = {}
  BY <1>1, <1>2 DEF Shaped, Formed, Placing
<1>5. CASE v.wanted \in networks /\ s \notin v.gone
  <2>1. /\ container' = [container EXCEPT ![p][s].on = @ \cup {v.wanted}] /\ row' = row /\ networks' = networks
    BY <1>2, <1>5
  <2>2. PICK y \in Turns(v) : Answered(i, y)
    BY <1>2, <1>5
  <2>3. /\ container' \in [Projects -> [Services -> ContainerRecord]]
        /\ \A q \in Projects : q # p => container'[q] = container[q]
        /\ \A u \in Services : u # s => container'[p][u] = container[p][u]
        /\ container'[p][s].on = container[p][s].on \cup {v.wanted}
    <3>1. container[p][s] \in ContainerRecord /\ v.wanted \in Groups
      BY <1>1, <1>3, <1>5
    <3>2. PICK c \in ContainerRecord : c = [container[p][s] EXCEPT !.on = @ \cup {v.wanted}]
      BY <3>1 DEF ContainerRecord
    <3>3. c.on = container[p][s].on \cup {v.wanted}
      BY <3>1, <3>2 DEF ContainerRecord
    <3>4. PICK f \in [Services -> ContainerRecord] : f = [container[p] EXCEPT ![s] = c]
      BY <1>1, <1>3
    <3>5. container' = [container EXCEPT ![p] = f]
      BY <2>1, <3>2, <3>4, Zenon
    <3>6. /\ container' \in [Projects -> [Services -> ContainerRecord]]
          /\ \A q \in Projects : q # p => container'[q] = container[q]
          /\ container'[p] = f
      BY <1>1, <1>3, <3>5
    <3>7. f[s] = c /\ \A u \in Services : u # s => f[u] = container[p][u]
      BY <1>1, <1>3, <3>4
    <3> QED
      BY <3>3, <3>6, <3>7
  <2>4. v \in SyncRecord /\ \A u \in v.todo : HasWork(v, u)
    BY <1>1 DEF Shaped, Formed
  <2>5. /\ Shaped(y) /\ SameTask(v, y)
        /\ y.pc = "prune" \/ y.pc \in Placing
    BY <1>3, <2>2, <2>4, TurnsAre
  <2>6. ASSUME Working(v, container[p]) PROVE Working(y, container'[p])
    <3>1. v.pc \in Placing
      BY <1>2 DEF Placing
    <3>2. /\ v.gone = {} /\ s \notin v.todo
          /\ container[p][s].on = v.drop \cup (v.seen[s] \cap Target(v, s))
      BY <1>3, <1>4, <2>6, <3>1 DEF Working
    <3>3. container'[p][s].on = Target(v, s)
      BY <1>4, <2>3, <3>2 DEF Target, NeedsJoin
    <3>4. ASSUME NEW u \in Services
          PROVE  IF u \in v.todo THEN container'[p][u].on = v.seen[u] ELSE Done(v, container'[p], u)
      <4>1. CASE u = s
        BY <3>2, <3>3, <4>1 DEF Done
      <4>2. CASE u # s
        <5>1. container'[p][u] = container[p][u]
          BY <2>3, <4>2
        <5>2. IF u \in v.todo THEN container[p][u].on = v.seen[u] ELSE Done(v, container[p], u)
          BY <1>4, <2>6, <3>1, <4>2 DEF Working
        <5> QED
          BY <5>1, <5>2 DEF Done
      <4> QED
        BY <4>1, <4>2
    <3> QED
      BY <1>3, <2>2, <2>4, <3>2, <3>4, TurnWorks
  <2>7. v.pc \in Placing /\ y.pc \in {"prune"} \cup Placing /\ networks' \subseteq Groups
    BY <1>1, <1>2, <2>1, <2>5 DEF Placing
  <2> QED
    BY <1>3, <2>1, <2>2, <2>3, <2>5, <2>6, <2>7, AnsweredInv
<1>6. CASE ~(v.wanted \in networks /\ s \notin v.gone)
  <2>1. Abort(i) /\ container' = container /\ row' = row /\ networks' = networks /\ v.pc # "idle"
    BY <1>2, <1>6
  <2>2. container' \in [Projects -> [Services -> ContainerRecord]] /\ networks' \subseteq Groups
    BY <1>1, <2>1
  <2> QED
    BY <2>1, <2>2, AbortInv
<1> QED
  BY <1>5, <1>6

-----------------------------------------------------------------------------
(* The prune, the boot and the end of a delete *)

LEMMA PruneListInv ==
  ASSUME GroupInv, NEW i \in Syncs, PruneList(i)
  PROVE  GroupInv'
<1> PICK x : x = sync[i]
  OBVIOUS
<1>1. Shaped(x) /\ networks \subseteq Groups
  BY DEF GroupInv, GroupTypeOK
<1>2. PICK z : z = [x EXCEPT !.names = networks]
  OBVIOUS
<1>3. /\ x.pc = "prune" /\ Pruning(i, z) /\ row' = row /\ container' = container
      /\ networks' = networks /\ loose' = loose
  BY <1>2 DEF PruneList, Listed
<1>4. /\ z \in SyncRecord /\ SameTask(x, z) /\ z.gone = x.gone /\ z.todo = x.todo /\ z.pc = x.pc
      /\ z.names = networks /\ z.seen = x.seen
  BY <1>1, <1>2 DEF Shaped, Formed, SyncRecord, SameTask
<1>5. \A s : HasWork(z, s) <=> HasWork(x, s)
  BY <1>4 DEF HasWork, Surplus, NeedsJoin, Joins, SameTask
<1>6. Shaped(z)
  BY <1>1, <1>3, <1>4, <1>5 DEF Shaped, Formed, SameTask, Placing
<1>7. PrunesOn(x, z) /\ networks' \subseteq Groups
  BY <1>1, <1>3, <1>4 DEF PrunesOn
<1> QED
  BY <1>3, <1>4, <1>6, <1>7, PruningInv DEF Shaped

LEMMA InspectInv ==
  ASSUME GroupInv, NEW i \in Syncs, Inspect(i)
  PROVE  GroupInv'
<1> PICK v : v = sync[i]
  OBVIOUS
<1>1. Shaped(v) /\ container \in [Projects -> [Services -> ContainerRecord]] /\ networks \subseteq Groups
  BY DEF GroupInv, GroupTypeOK
<1>2. PICK n \in v.names :
        LET x == [sync[i] EXCEPT !.names = @ \ {n}] IN
        /\ x.pc = "inspect" /\ Calm
        /\ IF n \notin networks \/ Member(n) THEN Pruning(i, x)
           ELSE sync' = [sync EXCEPT ![i] = [x EXCEPT !.pc = "rm", !.drop = {n}]] /\ UNCHANGED upset
        /\ loose' = IF Member(n) THEN loose \ {n} ELSE loose
        /\ UNCHANGED <<row, container, networks>>
  BY DEF Inspect
<1>3. n \in Groups
  BY <1>1 DEF Shaped, Formed, SyncRecord
<1>4. PICK m \in SUBSET Groups : m = v.names \ {n}
  BY <1>1 DEF Shaped, Formed, SyncRecord
<1>5. PICK x : x = [v EXCEPT !.names = m]
  OBVIOUS
<1>6. x = [sync[i] EXCEPT !.names = @ \ {n}]
  BY <1>4, <1>5
<1>7. /\ x.pc = "inspect"
      /\ IF n \notin networks \/ Member(n) THEN Pruning(i, x)
         ELSE sync' = [sync EXCEPT ![i] = [x EXCEPT !.pc = "rm", !.drop = {n}]] /\ upset' = upset
      /\ loose' = IF Member(n) THEN loose \ {n} ELSE loose
      /\ row' = row /\ container' = container /\ networks' = networks
  BY <1>2, <1>6
<1>8. /\ x \in SyncRecord /\ SameTask(v, x) /\ x.gone = v.gone /\ x.todo = v.todo /\ x.pc = v.pc
      /\ x.names = m /\ x.seen = v.seen
  BY <1>1, <1>5 DEF Shaped, Formed, SyncRecord, SameTask
<1>9. \A s : HasWork(x, s) <=> HasWork(v, s)
  BY <1>8 DEF HasWork, Surplus, NeedsJoin, Joins, SameTask
<1>10. Shaped(x) /\ v.pc = "inspect"
  BY <1>1, <1>7, <1>8, <1>9 DEF Shaped, Formed, SameTask, Placing
<1>11. Member(n)' <=> Member(n)
  BY <1>7 DEF Member
<1>12. \A k \in networks : Member(k)' <=> Member(k)
  BY <1>7 DEF Member
<1>13. \A k \in networks' \ loose' : k = n \/ k \in networks \ loose
  BY <1>7
<1>14. \A k : Watches(v, k) => (v.kind = "boot" /\ v.project # {}) \/ k \in v.names
  BY <1>10 DEF Watches, Placing
<1>15. CASE n \notin networks \/ Member(n)
  <2>1. Pruning(i, x)
    BY <1>7, <1>15
  <2>2. PrunesOn(v, x)
    <3> SUFFICES ASSUME ~(x.kind = "boot" /\ x.project # {}), NEW k \in networks' \ loose'
                 PROVE  k \in x.names \/ Member(k)' \/ (k \in networks \ loose /\ ~Member(k) /\ ~Watches(v, k))
      BY DEF PrunesOn
    <3>1. CASE k = n
      BY <1>7, <1>11, <1>15, <3>1
    <3>2. CASE k # n
      <4>1. k \in networks \ loose
        BY <1>13, <3>2
      <4>2. Watches(v, k) => k \in x.names
        BY <1>4, <1>8, <1>14, <3>2 DEF SameTask
      <4> QED
        BY <1>12, <4>1, <4>2
    <3> QED
      BY <3>1, <3>2
  <2> QED
    BY <1>1, <1>7, <1>8, <1>10, <2>1, <2>2, PruningInv DEF Shaped
<1>16. CASE ~(n \notin networks \/ Member(n))
  <2>1. PICK d \in SUBSET Groups : d = {n}
    BY <1>3
  <2>2. PICK y : y = [x EXCEPT !.pc = "rm", !.drop = d]
    OBVIOUS
  <2>3. sync' = [sync EXCEPT ![i] = y] /\ upset' = upset /\ loose' = loose
    BY <1>7, <1>16, <2>1, <2>2
  <2>4. /\ y \in SyncRecord /\ SameTask(x, y) /\ y.gone = x.gone /\ y.todo = x.todo /\ y.pc = "rm"
        /\ y.names = m /\ y.seen = x.seen /\ y.drop = {n}
    BY <1>8, <2>1, <2>2 DEF SyncRecord, SameTask, Pruned
  <2>5. \A s : HasWork(y, s) <=> HasWork(x, s)
    BY <2>4 DEF HasWork, Surplus, NeedsJoin, Joins, SameTask
  <2>6. Shaped(y)
    BY <1>3, <1>10, <2>4, <2>5 DEF Shaped, Formed, SameTask, Placing
  <2>7. SameTask(v, y) /\ v.pc # "idle" /\ v.pc \in Pruned /\ y.pc \in Pruned /\ y.pc \notin Placing
    BY <1>8, <1>10, <2>4 DEF SameTask, Pruned, Placing
  <2>8. OthersSame(v) /\ LeavesFollowing(v, y)
    BY <1>7, <2>3, <2>4, <2>7 DEF OthersSame, LeavesFollowing, Of, SameTask
  <2>9. KeepsAlone(v, y)
    <3> SUFFICES ASSUME NEW q \in Projects, Of(y, q)
                 PROVE  Of(v, q) /\ (y.alone => v.alone /\ Fits(y, row[q]) /\ Working(y, container'[q]))
      BY DEF KeepsAlone
    <3>1. Of(v, q)
      BY <2>7 DEF Of, SameTask
    <3>2. ASSUME y.alone PROVE v.alone /\ Fits(y, row[q]) /\ Working(y, container'[q])
      <4>1. v.alone
        BY <2>7, <3>2 DEF SameTask
      <4>2. Fits(v, row[q]) /\ Working(v, container[q])
        BY <3>1, <4>1 DEF GroupInv, AloneOK
      <4>3. Fits(y, row[q]) /\ \A c, s : Done(y, c, s) <=> Done(v, c, s)
        BY <2>7, <4>2, SameTarget
      <4> QED
        BY <1>7, <1>8, <2>4, <2>7, <4>1, <4>2, <4>3 DEF Working
    <3> QED
      BY <3>1, <3>2
  <2>10. StillWatched(v, y)
    <3> SUFFICES ASSUME NEW k \in networks' \ loose'
                 PROVE  Watches(y, k) \/ Member(k)' \/ (k \in networks \ loose /\ ~Member(k) /\ ~Watches(v, k))
      BY DEF StillWatched
    <3>1. k \in networks \ loose
      BY <1>7, <2>3
    <3>2. Watches(v, k) => Watches(y, k)
      BY <1>4, <1>14, <2>4, <2>7 DEF Watches, SameTask
    <3> QED
      BY <1>12, <3>1, <3>2
  <2> QED
    BY <1>1, <1>7, <2>3, <2>6, <2>7, <2>8, <2>9, <2>10, StepInv
<1> QED
  BY <1>15, <1>16

LEMMA RemoveNetworkInv ==
  ASSUME GroupInv, NEW i \in Syncs, RemoveNetwork(i)
  PROVE  GroupInv'
<1> PICK x : x = sync[i]
  OBVIOUS
<1>1. Shaped(x) /\ container \in [Projects -> [Services -> ContainerRecord]] /\ networks \subseteq Groups
  BY DEF GroupInv, GroupTypeOK
<1>2. PICK e \in SUBSET Groups : e = {}
  OBVIOUS
<1>3. PICK z : z = [x EXCEPT !.drop = e]
  OBVIOUS
<1>4. PICK n \in x.drop :
        /\ x.pc = "rm"
        /\ IF Member(n) THEN Calm /\ Abort(i) /\ UNCHANGED networks
           ELSE /\ networks' = networks \ {n}
                /\ \/ Calm /\ Pruning(i, z) /\ UNCHANGED loose
                   \/ Outage /\ Abort(i)
        /\ row' = row /\ container' = container
  BY <1>2, <1>3 DEF RemoveNetwork
<1>5. /\ networks' \subseteq Groups /\ container' \in [Projects -> [Services -> ContainerRecord]]
      /\ x.pc # "idle" /\ x.drop = {n}
  BY <1>1, <1>4 DEF Shaped, Formed
<1>6. CASE Abort(i)
  BY <1>4, <1>5, <1>6, AbortInv
<1>7. CASE networks' = networks \ {n} /\ Pruning(i, z) /\ loose' = loose
  <2>1. /\ z \in SyncRecord /\ SameTask(x, z) /\ z.gone = x.gone /\ z.todo = x.todo /\ z.pc = x.pc
        /\ z.names = x.names /\ z.seen = x.seen
    BY <1>1, <1>3 DEF Shaped, Formed, SyncRecord, SameTask
  <2>2. \A s : HasWork(z, s) <=> HasWork(x, s)
    BY <2>1 DEF HasWork, Surplus, NeedsJoin, Joins, SameTask
  <2>3. Formed(z)
    BY <1>1, <1>4, <2>1, <2>2 DEF Formed, Shaped, SameTask, Placing
  <2>4. PrunesOn(x, z)
    <3> SUFFICES ASSUME ~(z.kind = "boot" /\ z.project # {}), NEW k \in networks' \ loose'
                 PROVE  k \in z.names \/ Member(k)' \/ (k \in networks \ loose /\ ~Member(k) /\ ~Watches(x, k))
      BY DEF PrunesOn
    <3>1. k \in networks \ loose /\ k # n
      BY <1>7
    <3>2. Watches(x, k) => k \in z.names
      BY <1>4, <1>5, <2>1, <3>1 DEF Watches, Placing, SameTask
    <3>3. Member(k)' <=> Member(k)
      BY <1>4 DEF Member
    <3> QED
      BY <3>1, <3>2, <3>3
  <2> QED
    BY <1>4, <1>5, <1>7, <2>1, <2>3, <2>4, PruningInv
<1> QED
  BY <1>4, <1>6, <1>7

LEMMA CommandFailsInv ==
  ASSUME GroupInv, NEW i \in Syncs, CommandFails(i)
  PROVE  GroupInv'
<1>1. /\ container' = container /\ networks' = networks /\ row' = row
      /\ sync[i].pc # "idle" /\ Abort(i)
  BY DEF CommandFails
<1>2. container' \in [Projects -> [Services -> ContainerRecord]] /\ networks' \subseteq Groups
  BY <1>1 DEF GroupInv, GroupTypeOK
<1> QED
  BY <1>1, <1>2, AbortInv

LEMMA BootNextInv ==
  ASSUME GroupInv, NEW i \in Syncs, BootNext(i)
  PROVE  GroupInv'
<1> PICK x : x = sync[i]
  OBVIOUS
<1>1. /\ GroupTypeOK /\ AloneOK /\ GroupsFollowRows /\ Shaped(x)
      /\ container \in [Projects -> [Services -> ContainerRecord]] /\ networks \subseteq Groups
  BY DEF GroupInv, GroupTypeOK
<1>2. /\ x.pc = "boot" /\ row' = row /\ container' = container
      /\ networks' = networks /\ upset' = upset /\ loose' = loose
  BY DEF BootNext
<1>3. x.kind = "boot" /\ x.project = {} /\ \A q \in Projects : ~Of(x, q)
  BY <1>1, <1>2 DEF Shaped, Formed, Of
<1>4. ASSUME NEW y, Shaped(y), sync' = [sync EXCEPT ![i] = y], y.pc \in {"boot", "prune"}, y.project = {}
      PROVE  GroupInv'
  <2>1. OthersSame(x) /\ KeepsAlone(x, y) /\ LeavesFollowing(x, y) /\ StillWatched(x, y)
    BY <1>2, <1>3, <1>4 DEF OthersSame, KeepsAlone, LeavesFollowing, StillWatched, Of, Watches
  <2>2. x.pc # "idle" /\ networks' \subseteq Groups /\ container' \in [Projects -> [Services -> ContainerRecord]]
    BY <1>1, <1>2
  <2> QED
    BY <1>2, <1>4, <2>1, <2>2, StepInv
<1>5. ASSUME NEW pc \in {"boot", "prune"}, NEW b \in SUBSET Projects,
             sync' = [sync EXCEPT ![i] = [x EXCEPT !.pc = pc, !.boot = b]]
      PROVE  GroupInv'
  <2>1. PICK y : y = [x EXCEPT !.pc = pc, !.boot = b]
    OBVIOUS
  <2>2. /\ y \in SyncRecord /\ SameTask(x, y) /\ y.pc = pc /\ y.todo = x.todo /\ y.seen = x.seen
    BY <1>1, <2>1 DEF Shaped, Formed, SyncRecord, SameTask, Pruned
  <2>3. \A s : HasWork(y, s) <=> HasWork(x, s)
    BY <2>2 DEF HasWork, Surplus, NeedsJoin, Joins, SameTask
  <2>4. Shaped(y)
    BY <1>1, <1>3, <2>2, <2>3 DEF Shaped, Formed, SameTask, Placing
  <2>5. y.project = {}
    BY <1>3, <2>2 DEF SameTask
  <2> QED
    BY <1>4, <1>5, <2>1, <2>2, <2>4, <2>5
<1>6. CASE sync' = [sync EXCEPT ![i].pc = "prune"]
  <2>1. PICK b \in SUBSET Projects : b = x.boot
    BY <1>1 DEF Shaped, Formed, SyncRecord
  <2>2. [x EXCEPT !.pc = "prune"] = [x EXCEPT !.pc = "prune", !.boot = b]
    BY <1>1, <2>1 DEF Shaped, Formed, SyncRecord
  <2>3. sync' = [sync EXCEPT ![i] = [x EXCEPT !.pc = "prune", !.boot = b]]
    BY <1>6, <2>2, Zenon
  <2>4. PICK pc \in {"boot", "prune"} : pc = "prune"
    OBVIOUS
  <2> QED
    BY <1>5, <2>3, <2>4
<1>7. ASSUME NEW p \in x.boot, sync' = [sync EXCEPT ![i].boot = @ \ {p}] PROVE GroupInv'
  <2>1. PICK b \in SUBSET Projects : b = x.boot \ {p}
    BY <1>1 DEF Shaped, Formed, SyncRecord
  <2>2. [x EXCEPT !.boot = b] = [x EXCEPT !.pc = "boot", !.boot = b]
    BY <1>1, <1>2 DEF Shaped, Formed, SyncRecord
  <2>3. sync' = [sync EXCEPT ![i] = [x EXCEPT !.pc = "boot", !.boot = b]]
    BY <1>7, <2>1, <2>2, Zenon
  <2>4. PICK pc \in {"boot", "prune"} : pc = "boot"
    OBVIOUS
  <2> QED
    BY <1>5, <2>3, <2>4
<1>8. ASSUME NEW p \in x.boot,
             sync' = [Touched(p, {}) EXCEPT ![i] = [NewSync("boot", p, row[p]) EXCEPT !.boot = x.boot \ {p}]]
      PROVE  GroupInv'
  <2>1. PICK b \in SUBSET Projects : b = x.boot \ {p}
    BY <1>1 DEF Shaped, Formed, SyncRecord
  <2>2. p \in Projects /\ row[p] \in GroupRow
    BY <1>1 DEF Shaped, Formed, SyncRecord, GroupTypeOK
  <2>3. PICK k \in {"assign", "up", "delete", "boot"} : k = "boot"
    OBVIOUS
  <2>4. PICK z : z = NewSync(k, p, row[p])
    OBVIOUS
  <2>5. /\ Shaped(z) /\ z.pc = "list" /\ z.kind = "boot" /\ z.project = {p} /\ z.wanted = Wanted(row[p])
        /\ z.joining = row[p].services /\ z.todo = {} /\ z.gone = {}
        /\ z.alone => \A j \in Syncs : ~Of(sync[j], p)
    BY <2>2, <2>3, <2>4, NewSyncIs
  <2>6. PICK y : y = [z EXCEPT !.boot = b]
    OBVIOUS
  <2>7. /\ y \in SyncRecord /\ y.pc = "list" /\ y.kind = "boot" /\ y.project = {p} /\ y.wanted = Wanted(row[p])
        /\ y.joining = row[p].services /\ y.todo = {} /\ y.gone = {} /\ y.alone = z.alone
    BY <2>5, <2>6 DEF Shaped, Formed, SyncRecord
  <2>8. Shaped(y)
    BY <2>2, <2>7 DEF Shaped, Formed, Placing
  <2>9. Fits(y, row'[p])
    BY <1>2, <2>7 DEF Fits
  <2>10. PICK e \in SUBSET Services : e = {}
    OBVIOUS
  <2>11. sync' = [Touched(p, e) EXCEPT ![i] = y]
    BY <1>8, <2>1, <2>3, <2>4, <2>6, <2>10
  <2>12. \A q \in Projects : q # p => row'[q] = row[q] /\ container'[q] = container[q]
    BY <1>2
  <2>13. y.alone => \A j \in Syncs : ~Of(sync[j], p)
    BY <2>5, <2>7
  <2>14. /\ sync' \in [Syncs -> SyncRecord] /\ \A j \in Syncs : Shaped(sync'[j])
         /\ AloneOK' /\ GroupsFollowRows'
    BY <1>1, <1>2, <1>3, <2>2, <2>7, <2>8, <2>9, <2>11, <2>12, <2>13, StartStep
  <2>15. GroupTypeOK'
    BY <1>1, <1>2, <2>14 DEF GroupTypeOK
  <2>16. Watched'
    <3>1. sync'[i] = y
      BY <2>11, <2>14 DEF Touched
    <3>2. \A n : Watches(sync'[i], n)
      BY <2>7, <3>1 DEF Watches
    <3> QED
      BY <3>2 DEF Watched
  <2> QED
    BY <2>14, <2>15, <2>16 DEF GroupInv
<1>9. \/ sync' = [sync EXCEPT ![i].pc = "prune"]
      \/ \E p \in x.boot :
           \/ sync' = [Touched(p, {}) EXCEPT ![i] = [NewSync("boot", p, row[p]) EXCEPT !.boot = x.boot \ {p}]]
           \/ sync' = [sync EXCEPT ![i].boot = @ \ {p}]
  BY DEF BootNext
<1> QED
  BY <1>6, <1>7, <1>8, <1>9

LEMMA FinishDeleteInv ==
  ASSUME GroupInv, NEW i \in Syncs, FinishDelete(i)
  PROVE  GroupInv'
<1> PICK x : x = sync[i]
  OBVIOUS
<1>1. /\ GroupTypeOK /\ AloneOK /\ GroupsFollowRows /\ Watched /\ Shaped(x)
      /\ container \in [Projects -> [Services -> ContainerRecord]] /\ networks \subseteq Groups
  BY DEF GroupInv, GroupTypeOK
<1>2. PICK p \in x.project :
        /\ x.pc = "remove" /\ sync' = [sync EXCEPT ![i] = NoSync]
        /\ \/ row' = [row EXCEPT ![p] = RowGone] /\ upset' = IF x.alone THEN upset ELSE upset \cup {p}
           \/ row' = row /\ upset' = upset \cup {p}
        /\ container' = container /\ networks' = networks /\ loose' = loose
  BY DEF FinishDelete
<1>3. p \in Projects /\ x.project = {p} /\ Of(x, p) /\ x.kind = "delete"
  BY <1>1, <1>2 DEF Shaped, Formed, SyncRecord, Of
<1>4. RowGone \in GroupRow /\ RowGone.services = {}
  <2>1. PICK e \in SUBSET Services : e = {}
    OBVIOUS
  <2>2. RowGone = [group |-> NoGroup, services |-> e, here |-> FALSE]
    BY <2>1 DEF RowGone
  <2> QED
    BY <2>1, <2>2 DEF GroupRow
<1>5. /\ row' \in [Projects -> GroupRow] /\ \A q \in Projects : q # p => row'[q] = row[q]
      /\ row'[p] \in {row[p], RowGone}
  BY <1>1, <1>2, <1>3, <1>4 DEF GroupTypeOK
<1>6. \A q \in Projects : row'[q].group = NoGroup => row'[q].services = {}
  BY <1>1, <1>4, <1>5 DEF GroupTypeOK
<1>7. /\ sync' = [j \in Syncs |-> sync'[j]] /\ sync'[i] = NoSync
      /\ \A j \in Syncs : j # i => sync'[j] = sync[j]
  BY <1>1, <1>2 DEF GroupTypeOK
<1>8. sync' \in [Syncs -> SyncRecord] /\ \A j \in Syncs : Shaped(sync'[j])
  <2>1. ASSUME NEW j \in Syncs PROVE Shaped(sync'[j])
    <3>1. CASE j = i
      BY <1>7, <3>1, NoSyncShaped
    <3>2. CASE j # i
      <4>1. sync'[j] = sync[j] /\ Shaped(sync[j])
        BY <1>1, <1>7, <3>2 DEF GroupTypeOK
      <4> QED
        BY <4>1
    <3> QED
      BY <3>1, <3>2
  <2>2. \A j \in Syncs : sync'[j] \in SyncRecord
    BY <2>1 DEF Shaped, Formed
  <2> QED
    BY <1>7, <2>1, <2>2
<1>9. \A q \in Projects : ~Of(NoSync, q)
  BY NoSyncShaped DEF Of
<1>10. GroupTypeOK'
  BY <1>1, <1>2, <1>5, <1>6, <1>8 DEF GroupTypeOK
<1>11. ASSUME NEW j \in Syncs, NEW q \in Projects, Of(sync'[j], q), sync'[j].alone
       PROVE  /\ \A k \in Syncs : Of(sync'[k], q) => k = j
              /\ Fits(sync'[j], row'[q]) /\ Working(sync'[j], container'[q])
  <2>1. j # i /\ sync'[j] = sync[j]
    BY <1>7, <1>9, <1>11
  <2>2. Lone(j, q) /\ Fits(sync[j], row[q]) /\ Working(sync[j], container[q])
    BY <1>1, <1>11, <2>1 DEF AloneOK
  <2>3. q # p
    BY <1>3, <2>1, <2>2 DEF Lone
  <2>4. \A k \in Syncs : Of(sync'[k], q) => k = j
    BY <1>7, <1>9, <2>2 DEF Lone
  <2> QED
    BY <1>2, <1>5, <2>1, <2>2, <2>3, <2>4
<1>12. AloneOK'
  BY <1>11 DEF AloneOK, Lone
<1>13. ASSUME NEW q \in Projects, NEW s \in Services,
              q \notin upset', container'[q][s].here, \A j \in Syncs : ~Of(sync'[j], q)
       PROVE  container'[q][s].on = IF s \in row'[q].services THEN {row'[q].group} ELSE {}
  <2>1. CASE q = p
    <3>1. row'[p] = RowGone /\ x.alone
      <4>1. CASE row' = [row EXCEPT ![p] = RowGone] /\ upset' = IF x.alone THEN upset ELSE upset \cup {p}
        BY <1>1, <1>3, <1>13, <2>1, <4>1 DEF GroupTypeOK
      <4>2. CASE row' = row /\ upset' = upset \cup {p}
        BY <1>13, <2>1, <4>2
      <4> QED
        BY <1>2, <4>1, <4>2
    <3>2. Fits(x, row[p]) /\ Working(x, container[p])
      BY <1>1, <1>3, <3>1 DEF AloneOK
    <3>3. Done(x, container[p], s) /\ Target(x, s) = {}
      BY <1>2, <1>3, <3>2 DEF Working, Pruned, Fits, Target, Joins
    <3> QED
      BY <1>2, <1>4, <1>13, <2>1, <3>1, <3>3 DEF Done
  <2>2. CASE q # p
    <3>1. q \notin upset
      BY <1>2, <1>13
    <3>2. \A j \in Syncs : ~Of(sync[j], q)
      <4>1. ~Of(x, q)
        BY <1>3, <2>2 DEF Of
      <4> QED
        BY <1>7, <1>13, <4>1
    <3> QED
      BY <1>1, <1>2, <1>5, <1>13, <2>2, <3>1, <3>2 DEF GroupsFollowRows
  <2> QED
    BY <2>1, <2>2
<1>14. GroupsFollowRows'
  BY <1>13 DEF GroupsFollowRows
<1>15. StillWatched(x, NoSync)
  <2> SUFFICES ASSUME NEW n \in networks' \ loose', ~Member(n)'
               PROVE  n \in networks \ loose /\ ~Member(n) /\ ~Watches(x, n)
    BY DEF StillWatched
  <2>1. ~Watches(x, n)
    BY <1>2, <1>3 DEF Watches, Placing
  <2> QED
    BY <1>2, <2>1 DEF Member
<1>16. Watched'
  BY <1>1, <1>2, <1>15, WatchStep
<1> QED
  BY <1>10, <1>12, <1>14, <1>16 DEF GroupInv

LEMMA DieInv ==
  ASSUME GroupInv, NEW i \in Syncs, Die(i)
  PROVE  GroupInv'
<1>1. /\ GroupTypeOK /\ AloneOK /\ GroupsFollowRows /\ Watched /\ networks \subseteq Groups
  BY DEF GroupInv, GroupTypeOK
<1>2. PICK b \in SUBSET Projects : b = {p \in Projects : row[p].group # NoGroup}
  OBVIOUS
<1>3. PICK y : y = [NoSync EXCEPT !.pc = "boot", !.kind = "boot", !.boot = b]
  OBVIOUS
<1>4. /\ sync' = [j \in Syncs |-> IF j # i THEN NoSync ELSE y]
      /\ upset' = upset \cup UNION {sync[j].project : j \in Syncs}
      /\ row' = row /\ container' = container /\ networks' = networks
  BY <1>2, <1>3 DEF Die
<1>5. /\ y \in SyncRecord /\ y.pc = "boot" /\ y.kind = "boot" /\ y.project = {} /\ y.todo = {}
  <2>1. NoSync \in SyncRecord /\ NoSync.project = {} /\ NoSync.todo = {}
    BY NoSyncShaped DEF Shaped, Formed, NoSync
  <2> QED
    BY <1>3, <2>1 DEF SyncRecord
<1>6. Shaped(y)
  BY <1>5 DEF Shaped, Formed, Placing
<1>7. sync' \in [Syncs -> SyncRecord] /\ \A j \in Syncs : Shaped(sync'[j])
  BY <1>4, <1>6, NoSyncShaped DEF Shaped, Formed
<1>8. \A j \in Syncs, p \in Projects : ~Of(sync'[j], p)
  BY <1>4, <1>5, NoSyncShaped DEF Of
<1>9. GroupTypeOK'
  BY <1>1, <1>4, <1>7 DEF GroupTypeOK
<1>10. AloneOK'
  BY <1>8 DEF AloneOK
<1>11. ASSUME NEW p \in Projects, NEW s \in Services, p \notin upset', container'[p][s].here
       PROVE  container'[p][s].on = IF s \in row'[p].services THEN {row'[p].group} ELSE {}
  <2>1. p \notin upset /\ \A j \in Syncs : ~Of(sync[j], p)
    BY <1>4, <1>11 DEF Of
  <2> QED
    BY <1>1, <1>4, <1>11, <2>1 DEF GroupsFollowRows
<1>12. GroupsFollowRows'
  BY <1>11 DEF GroupsFollowRows
<1>13. Watched'
  <2>1. \A n : Watches(sync'[i], n)
    BY <1>4, <1>5 DEF Watches
  <2> QED
    BY <2>1 DEF Watched
<1> QED
  BY <1>9, <1>10, <1>12, <1>13 DEF GroupInv

LEMMA GroupInitInv == GroupInit => GroupInv
<1> SUFFICES ASSUME GroupInit PROVE GroupInv
  OBVIOUS
<1>1. row \in [Projects -> Membership] /\ upset = {} /\ loose = {} /\ sync = [i \in Syncs |-> NoSync]
  BY DEF GroupInit
<1>2. PICK up \in SUBSET Projects :
        /\ container = [p \in Projects |-> IF p \in up THEN Following(row[p]) ELSE [s \in Services |-> Down]]
        /\ networks = UNION {IF row[p].services = {} THEN {} ELSE {row[p].group} : p \in up}
  BY DEF GroupInit
<1>3. /\ row \in [Projects -> GroupRow]
      /\ \A p \in Projects : row[p].group = NoGroup => row[p].services = {}
  BY <1>1 DEF Membership, GroupRow
<1>4. ASSUME NEW p \in Projects
      PROVE  /\ container[p] \in [Services -> ContainerRecord]
             /\ p \in up => \A s \in Services : container[p][s].on = IF s \in row[p].services THEN {row[p].group} ELSE {}
             /\ p \notin up => \A s \in Services : ~container[p][s].here
  <2>1. CASE p \in up
    <3>1. container[p] = [s \in Services |-> [here |-> TRUE, on |-> IF s \in row[p].services THEN {row[p].group} ELSE {}]]
      BY <1>2, <2>1 DEF Following
    <3>2. ASSUME NEW s \in Services
          PROVE  [here |-> TRUE, on |-> IF s \in row[p].services THEN {row[p].group} ELSE {}] \in ContainerRecord
      <4>1. PICK on \in SUBSET Groups : on = IF s \in row[p].services THEN {row[p].group} ELSE {}
        BY <1>3 DEF GroupRow
      <4> QED
        BY <4>1 DEF ContainerRecord
    <3>3. container[p] \in [Services -> ContainerRecord]
      BY <3>1, <3>2
    <3>4. ASSUME NEW s \in Services
          PROVE  container[p][s].on = IF s \in row[p].services THEN {row[p].group} ELSE {}
      <4>1. container[p][s] = [here |-> TRUE, on |-> IF s \in row[p].services THEN {row[p].group} ELSE {}]
        BY <3>1
      <4> QED
        BY <4>1
    <3> QED
      BY <2>1, <3>3, <3>4
  <2>2. CASE p \notin up
    <3>1. container[p] = [s \in Services |-> Down]
      BY <1>2, <2>2
    <3>2. Down \in ContainerRecord /\ ~Down.here
      BY DEF Down, ContainerRecord
    <3> QED
      BY <2>2, <3>1, <3>2
  <2> QED
    BY <2>1, <2>2
<1>5. container \in [Projects -> [Services -> ContainerRecord]]
  BY <1>2, <1>4
<1>6. ASSUME NEW n \in networks PROVE n \in Groups /\ Member(n)
  <2>1. PICK p \in up : n \in IF row[p].services = {} THEN {} ELSE {row[p].group}
    BY <1>2
  <2>2. n = row[p].group /\ row[p].services # {}
    BY <2>1
  <2>3. PICK s \in row[p].services : s \in Services
    BY <1>3, <2>2 DEF GroupRow
  <2>4. n \in container[p][s].on
    BY <1>4, <2>2, <2>3
  <2>5. n \in Groups
    BY <1>3, <2>2 DEF GroupRow
  <2> QED
    BY <2>3, <2>4, <2>5 DEF Member
<1>7. sync \in [Syncs -> SyncRecord] /\ \A i \in Syncs : Shaped(sync[i])
  BY <1>1, NoSyncShaped DEF Shaped, Formed
<1>8. GroupTypeOK
  BY <1>3, <1>5, <1>6, <1>7 DEF GroupTypeOK
<1>9. AloneOK
  BY <1>1, NoSyncShaped DEF AloneOK, Of
<1>10. GroupsFollowRows
  BY <1>4 DEF GroupsFollowRows
<1>11. Watched
  BY <1>6 DEF Watched
<1> QED
  BY <1>8, <1>9, <1>10, <1>11 DEF GroupInv

LEMMA GroupNextInv == GroupInv /\ [GroupNext]_groupVars => GroupInv'
<1> SUFFICES ASSUME GroupInv, [GroupNext]_groupVars PROVE GroupInv'
  OBVIOUS
<1>1. CASE UNCHANGED groupVars
  BY <1>1 DEF groupVars, GroupInv, GroupTypeOK, AloneOK, GroupsFollowRows, Watched, Lone, Member
<1>2. ASSUME NEW p \in Projects, NEW services \in SUBSET Services,
             \/ UpFails(p, services)
             \/ \E i \in Syncs : BringUp(i, p, services) \/ \E g \in Groups \cup {NoGroup} : Assign(i, p, g, services)
      PROVE  GroupInv'
  BY <1>2, UpFailsInv, BringUpInv, AssignInv
<1>3. ASSUME NEW p \in Projects, TakeDown(p) \/ \E i \in Syncs : LeaveForDelete(i, p)
      PROVE  GroupInv'
  BY <1>3, TakeDownInv, LeaveForDeleteInv
<1>4. ASSUME NEW i \in Syncs,
             \/ List(i) \/ Disconnect(i) \/ Ensure(i) \/ Connect(i)
             \/ PruneList(i) \/ Inspect(i) \/ RemoveNetwork(i) \/ BootNext(i) \/ FinishDelete(i)
             \/ CommandFails(i) \/ Die(i)
      PROVE  GroupInv'
  BY <1>4, ListInv, DisconnectInv, EnsureInv, ConnectInv, PruneListInv, InspectInv, RemoveNetworkInv,
     BootNextInv, FinishDeleteInv, CommandFailsInv, DieInv
<1> QED
  BY <1>1, <1>2, <1>3, <1>4 DEF GroupNext

(* A project that one sync brought in line alone, and that nothing touches, has its running
   containers on the network of its group and on no other, however many syncs overlapped, failed or
   died before (applyProjectNetworkGroup, leaveNetworkGroup, reconcileNetworkGroups). *)
THEOREM ContainersFollowRows == GroupSpec => []GroupsFollowRows
<1>1. GroupInv => GroupsFollowRows
  BY DEF GroupInv
<1> QED
  BY GroupInitInv, GroupNextInv, <1>1, PTL DEF GroupSpec

(* Once no sync runs, a group network without a container is one that was left to a later prune:
   no two syncs leave it to one another (pruneGroupNetworks). *)
THEOREM NetworksInUse == GroupSpec => []NoEmptyNetwork
<1>1. GroupInv => NoEmptyNetwork
  <2> SUFFICES ASSUME GroupInv, \A i \in Syncs : sync[i].pc = "idle", NEW n \in networks \ loose
               PROVE  Member(n)
    BY DEF NoEmptyNetwork
  <2>1. \A i \in Syncs : ~Watches(sync[i], n)
    BY DEF Watches, Placing
  <2> QED
    BY <2>1 DEF GroupInv, Watched
<1> QED
  BY GroupInitInv, GroupNextInv, <1>1, PTL DEF GroupSpec

=============================================================================

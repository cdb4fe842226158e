----------------------------- MODULE GithubHook -----------------------------
(***************************************************************************)
(* The webhook of one project and the hooks Stackport has put on GitHub    *)
(* for it (src/src/modules/automation/githubWebhooks.ts): enabling,        *)
(* disabling and reinstalling it, and moving it when the project's         *)
(* repository changes.  Each operation is a call that writes the project's *)
(* row, awaits a request to GitHub, and writes the row again; any number   *)
(* of them may be in flight.                                               *)
(*                                                                         *)
(* The URL of a hook is the id minted with its secret.  GitHub refuses a   *)
(* second hook with the URL of one the repository has.                     *)
(***************************************************************************)
EXTENDS Integers, FiniteSets

CONSTANTS Repos, NoRepo,
          Calls,      \* bound: requests in flight
          MaxRequests,     \* bound: operator requests
          MaxFailures   \* bound: requests GitHub refuses or whose answer is lost, crashes

ASSUME HookAssumption ==
  /\ Repos # {} /\ NoRepo \notin Repos
  /\ MaxRequests \in Nat /\ MaxFailures \in Nat

VARIABLES project,    \* the project's row; here is FALSE once it was deleted
          published,  \* Stackport is served over HTTPS on a domain
          hooks,      \* its hooks on GitHub
          call,       \* each call in flight
          urls, ids,  \* URLs minted and hooks created so far
          failed,     \* history: hooks a request of which failed
          overlapped, \* history: two calls were in flight at once
          cut,        \* history: a crash cut a call
          cleared,    \* history: the repository was taken away from a project with a webhook
          requests, failures

history == <<failed, overlapped, cut, cleared>>
bounds == <<requests, failures>>
hookVars == <<project, published, hooks, call, urls, ids, history, bounds>>

None == 0
Triggers == {"poller", "webhook", "manual"}
NoCall == [pc |-> "idle", then |-> "none", repo |-> NoRepo, url |-> None, hook |-> None,
           newRepo |-> NoRepo]

HookInit ==
  /\ project = [here |-> TRUE, trigger |-> "poller", url |-> None, hook |-> None,
            repo |-> CHOOSE r \in Repos : TRUE]
  /\ published = TRUE
  /\ hooks = {}
  /\ call = [c \in Calls |-> NoCall]
  /\ urls = 0 /\ ids = 0
  /\ failed = {} /\ overlapped = FALSE /\ cut = FALSE /\ cleared = FALSE
  /\ requests = 0 /\ failures = 0

Quiet == \A c \in Calls : call[c].pc = "idle"

\* An operator's request, served by a free call
Request(c) ==
  /\ call[c].pc = "idle" /\ project.here
  /\ requests < MaxRequests /\ requests' = requests + 1
  /\ overlapped' = (overlapped \/ ~Quiet)
  /\ UNCHANGED <<failures, cut>>

Failure == failures < MaxFailures /\ failures' = failures + 1

\* What enableWebhook writes before it awaits GitHub
Minted(r) ==
  IF r.url # None THEN [r EXCEPT !.trigger = "webhook"]
  ELSE [r EXCEPT !.trigger = "webhook", !.url = urls + 1, !.hook = None]

\* enableWebhook on row r up to its await; without a token it ends there.
Enable(c, r) ==
  LET m == Minted(r) IN
  /\ project' = m
  /\ urls' = IF r.url = None THEN urls + 1 ELSE urls
  /\ call' = [call EXCEPT ![c] = IF m.hook # None THEN NoCall
                                 ELSE [NoCall EXCEPT !.pc = "creating", !.repo = m.repo,
                                                     !.url = m.url]]

\* What operation op does on row r once the hook is off GitHub, or could not be taken off
Continue(c, op, r) ==
  LET bare == [r EXCEPT !.hook = None]
      moves == op.then = "move" /\ op.newRepo # NoRepo
      enables == r.here /\ r.repo # NoRepo /\ published /\ (op.then = "reinstall" \/ moves)
      written == IF op.then = "reinstall" THEN bare
                 ELSE [bare EXCEPT !.url = None,
                                   !.trigger = IF op.then \in Triggers THEN op.then
                                               ELSE IF moves /\ ~enables THEN "poller" ELSE @,
                                   !.here = op.then # "delete"]
  IN IF enables THEN Enable(c, written)
     ELSE /\ project' = IF r.here THEN written ELSE r
          /\ call' = [call EXCEPT ![c] = NoCall]
          /\ UNCHANGED urls

\* A hook that row r names is removed from GitHub first; without one op goes on at once.
Removing(c, op, r) ==
  IF r.here /\ r.hook # None /\ op.repo # NoRepo
  THEN /\ project' = r
       /\ call' = [call EXCEPT ![c] = [op EXCEPT !.pc = "deleting", !.hook = r.hook]]
       /\ UNCHANGED urls
  ELSE Continue(c, op, r)

-----------------------------------------------------------------------------
(* Requests *)

\* PUT /:id/deploy-trigger, webhook
PutWebhook(c) ==
  /\ Request(c) /\ project.repo # NoRepo /\ published
  /\ Enable(c, project)
  /\ UNCHANGED <<published, hooks, ids, failed, cleared>>

\* The webhook is given up only if its hook is known, as the deletion of a project does.
MutPutTrigger(c, t) ==
  /\ Request(c)
  /\ IF project.hook = None
     THEN project' = [project EXCEPT !.trigger = t] /\ UNCHANGED <<call, urls>>
     ELSE Removing(c, [NoCall EXCEPT !.then = t, !.repo = project.repo], project)
  /\ UNCHANGED <<published, hooks, ids, failed, cleared>>

\* PUT /:id/deploy-trigger, poller or manual
PutTrigger(c, t) ==
  /\ Request(c)
  /\ IF project.url = None
     THEN project' = [project EXCEPT !.trigger = t] /\ UNCHANGED <<call, urls>>
     ELSE Removing(c, [NoCall EXCEPT !.then = t, !.repo = project.repo], project)
  /\ UNCHANGED <<published, hooks, ids, failed, cleared>>

\* POST /:id/webhook/reinstall
Reinstall(c) ==
  /\ Request(c)
  /\ Removing(c, [NoCall EXCEPT !.then = "reinstall", !.repo = project.repo], project)
  /\ UNCHANGED <<published, hooks, ids, failed, cleared>>

\* The hook is looked for in the repository the row names now.
MutSetRepo(c, r) ==
  /\ Request(c) /\ r # project.repo
  /\ LET changed == [project EXCEPT !.repo = r]
         op == [NoCall EXCEPT !.then = "move", !.repo = r,
                              !.newRepo = IF project.trigger = "webhook" THEN r ELSE NoRepo]
     IN IF project.url = None THEN project' = changed /\ UNCHANGED <<call, urls>>
        ELSE Removing(c, op, changed)
  /\ cleared' = (cleared \/ (r = NoRepo /\ project.trigger = "webhook"))
  /\ UNCHANGED <<published, hooks, ids, failed>>

\* updateProject, moveWebhookIfRepoChanged: the row names the new repository first.
SetRepo(c, r) ==
  /\ Request(c) /\ r # project.repo
  /\ LET changed == [project EXCEPT !.repo = r]
         op == [NoCall EXCEPT !.then = "move",
                              !.repo = IF project.repo = NoRepo THEN r ELSE project.repo,
                              !.newRepo = IF project.trigger = "webhook" THEN r ELSE NoRepo]
     IN IF project.url = None THEN project' = changed /\ UNCHANGED <<call, urls>>
        ELSE Removing(c, op, changed)
  /\ cleared' = (cleared \/ (r = NoRepo /\ project.trigger = "webhook"))
  /\ UNCHANGED <<published, hooks, ids, failed>>

\* DELETE /:id reads the row and then awaits the networks and proxies, which may refuse to go.
DeleteProject(c) ==
  /\ Request(c)
  /\ call' = [call EXCEPT ![c] = [NoCall EXCEPT !.pc = "leaving", !.then = "delete",
                                                !.hook = project.hook]]
  /\ UNCHANGED <<project, published, hooks, urls, ids, failed, cleared>>

DeleteRow(c) ==
  /\ call[c].pc = "leaving"
  /\ \/ /\ LET op == [call[c] EXCEPT !.repo = project.repo] IN
             IF op.hook # None THEN Removing(c, op, project) ELSE Continue(c, op, project)
        /\ UNCHANGED bounds
     \/ /\ Failure
        /\ call' = [call EXCEPT ![c] = NoCall]
        /\ UNCHANGED <<project, urls, requests>>
  /\ UNCHANGED <<published, hooks, ids, history>>

\* Stackport is published on an HTTPS domain, or no longer.
Publish ==
  /\ requests < MaxRequests /\ requests' = requests + 1
  /\ published' = ~published
  /\ UNCHANGED <<project, hooks, call, urls, ids, history, failures>>

-----------------------------------------------------------------------------
(* GitHub *)

End(c) == call' = [call EXCEPT ![c] = NoCall]

\* createGithubHook: GitHub creates the hook, or refuses (also when there is no token).
Create(c) ==
  /\ call[c].pc = "creating"
  /\ LET taken == \E h \in hooks : h.repo = call[c].repo /\ h.url = call[c].url IN
     \/ /\ ~taken
        /\ hooks' = hooks \cup {[id |-> ids + 1, repo |-> call[c].repo, url |-> call[c].url]}
        /\ ids' = ids + 1
        /\ call' = [call EXCEPT ![c].pc = "created", ![c].hook = ids + 1]
        /\ UNCHANGED bounds
     \/ /\ IF taken THEN UNCHANGED bounds ELSE Failure /\ UNCHANGED requests
        /\ End(c)
        /\ UNCHANGED <<hooks, ids>>
  /\ UNCHANGED <<project, published, urls, history>>

\* The answer: enableWebhook stores the id, unless the answer is lost.
Created(c) ==
  /\ call[c].pc = "created"
  /\ End(c)
  /\ \/ /\ project' = IF project.here THEN [project EXCEPT !.hook = call[c].hook] ELSE project
        /\ UNCHANGED <<failed, bounds>>
     \/ /\ Failure /\ UNCHANGED <<requests, project>>
        /\ failed' = failed \cup {call[c].hook}
  /\ UNCHANGED <<published, hooks, urls, ids, overlapped, cut, cleared>>

\* deleteGithubHook: a hook that is not in that repository counts as gone.
Delete(c) ==
  /\ call[c].pc = "deleting"
  /\ call' = [call EXCEPT ![c].pc = "deleted"]
  /\ \/ /\ hooks' = {h \in hooks : h.id # call[c].hook \/ h.repo # call[c].repo}
        /\ UNCHANGED <<failed, bounds>>
     \/ /\ Failure /\ UNCHANGED <<requests, hooks>>
        /\ failed' = failed \cup {call[c].hook}
  /\ UNCHANGED <<project, published, urls, ids, overlapped, cut, cleared>>

Deleted(c) ==
  /\ call[c].pc = "deleted"
  /\ Continue(c, call[c], project)
  /\ UNCHANGED <<published, hooks, ids, history, bounds>>

Crash ==
  /\ Failure /\ UNCHANGED requests
  /\ call' = [c \in Calls |-> NoCall]
  /\ cut' = (cut \/ ~Quiet)
  /\ UNCHANGED <<project, published, hooks, urls, ids, failed, overlapped, cleared>>

HookNext ==
  \/ \E c \in Calls :
       \/ PutWebhook(c) \/ Reinstall(c) \/ DeleteProject(c)
       \/ \E t \in Triggers \ {"webhook"} : PutTrigger(c, t)
       \/ \E r \in Repos \cup {NoRepo} : SetRepo(c, r)
       \/ DeleteRow(c) \/ Create(c) \/ Created(c) \/ Delete(c) \/ Deleted(c)
  \/ Publish \/ Crash

HookSpec == HookInit /\ [][HookNext]_hookVars

-----------------------------------------------------------------------------
(* Properties *)

\* Operations that do not overlap leave no hook on GitHub that the project does not know, except
\* one a request failed for; the hook it knows is there, in its repository and with its URL.
NoStrayHook ==
  Quiet /\ ~overlapped /\ ~cut =>
    /\ \A h \in hooks : (project.here /\ h.id = project.hook) \/ h.id \in failed
    /\ project.here /\ project.hook # None =>
         [id |-> project.hook, repo |-> project.repo, url |-> project.url] \in hooks

\* A project waits for a webhook exactly while it has a URL for one, however requests overlap,
\* fail or are cut by a crash, unless the project lost its repository.
TriggerHasUrl ==
  project.here /\ ~cleared => (project.trigger = "webhook" <=> project.url # None)
=============================================================================

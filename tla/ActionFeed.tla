------------------------------ MODULE ActionFeed ------------------------------
(***************************************************************************)
(* How a page follows the actions of one slot: the registry's output       *)
(* buffers and log files (src/src/modules/actions/registry.ts, log.ts),    *)
(* the socket's rooms (src/src/transports/socket/manager.ts and            *)
(* src/src/application/realtime.ts), and on the page the tracker           *)
(* (ActionTracker.tsx), the reconnecting socket (SocketContext.tsx) and    *)
(* one output view (useActionOutput.ts).                                   *)
(*                                                                         *)
(* Socket messages keep their order and are lost with the connection; REST *)
(* answers arrive in any order, over other connections.  A chunk of output *)
(* stands for one flush: what it says is masked before it is numbered, and *)
(* is not modelled.                                                        *)
(***************************************************************************)
EXTENDS Integers, Sequences, SequencesExt, Functions

CONSTANTS Ids, NoId,
          MaxSeq,     \* chunks of all actions together
          MaxConns,   \* connections of the page's socket
          MaxWire,    \* messages under way to the page when a view is mounted
          MaxFaults   \* failed REST calls and restarts of the server

ASSUME FeedAssumption ==
  /\ NoId \notin Ids
  /\ MaxSeq \in Nat /\ MaxConns \in Nat /\ MaxWire \in Nat /\ MaxFaults \in Nat

VARIABLES status,    \* of each action, in memory and in its row
          latest,    \* the record in the `actions` map; only its output is in memory
          seq,       \* chunks numbered so far
          link,      \* the page's socket is connected
          conns,     \* connections made so far
          wire,      \* messages to the page, in order
          list,      \* GET /actions/running of the n-th connection
          gets,      \* GET /actions/:id under way
          posts,     \* starts under way: the connection they were sent in, or 0
          running, finished, waiters,   \* the tracker's maps
          view,      \* the output view: action, chunks shown, nextSeq, done
          skipped,   \* history: chunks a reset jumped over
          remounted, \* history: output for an earlier view of the action was on its way when the
                     \* view was mounted, and no reset has replaced its text since
          late,      \* history: actions the tracker heard of from an answer that a newer
                     \* connection had overtaken
          unsynced,  \* history: a REST call of the latest resync failed
          faults

server == <<status, latest, seq>>
socket == <<link, conns>>
rest == <<list, gets, posts>>
tracker == <<running, finished, waiters>>
screen == <<view, skipped, remounted>>
feedVars == <<server, socket, wire, rest, tracker, screen, late, unsynced, faults>>

NoView == [id |-> NoId, text |-> <<>>, next |-> 0, done |-> FALSE]

NoList == [state |-> "none", ids |-> {}]

Ended(i) == status[i] = "ended"

\* A message of the registry's start and finish listeners
Note(kind, i) == [kind |-> kind, id |-> i]

\* action:output: chunks from .. to - 1, after the `text` first chunks of the file when it resets;
\* `whole` is how many the action had then
Output(i, reset, text, from, to, next, whole, done) ==
  [kind |-> "output", id |-> i, reset |-> reset, text |-> text, from |-> from, to |-> to,
   next |-> next, whole |-> whole, done |-> done]

\* The one live chunk of flush
Live(i, n) == Output(i, FALSE, 0, n, n + 1, n + 1, n + 1, FALSE)

\* io.to(...): only what is connected gets it
Send(messages) == wire' = IF link THEN wire \o messages ELSE wire

-----------------------------------------------------------------------------
FeedInit ==
  /\ status = [i \in Ids |-> "none"] /\ latest = NoId /\ seq = [i \in Ids |-> 0]
  /\ link = FALSE /\ conns = 0 /\ wire = <<>>
  /\ list = [n \in 1 .. MaxConns |-> NoList] /\ gets = {} /\ posts = [i \in Ids |-> 0]
  /\ running = {} /\ finished = {} /\ waiters = {}
  /\ view = NoView /\ skipped = {} /\ remounted = FALSE
  /\ late = {} /\ unsynced = FALSE /\ faults = 0

\* The bound on output
Room == FoldFunction(+, 0, seq) < MaxSeq

\* tryStart, by this page (the answer to its POST is under way; one such start is enough) or by
\* anyone else
Start(i, here) ==
  /\ status[i] = "none"
  /\ latest # NoId => Ended(latest)
  /\ here => conns > 0 /\ waiters \cup finished = {}
  /\ status' = [status EXCEPT ![i] = "running"]
  /\ latest' = i
  /\ Send(<<Note("started", i)>>)
  /\ posts' = IF here THEN [posts EXCEPT ![i] = conns] ELSE posts
  /\ UNCHANGED <<seq, socket, list, gets, tracker, screen, late, unsynced, faults>>

\* flush of the running action
Flush(i) ==
  /\ latest = i /\ status[i] = "running" /\ Room
  /\ seq' = [seq EXCEPT ![i] = @ + 1]
  /\ Send(IF view.id = i THEN <<Live(i, seq[i])>> ELSE <<>>)
  /\ UNCHANGED <<status, latest, socket, rest, tracker, screen, late, unsynced, faults>>

\* finish: after a last flush
Finish(i) ==
  /\ latest = i /\ status[i] = "running"
  /\ status' = [status EXCEPT ![i] = "ended"]
  /\ Send(<<Note("finished", i)>>)
  /\ UNCHANGED <<latest, seq, socket, rest, tracker, screen, late, unsynced, faults>>

MutReplay(i, from, first, inFile) ==
  IF latest = i /\ from >= first
    THEN Output(i, FALSE, 0, IF from > 0 THEN from + 1 ELSE from, seq[i], seq[i], seq[i], Ended(i))
    ELSE Output(i, TRUE, inFile, 0, 0, IF latest = i THEN seq[i] ELSE 0, seq[i],
                latest = i => Ended(i))

\* replay: the chunks from `from` on, or, when those before `first` are no longer in memory, the
\* log file with the inFile chunks that its asynchronous write stream has written
Replay(i, from, first, inFile) ==
  IF latest = i /\ from >= first
    THEN Output(i, FALSE, 0, from, seq[i], seq[i], seq[i], Ended(i))
    ELSE Output(i, TRUE, inFile, 0, 0, IF latest = i THEN seq[i] ELSE 0, seq[i],
                latest = i => Ended(i))

\* action:attach, answered in the order of the wire: what the server does before it reads the
\* request it might as well have done before the request left.  How many chunks fit in
\* MAX_MEMORY_CHUNK_BYTES depends on their sizes; the last of them is always kept.
Attach(i, from) ==
  \E first \in 0 .. seq[i], inFile \in 0 .. seq[i] :
    /\ first < seq[i] \/ seq[i] = 0
    /\ wire' = Append(wire, Replay(i, from, first, inFile))

\* The handlers of GET /actions/running read the registry
ListRead(n) ==
  /\ list[n].state = "asked"
  /\ list' = [list EXCEPT ![n] = [state |-> "read",
                                  ids |-> {i \in Ids : i = latest /\ status[i] = "running"}]]
  /\ UNCHANGED <<server, socket, wire, gets, posts, tracker, screen, late, unsynced, faults>>

-----------------------------------------------------------------------------
\* started(record) of the tracker, for several records
Began(S) == running' = running \cup (S \ finished)

\* ended(record) of the tracker; the view's own listener marks it done
TrackerEnds(S) ==
  LET new == S \ finished IN
  /\ running' = running \ new
  /\ finished' = finished \cup new
  /\ waiters' = waiters \ new
  /\ view' = IF view.id \in new THEN [view EXCEPT !.done = TRUE] ELSE view
  /\ late' = late \ new

\* The view's handler of action:output: a message's chunks are consecutive, so those below nextSeq
\* are its first
Show(e) ==
  IF e.id # view.id THEN UNCHANGED screen ELSE
  LET next == IF e.reset THEN e.next ELSE view.next
      text == IF e.reset THEN [n \in 1 .. e.text |-> n - 1] ELSE view.text
      from == IF e.from < next THEN next ELSE e.from
      new  == [n \in 1 .. e.to - from |-> from + n - 1]
  IN /\ view' = [view EXCEPT !.text = text \o new, !.next = IF new = <<>> THEN next ELSE e.to,
                             !.done = @ \/ e.done]
     /\ skipped' = IF e.reset THEN e.text .. e.whole - 1 ELSE skipped
     /\ remounted' = (remounted /\ ~e.reset)

\* A message arrives
Receive ==
  /\ wire # <<>>
  /\ wire' = Tail(wire)
  /\ LET e == Head(wire) IN
     \/ /\ e.kind = "started" /\ Began({e.id})
        /\ UNCHANGED <<finished, waiters, screen, late>>
     \/ /\ e.kind = "finished" /\ TrackerEnds({e.id}) /\ UNCHANGED <<skipped, remounted>>
     \/ /\ e.kind = "output" /\ Show(e) /\ UNCHANGED <<tracker, late>>
  /\ UNCHANGED <<server, socket, rest, unsynced, faults>>

MutListAnswered(n) ==
  /\ list[n].state = "read"
  /\ LET new == list[n].ids \ (running \cup finished) IN
     /\ Began(list[n].ids)
     /\ gets' = gets \cup (running \ list[n].ids)
     /\ late' = IF n < conns THEN late \cup new ELSE late
  /\ list' = [list EXCEPT ![n] = NoList]
  /\ UNCHANGED <<server, socket, wire, posts, finished, waiters, screen, unsynced, faults>>

\* resync, after its first await
ListAnswered(n) ==
  /\ list[n].state = "read"
  /\ LET ids == list[n].ids
         new == ids \ (running \cup finished)
     IN /\ Began(ids)
        /\ gets' = gets \cup ((running \cup new \cup waiters) \ ids)
        /\ late' = IF n < conns THEN late \cup new ELSE late
  /\ list' = [list EXCEPT ![n] = NoList]
  /\ UNCHANGED <<server, socket, wire, posts, finished, waiters, screen, unsynced, faults>>

\* resync, after the second
GetAnswered(i) ==
  /\ i \in gets
  /\ gets' = gets \ {i}
  /\ IF Ended(i) THEN TrackerEnds({i}) /\ UNCHANGED <<skipped, remounted>>
                 ELSE UNCHANGED <<tracker, screen, late>>
  /\ UNCHANGED <<server, socket, wire, list, posts, unsynced, faults>>

\* The answer to a start: waitFor(id), after started(summary) for system actions
PostAnswered(i, tracks) ==
  /\ posts[i] # 0
  /\ posts' = [posts EXCEPT ![i] = 0]
  /\ waiters' = waiters \cup ({i} \ finished)
  /\ IF tracks THEN Began({i}) ELSE UNCHANGED running
  /\ late' = IF posts[i] < conns /\ i \notin finished THEN late \cup {i} ELSE late
  /\ UNCHANGED <<server, socket, wire, list, gets, finished, screen, unsynced, faults>>

\* A view is mounted, in place of another, on the running action or the last that ran; the page
\* leaves a view for another of the same action once it shows something
Watch(i) ==
  /\ i = latest \/ (latest = NoId /\ Ended(i))
  /\ Len(wire) < MaxWire /\ (i = view.id => view.text # <<>>)
  /\ view' = [NoView EXCEPT !.id = i] /\ skipped' = {}
  /\ remounted' = \E n \in DOMAIN wire : wire[n].kind = "output" /\ wire[n].id = i
  /\ IF link THEN Attach(i, 0) ELSE UNCHANGED wire
  /\ UNCHANGED <<server, socket, rest, tracker, late, unsynced, faults>>

-----------------------------------------------------------------------------
\* connect: the effects on `connected` start a resync and attach the view where it left off
Connect ==
  /\ ~link /\ conns < MaxConns
  /\ link' = TRUE /\ conns' = conns + 1
  /\ list' = [list EXCEPT ![conns + 1] = [state |-> "asked", ids |-> {}]]
  /\ IF view.id = NoId THEN UNCHANGED wire ELSE Attach(view.id, view.next)
  /\ late' = {} /\ unsynced' = FALSE
  /\ UNCHANGED <<server, gets, posts, tracker, screen, faults>>

\* The connection is gone on both sides, and what was under way with it (the view's detach is
\* buffered until the next connection, whose socket is in no room)
Cut == link' = FALSE /\ wire' = <<>> /\ UNCHANGED conns

\* disconnect, or three pings unanswered; the bound keeps a reconnection for it
Drop ==
  /\ link /\ conns < MaxConns /\ Cut
  /\ UNCHANGED <<server, rest, tracker, screen, late, unsynced, faults>>

\* A REST call fails: resync and its callers swallow it
RestFails ==
  /\ faults < MaxFaults /\ faults' = faults + 1
  /\ \/ \E n \in 1 .. MaxConns :
          /\ list[n].state # "none"
          /\ list' = [list EXCEPT ![n] = NoList]
          /\ unsynced' = (unsynced \/ n = conns)
          /\ UNCHANGED gets
     \/ \E i \in gets : gets' = gets \ {i} /\ unsynced' = TRUE /\ UNCHANGED list
  /\ UNCHANGED <<server, socket, wire, posts, tracker, screen, late>>

\* The server restarts: markInterruptedActions ends the rows, and what the log files lack is lost
Restart ==
  /\ faults < MaxFaults /\ faults' = faults + 1
  /\ link => conns < MaxConns
  /\ status' = [i \in Ids |-> IF status[i] = "running" THEN "ended" ELSE status[i]]
  /\ latest' = NoId
  /\ Cut
  /\ list' = [n \in 1 .. MaxConns |-> IF list[n].state = "asked" THEN NoList ELSE list[n]]
  /\ gets' = {} /\ posts' = [i \in Ids |-> 0]
  /\ unsynced' = TRUE
  /\ UNCHANGED <<seq, tracker, screen, late>>

FeedNext ==
  \/ \E i \in Ids :
       \/ \E here \in BOOLEAN : Start(i, here)
       \/ Flush(i) \/ Finish(i) \/ GetAnswered(i)
       \/ \E tracks \in BOOLEAN : PostAnswered(i, tracks)
       \/ Watch(i)
  \/ \E n \in 1 .. MaxConns : ListRead(n) \/ ListAnswered(n)
  \/ Receive \/ Connect \/ Drop \/ RestFails \/ Restart

FeedSpec == FeedInit /\ [][FeedNext]_feedVars

-----------------------------------------------------------------------------
\* Nothing is under way between the page and the server
Quiet ==
  /\ link /\ wire = <<>> /\ gets = {}
  /\ \A n \in 1 .. MaxConns : list[n].state = "none"
  /\ \A i \in Ids : posts[i] = 0

(* useActionOutput shows the chunks of its action in order and once each, through reconnections,  *)
(* switches between actions and the overlap of a replay with live output; below nextSeq it misses *)
(* only what a reset jumped over because the log file was behind; and when nothing is under way   *)
(* it shows everything, and is done exactly when the action has ended.  The exception is a view   *)
(* that a live chunk meant for an earlier view of the same action reached before its replay: it   *)
(* takes the chunk, moves nextSeq past it and drops the older chunks of the replay.               *)
OutputFaithful ==
  LET shown == ToSet(view.text) \cup skipped IN
  view.id # NoId =>
    /\ \A a, b \in 1 .. Len(view.text) : a < b => view.text[a] < view.text[b]
    /\ remounted \/ 0 .. view.next - 1 \subseteq shown
    /\ view.done => Ended(view.id)
    /\ Quiet => (remounted \/ 0 .. seq[view.id] - 1 \subseteq shown) /\ view.done = Ended(view.id)

(* When nothing is under way and no REST call of the latest resync failed, the tracker shows      *)
(* every action that runs, and what it shows as running or waits for still runs, unless it heard  *)
(* of it from an answer that a newer connection had overtaken.                                     *)
TrackerSettles ==
  Quiet /\ ~unsynced =>
    /\ {i \in Ids : status[i] = "running"} \subseteq running
    /\ {i \in running \cup waiters : Ended(i)} \subseteq late
=============================================================================

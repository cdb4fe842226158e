-------------------------- MODULE ActionFeedProofs --------------------------
(***************************************************************************)
(* ActionFeed proved for any number of actions, chunks, connections,       *)
(* messages under way, failed REST calls and restarts: the tracker settles *)
(* on what runs, and the output view shows the chunks of its action in     *)
(* order, once each and without a gap.                                     *)
(*                                                                         *)
(* The inductive invariant FeedInv has two halves.  TrackerInv says of     *)
(* each action that the page knows of its beginning and its end, or that   *)
(* something under way will tell it.  OutputInv orders the output on the   *)
(* wire: each message continues what is shown or what comes before it, and *)
(* one of them brings the view where its action is.                        *)
(***************************************************************************)
EXTENDS ActionFeed, SequenceTheorems, TLAPS

-----------------------------------------------------------------------------
(* The inductive invariant *)

NoteMessage == [kind : {"started", "finished"}, id : Ids]
OutputMessage ==
  [kind : {"output"}, id : Ids, reset : BOOLEAN, text : Nat, from : Nat, to : Nat, next : Nat,
   whole : Nat, done : BOOLEAN]
Message == NoteMessage \cup OutputMessage

FeedTypes ==
  /\ status \in [Ids -> {"none", "running", "ended"}]
  /\ latest \in Ids \cup {NoId}
  /\ seq \in [Ids -> Nat]
  /\ link \in BOOLEAN /\ conns \in Nat
  /\ wire \in Seq(Message)
  /\ list \in [1 .. MaxConns -> [state : {"none", "asked", "read"}, ids : SUBSET Ids]]
  /\ gets \subseteq Ids /\ posts \in [Ids -> Nat]
  /\ running \subseteq Ids /\ finished \subseteq Ids /\ waiters \subseteq Ids
  /\ view \in [id : Ids \cup {NoId}, text : Seq(Nat), next : Nat, done : BOOLEAN]

\* The actions of the slot, and what the page knows to have ended
Actions ==
  /\ \A i \in Ids : status[i] = "running" => latest = i
  /\ latest # NoId => status[latest] # "none"
  /\ view.id # NoId => status[view.id] # "none"
  /\ \A i \in finished : Ended(i)
  /\ running \cap finished = {} /\ waiters \cap finished = {}
  /\ IF link THEN conns \in 1 .. MaxConns ELSE wire = <<>>
  /\ \A i \in Ids : posts[i] <= conns
  /\ \A n \in 1 .. MaxConns : list[n].state # "none" => n <= conns

\* Wire w has a message of kind k about action i.
Has(w, k, i) == \E n \in 1 .. Len(w) : w[n].kind = k /\ w[n].id = i

\* What the notes on their way say is so, and an end follows its beginning.
NotesTrue ==
  \A n \in 1 .. Len(wire) :
    /\ wire[n].kind = "started" =>
         /\ status[wire[n].id] # "none"
         /\ Ended(wire[n].id) => \E m \in n .. Len(wire) : wire[m].kind = "finished" /\ wire[m].id = wire[n].id
    /\ wire[n].kind = "finished" => Ended(wire[n].id)

\* The page is told of an action that runs; r is the resync of the running connection.
Heard(r) ==
  \A i \in Ids : status[i] = "running" =>
    i \in running \/ Has(wire, "started", i) \/ r.state = "asked" \/ (r.state = "read" /\ i \in r.ids)

\* The page is told that an action has ended, whatever it hears of it late.
Told(r) ==
  \A i \in Ids : Ended(i) =>
    /\ i \in running \cup waiters =>
         \/ i \in late \/ Has(wire, "finished", i) \/ i \in gets \/ r.state = "asked"
         \/ r.state = "read" /\ i \notin r.ids
    /\ (r.state = "read" /\ i \in r.ids) \/ posts[i] = conns => i \in finished \/ Has(wire, "finished", i)

TrackerInv == NotesTrue /\ (link /\ ~unsynced => Heard(list[conns]) /\ Told(list[conns]))

-----------------------------------------------------------------------------
(* The output on its way *)

\* Message e is output of action i.
IsOf(e, i) == e.kind = "output" /\ e.id = i

\* Where the view stands after message e; a replay of an action that is not in memory closes it.
Reach(e) == IF e.reset THEN e.next ELSE e.to
Closing(e) == e.reset /\ e.next = 0

\* A message is about the chunks the action had when it was sent.
Sound(e) ==
  /\ status[e.id] # "none" /\ Reach(e) <= seq[e.id]
  /\ e.done => Ended(e.id)
  /\ e.reset => e.from = 0 /\ e.to = 0 /\ e.next <= e.whole
  /\ e.reset /\ ~Closing(e) => e.text <= e.next
  /\ ~e.reset => e.from <= e.to
  /\ Closing(e) => latest # e.id /\ e.whole = seq[e.id]
Messages == \A n \in 1 .. Len(wire) : wire[n].kind = "output" => Sound(wire[n])

\* Messages came one after the other.
InOrder(w) ==
  \A m, n \in 1 .. Len(w) : m < n /\ w[n].kind = "output" /\ IsOf(w[m], w[n].id) =>
    Closing(w[n]) \/ (~Closing(w[m]) /\ Reach(w[m]) <= Reach(w[n]))

\* After a reset no chunk is missing between the messages.
NoGaps(w) ==
  \A m, n \in 1 .. Len(w) :
    m < n /\ w[n].kind = "output" /\ IsOf(w[m], w[n].id) /\ w[m].reset /\ ~w[n].reset =>
      \/ w[n].from = 0
      \/ \E k \in m .. n - 1 : IsOf(w[k], w[n].id) /\ w[n].from <= Reach(w[k])

\* The chunks shown are in order, and none is missing below where the view stands.
Shown == ToSet(view.text) \cup skipped
Complete == latest # view.id /\ 0 .. seq[view.id] - 1 \subseteq Shown
ViewSound ==
  /\ \A a, b \in 1 .. Len(view.text) : a < b => view.text[a] < view.text[b]
  /\ view.next <= seq[view.id]
  /\ view.done => Ended(view.id)
  /\ remounted \/ 0 .. view.next - 1 \subseteq Shown

\* The messages on their way continue what is shown.
Continues ==
  /\ \/ \A a \in 1 .. Len(view.text) : view.text[a] < view.next
     \/ latest # view.id /\ \A n \in 1 .. Len(wire) : IsOf(wire[n], view.id) => wire[n].reset
  /\ \A n \in 1 .. Len(wire) : IsOf(wire[n], view.id) =>
       /\ Closing(wire[n]) \/ view.next <= Reach(wire[n])
       /\ \/ remounted \/ wire[n].reset \/ wire[n].from <= view.next
          \/ \E m \in 1 .. n - 1 : IsOf(wire[m], view.id) /\ wire[n].from <= Reach(wire[m])

\* Once message e has come the view is where its action is.
Brings(e, v, s) ==
  Closing(e) \/ (Reach(e) = s[v.id] /\ (e.reset \/ e.from < e.to \/ e.to <= v.next))
\* What is on its way brings the view there, and tells it of the end.
Ends ==
  link =>
    /\ \/ \E n \in 1 .. Len(wire) : IsOf(wire[n], view.id) /\ Brings(wire[n], view, seq)
       \/ /\ \A n \in 1 .. Len(wire) : ~IsOf(wire[n], view.id)
          /\ view.next = seq[view.id] \/ Complete
    /\ Ended(view.id) =>
         \/ view.done
         \/ \E n \in 1 .. Len(wire) : IsOf(wire[n], view.id) /\ wire[n].done
         \/ view.id \notin finished /\ Has(wire, "finished", view.id)

ViewInv == view.id # NoId => ViewSound /\ Continues /\ Ends
OutputInv == Messages /\ InOrder(wire) /\ NoGaps(wire) /\ ViewInv

FeedInv == FeedTypes /\ Actions /\ TrackerInv /\ OutputInv

-----------------------------------------------------------------------------
(* The wire *)

LEMMA AppendIs ==
  ASSUME NEW w \in Seq(Message), NEW e \in Message
  PROVE  /\ Append(w, e) \in Seq(Message) /\ Len(Append(w, e)) = Len(w) + 1 /\ Len(w) \in Nat
         /\ \A n \in 1 .. Len(w) : Append(w, e)[n] = w[n]
         /\ Append(w, e)[Len(w) + 1] = e
OBVIOUS

LEMMA TailIs ==
  ASSUME NEW w \in Seq(Message), w # <<>>
  PROVE  /\ Tail(w) \in Seq(Message) /\ Len(Tail(w)) = Len(w) - 1 /\ Len(w) \in Nat \ {0}
         /\ \A n \in 1 .. Len(w) - 1 : Tail(w)[n] = w[n + 1]
         /\ Head(w) = w[1] /\ Head(w) \in Message
BY HeadTailProperties, EmptySeq

LEMMA NoMessages == <<>> \in Seq(Message) /\ Len(<<>>) = 0
OBVIOUS

\* send appends its one message, if it has one and there is a connection
LEMMA SendIs ==
  ASSUME wire \in Seq(Message), NEW e \in Message
  PROVE  /\ Send(<<e>>) => wire' = IF link THEN Append(wire, e) ELSE wire
         /\ Send(<<>>) => wire' = wire
<1>1. wire \o <<e>> = Append(wire, e)
  OBVIOUS
<1>2. wire \o <<>> = wire
  BY ConcatEmptySeq
<1> QED
  BY <1>1, <1>2 DEF Send

LEMMA NoteIs ==
  ASSUME NEW k \in {"started", "finished"}, NEW i \in Ids
  PROVE  Note(k, i) \in Message /\ Note(k, i).kind = k /\ Note(k, i).id = i
BY DEF Note, Message, NoteMessage

LEMMA OutputIs ==
  ASSUME NEW i \in Ids, NEW reset \in BOOLEAN, NEW text \in Nat, NEW from \in Nat, NEW to \in Nat,
         NEW next \in Nat, NEW whole \in Nat, NEW done \in BOOLEAN,
         NEW e, e = Output(i, reset, text, from, to, next, whole, done)
  PROVE  /\ e \in Message /\ e.kind = "output" /\ e.id = i /\ e.reset = reset /\ e.text = text
         /\ e.from = from /\ e.to = to /\ e.next = next /\ e.whole = whole /\ e.done = done
BY DEF Output, Message, OutputMessage

\* The fields of a message of output
LEMMA FieldsOf ==
  ASSUME NEW e \in Message, e.kind = "output"
  PROVE  /\ e.id \in Ids /\ e.reset \in BOOLEAN /\ e.text \in Nat /\ e.from \in Nat /\ e.to \in Nat
         /\ e.next \in Nat /\ e.whole \in Nat /\ e.done \in BOOLEAN
BY DEF Message, NoteMessage, OutputMessage

LEMMA LiveIs ==
  ASSUME NEW i \in Ids, NEW n \in Nat, NEW e, e = Live(i, n)
  PROVE  /\ e \in Message /\ e.kind = "output" /\ e.id = i /\ ~e.reset /\ ~e.done
         /\ e.from = n /\ e.to = n + 1
<1>1. PICK b \in BOOLEAN : b = FALSE
  OBVIOUS
<1>2. e = Output(i, b, 0, n, n + 1, n + 1, n + 1, b)
  BY <1>1, Zenon DEF Live
<1> QED
  BY <1>1, <1>2, OutputIs

LEMMA HasAppended ==
  ASSUME NEW w \in Seq(Message), NEW e \in Message, NEW k, NEW i
  PROVE  Has(Append(w, e), k, i) <=> Has(w, k, i) \/ (e.kind = k /\ e.id = i)
BY AppendIs DEF Has

LEMMA HasInTail ==
  ASSUME NEW w \in Seq(Message), w # <<>>, NEW k, NEW i
  PROVE  Has(w, k, i) <=> Has(Tail(w), k, i) \/ (Head(w).kind = k /\ Head(w).id = i)
<1>1. /\ Len(Tail(w)) = Len(w) - 1 /\ Len(w) \in Nat \ {0}
      /\ \A n \in 1 .. Len(w) - 1 : Tail(w)[n] = w[n + 1]
      /\ Head(w) = w[1]
  BY TailIs
<1>2. ASSUME Has(w, k, i) PROVE Has(Tail(w), k, i) \/ (Head(w).kind = k /\ Head(w).id = i)
  <2>1. PICK n \in 1 .. Len(w) : w[n].kind = k /\ w[n].id = i
    BY <1>2 DEF Has
  <2>2. CASE n = 1
    BY <1>1, <2>1, <2>2
  <2>3. CASE n # 1
    <3>1. n - 1 \in 1 .. Len(Tail(w)) /\ Tail(w)[n - 1] = w[n]
      BY <1>1, <2>3
    <3> QED
      BY <2>1, <3>1 DEF Has
  <2> QED
    BY <2>2, <2>3
<1>3. ASSUME Has(Tail(w), k, i) PROVE Has(w, k, i)
  <2>1. PICK n \in 1 .. Len(Tail(w)) : Tail(w)[n].kind = k /\ Tail(w)[n].id = i
    BY <1>3 DEF Has
  <2>2. n + 1 \in 1 .. Len(w) /\ w[n + 1] = Tail(w)[n]
    BY <1>1, <2>1
  <2> QED
    BY <2>1, <2>2 DEF Has
<1>4. ASSUME Head(w).kind = k, Head(w).id = i PROVE Has(w, k, i)
  <2>1. 1 \in 1 .. Len(w)
    BY <1>1
  <2> QED
    BY <1>1, <1>4, <2>1 DEF Has
<1> QED
  BY <1>2, <1>3, <1>4

-----------------------------------------------------------------------------
(* What a message added or taken from the wire does to the order of the others *)

LEMMA InOrderInTail ==
  ASSUME NEW w \in Seq(Message), w # <<>>, InOrder(w)
  PROVE  InOrder(Tail(w))
<1>1. /\ Len(Tail(w)) = Len(w) - 1 /\ Len(w) \in Nat \ {0}
      /\ \A n \in 1 .. Len(w) - 1 : Tail(w)[n] = w[n + 1]
  BY TailIs
<1> SUFFICES ASSUME NEW m \in 1 .. Len(Tail(w)), NEW n \in 1 .. Len(Tail(w)), m < n,
                    Tail(w)[n].kind = "output", IsOf(Tail(w)[m], Tail(w)[n].id)
             PROVE  \/ Closing(Tail(w)[n])
                    \/ ~Closing(Tail(w)[m]) /\ Reach(Tail(w)[m]) <= Reach(Tail(w)[n])
  BY DEF InOrder
<1>2. /\ m + 1 \in 1 .. Len(w) /\ n + 1 \in 1 .. Len(w) /\ m + 1 < n + 1
      /\ Tail(w)[m] = w[m + 1] /\ Tail(w)[n] = w[n + 1]
  BY <1>1
<1> QED
  BY <1>2 DEF InOrder

LEMMA NoGapsInTail ==
  ASSUME NEW w \in Seq(Message), w # <<>>, NoGaps(w)
  PROVE  NoGaps(Tail(w))
<1>1. /\ Len(Tail(w)) = Len(w) - 1 /\ Len(w) \in Nat \ {0}
      /\ \A n \in 1 .. Len(w) - 1 : Tail(w)[n] = w[n + 1]
  BY TailIs
<1> SUFFICES ASSUME NEW m \in 1 .. Len(Tail(w)), NEW n \in 1 .. Len(Tail(w)), m < n,
                    Tail(w)[n].kind = "output", IsOf(Tail(w)[m], Tail(w)[n].id),
                    Tail(w)[m].reset, ~Tail(w)[n].reset, Tail(w)[n].from # 0
             PROVE  \E k \in m .. n - 1 : IsOf(Tail(w)[k], Tail(w)[n].id) /\ Tail(w)[n].from <= Reach(Tail(w)[k])
  BY DEF NoGaps
<1>2. /\ m + 1 \in 1 .. Len(w) /\ n + 1 \in 1 .. Len(w) /\ m + 1 < n + 1
      /\ Tail(w)[m] = w[m + 1] /\ Tail(w)[n] = w[n + 1]
  BY <1>1
<1>3. PICK k \in m + 1 .. n : IsOf(w[k], w[n + 1].id) /\ w[n + 1].from <= Reach(w[k])
  <2>1. \E k \in m + 1 .. (n + 1) - 1 : IsOf(w[k], w[n + 1].id) /\ w[n + 1].from <= Reach(w[k])
    BY <1>2 DEF NoGaps
  <2> QED
    BY <1>1, <2>1
<1>4. k - 1 \in m .. n - 1 /\ Tail(w)[k - 1] = w[k]
  BY <1>1, <1>2
<1> QED
  BY <1>2, <1>3, <1>4

LEMMA InOrderAppended ==
  ASSUME NEW w \in Seq(Message), NEW e \in Message, InOrder(w),
         e.kind = "output" => \A m \in 1 .. Len(w) : IsOf(w[m], e.id) =>
                                Closing(e) \/ (~Closing(w[m]) /\ Reach(w[m]) <= Reach(e))
  PROVE  InOrder(Append(w, e))
<1> DEFINE v == Append(w, e)
<1>1. /\ Len(v) = Len(w) + 1 /\ Len(w) \in Nat
      /\ \A n \in 1 .. Len(w) : v[n] = w[n]
      /\ v[Len(w) + 1] = e
  BY AppendIs
<1> HIDE DEF v
<1>2. ASSUME NEW m \in 1 .. Len(v), NEW n \in 1 .. Len(v), m < n, v[n].kind = "output", IsOf(v[m], v[n].id)
      PROVE  Closing(v[n]) \/ (~Closing(v[m]) /\ Reach(v[m]) <= Reach(v[n]))
  <2>1. m \in 1 .. Len(w) /\ v[m] = w[m]
    BY <1>1, <1>2
  <2>2. CASE n = Len(w) + 1
    BY <1>1, <1>2, <2>1, <2>2
  <2>3. CASE n # Len(w) + 1
    <3>1. n \in 1 .. Len(w) /\ v[n] = w[n]
      BY <1>1, <2>3
    <3> QED
      BY <1>2, <2>1, <3>1 DEF InOrder
  <2> QED
    BY <2>2, <2>3
<1>3. InOrder(v)
  BY <1>2 DEF InOrder
<1> QED
  BY <1>3 DEF v

LEMMA NoGapsAppended ==
  ASSUME NEW w \in Seq(Message), NEW e \in Message, NoGaps(w),
         e.kind = "output" /\ ~e.reset /\ e.from # 0 =>
           \A m \in 1 .. Len(w) : IsOf(w[m], e.id) /\ w[m].reset =>
             \E k \in m .. Len(w) : IsOf(w[k], e.id) /\ e.from <= Reach(w[k])
  PROVE  NoGaps(Append(w, e))
<1> DEFINE v == Append(w, e)
<1>1. /\ Len(v) = Len(w) + 1 /\ Len(w) \in Nat
      /\ \A n \in 1 .. Len(w) : v[n] = w[n]
      /\ v[Len(w) + 1] = e
  BY AppendIs
<1> HIDE DEF v
<1>2. ASSUME NEW m \in 1 .. Len(v), NEW n \in 1 .. Len(v), m < n, v[n].kind = "output", IsOf(v[m], v[n].id),
             v[m].reset, ~v[n].reset, v[n].from # 0
      PROVE  \E k \in m .. n - 1 : IsOf(v[k], v[n].id) /\ v[n].from <= Reach(v[k])
  <2>1. m \in 1 .. Len(w) /\ v[m] = w[m]
    BY <1>1, <1>2
  <2>2. CASE n = Len(w) + 1
    <3>1. PICK k \in m .. Len(w) : IsOf(w[k], e.id) /\ e.from <= Reach(w[k])
      BY <1>1, <1>2, <2>1, <2>2
    <3>2. k \in m .. n - 1 /\ v[k] = w[k] /\ v[n] = e
      BY <1>1, <2>1, <2>2
    <3> QED
      BY <3>1, <3>2
  <2>3. CASE n # Len(w) + 1
    <3>1. n \in 1 .. Len(w) /\ v[n] = w[n]
      BY <1>1, <2>3
    <3>2. PICK k \in m .. n - 1 : IsOf(w[k], w[n].id) /\ w[n].from <= Reach(w[k])
      BY <1>2, <2>1, <3>1 DEF NoGaps
    <3>3. v[k] = w[k]
      BY <1>1, <2>1, <3>1
    <3> QED
      BY <3>1, <3>2, <3>3
  <2> QED
    BY <2>2, <2>3
<1>3. NoGaps(v)
  BY <1>2 DEF NoGaps
<1> QED
  BY <1>3 DEF v

-----------------------------------------------------------------------------
(* The notes on their way *)

LEMMA MessageIs ==
  ASSUME NEW w \in Seq(Message), NEW n \in 1 .. Len(w)
  PROVE  w[n] \in Message /\ w[n].id \in Ids /\ w[n].kind \in {"started", "finished", "output"}
<1>1. w[n] \in Message
  OBVIOUS
<1> QED
  BY <1>1 DEF Message, NoteMessage, OutputMessage

LEMMA NotesAppended ==
  ASSUME wire \in Seq(Message), NEW e \in Message, wire' = Append(wire, e), NotesTrue,
         \A j \in Ids : /\ status[j] # "none" => status'[j] # "none"
                        /\ Ended(j) => status'[j] = "ended"
                        /\ status'[j] = "ended" => Ended(j) \/ (e.kind = "finished" /\ e.id = j),
         e.kind = "started" => status'[e.id] # "none" /\ status'[e.id] # "ended",
         e.kind = "finished" => status'[e.id] = "ended"
  PROVE  NotesTrue'
<1>1. /\ Len(wire') = Len(wire) + 1 /\ Len(wire) \in Nat
      /\ \A n \in 1 .. Len(wire) : wire'[n] = wire[n]
      /\ wire'[Len(wire) + 1] = e
  BY AppendIs
<1> SUFFICES ASSUME NEW n \in 1 .. Len(wire')
             PROVE  /\ wire'[n].kind = "started" =>
                         /\ status'[wire'[n].id] # "none"
                         /\ status'[wire'[n].id] = "ended" =>
                              \E m \in n .. Len(wire') : wire'[m].kind = "finished" /\ wire'[m].id = wire'[n].id
                    /\ wire'[n].kind = "finished" => status'[wire'[n].id] = "ended"
  BY DEF NotesTrue, Ended
<1>2. CASE n = Len(wire) + 1
  BY <1>1, <1>2
<1>3. CASE n # Len(wire) + 1
  <2>1. n \in 1 .. Len(wire) /\ wire'[n] = wire[n]
    BY <1>1, <1>3
  <2>2. wire[n].id \in Ids
    BY <2>1, MessageIs
  <2>3. ASSUME wire[n].kind = "started", status'[wire[n].id] = "ended"
        PROVE  \E m \in n .. Len(wire') : wire'[m].kind = "finished" /\ wire'[m].id = wire[n].id
    <3>1. CASE Ended(wire[n].id)
      <4>1. PICK m \in n .. Len(wire) : wire[m].kind = "finished" /\ wire[m].id = wire[n].id
        BY <2>1, <2>3, <3>1 DEF NotesTrue
      <4>2. m \in n .. Len(wire') /\ wire'[m] = wire[m]
        BY <1>1, <2>1
      <4> QED
        BY <4>1, <4>2
    <3>2. CASE ~Ended(wire[n].id)
      <4>1. e.kind = "finished" /\ e.id = wire[n].id
        BY <2>2, <2>3, <3>2 DEF Ended
      <4>2. Len(wire) + 1 \in n .. Len(wire')
        BY <1>1, <2>1
      <4> QED
        BY <1>1, <4>1, <4>2
    <3> QED
      BY <3>1, <3>2
  <2> QED
    BY <2>1, <2>2, <2>3 DEF NotesTrue, Ended
<1> QED
  BY <1>2, <1>3

LEMMA NotesInTail ==
  ASSUME wire \in Seq(Message), wire # <<>>, wire' = Tail(wire), NotesTrue, status' = status
  PROVE  NotesTrue'
<1>1. /\ Len(wire') = Len(wire) - 1 /\ Len(wire) \in Nat \ {0}
      /\ \A n \in 1 .. Len(wire) - 1 : wire'[n] = wire[n + 1]
  BY TailIs
<1> SUFFICES ASSUME NEW n \in 1 .. Len(wire')
             PROVE  /\ wire'[n].kind = "started" =>
                         /\ status[wire'[n].id] # "none"
                         /\ Ended(wire'[n].id) =>
                              \E m \in n .. Len(wire') : wire'[m].kind = "finished" /\ wire'[m].id = wire'[n].id
                    /\ wire'[n].kind = "finished" => Ended(wire'[n].id)
  BY DEF NotesTrue, Ended
<1>2. n + 1 \in 1 .. Len(wire) /\ wire'[n] = wire[n + 1]
  BY <1>1
<1>3. ASSUME wire[n + 1].kind = "started", Ended(wire[n + 1].id)
      PROVE  \E m \in n .. Len(wire') : wire'[m].kind = "finished" /\ wire'[m].id = wire[n + 1].id
  <2>1. PICK m \in n + 1 .. Len(wire) : wire[m].kind = "finished" /\ wire[m].id = wire[n + 1].id
    BY <1>2, <1>3 DEF NotesTrue
  <2>2. m - 1 \in n .. Len(wire') /\ wire'[m - 1] = wire[m]
    BY <1>1, <1>2
  <2> QED
    BY <2>1, <2>2
<1> QED
  BY <1>2, <1>3 DEF NotesTrue

LEMMA NotesOfSame ==
  ASSUME wire' = wire \/ wire' = <<>>, NotesTrue, wire' # <<>> => status' = status
  PROVE  NotesTrue'
<1>1. CASE wire' = <<>>
  BY <1>1, NoMessages DEF NotesTrue
<1>2. CASE wire' # <<>>
  BY <1>2 DEF NotesTrue, Ended
<1> QED
  BY <1>1, <1>2

-----------------------------------------------------------------------------
(* The tracker hears of what runs and of what has ended. *)

TrackerBase == FeedTypes /\ Actions /\ TrackerInv

LEMMA StatusIs ==
  ASSUME FeedTypes
  PROVE  \A i \in Ids : status[i] \in {"none", "running", "ended"} /\ i # NoId
BY FeedAssumption DEF FeedTypes, FeedAssumption

LEMMA StartTracks ==
  ASSUME TrackerBase, NEW i \in Ids, NEW here \in BOOLEAN, Start(i, here)
  PROVE  TrackerBase'
<1> USE DEF TrackerBase
<1>1. /\ status[i] = "none" /\ (latest # NoId => Ended(latest))
      /\ status' = [status EXCEPT ![i] = "running"] /\ latest' = i
      /\ UNCHANGED <<seq, link, conns, list, gets, running, finished, waiters, view, late, unsynced>>
      /\ posts' = IF here THEN [posts EXCEPT ![i] = conns] ELSE posts
  BY DEF Start, socket, tracker, screen
<1>2. Note("started", i) \in Message /\ Note("started", i).kind = "started" /\ Note("started", i).id = i
  BY NoteIs
<1>3. wire \in Seq(Message) /\ wire' = IF link THEN Append(wire, Note("started", i)) ELSE wire
  BY <1>2, SendIs DEF Start, FeedTypes
<1>4. \A j \in Ids : status'[j] = IF j = i THEN "running" ELSE status[j]
  BY <1>1 DEF FeedTypes
<1>5. FeedTypes'
  <2>1. wire' \in Seq(Message)
    BY <1>2, <1>3, AppendIs
  <2>2. posts' \in [Ids -> Nat]
    BY <1>1 DEF FeedTypes
  <2> QED
    BY <1>1, <2>1, <2>2 DEF FeedTypes
<1>6. Actions'
  <2>1. \A j \in Ids : status'[j] = "running" => latest' = j
    BY <1>1, <1>4, StatusIs DEF Actions, Ended
  <2>2. \A j \in finished' : Ended(j)'
    BY <1>1, <1>4 DEF Actions, Ended, FeedTypes
  <2>3. \A j \in Ids : posts'[j] <= conns'
    BY <1>1 DEF Actions, FeedTypes
  <2>4. view'.id # NoId => status'[view'.id] # "none"
    BY <1>1, <1>4 DEF Actions, FeedTypes
  <2> QED
    BY <1>1, <1>3, <1>4, <2>1, <2>2, <2>3, <2>4 DEF Actions
<1>7. \A j \in Ids : Ended(j)' <=> Ended(j)
  BY <1>1, <1>4 DEF Ended
<1>8. NotesTrue'
  <2>1. CASE link
    BY <1>1, <1>2, <1>3, <1>4, <1>7, <2>1, NotesAppended DEF TrackerInv, Ended
  <2>2. CASE ~link
    BY <1>3, <2>2, NotesOfSame DEF TrackerInv, Actions
  <2> QED
    BY <2>1, <2>2
<1>9. ASSUME link, ~unsynced PROVE Heard(list[conns])' /\ Told(list[conns])'
  <2>1. \A k, j : Has(wire', k, j) <=> Has(wire, k, j) \/ (k = "started" /\ j = i)
    BY <1>2, <1>3, <1>9, HasAppended
  <2>2. Heard(list[conns]) /\ Told(list[conns])
    BY <1>9 DEF TrackerInv
  <2>3. Heard(list[conns])'
    BY <1>1, <1>4, <2>1, <2>2 DEF Heard
  <2>4. \A j \in Ids : Ended(j) => posts'[j] = posts[j]
    BY <1>1 DEF Ended, FeedTypes
  <2>5. Told(list[conns])'
    BY <1>1, <1>7, <2>1, <2>2, <2>4 DEF Told
  <2> QED
    BY <2>3, <2>5
<1> QED
  BY <1>1, <1>5, <1>6, <1>8, <1>9 DEF TrackerInv

\* What the server answers to action:attach
Answers(e, i, from) ==
  /\ IsOf(e, i)
  /\ \/ latest = i /\ ~e.reset /\ e.from = from /\ e.to = seq[i] /\ (e.done <=> Ended(i))
     \/ /\ latest = i /\ e.reset /\ e.from = 0 /\ e.to = 0 /\ e.next = seq[i] /\ seq[i] # 0
        /\ e.text <= seq[i] /\ e.whole = seq[i] /\ (e.done <=> Ended(i))
     \/ /\ latest # i /\ e.reset /\ e.from = 0 /\ e.to = 0 /\ e.next = 0 /\ e.whole = seq[i] /\ e.done

LEMMA AttachIs ==
  ASSUME FeedTypes, NEW i \in Ids, NEW from \in Nat, Attach(i, from)
  PROVE  \E e \in Message : wire' = Append(wire, e) /\ Answers(e, i, from)
<1>1. PICK first \in 0 .. seq[i], inFile \in 0 .. seq[i] :
        /\ first < seq[i] \/ seq[i] = 0
        /\ wire' = Append(wire, Replay(i, from, first, inFile))
  BY DEF Attach
<1> DEFINE e == Replay(i, from, first, inFile)
<1>2. PICK f \in BOOLEAN, t \in BOOLEAN, d \in BOOLEAN, a \in BOOLEAN :
        f = FALSE /\ t = TRUE /\ d = Ended(i) /\ a = (latest = i => Ended(i))
  <2>1. Ended(i) \in BOOLEAN /\ (latest = i => Ended(i)) \in BOOLEAN
    BY DEF Ended
  <2> QED
    BY <2>1, Zenon
<1>3. seq[i] \in Nat /\ first \in Nat /\ inFile \in Nat /\ inFile <= seq[i]
  BY DEF FeedTypes
<1>4. CASE latest = i /\ from >= first
  <2>1. e = Output(i, f, 0, from, seq[i], seq[i], seq[i], d)
    BY <1>2, <1>4, Zenon DEF Replay
  <2>2. /\ e \in Message /\ e.kind = "output" /\ e.id = i /\ e.reset = f
        /\ e.from = from /\ e.to = seq[i] /\ e.done = d
    <3> HIDE DEF e
    <3> QED
      BY <1>2, <1>3, <2>1 DEF Output, Message, OutputMessage
  <2>3. Answers(e, i, from)
    BY <1>2, <1>4, <2>2 DEF Answers, IsOf
  <2> QED
    BY <1>1, <2>2, <2>3
<1>5. CASE ~(latest = i /\ from >= first)
  <2> DEFINE n == IF latest = i THEN seq[i] ELSE 0
  <2>1. e = Output(i, t, inFile, 0, 0, n, seq[i], a)
    BY <1>2, <1>5, Zenon DEF Replay
  <2>2. /\ e \in Message /\ e.kind = "output" /\ e.id = i /\ e.reset = t /\ e.text = inFile
        /\ e.from = 0 /\ e.to = 0 /\ e.next = n /\ e.whole = seq[i] /\ e.done = a
    <3> n \in Nat
      BY <1>3
    <3> HIDE DEF e, n
    <3> QED
      BY <1>2, <1>3, <2>1 DEF Output, Message, OutputMessage
  <2>3. Answers(e, i, from)
    <3> HIDE DEF e
    <3>1. CASE latest = i
      <4>1. seq[i] # 0
        BY <1>1, <1>3, <1>5, <3>1
      <4> QED
        BY <1>2, <1>3, <2>2, <3>1, <4>1 DEF Answers, IsOf
    <3>2. CASE latest # i
      BY <1>2, <2>2, <3>2 DEF Answers, IsOf
    <3> QED
      BY <3>1, <3>2
  <2> QED
    BY <1>1, <2>2, <2>3
<1> QED
  BY <1>4, <1>5

\* A message of output changes nothing of what the tracker hears.
LEMMA OutputTracks ==
  ASSUME TrackerBase, NEW e \in Message, e.kind = "output", link, wire' = Append(wire, e),
         UNCHANGED <<status, latest, link, conns, list, gets, posts,
                     running, finished, waiters, late, unsynced>>,
         view' \in [id : Ids \cup {NoId}, text : Seq(Nat), next : Nat, done : BOOLEAN],
         view'.id # NoId => status[view'.id] # "none",
         seq' \in [Ids -> Nat]
  PROVE  TrackerBase'
<1> USE DEF TrackerBase
<1>1. wire' \in Seq(Message) /\ FeedTypes'
  BY AppendIs DEF FeedTypes
<1>2. Actions'
  BY DEF Actions, Ended
<1>3. NotesTrue'
  BY NotesAppended DEF FeedTypes, TrackerInv, Ended
<1>4. \A k \in {"started", "finished"} : \A j : Has(wire', k, j) <=> Has(wire, k, j)
  BY HasAppended DEF FeedTypes
<1>5. ASSUME ~unsynced PROVE Heard(list[conns])' /\ Told(list[conns])'
  <2>1. Heard(list[conns]) /\ Told(list[conns])
    BY <1>5 DEF TrackerInv
  <2> QED
    BY <1>4, <2>1 DEF Heard, Told, Ended
<1> QED
  BY <1>1, <1>2, <1>3, <1>5 DEF TrackerInv

\* Where there is no connection only the rest of the invariant counts.
LEMMA OfflineTracks ==
  ASSUME TrackerBase, FeedTypes', ~link', wire' = <<>>,
         \A j \in Ids : /\ status'[j] = "running" => status[j] = "running" /\ latest' = j
                        /\ status[j] # "none" => status'[j] # "none"
                        /\ Ended(j) => Ended(j)'
                        /\ posts'[j] <= conns',
         \A n \in 1 .. MaxConns : list'[n].state # "none" => n <= conns',
         latest' # NoId => latest' = latest,
         view'.id = view.id, finished' = finished, running' = running, waiters' = waiters
  PROVE  TrackerBase'
<1> USE DEF TrackerBase
<1>1. Actions'
  <2>1. finished \subseteq Ids /\ latest \in Ids \cup {NoId} /\ view.id \in Ids \cup {NoId}
    BY DEF FeedTypes
  <2> QED
    BY <2>1 DEF Actions
<1>2. NotesTrue'
  BY NotesOfSame DEF TrackerInv
<1> QED
  BY <1>1, <1>2 DEF TrackerInv

LEMMA FlushTracks ==
  ASSUME TrackerBase, NEW i \in Ids, Flush(i)
  PROVE  TrackerBase'
<1> USE DEF TrackerBase
<1>1. /\ UNCHANGED <<status, latest, link, conns, list, gets, posts,
                     running, finished, waiters, view, late, unsynced>>
      /\ seq' = [seq EXCEPT ![i] = @ + 1]
  BY DEF Flush, socket, rest, tracker, screen
<1>2. seq' \in [Ids -> Nat] /\ seq[i] \in Nat
  BY <1>1 DEF FeedTypes
<1>3. PICK e : e = Live(i, seq[i])
  OBVIOUS
<1>4. e \in Message /\ e.kind = "output"
  BY <1>2, <1>3, LiveIs
<1>5. \/ wire' = wire
      \/ link /\ wire' = Append(wire, e)
  <2>1. Send(<<e>>) \/ Send(<<>>)
    BY <1>3, Zenon DEF Flush
  <2> QED
    BY <1>4, <2>1, SendIs DEF FeedTypes
<1>6. CASE link /\ wire' = Append(wire, e)
  BY <1>1, <1>2, <1>4, <1>6, OutputTracks DEF FeedTypes, Actions
<1>7. CASE wire' = wire
  <2>1. FeedTypes'
    BY <1>1, <1>2, <1>7 DEF FeedTypes
  <2>2. Actions' /\ NotesTrue'
    BY <1>1, <1>7, NotesOfSame DEF Actions, TrackerInv, Ended
  <2>3. Heard(list[conns])' /\ Told(list[conns])' <=> Heard(list[conns]) /\ Told(list[conns])
    BY <1>1, <1>7 DEF Heard, Told, Ended
  <2> QED
    BY <1>1, <2>1, <2>2, <2>3 DEF TrackerInv
<1> QED
  BY <1>5, <1>6, <1>7

LEMMA FinishTracks ==
  ASSUME TrackerBase, NEW i \in Ids, Finish(i)
  PROVE  TrackerBase'
<1> USE DEF TrackerBase
<1>1. /\ UNCHANGED <<latest, seq, link, conns, list, gets, posts,
                     running, finished, waiters, view, late, unsynced>>
      /\ latest = i /\ status[i] = "running" /\ status' = [status EXCEPT ![i] = "ended"]
  BY DEF Finish, socket, rest, tracker, screen
<1>2. Note("finished", i) \in Message /\ Note("finished", i).kind = "finished" /\ Note("finished", i).id = i
  BY NoteIs
<1>3. wire \in Seq(Message) /\ wire' = IF link THEN Append(wire, Note("finished", i)) ELSE wire
  BY <1>2, SendIs DEF Finish, FeedTypes
<1>4. \A j \in Ids : status'[j] = IF j = i THEN "ended" ELSE status[j]
  BY <1>1 DEF FeedTypes
<1>5. FeedTypes'
  <2>1. wire' \in Seq(Message)
    BY <1>2, <1>3, AppendIs
  <2> QED
    BY <1>1, <2>1 DEF FeedTypes
<1>6. \A j \in Ids : Ended(j)' <=> Ended(j) \/ j = i
  BY <1>1, <1>4 DEF Ended
<1>7. Actions'
  <2>1. finished \subseteq Ids /\ view.id \in Ids \cup {NoId}
    BY DEF FeedTypes
  <2> QED
    BY <1>1, <1>3, <1>4, <1>6, <2>1 DEF Actions
<1>8. NotesTrue'
  <2>1. CASE link
    <3>1. wire' = Append(wire, Note("finished", i))
      BY <1>3, <2>1
    <3> QED
      BY <1>1, <1>2, <1>3, <1>4, <3>1, NotesAppended DEF TrackerInv, Ended
  <2>2. CASE ~link
    BY <1>3, <2>2, NotesOfSame DEF TrackerInv, Actions
  <2> QED
    BY <2>1, <2>2
<1>9. ASSUME link, ~unsynced PROVE Heard(list[conns])' /\ Told(list[conns])'
  <2>1. \A k, j : Has(wire', k, j) <=> Has(wire, k, j) \/ (k = "finished" /\ j = i)
    BY <1>2, <1>3, <1>9, HasAppended
  <2>2. Heard(list[conns]) /\ Told(list[conns])
    BY <1>9 DEF TrackerInv
  <2>3. Heard(list[conns])'
    BY <1>1, <1>4, <2>1, <2>2 DEF Heard
  <2>4. Told(list[conns])'
    BY <1>1, <1>6, <2>1, <2>2 DEF Told
  <2> QED
    BY <2>3, <2>4
<1> QED
  BY <1>1, <1>5, <1>7, <1>8, <1>9 DEF TrackerInv

LEMMA EndIs ==
  ASSUME FeedTypes, Actions, NEW i \in Ids, TrackerEnds({i})
  PROVE  /\ finished' = finished \cup {i} /\ running' = running \ {i} /\ waiters' = waiters \ {i}
         /\ view' \in [id : Ids \cup {NoId}, text : Seq(Nat), next : Nat, done : BOOLEAN]
         /\ view'.id = view.id /\ view'.text = view.text /\ view'.next = view.next
         /\ view'.done <=> view.done \/ (view.id = i /\ i \notin finished)
         /\ late \ {i} \subseteq late'
<1>1. PICK new : new = {i} \ finished
  OBVIOUS
<1>2. PICK t \in BOOLEAN : t = TRUE
  OBVIOUS
<1>3. /\ running' = running \ new /\ finished' = finished \cup new /\ waiters' = waiters \ new
      /\ view' = IF view.id \in new THEN [view EXCEPT !.done = t] ELSE view
      /\ late' = late \ new
  BY <1>1, <1>2, Zenon DEF TrackerEnds
<1>4. running \cap finished = {} /\ waiters \cap finished = {}
  BY DEF Actions
<1>5. view.id \in new <=> view.id = i /\ i \notin finished
  BY <1>1
<1> QED
  BY <1>1, <1>2, <1>3, <1>4, <1>5 DEF FeedTypes

LEMMA ListReadTracks ==
  ASSUME TrackerBase, NEW n \in 1 .. MaxConns, ListRead(n)
  PROVE  TrackerBase'
<1> USE DEF TrackerBase
<1>1. /\ UNCHANGED <<status, latest, seq, link, conns, wire, gets, posts,
                     running, finished, waiters, view, late, unsynced>>
      /\ list[n].state = "asked"
  BY DEF ListRead, server, socket, tracker, screen
<1>2. PICK ids : ids = {i \in Ids : i = latest /\ status[i] = "running"}
  OBVIOUS
<1>3. list' = [list EXCEPT ![n] = [state |-> "read", ids |-> ids]]
  BY <1>2 DEF ListRead
<1>4. FeedTypes'
  <2>1. ids \subseteq Ids
    BY <1>2
  <2> QED
    BY <1>1, <1>3, <2>1 DEF FeedTypes
<1>5. Actions' /\ NotesTrue'
  <2>1. \A m \in 1 .. MaxConns : list'[m].state # "none" => list[m].state # "none"
    BY <1>1, <1>3 DEF FeedTypes
  <2> QED
    BY <1>1, <2>1, NotesOfSame DEF Actions, TrackerInv, Ended
<1>6. ASSUME link, ~unsynced PROVE Heard(list[conns])' /\ Told(list[conns])'
  <2>1. Heard(list[conns]) /\ Told(list[conns])
    BY <1>6 DEF TrackerInv
  <2>2. CASE conns # n
    <3>1. list'[conns'] = list[conns]
      BY <1>1, <1>3, <1>6, <2>2 DEF FeedTypes, Actions
    <3> QED
      BY <1>1, <2>1, <3>1 DEF Heard, Told, Ended
  <2>3. CASE conns = n
    <3>1. list'[conns'].state = "read" /\ list'[conns'].ids = ids
      BY <1>1, <1>3, <2>3 DEF FeedTypes
    <3>2. \A i \in Ids : i \in ids <=> status[i] = "running"
      BY <1>2 DEF Actions
    <3>3. Heard(list[conns])'
      BY <1>1, <3>1, <3>2 DEF Heard
    <3>4. \A i \in Ids : Ended(i) => i \notin ids
      BY <3>2 DEF Ended
    <3>5. Told(list[conns])'
      BY <1>1, <2>1, <3>1, <3>4 DEF Told, Ended
    <3> QED
      BY <3>3, <3>5
  <2> QED
    BY <2>2, <2>3
<1> QED
  BY <1>1, <1>4, <1>5, <1>6 DEF TrackerInv

LEMMA ListAnsweredTracks ==
  ASSUME TrackerBase, NEW n \in 1 .. MaxConns, ListAnswered(n)
  PROVE  TrackerBase'
<1> USE DEF TrackerBase
<1>1. PICK ids, new : ids = list[n].ids /\ new = ids \ (running \cup finished)
  OBVIOUS
<1>2. /\ UNCHANGED <<status, latest, seq, link, conns, wire, posts, finished, waiters, view, unsynced>>
      /\ list[n].state = "read" /\ running' = running \cup (ids \ finished)
      /\ gets' = gets \cup ((running \cup new \cup waiters) \ ids)
      /\ late' = IF n < conns THEN late \cup new ELSE late
      /\ list' = [list EXCEPT ![n] = NoList]
  BY <1>1 DEF ListAnswered, Began, server, socket, screen
<1>3. ids \subseteq Ids
  BY <1>1 DEF FeedTypes
<1>4. FeedTypes'
  BY <1>1, <1>2, <1>3 DEF FeedTypes, NoList
<1>5. Actions' /\ NotesTrue'
  <2>1. NotesTrue'
    BY <1>2, NotesOfSame DEF TrackerInv
  <2>2. \A m \in 1 .. MaxConns : list'[m].state # "none" => list[m].state # "none"
    BY <1>2 DEF FeedTypes, NoList
  <2> QED
    BY <1>2, <2>1, <2>2 DEF Actions, Ended
<1>6. ASSUME link, ~unsynced PROVE Heard(list[conns])' /\ Told(list[conns])'
  <2>1. Heard(list[conns]) /\ Told(list[conns]) /\ conns \in 1 .. MaxConns
    BY <1>6 DEF TrackerInv, Actions
  <2>2. CASE conns # n
    <3>1. list'[conns'] = list[conns]
      BY <1>2, <2>1, <2>2 DEF FeedTypes
    <3>2. new \subseteq late'
      BY <1>2, <2>1, <2>2 DEF Actions
    <3> QED
      BY <1>1, <1>2, <2>1, <3>1, <3>2 DEF Heard, Told, Ended
  <2>3. CASE conns = n
    <3>1. list'[conns'].state = "none"
      BY <1>2, <2>3 DEF FeedTypes, NoList
    <3>2. Heard(list[conns])'
      <4>1. ASSUME NEW i \in Ids, status[i] = "running", i \in ids PROVE i \in running'
        BY <1>2, <4>1 DEF Actions, Ended
      <4> QED
        BY <1>1, <1>2, <2>1, <2>3, <3>1, <4>1 DEF Heard
    <3>3. Told(list[conns])'
      BY <1>1, <1>2, <2>1, <2>3, <3>1 DEF Told, Ended, Actions
    <3> QED
      BY <3>2, <3>3
  <2> QED
    BY <2>2, <2>3
<1> QED
  BY <1>2, <1>4, <1>5, <1>6 DEF TrackerInv

LEMMA GetAnsweredTracks ==
  ASSUME TrackerBase, NEW i \in Ids, GetAnswered(i)
  PROVE  TrackerBase'
<1> USE DEF TrackerBase
<1>1. /\ UNCHANGED <<status, latest, seq, link, conns, wire, list, posts, unsynced>>
      /\ gets' = gets \ {i}
  BY DEF GetAnswered, server, socket
<1>2. CASE ~Ended(i)
  <2>1. UNCHANGED <<running, finished, waiters, view, late>>
    BY <1>2 DEF GetAnswered, tracker, screen
  <2>2. FeedTypes' /\ Actions' /\ NotesTrue'
    BY <1>1, <2>1, NotesOfSame DEF FeedTypes, Actions, TrackerInv, Ended
  <2>3. \A j \in Ids : Ended(j) => (j \in gets' <=> j \in gets)
    BY <1>1, <1>2
  <2>4. Heard(list[conns])' <=> Heard(list[conns])
    BY <1>1, <2>1 DEF Heard
  <2>5. Told(list[conns]) => Told(list[conns])'
    BY <1>1, <2>1, <2>3 DEF Told, Ended
  <2> QED
    BY <1>1, <2>2, <2>4, <2>5 DEF TrackerInv
<1>3. CASE Ended(i)
  <2>1. /\ finished' = finished \cup {i} /\ running' = running \ {i} /\ waiters' = waiters \ {i}
        /\ view' \in [id : Ids \cup {NoId}, text : Seq(Nat), next : Nat, done : BOOLEAN]
        /\ view'.id = view.id /\ late \ {i} \subseteq late'
    BY <1>3, EndIs DEF GetAnswered
  <2>2. FeedTypes'
    BY <1>1, <2>1 DEF FeedTypes
  <2>3. Actions' /\ NotesTrue'
    BY <1>1, <1>3, <2>1, NotesOfSame DEF Actions, TrackerInv, Ended
  <2>4. Heard(list[conns]) => Heard(list[conns])'
    BY <1>1, <1>3, <2>1 DEF Heard, Ended
  <2>5. Told(list[conns]) => Told(list[conns])'
    BY <1>1, <2>1 DEF Told, Ended
  <2> QED
    BY <1>1, <2>2, <2>3, <2>4, <2>5 DEF TrackerInv
<1> QED
  BY <1>2, <1>3

LEMMA PostAnsweredTracks ==
  ASSUME TrackerBase, NEW i \in Ids, NEW tracks \in BOOLEAN, PostAnswered(i, tracks)
  PROVE  TrackerBase'
<1> USE DEF TrackerBase
<1>1. /\ UNCHANGED <<status, latest, seq, link, conns, wire, list, gets, finished, view, unsynced>>
      /\ posts[i] # 0 /\ posts' = [posts EXCEPT ![i] = 0]
      /\ waiters' = waiters \cup ({i} \ finished)
      /\ running' = running \/ running' = running \cup ({i} \ finished)
      /\ late' = IF posts[i] < conns /\ i \notin finished THEN late \cup {i} ELSE late
  BY DEF PostAnswered, Began, server, socket, screen
<1>2. FeedTypes'
  BY <1>1 DEF FeedTypes
<1>3. \A j \in Ids : posts'[j] = IF j = i THEN 0 ELSE posts[j]
  BY <1>1 DEF FeedTypes
<1>4. Actions' /\ NotesTrue'
  <2>1. NotesTrue'
    BY <1>1, NotesOfSame DEF TrackerInv
  <2>2. conns \in Nat
    BY DEF FeedTypes
  <2> QED
    BY <1>1, <1>3, <2>1, <2>2 DEF Actions, Ended
<1>5. ASSUME link, ~unsynced PROVE Heard(list[conns])' /\ Told(list[conns])'
  <2>1. Heard(list[conns]) /\ Told(list[conns]) /\ conns \in 1 .. MaxConns
    BY <1>5 DEF TrackerInv, Actions
  <2>2. posts[i] <= conns /\ posts[i] \in Nat /\ conns \in Nat
    BY <2>1 DEF Actions, FeedTypes
  <2>3. Heard(list[conns])'
    BY <1>1, <2>1 DEF Heard
  <2>4. i \in finished \/ i \in late' \/ posts[i] = conns
    BY <1>1, <2>2
  <2>5. Told(list[conns])'
    BY <1>1, <1>3, <2>1, <2>4 DEF Told, Ended
  <2> QED
    BY <2>3, <2>5
<1> QED
  BY <1>1, <1>2, <1>4, <1>5 DEF TrackerInv

\* The chunks from a on, k of them, and the first k chunks
LEMMA SpanIs ==
  ASSUME NEW k \in Int, NEW a \in Nat
  PROVE  /\ [n \in 1 .. k |-> a + n - 1] \in Seq(Nat)
         /\ Len([n \in 1 .. k |-> a + n - 1]) = IF k < 0 THEN 0 ELSE k
         /\ \A m \in 1 .. k : [n \in 1 .. k |-> a + n - 1][m] = a + m - 1
<1>1. CASE k \in Nat
  <2>1. \A n \in 1 .. k : a + n - 1 \in Nat
    BY <1>1
  <2> QED
    BY <1>1, <2>1
<1>2. CASE k \notin Nat
  <2>1. 1 .. k = {} /\ 1 .. 0 = {} /\ k < 0
    BY <1>2
  <2>2. [n \in 1 .. k |-> a + n - 1] = [n \in 1 .. 0 |-> a + n - 1]
    BY <2>1
  <2>3. [n \in 1 .. 0 |-> a + n - 1] \in Seq(Nat) /\ Len([n \in 1 .. 0 |-> a + n - 1]) = 0
    OBVIOUS
  <2> QED
    BY <2>1, <2>2, <2>3
<1> QED
  BY <1>1, <1>2

LEMMA CountIs ==
  ASSUME NEW k \in Nat
  PROVE  /\ [n \in 1 .. k |-> n - 1] \in Seq(Nat) /\ Len([n \in 1 .. k |-> n - 1]) = k
         /\ \A m \in 1 .. k : [n \in 1 .. k |-> n - 1][m] = m - 1
<1>1. \A n \in 1 .. k : n - 1 \in Nat
  OBVIOUS
<1> QED
  BY <1>1

\* Show keeps the view a view.
LEMMA ShowTypes ==
  ASSUME FeedTypes, NEW e \in Message, e.kind = "output", Show(e)
  PROVE  view' \in [id : Ids \cup {NoId}, text : Seq(Nat), next : Nat, done : BOOLEAN] /\ view'.id = view.id
<1>1. CASE e.id # view.id
  BY <1>1 DEF Show, screen, FeedTypes
<1>2. CASE e.id = view.id
  <2> DEFINE next == IF e.reset THEN e.next ELSE view.next
             text == IF e.reset THEN [n \in 1 .. e.text |-> n - 1] ELSE view.text
             from == IF e.from < next THEN next ELSE e.from
             new == [n \in 1 .. e.to - from |-> from + n - 1]
             after == IF new = <<>> THEN next ELSE e.to
  <2>1. PICK done : done = (view.done \/ e.done)
    OBVIOUS
  <2>2. view' = [view EXCEPT !.text = text \o new, !.next = after, !.done = done]
    BY <1>2, <2>1, Zenon DEF Show
  <2>3. /\ e.reset \in BOOLEAN /\ e.text \in Nat /\ e.from \in Nat /\ e.to \in Nat /\ e.next \in Nat /\ e.done \in BOOLEAN
        /\ view.next \in Nat /\ view.text \in Seq(Nat) /\ view.done \in BOOLEAN
    BY FieldsOf DEF FeedTypes
  <2>4. next \in Nat /\ from \in Nat /\ after \in Nat /\ done \in BOOLEAN
    BY <2>1, <2>3
  <2>5. text \in Seq(Nat)
    BY <2>3, CountIs
  <2> HIDE DEF next, text, from
  <2>6. new \in Seq(Nat)
    <3>1. e.to - from \in Int
      BY <2>3, <2>4
    <3> QED
      BY <2>4, <3>1, SpanIs, Zenon
  <2>7. text \o new \in Seq(Nat)
    BY <2>5, <2>6
  <2> HIDE DEF new, after
  <2> QED
    BY <2>2, <2>4, <2>7 DEF FeedTypes
<1> QED
  BY <1>1, <1>2

LEMMA ReceiveTracks ==
  ASSUME TrackerBase, Receive
  PROVE  TrackerBase'
<1> USE DEF TrackerBase
<1>1. PICK e : e = Head(wire)
  OBVIOUS
<1>2. /\ UNCHANGED <<status, latest, seq, link, conns, list, gets, posts, unsynced>>
      /\ wire # <<>> /\ wire' = Tail(wire)
      /\ \/ e.kind = "started" /\ Began({e.id}) /\ UNCHANGED <<finished, waiters, screen, late>>
         \/ e.kind = "finished" /\ TrackerEnds({e.id}) /\ UNCHANGED <<skipped, remounted>>
         \/ e.kind = "output" /\ Show(e) /\ UNCHANGED <<tracker, late>>
  BY <1>1 DEF Receive, server, socket, rest
<1>3. /\ e \in Message /\ e = wire[1] /\ 1 \in 1 .. Len(wire) /\ e.id \in Ids
      /\ wire' \in Seq(Message) /\ wire \in Seq(Message)
  BY <1>1, <1>2, TailIs, MessageIs DEF FeedTypes
<1>4. NotesTrue'
  BY <1>2, <1>3, NotesInTail DEF TrackerInv
<1>5. \A k, j : Has(wire, k, j) <=> Has(wire', k, j) \/ (e.kind = k /\ e.id = j)
  BY <1>1, <1>2, <1>3, HasInTail
<1>6. CASE e.kind = "started"
  <2>1. running' = running \cup ({e.id} \ finished) /\ UNCHANGED <<finished, waiters, view, late>>
    BY <1>2, <1>6 DEF Began, screen
  <2>2. FeedTypes'
    BY <1>2, <1>3, <2>1 DEF FeedTypes
  <2>3. Actions'
    <3>1. link
      BY <1>2 DEF Actions
    <3> QED
      BY <1>2, <2>1, <3>1 DEF Actions, Ended
  <2>4. ASSUME Heard(list[conns]) PROVE Heard(list[conns])'
    <3>1. \A j \in Ids : status[j] = "running" => j \notin finished
      BY DEF Actions, Ended
    <3> QED
      BY <1>2, <1>5, <2>1, <2>4, <3>1 DEF Heard
  <2>5. ASSUME Told(list[conns]) PROVE Told(list[conns])'
    <3>1. Ended(e.id) => Has(wire, "finished", e.id)
      BY <1>3, <1>6 DEF TrackerInv, NotesTrue, Has
    <3>2. \A j \in Ids : Has(wire', "finished", j) <=> Has(wire, "finished", j)
      BY <1>5, <1>6
    <3> QED
      BY <1>2, <2>1, <2>5, <3>1, <3>2 DEF Told, Ended
  <2> QED
    BY <1>2, <1>4, <2>2, <2>3, <2>4, <2>5 DEF TrackerInv
<1>7. CASE e.kind = "finished"
  <2>1. /\ finished' = finished \cup {e.id} /\ running' = running \ {e.id} /\ waiters' = waiters \ {e.id}
        /\ view' \in [id : Ids \cup {NoId}, text : Seq(Nat), next : Nat, done : BOOLEAN]
        /\ view'.id = view.id /\ late \ {e.id} \subseteq late'
    BY <1>2, <1>3, <1>7, EndIs
  <2>2. /\ late' \subseteq late /\ Ended(e.id) /\ link
    BY <1>2, <1>3, <1>7 DEF TrackerEnds, TrackerInv, NotesTrue, Actions
  <2>3. FeedTypes'
    BY <1>2, <1>3, <2>1, <2>2 DEF FeedTypes
  <2>4. Actions'
    BY <1>2, <2>1, <2>2 DEF Actions, Ended
  <2>5. ASSUME Heard(list[conns]) PROVE Heard(list[conns])'
    BY <1>2, <1>5, <1>7, <2>1, <2>2, <2>5 DEF Heard, Ended
  <2>6. ASSUME Told(list[conns]) PROVE Told(list[conns])'
    BY <1>2, <1>5, <1>7, <2>1, <2>6 DEF Told, Ended
  <2> QED
    BY <1>2, <1>4, <2>3, <2>4, <2>5, <2>6 DEF TrackerInv
<1>8. CASE e.kind = "output"
  <2>1. /\ UNCHANGED <<running, finished, waiters, late>> /\ view'.id = view.id
        /\ view' \in [id : Ids \cup {NoId}, text : Seq(Nat), next : Nat, done : BOOLEAN]
    BY <1>2, <1>3, <1>8, ShowTypes DEF tracker
  <2>2. FeedTypes'
    BY <1>2, <1>3, <2>1 DEF FeedTypes
  <2>3. Actions'
    <3>1. link
      BY <1>2 DEF Actions
    <3> QED
      BY <1>2, <2>1, <3>1 DEF Actions, Ended
  <2>4. \A k \in {"started", "finished"}, j \in Ids : Has(wire', k, j) <=> Has(wire, k, j)
    BY <1>5, <1>8
  <2>5. Heard(list[conns]) /\ Told(list[conns]) => Heard(list[conns])' /\ Told(list[conns])'
    BY <1>2, <2>1, <2>4 DEF Heard, Told, Ended
  <2> QED
    BY <1>2, <1>4, <2>2, <2>3, <2>5 DEF TrackerInv
<1> QED
  BY <1>2, <1>6, <1>7, <1>8

LEMMA WatchTracks ==
  ASSUME TrackerBase, NEW i \in Ids, Watch(i)
  PROVE  TrackerBase'
<1> USE DEF TrackerBase
<1>1. /\ UNCHANGED <<status, latest, seq, link, conns, list, gets, posts,
                     running, finished, waiters, late, unsynced>>
      /\ i = latest \/ Ended(i)
      /\ view' = [NoView EXCEPT !.id = i]
      /\ IF link THEN Attach(i, 0) ELSE UNCHANGED wire
  BY DEF Watch, server, socket, rest, tracker
<1>2. PICK f \in BOOLEAN : f = FALSE
  OBVIOUS
<1>3. view' = [id |-> i, text |-> <<>>, next |-> 0, done |-> f]
  <2>1. NoView = [id |-> NoId, text |-> <<>>, next |-> 0, done |-> f]
    BY <1>2, Zenon DEF NoView
  <2> QED
    BY <1>1, <2>1
<1>4. /\ view' \in [id : Ids \cup {NoId}, text : Seq(Nat), next : Nat, done : BOOLEAN]
      /\ view'.id = i /\ status[i] # "none"
  <2>1. <<>> \in Seq(Nat)
    OBVIOUS
  <2>2. i # NoId /\ status[i] # "none"
    BY <1>1, StatusIs DEF Actions, Ended
  <2> QED
    BY <1>2, <1>3, <2>1, <2>2
<1>5. CASE link
  <2>1. PICK e \in Message : wire' = Append(wire, e) /\ e.kind = "output"
    BY <1>1, <1>5, AttachIs DEF Answers, IsOf
  <2> QED
    BY <1>1, <1>4, <1>5, <2>1, OutputTracks DEF FeedTypes
<1>6. CASE ~link
  <2>1. FeedTypes'
    BY <1>1, <1>4, <1>6 DEF FeedTypes
  <2>2. Actions' /\ NotesTrue'
    BY <1>1, <1>4, <1>6, NotesOfSame DEF Actions, TrackerInv, Ended
  <2> QED
    BY <1>1, <1>6, <2>1, <2>2 DEF TrackerInv
<1> QED
  BY <1>5, <1>6

LEMMA ConnectTracks ==
  ASSUME TrackerBase, Connect
  PROVE  TrackerBase'
<1> USE DEF TrackerBase
<1>1. /\ UNCHANGED <<status, latest, seq, gets, posts, running, finished, waiters, view>>
      /\ ~link /\ link' = TRUE /\ conns < MaxConns /\ conns' = conns + 1 /\ unsynced' = FALSE
      /\ list' = [list EXCEPT ![conns + 1] = [state |-> "asked", ids |-> {}]]
      /\ IF view.id = NoId THEN UNCHANGED wire ELSE Attach(view.id, view.next)
  BY DEF Connect, server, tracker, screen
<1>2. wire = <<>> /\ conns \in Nat /\ conns + 1 \in 1 .. MaxConns
  BY <1>1, FeedAssumption DEF Actions, FeedTypes, FeedAssumption
<1>3. \/ wire' = <<>>
      \/ \E e \in Message : wire' = Append(<<>>, e) /\ e.kind = "output"
  <2>1. CASE view.id = NoId
    BY <1>1, <1>2, <2>1
  <2>2. CASE view.id # NoId
    <3>1. view.id \in Ids /\ view.next \in Nat
      BY <2>2 DEF FeedTypes
    <3> QED
      BY <1>1, <1>2, <2>2, <3>1, AttachIs DEF Answers, IsOf
  <2> QED
    BY <2>1, <2>2
<1>4. wire' \in Seq(Message)
  BY <1>3, NoMessages, AppendIs
<1>5. list' \in [1 .. MaxConns -> [state : {"none", "asked", "read"}, ids : SUBSET Ids]]
      /\ list'[conns'].state = "asked"
      /\ \A n \in 1 .. MaxConns : n # conns + 1 => list'[n] = list[n]
  <2>1. {} \subseteq Ids
    OBVIOUS
  <2>2. [state |-> "asked", ids |-> {}] \in [state : {"none", "asked", "read"}, ids : SUBSET Ids]
    BY <2>1
  <2> QED
    BY <1>1, <1>2, <2>2 DEF FeedTypes
<1>6. FeedTypes'
  BY <1>1, <1>2, <1>4, <1>5 DEF FeedTypes
<1>7. Actions'
  <2>1. \A j \in Ids : posts[j] \in Nat
    BY DEF FeedTypes
  <2>2. \A n \in 1 .. MaxConns : list'[n].state # "none" => n <= conns'
    BY <1>1, <1>2, <1>5 DEF Actions
  <2> QED
    BY <1>1, <1>2, <2>1, <2>2 DEF Actions, Ended
<1>8. NotesTrue'
  <2>1. CASE wire' = <<>>
    BY <2>1, NoMessages DEF NotesTrue
  <2>2. CASE wire' # <<>>
    <3>1. PICK e \in Message : wire' = Append(<<>>, e) /\ e.kind = "output"
      BY <1>3, <2>2
    <3>2. Len(wire') = 1 /\ wire'[1] = e
      BY <3>1
    <3> QED
      BY <3>1, <3>2 DEF NotesTrue
  <2> QED
    BY <2>1, <2>2
<1>9. Heard(list[conns])'
  BY <1>5 DEF Heard
<1>10. Told(list[conns])'
  <2>1. \A j \in Ids : posts'[j] # conns'
    BY <1>1, <1>2 DEF Actions, FeedTypes
  <2> QED
    BY <1>5, <2>1 DEF Told
<1> QED
  BY <1>6, <1>7, <1>8, <1>9, <1>10 DEF TrackerInv

LEMMA DropTracks ==
  ASSUME TrackerBase, Drop
  PROVE  TrackerBase'
<1> USE DEF TrackerBase
<1>1. /\ UNCHANGED <<status, latest, seq, conns, list, gets, posts, running, finished, waiters, view>>
      /\ link' = FALSE /\ wire' = <<>>
  BY DEF Drop, Cut, server, rest, tracker, screen
<1>2. FeedTypes'
  BY <1>1, NoMessages DEF FeedTypes
<1>3. \A j \in Ids : /\ status'[j] = "running" => status[j] = "running" /\ latest' = j
                     /\ status[j] # "none" => status'[j] # "none"
                     /\ Ended(j) => Ended(j)'
                     /\ posts'[j] <= conns'
  BY <1>1 DEF Actions, Ended
<1>4. \A n \in 1 .. MaxConns : list'[n].state # "none" => n <= conns'
  BY <1>1 DEF Actions
<1> QED
  BY <1>1, <1>2, <1>3, <1>4, OfflineTracks

LEMMA RestFailsTracks ==
  ASSUME TrackerBase, RestFails
  PROVE  TrackerBase'
<1> USE DEF TrackerBase
<1>1. UNCHANGED <<status, latest, seq, link, conns, wire, posts, running, finished, waiters, view, late>>
  BY DEF RestFails, server, socket, tracker, screen
<1>2. CASE \E n \in 1 .. MaxConns :
             /\ list' = [list EXCEPT ![n] = NoList] /\ (unsynced' <=> unsynced \/ n = conns) /\ UNCHANGED gets
  <2>1. PICK n \in 1 .. MaxConns :
          /\ list' = [list EXCEPT ![n] = NoList] /\ (unsynced' <=> unsynced \/ n = conns) /\ UNCHANGED gets
    BY <1>2
  <2>2. FeedTypes'
    BY <1>1, <2>1 DEF FeedTypes, NoList
  <2>3. \A m \in 1 .. MaxConns : list'[m].state # "none" => list[m].state # "none"
    BY <2>1 DEF FeedTypes, NoList
  <2>4. Actions' /\ NotesTrue'
    BY <1>1, <2>3, NotesOfSame DEF Actions, TrackerInv, Ended
  <2>5. ASSUME link, ~unsynced' PROVE Heard(list[conns])' /\ Told(list[conns])'
    <3>1. list'[conns'] = list[conns]
      BY <1>1, <2>1, <2>5 DEF FeedTypes, Actions
    <3>2. Heard(list[conns]) /\ Told(list[conns])
      BY <2>1, <2>5 DEF TrackerInv
    <3> QED
      BY <1>1, <2>1, <3>1, <3>2 DEF Heard, Told, Ended
  <2> QED
    BY <1>1, <2>2, <2>4, <2>5 DEF TrackerInv
<1>3. CASE unsynced' = TRUE /\ gets' \subseteq gets /\ UNCHANGED list
  <2>1. FeedTypes'
    BY <1>1, <1>3 DEF FeedTypes
  <2>2. Actions' /\ NotesTrue'
    BY <1>1, <1>3, NotesOfSame DEF Actions, TrackerInv, Ended
  <2> QED
    BY <1>3, <2>1, <2>2 DEF TrackerInv
<1> QED
  BY <1>2, <1>3 DEF RestFails

LEMMA RestartTracks ==
  ASSUME TrackerBase, Restart
  PROVE  TrackerBase'
<1> USE DEF TrackerBase
<1>1. /\ UNCHANGED <<seq, conns, running, finished, waiters, view>>
      /\ status' = [i \in Ids |-> IF status[i] = "running" THEN "ended" ELSE status[i]]
      /\ latest' = NoId /\ link' = FALSE /\ wire' = <<>> /\ gets' = {} /\ posts' = [i \in Ids |-> 0]
      /\ list' = [n \in 1 .. MaxConns |-> IF list[n].state = "asked" THEN NoList ELSE list[n]]
  BY DEF Restart, Cut, tracker, screen
<1>2. FeedTypes'
  BY <1>1, NoMessages DEF FeedTypes, NoList
<1>3. \A j \in Ids : /\ status'[j] = "running" => status[j] = "running" /\ latest' = j
                     /\ status[j] # "none" => status'[j] # "none"
                     /\ Ended(j) => Ended(j)'
                     /\ posts'[j] <= conns'
  BY <1>1 DEF Ended, FeedTypes
<1>4. \A n \in 1 .. MaxConns : list'[n].state # "none" => n <= conns'
  BY <1>1 DEF Actions, NoList, FeedTypes
<1> QED
  BY <1>1, <1>2, <1>3, <1>4, OfflineTracks

-----------------------------------------------------------------------------
(* The output on its way *)

\* A message that is sound stays so, while its action only goes forward.
LEMMA SoundStays ==
  ASSUME FeedTypes, FeedTypes',
         \A j \in Ids : /\ status[j] # "none" => status'[j] # "none"
                        /\ status[j] # "none" /\ latest # j => latest' # j /\ seq'[j] = seq[j]
                        /\ Ended(j) => Ended(j)'
                        /\ seq[j] <= seq'[j]
  PROVE  \A e \in Message : e.kind = "output" /\ Sound(e) => Sound(e)'
<1> SUFFICES ASSUME NEW e \in Message, e.kind = "output", Sound(e) PROVE Sound(e)'
  OBVIOUS
<1>1. /\ e.id \in Ids /\ e.reset \in BOOLEAN /\ e.text \in Nat /\ e.from \in Nat /\ e.to \in Nat
      /\ e.next \in Nat /\ e.whole \in Nat /\ e.done \in BOOLEAN
  BY FieldsOf
<1>2. Reach(e) \in Nat /\ seq[e.id] \in Nat /\ seq'[e.id] \in Nat
  BY <1>1 DEF Reach, FeedTypes
<1>3. Reach(e) <= seq'[e.id]
  BY <1>1, <1>2 DEF Sound
<1>4. Ended(e.id) => Ended(e.id)'
  BY <1>1
<1>5. Closing(e) => latest' # e.id /\ e.whole = seq'[e.id]
  BY <1>1 DEF Sound
<1> QED
  BY <1>1, <1>3, <1>4, <1>5 DEF Sound

LEMMA MessagesAppended ==
  ASSUME wire \in Seq(Message), Messages, NEW e \in Message, wire' = Append(wire, e),
         \A x \in Message : x.kind = "output" /\ Sound(x) => Sound(x)',
         e.kind = "output" => Sound(e)'
  PROVE  Messages'
<1>1. /\ Len(wire') = Len(wire) + 1 /\ Len(wire) \in Nat
      /\ \A n \in 1 .. Len(wire) : wire'[n] = wire[n]
      /\ wire'[Len(wire) + 1] = e
  BY AppendIs
<1>2. ASSUME NEW n \in 1 .. Len(wire'), NEW x, x = wire'[n], x.kind = "output" PROVE Sound(x)'
  <2>1. CASE n = Len(wire) + 1
    BY <1>1, <1>2, <2>1
  <2>2. CASE n # Len(wire) + 1
    <3>1. n \in 1 .. Len(wire) /\ x = wire[n]
      BY <1>1, <1>2, <2>2
    <3>2. x \in Message /\ Sound(x)
      BY <1>2, <3>1 DEF Messages
    <3> QED
      BY <1>2, <3>2
  <2> QED
    BY <2>1, <2>2
<1> QED
  BY <1>2 DEF Messages, Sound, Ended

LEMMA MessagesInTail ==
  ASSUME wire \in Seq(Message), wire # <<>>, Messages, wire' = Tail(wire),
         UNCHANGED <<status, latest, seq>>
  PROVE  Messages'
<1>1. /\ Len(wire') = Len(wire) - 1 /\ Len(wire) \in Nat \ {0}
      /\ \A n \in 1 .. Len(wire) - 1 : wire'[n] = wire[n + 1]
  BY TailIs
<1>2. \A n \in 1 .. Len(wire') : n + 1 \in 1 .. Len(wire) /\ wire'[n] = wire[n + 1]
  BY <1>1
<1> QED
  BY <1>2 DEF Messages, Sound, Ended

LEMMA MessagesStay ==
  ASSUME wire \in Seq(Message), Messages, wire' = wire,
         \A x \in Message : x.kind = "output" /\ Sound(x) => Sound(x)'
  PROVE  Messages'
<1>1. ASSUME NEW n \in 1 .. Len(wire), NEW x, x = wire[n], x.kind = "output" PROVE Sound(x)'
  BY <1>1 DEF Messages
<1> QED
  BY <1>1 DEF Messages, Sound, Ended

\* Nothing about the output changes.
LEMMA OutputSame ==
  ASSUME OutputInv, UNCHANGED <<status, latest, seq, link, wire, finished, view, skipped, remounted>>
  PROVE  OutputInv'
<1>1. Messages'
  BY DEF OutputInv, Messages, Sound, Ended
<1>2. ViewSound' <=> ViewSound
  BY DEF ViewSound, Shown, Ended
<1>3. Continues' <=> Continues
  BY DEF Continues
<1>4. Ends' <=> Ends
  BY DEF Ends, Complete, Shown, Ended
<1> QED
  BY <1>1, <1>2, <1>3, <1>4 DEF OutputInv, ViewInv

\* The connection is lost, with all that is on its way.
LEMMA OutputCut ==
  ASSUME FeedTypes, OutputInv, wire' = <<>>, ~link', UNCHANGED <<seq, view, skipped, remounted>>,
         latest' = latest \/ latest' = NoId, \A j \in Ids : Ended(j) => Ended(j)'
  PROVE  OutputInv'
<1>1. Messages' /\ InOrder(wire)' /\ NoGaps(wire)'
  BY NoMessages DEF Messages, InOrder, NoGaps
<1>2. ASSUME view.id # NoId PROVE ViewSound' /\ Continues' /\ Ends'
  <2>1. ViewSound /\ Continues /\ view.id \in Ids
    BY <1>2 DEF OutputInv, ViewInv, FeedTypes
  <2>2. ViewSound'
    BY <2>1 DEF ViewSound, Shown
  <2>3. Continues'
    BY <1>2, <2>1, NoMessages DEF Continues
  <2> QED
    BY <2>2, <2>3 DEF Ends
<1> QED
  BY <1>1, <1>2 DEF OutputInv, ViewInv

\* A note goes its way beside the output.
LEMMA NoteShows ==
  ASSUME FeedTypes, FeedTypes', Actions, OutputInv, NEW e \in Message, e.kind # "output",
         wire' = IF link THEN Append(wire, e) ELSE wire,
         UNCHANGED <<seq, link, finished, view, skipped, remounted>>,
         \A j \in Ids : /\ status[j] # "none" => status'[j] # "none" /\ (latest # j => latest' # j)
                        /\ Ended(j) => Ended(j)'
                        /\ Ended(j)' => Ended(j) \/ (e.kind = "finished" /\ e.id = j /\ j \notin finished)
  PROVE  OutputInv'
<1>0. wire \in Seq(Message)
  BY DEF FeedTypes
<1>a. \A x \in Message : x.kind = "output" /\ Sound(x) => Sound(x)'
  <2>1. \A j \in Ids : seq[j] \in Nat
    BY DEF FeedTypes
  <2> QED
    BY <2>1, SoundStays
<1>1. CASE link
  <2>1. /\ wire' = Append(wire, e) /\ Len(wire') = Len(wire) + 1 /\ Len(wire) \in Nat
        /\ \A n \in 1 .. Len(wire) : wire'[n] = wire[n]
        /\ wire'[Len(wire) + 1] = e
    BY <1>0, <1>1, AppendIs
  <2>2. Messages' /\ InOrder(wire)' /\ NoGaps(wire)'
    BY <1>0, <1>a, <2>1, MessagesAppended, InOrderAppended, NoGapsAppended DEF OutputInv
  <2>3. ASSUME view.id # NoId PROVE ViewSound' /\ Continues' /\ Ends'
    <3>1. ViewSound /\ Continues /\ Ends /\ view.id \in Ids /\ status[view.id] # "none"
      BY <2>3 DEF OutputInv, ViewInv, FeedTypes, Actions
    <3>2. /\ latest # view.id => latest' # view.id
          /\ Ended(view.id) => Ended(view.id)'
          /\ Ended(view.id)' => Ended(view.id) \/ (e.kind = "finished" /\ e.id = view.id /\ view.id \notin finished)
      <4>1. PICK v : v = view.id
        OBVIOUS
      <4>2. /\ Ended(v) => Ended(v)'
            /\ Ended(v)' => Ended(v) \/ (e.kind = "finished" /\ e.id = v /\ v \notin finished)
            /\ latest # v => latest' # v
        BY <3>1, <4>1
      <4> QED
        BY <4>1, <4>2 DEF Ended
    <3>3. \A n \in 1 .. Len(wire') : IsOf(wire'[n], view.id) => n \in 1 .. Len(wire) /\ wire'[n] = wire[n]
      BY <2>1 DEF IsOf
    <3>4. ViewSound'
      BY <3>1, <3>2 DEF ViewSound, Shown
    <3>5. Continues'
      <4>1. ASSUME NEW n \in 1 .. Len(wire'), IsOf(wire'[n], view.id)
            PROVE  /\ Closing(wire'[n]) \/ view.next <= Reach(wire'[n])
                   /\ \/ remounted \/ wire'[n].reset \/ wire'[n].from <= view.next
                      \/ \E m \in 1 .. n - 1 : IsOf(wire'[m], view.id) /\ wire'[n].from <= Reach(wire'[m])
        <5>1. n \in 1 .. Len(wire) /\ wire'[n] = wire[n] /\ \A m \in 1 .. n - 1 : wire'[m] = wire[m]
          BY <2>1, <3>3, <4>1
        <5> QED
          BY <3>1, <4>1, <5>1 DEF Continues
      <4>2. \/ \A a \in 1 .. Len(view.text) : view.text[a] < view.next
            \/ latest' # view.id /\ \A n \in 1 .. Len(wire') : IsOf(wire'[n], view.id) => wire'[n].reset
        BY <3>1, <3>2, <3>3 DEF Continues
      <4> QED
        BY <4>1, <4>2 DEF Continues
    <3>6. Ends'
      <4>1. \/ \E n \in 1 .. Len(wire') : IsOf(wire'[n], view.id) /\ Brings(wire'[n], view, seq)
            \/ /\ \A n \in 1 .. Len(wire') : ~IsOf(wire'[n], view.id)
               /\ view.next = seq[view.id] \/ Complete'
        <5>1. CASE \E n \in 1 .. Len(wire) : IsOf(wire[n], view.id) /\ Brings(wire[n], view, seq)
          BY <2>1, <5>1
        <5>2. CASE /\ \A n \in 1 .. Len(wire) : ~IsOf(wire[n], view.id)
                   /\ view.next = seq[view.id] \/ Complete
          <6>1. Complete => Complete'
            BY <3>2 DEF Complete, Shown
          <6> QED
            BY <3>3, <5>2, <6>1
        <5> QED
          BY <1>1, <3>1, <5>1, <5>2 DEF Ends
      <4>2. Has(wire', e.kind, e.id) /\ (Has(wire, "finished", view.id) => Has(wire', "finished", view.id))
        BY <1>0, <2>1, HasAppended
      <4>3. Ended(view.id)' =>
              \/ view.done
              \/ \E n \in 1 .. Len(wire') : IsOf(wire'[n], view.id) /\ wire'[n].done
              \/ view.id \notin finished /\ Has(wire', "finished", view.id)
        <5>1. CASE Ended(view.id)
          BY <1>1, <2>1, <3>1, <4>2, <5>1 DEF Ends
        <5>2. CASE ~Ended(view.id)
          BY <3>2, <4>2, <5>2
        <5> QED
          BY <5>1, <5>2
      <4> QED
        BY <4>1, <4>3 DEF Ends
    <3> QED
      BY <3>4, <3>5, <3>6
  <2> QED
    BY <2>2, <2>3 DEF OutputInv, ViewInv
<1>2. CASE ~link
  <2>1. wire = <<>> /\ wire' = <<>>
    BY <1>2 DEF Actions
  <2>2. Messages' /\ InOrder(wire)' /\ NoGaps(wire)'
    BY <2>1, NoMessages DEF Messages, InOrder, NoGaps
  <2>3. ASSUME view.id # NoId PROVE ViewSound' /\ Continues' /\ Ends'
    <3>1. ViewSound /\ Continues /\ view.id \in Ids /\ status[view.id] # "none"
      BY <2>3 DEF OutputInv, ViewInv, FeedTypes, Actions
    <3>2. ViewSound'
      BY <3>1 DEF ViewSound, Shown, Ended
    <3>3. Continues'
      BY <2>1, <3>1, NoMessages DEF Continues
    <3> QED
      BY <1>2, <3>2, <3>3 DEF Ends
  <2> QED
    BY <2>2, <2>3 DEF OutputInv, ViewInv
<1> QED
  BY <1>1, <1>2

\* A live chunk continues what is on its way, or what is shown.
LEMMA FlushShows ==
  ASSUME FeedTypes, FeedTypes', Actions, OutputInv, NEW i \in Ids, Flush(i)
  PROVE  OutputInv'
<1>1. /\ latest = i /\ status[i] = "running" /\ seq' = [seq EXCEPT ![i] = @ + 1]
      /\ UNCHANGED <<status, latest, link, finished, view, skipped, remounted>>
  BY DEF Flush, socket, tracker, screen
<1>2. seq[i] \in Nat /\ \A j \in Ids : seq'[j] = IF j = i THEN seq[i] + 1 ELSE seq[j]
  BY <1>1 DEF FeedTypes
<1>3. wire \in Seq(Message) /\ \A j \in Ids : seq[j] \in Nat
  BY DEF FeedTypes
<1>4. \A x \in Message : x.kind = "output" /\ Sound(x) => Sound(x)'
  BY <1>1, <1>2, <1>3, SoundStays DEF Ended
<1>5. PICK e : e = Live(i, seq[i])
  OBVIOUS
<1>6. e \in Message /\ e.kind = "output" /\ e.id = i /\ ~e.reset /\ ~e.done /\ e.from = seq[i] /\ e.to = seq[i] + 1
  BY <1>2, <1>5, LiveIs
<1>7. Reach(e) = seq[i] + 1 /\ ~Closing(e)
  BY <1>6 DEF Reach, Closing
<1>8. CASE link /\ view.id = i
  <2>1. wire' = Append(wire, e)
    <3>1. Send(<<e>>)
      BY <1>5, <1>8, Zenon DEF Flush
    <3> QED
      BY <1>3, <1>6, <1>8, <3>1, SendIs
  <2>2. /\ Len(wire') = Len(wire) + 1 /\ Len(wire) \in Nat
        /\ \A n \in 1 .. Len(wire) : wire'[n] = wire[n]
        /\ wire'[Len(wire) + 1] = e
    BY <1>3, <1>6, <2>1, AppendIs
  <2>3. Messages'
    <3>1. Sound(e)'
      BY <1>1, <1>2, <1>6, <1>7 DEF Sound
    <3> QED
      BY <1>3, <1>4, <1>6, <2>1, <3>1, MessagesAppended DEF OutputInv
  <2>4. \A n \in 1 .. Len(wire) : IsOf(wire[n], i) =>
          ~Closing(wire[n]) /\ Reach(wire[n]) \in Nat /\ Reach(wire[n]) <= seq[i]
    <3>1. ASSUME NEW n \in 1 .. Len(wire), IsOf(wire[n], i)
          PROVE  ~Closing(wire[n]) /\ Reach(wire[n]) \in Nat /\ Reach(wire[n]) <= seq[i]
      <4>1. Sound(wire[n]) /\ wire[n] \in Message /\ wire[n].kind = "output" /\ wire[n].id = i
        BY <1>3, <3>1 DEF OutputInv, Messages, IsOf
      <4>2. Reach(wire[n]) \in Nat
        BY <4>1, FieldsOf DEF Reach
      <4> QED
        BY <1>1, <4>1, <4>2 DEF Sound
    <3> QED
      BY <3>1
  <2>5. InOrder(wire')
    BY <1>2, <1>3, <1>6, <1>7, <2>1, <2>4, InOrderAppended DEF OutputInv
  <2>6. view.id # NoId /\ ViewSound /\ Continues /\ Ends
    BY <1>8, StatusIs DEF OutputInv, ViewInv
  <2>7. \/ \E n \in 1 .. Len(wire) : IsOf(wire[n], i) /\ Reach(wire[n]) = seq[i]
        \/ (\A n \in 1 .. Len(wire) : ~IsOf(wire[n], i)) /\ view.next = seq[i]
    BY <1>1, <1>8, <2>4, <2>6 DEF Ends, Brings, Complete
  <2>8. NoGaps(wire')
    <3>1. ASSUME NEW m \in 1 .. Len(wire), IsOf(wire[m], i)
          PROVE  \E k \in m .. Len(wire) : IsOf(wire[k], i) /\ seq[i] <= Reach(wire[k])
      <4>1. PICK n \in 1 .. Len(wire) : IsOf(wire[n], i) /\ Reach(wire[n]) = seq[i]
        BY <2>7, <3>1
      <4>2. CASE m <= n
        BY <1>2, <2>2, <4>1, <4>2
      <4>3. CASE n < m
        <5>1. Reach(wire[n]) <= Reach(wire[m])
          BY <2>4, <3>1, <4>1, <4>3 DEF OutputInv, InOrder, IsOf
        <5> QED
          BY <2>2, <3>1, <4>1, <5>1
      <4> QED
        BY <2>2, <4>2, <4>3
    <3> QED
      BY <1>3, <1>6, <2>1, <3>1, NoGapsAppended DEF OutputInv
  <2>9. ViewSound'
    <3>1. view.next \in Nat
      BY DEF FeedTypes
    <3> QED
      BY <1>1, <1>2, <1>8, <2>6, <3>1 DEF ViewSound, Shown, Ended
  <2>10. Continues'
    <3>1. ASSUME NEW n \in 1 .. Len(wire'), IsOf(wire'[n], view.id)
          PROVE  /\ Closing(wire'[n]) \/ view.next <= Reach(wire'[n])
                 /\ \/ remounted \/ wire'[n].reset \/ wire'[n].from <= view.next
                    \/ \E m \in 1 .. n - 1 : IsOf(wire'[m], view.id) /\ wire'[n].from <= Reach(wire'[m])
      <4>1. CASE n \in 1 .. Len(wire)
        <5>1. wire'[n] = wire[n] /\ \A m \in 1 .. n - 1 : wire'[m] = wire[m]
          BY <2>2, <4>1
        <5> QED
          BY <2>6, <3>1, <4>1, <5>1 DEF Continues
      <4>2. CASE n = Len(wire) + 1
        <5>1. wire'[n] = e /\ view.next \in Nat /\ view.next <= seq[i]
          BY <1>8, <2>2, <2>6, <4>2 DEF ViewSound, FeedTypes
        <5>2. seq[i] <= view.next \/ \E m \in 1 .. n - 1 : IsOf(wire'[m], view.id) /\ seq[i] <= Reach(wire'[m])
          <6>1. 1 .. n - 1 = 1 .. Len(wire)
            BY <2>2, <4>2
          <6> QED
            BY <1>2, <1>8, <2>2, <2>7, <6>1
        <5> QED
          BY <1>2, <1>6, <1>7, <5>1, <5>2
      <4> QED
        BY <2>2, <4>1, <4>2
    <3>2. \A a \in 1 .. Len(view.text) : view.text[a] < view.next
      BY <1>1, <1>8, <2>6 DEF Continues
    <3> QED
      BY <1>1, <3>1, <3>2 DEF Continues
  <2>11. Ends'
    <3>1. Len(wire) + 1 \in 1 .. Len(wire') /\ IsOf(wire'[Len(wire) + 1], view.id)
      BY <1>6, <1>8, <2>2 DEF IsOf
    <3>2. Brings(e, view, seq')
      BY <1>2, <1>6, <1>7, <1>8 DEF Brings
    <3>3. status'[view'.id] # "ended"
      BY <1>1, <1>8
    <3> QED
      BY <1>1, <2>2, <3>1, <3>2, <3>3 DEF Ends, Ended
  <2> QED
    BY <2>3, <2>5, <2>8, <2>9, <2>10, <2>11 DEF OutputInv, ViewInv
<1>9. CASE ~(link /\ view.id = i)
  <2>1. wire' = wire
    <3>1. CASE ~link
      BY <3>1 DEF Flush, Send
    <3>2. CASE view.id # i
      <4>1. Send(<<>>)
        BY <3>2, Zenon DEF Flush
      <4> QED
        BY <1>3, <1>6, <4>1, SendIs
    <3> QED
      BY <1>9, <3>1, <3>2
  <2>2. Messages' /\ InOrder(wire)' /\ NoGaps(wire)'
    BY <1>3, <1>4, <2>1, MessagesStay DEF OutputInv
  <2>3. ASSUME view.id # NoId PROVE ViewSound' /\ Continues' /\ Ends'
    <3>1. ViewSound /\ Continues /\ Ends /\ view.id \in Ids /\ view.next \in Nat
      BY <2>3 DEF OutputInv, ViewInv, FeedTypes
    <3>2. seq[view.id] \in Nat /\ seq[view.id] <= seq'[view.id] /\ (link => seq'[view.id] = seq[view.id])
      BY <1>2, <1>3, <1>9, <3>1
    <3>3. ViewSound'
      BY <1>1, <3>1, <3>2 DEF ViewSound, Shown, Ended
    <3>4. Continues'
      BY <1>1, <2>1, <3>1 DEF Continues
    <3>5. Ends'
      <4>1. link => (Complete' <=> Complete)
        BY <1>1, <3>2 DEF Complete, Shown
      <4> QED
        BY <1>1, <2>1, <3>1, <3>2, <4>1 DEF Ends, Brings, Ended
    <3> QED
      BY <3>3, <3>4, <3>5
  <2> QED
    BY <1>1, <2>2, <2>3 DEF OutputInv, ViewInv
<1> QED
  BY <1>8, <1>9

\* An answer to action:attach is sound, comes after what is on its way, and brings a view that
\* stands at `from` where the action is.
LEMMA AnswerIs ==
  ASSUME FeedTypes, Actions, OutputInv, UNCHANGED <<status, latest, seq>>,
         NEW i \in Ids, NEW from \in Nat, NEW e \in Message, Answers(e, i, from), wire' = Append(wire, e),
         status[i] # "none", from <= seq[i], from = 0 \/ wire = <<>>
  PROVE  /\ Messages' /\ InOrder(wire)' /\ NoGaps(wire)'
         /\ Closing(e) \/ (Reach(e) = seq[i] /\ (e.reset \/ e.from < e.to \/ e.to <= from))
         /\ e.reset \/ (e.from = from /\ latest = i)
         /\ Ended(i) => e.done
<1>1. wire \in Seq(Message) /\ seq[i] \in Nat
  BY DEF FeedTypes
<1>2. /\ e.kind = "output" /\ e.id = i
      /\ e.reset \in BOOLEAN /\ e.text \in Nat /\ e.from \in Nat /\ e.to \in Nat
      /\ e.next \in Nat /\ e.whole \in Nat /\ e.done \in BOOLEAN
  BY FieldsOf DEF Answers, IsOf
<1>3. latest # i => Ended(i)
  BY DEF Actions, Ended, FeedTypes
<1>4. Sound(e)
  BY <1>1, <1>2, <1>3 DEF Sound, Answers, Reach, Closing
<1>5. latest # i => Closing(e)
  BY <1>2 DEF Answers, Closing
<1>6. Closing(e) \/ (Reach(e) = seq[i] /\ (e.reset \/ e.from < e.to \/ e.to <= from))
  BY <1>1, <1>2 DEF Answers, Closing, Reach
<1>7. Messages'
  <2>1. Sound(e)'
    BY <1>4 DEF Sound, Ended
  <2>2. \A x \in Message : x.kind = "output" /\ Sound(x) => Sound(x)'
    BY DEF Sound, Ended
  <2> QED
    BY <1>1, <2>1, <2>2, MessagesAppended DEF OutputInv
<1>8. InOrder(wire)'
  <2>1. ASSUME NEW m \in 1 .. Len(wire), IsOf(wire[m], i), ~Closing(e)
        PROVE  ~Closing(wire[m]) /\ Reach(wire[m]) <= Reach(e)
    <3>1. Sound(wire[m]) /\ wire[m].id = i
      BY <2>1 DEF OutputInv, Messages, IsOf
    <3> QED
      BY <1>5, <1>6, <2>1, <3>1 DEF Sound
  <2> QED
    BY <1>1, <1>2, <2>1, InOrderAppended DEF OutputInv
<1>9. NoGaps(wire)'
  <2>1. ~e.reset => e.from = 0 \/ wire = <<>>
    BY DEF Answers
  <2> QED
    BY <1>1, <2>1, NoMessages, NoGapsAppended DEF OutputInv
<1> QED
  BY <1>2, <1>3, <1>5, <1>6, <1>7, <1>8, <1>9 DEF Answers, Closing

LEMMA WatchShows ==
  ASSUME FeedTypes, FeedTypes', Actions, OutputInv, NEW i \in Ids, Watch(i)
  PROVE  OutputInv'
<1>1. /\ UNCHANGED <<status, latest, seq, link, finished>>
      /\ i = latest \/ Ended(i)
      /\ view' = [NoView EXCEPT !.id = i]
      /\ remounted' <=> \E n \in DOMAIN wire : wire[n].kind = "output" /\ wire[n].id = i
      /\ IF link THEN Attach(i, 0) ELSE UNCHANGED wire
  BY DEF Watch, server, socket, tracker
<1>2. wire \in Seq(Message) /\ seq[i] \in Nat /\ status[i] # "none" /\ i # NoId
  BY <1>1, StatusIs DEF FeedTypes, Actions, Ended
<1>3. view'.id = i /\ view'.text = <<>> /\ view'.next = 0 /\ (view'.done <=> FALSE)
  <2>1. PICK f \in BOOLEAN : f = FALSE
    OBVIOUS
  <2>2. NoView = [id |-> NoId, text |-> <<>>, next |-> 0, done |-> f]
    BY <2>1, Zenon DEF NoView
  <2> QED
    BY <1>1, <2>1, <2>2
<1>4. ViewSound'
  BY <1>1, <1>2, <1>3 DEF ViewSound
<1>5. CASE link
  <2>1. PICK e \in Message : wire' = Append(wire, e) /\ Answers(e, i, 0)
    BY <1>1, <1>5, AttachIs
  <2>2. /\ Messages' /\ InOrder(wire)' /\ NoGaps(wire)'
        /\ Closing(e) \/ (Reach(e) = seq[i] /\ (e.reset \/ e.from < e.to \/ e.to <= 0))
        /\ e.reset \/ (e.from = 0 /\ latest = i)
        /\ Ended(i) => e.done
    BY <1>1, <1>2, <2>1, AnswerIs
  <2>3. /\ Len(wire') = Len(wire) + 1 /\ Len(wire) \in Nat
        /\ \A n \in 1 .. Len(wire) : wire'[n] = wire[n]
        /\ wire'[Len(wire) + 1] = e
    BY <1>2, <2>1, AppendIs
  <2>4. IsOf(e, i)
    BY <2>1 DEF Answers
  <2>5. Continues'
    <3>1. ASSUME NEW n \in 1 .. Len(wire'), IsOf(wire'[n], i)
          PROVE  /\ Closing(wire'[n]) \/ 0 <= Reach(wire'[n])
                 /\ remounted' \/ wire'[n].reset \/ wire'[n].from <= 0
      <4>1. wire'[n] \in Message /\ wire'[n].kind = "output"
        BY <3>1 DEF FeedTypes, IsOf
      <4>2. Reach(wire'[n]) \in Nat
        BY <4>1, FieldsOf DEF Reach
      <4>3. CASE n \in 1 .. Len(wire)
        <5>1. remounted'
          BY <1>1, <1>2, <2>3, <3>1, <4>3 DEF IsOf
        <5> QED
          BY <4>2, <5>1
      <4>4. CASE n = Len(wire) + 1
        BY <2>2, <2>3, <4>2, <4>4
      <4> QED
        BY <2>3, <4>3, <4>4
    <3>2. Len(<<>>) = 0
      OBVIOUS
    <3> QED
      BY <1>3, <3>1, <3>2 DEF Continues
  <2>6. Ends'
    <3>1. Len(wire) + 1 \in 1 .. Len(wire')
      BY <2>3
    <3>2. Brings(e, view', seq')
      BY <1>1, <1>3, <2>2 DEF Brings
    <3> QED
      BY <1>1, <1>3, <2>2, <2>3, <2>4, <3>1, <3>2 DEF Ends, Ended
  <2> QED
    BY <1>4, <2>2, <2>5, <2>6 DEF OutputInv, ViewInv
<1>6. CASE ~link
  <2>1. wire' = wire /\ wire = <<>>
    BY <1>1, <1>6 DEF Actions
  <2>2. Messages' /\ InOrder(wire)' /\ NoGaps(wire)'
    BY <2>1, NoMessages DEF Messages, InOrder, NoGaps
  <2>3. Continues' /\ Ends'
    BY <1>1, <1>3, <1>6, <2>1, NoMessages DEF Continues, Ends
  <2> QED
    BY <1>4, <2>2, <2>3 DEF OutputInv, ViewInv
<1> QED
  BY <1>5, <1>6

LEMMA ConnectShows ==
  ASSUME FeedTypes, FeedTypes', Actions, OutputInv, Connect
  PROVE  OutputInv'
<1>1. /\ UNCHANGED <<status, latest, seq, finished, view, skipped, remounted>> /\ ~link
      /\ IF view.id = NoId THEN UNCHANGED wire ELSE Attach(view.id, view.next)
  BY DEF Connect, server, tracker, screen
<1>2. wire = <<>> /\ wire \in Seq(Message)
  BY <1>1 DEF Actions, FeedTypes
<1>3. CASE view.id = NoId
  BY <1>1, <1>2, <1>3, NoMessages DEF OutputInv, ViewInv, Messages, InOrder, NoGaps
<1>4. CASE view.id # NoId
  <2>1. /\ view.id \in Ids /\ view.next \in Nat /\ seq[view.id] \in Nat /\ status[view.id] # "none"
        /\ ViewSound /\ Continues
    BY <1>4 DEF FeedTypes, Actions, OutputInv, ViewInv
  <2>2. PICK e \in Message : wire' = Append(wire, e) /\ Answers(e, view.id, view.next)
    BY <1>1, <1>4, <2>1, AttachIs
  <2>3. view.next <= seq[view.id]
    BY <2>1 DEF ViewSound
  <2>4. /\ Messages' /\ InOrder(wire)' /\ NoGaps(wire)'
        /\ Closing(e) \/ (Reach(e) = seq[view.id] /\ (e.reset \/ e.from < e.to \/ e.to <= view.next))
        /\ e.reset \/ (e.from = view.next /\ latest = view.id)
        /\ Ended(view.id) => e.done
    BY <1>1, <1>2, <2>1, <2>2, <2>3, AnswerIs
  <2>5. Len(wire') = 1 /\ wire'[1] = e /\ IsOf(e, view.id)
    BY <1>2, <2>2 DEF Answers
  <2>6. ViewSound'
    BY <1>1, <2>1 DEF ViewSound, Shown, Ended
  <2>7. Continues'
    BY <1>1, <2>1, <2>3, <2>4, <2>5 DEF Continues
  <2>8. Ends'
    BY <1>1, <2>4, <2>5 DEF Ends, Brings, Ended
  <2> QED
    BY <1>1, <2>4, <2>6, <2>7, <2>8 DEF OutputInv, ViewInv
<1> QED
  BY <1>3, <1>4

\* A message that is not for the view is taken, or none is: what is on its way still brings the
\* view where its action is, if the end of the action is not lost.
LEMMA ViewStays ==
  ASSUME FeedTypes, OutputInv, UNCHANGED <<status, latest, seq, link, skipped, remounted>>,
         view'.id = view.id, view'.text = view.text, view'.next = view.next,
         view.done => view'.done, view'.done => view.done \/ Ended(view.id),
         \/ wire' = wire
         \/ wire # <<>> /\ wire' = Tail(wire) /\ ~IsOf(Head(wire), view.id),
         view.id \notin finished /\ Has(wire, "finished", view.id) =>
           view'.done \/ (view.id \notin finished' /\ Has(wire', "finished", view.id))
  PROVE  OutputInv'
<1>1. wire \in Seq(Message)
  BY DEF FeedTypes
<1>2. Messages' /\ InOrder(wire)' /\ NoGaps(wire)'
  <2>1. CASE wire' = wire
    BY <2>1 DEF OutputInv, Messages, Sound, Ended
  <2>2. CASE wire # <<>> /\ wire' = Tail(wire)
    BY <1>1, <2>2, MessagesInTail, InOrderInTail, NoGapsInTail DEF OutputInv
  <2> QED
    BY <2>1, <2>2
<1>3. ASSUME view.id # NoId PROVE ViewSound' /\ Continues' /\ Ends'
  <2>1. ViewSound /\ Continues /\ Ends
    BY <1>3 DEF OutputInv, ViewInv
  <2>2. ViewSound'
    BY <2>1 DEF ViewSound, Shown, Ended
  <2>3. Complete' <=> Complete
    BY DEF Complete, Shown
  <2>4. ASSUME NEW e PROVE Brings(e, view', seq') <=> Brings(e, view, seq)
    BY DEF Brings
  <2>5. CASE wire' = wire
    <3>1. Continues'
      BY <2>1, <2>5 DEF Continues
    <3>2. Ends'
      BY <2>1, <2>3, <2>4, <2>5 DEF Ends, Ended
    <3> QED
      BY <2>2, <3>1, <3>2
  <2>6. CASE wire # <<>> /\ wire' = Tail(wire) /\ ~IsOf(Head(wire), view.id)
    <3>1. /\ Len(wire') = Len(wire) - 1 /\ Len(wire) \in Nat \ {0}
          /\ \A n \in 1 .. Len(wire') : n + 1 \in 1 .. Len(wire) /\ wire'[n] = wire[n + 1]
          /\ ~IsOf(wire[1], view.id)
      BY <1>1, <2>6, TailIs
    <3>2. ASSUME NEW n \in 1 .. Len(wire), IsOf(wire[n], view.id)
          PROVE  n # 1 /\ n - 1 \in 1 .. Len(wire') /\ wire'[n - 1] = wire[n]
      BY <3>1, <3>2
    <3>3. Continues'
      <4>1. ASSUME NEW n \in 1 .. Len(wire'), IsOf(wire'[n], view.id)
            PROVE  /\ Closing(wire'[n]) \/ view.next <= Reach(wire'[n])
                   /\ \/ remounted \/ wire'[n].reset \/ wire'[n].from <= view.next
                      \/ \E m \in 1 .. n - 1 : IsOf(wire'[m], view.id) /\ wire'[n].from <= Reach(wire'[m])
        <5>1. n + 1 \in 1 .. Len(wire) /\ wire'[n] = wire[n + 1]
          BY <3>1
        <5>2. ASSUME NEW m \in 1 .. (n + 1) - 1, IsOf(wire[m], view.id), wire'[n].from <= Reach(wire[m])
              PROVE  \E k \in 1 .. n - 1 : IsOf(wire'[k], view.id) /\ wire'[n].from <= Reach(wire'[k])
          <6>1. m \in 1 .. Len(wire)
            BY <3>1
          <6>2. m # 1 /\ m - 1 \in 1 .. n - 1 /\ wire'[m - 1] = wire[m]
            BY <3>2, <5>2, <6>1
          <6> QED
            BY <5>2, <6>2
        <5> QED
          BY <2>1, <4>1, <5>1, <5>2 DEF Continues
      <4>2. \/ \A a \in 1 .. Len(view.text) : view.text[a] < view.next
            \/ latest # view.id /\ \A n \in 1 .. Len(wire') : IsOf(wire'[n], view.id) => wire'[n].reset
        BY <2>1, <3>1 DEF Continues
      <4> QED
        BY <4>1, <4>2 DEF Continues
    <3>4. Ends'
      <4> SUFFICES ASSUME link
                   PROVE  /\ \/ \E n \in 1 .. Len(wire') : IsOf(wire'[n], view.id) /\ Brings(wire'[n], view, seq)
                             \/ /\ \A n \in 1 .. Len(wire') : ~IsOf(wire'[n], view.id)
                                /\ view.next = seq[view.id] \/ Complete
                          /\ Ended(view.id) =>
                               \/ view'.done
                               \/ \E n \in 1 .. Len(wire') : IsOf(wire'[n], view.id) /\ wire'[n].done
                               \/ view.id \notin finished' /\ Has(wire', "finished", view.id)
        BY <2>3, <2>4 DEF Ends, Ended
      <4>1. ASSUME \E n \in 1 .. Len(wire) : IsOf(wire[n], view.id) /\ Brings(wire[n], view, seq)
            PROVE  \E n \in 1 .. Len(wire') : IsOf(wire'[n], view.id) /\ Brings(wire'[n], view, seq)
        BY <3>2, <4>1
      <4>2. ASSUME \A n \in 1 .. Len(wire) : ~IsOf(wire[n], view.id)
            PROVE  \A n \in 1 .. Len(wire') : ~IsOf(wire'[n], view.id)
        BY <3>1, <4>2
      <4>3. ASSUME Ended(view.id)
            PROVE  \/ view'.done
                   \/ \E n \in 1 .. Len(wire') : IsOf(wire'[n], view.id) /\ wire'[n].done
                   \/ view.id \notin finished' /\ Has(wire', "finished", view.id)
        BY <2>1, <3>2, <4>3 DEF Ends
      <4> QED
        BY <2>1, <4>1, <4>2, <4>3 DEF Ends
    <3> QED
      BY <2>2, <3>3, <3>4
  <2> QED
    BY <2>5, <2>6
<1> QED
  BY <1>2, <1>3 DEF OutputInv, ViewInv

LEMMA GetAnsweredShows ==
  ASSUME FeedTypes, Actions, OutputInv, NEW i \in Ids, GetAnswered(i)
  PROVE  OutputInv'
<1>1. UNCHANGED <<status, latest, seq, link, wire>>
  BY DEF GetAnswered, server, socket
<1>2. CASE Ended(i)
  <2>1. TrackerEnds({i}) /\ UNCHANGED <<skipped, remounted>>
    BY <1>2 DEF GetAnswered
  <2>2. /\ finished' = finished \cup {i}
        /\ view'.id = view.id /\ view'.text = view.text /\ view'.next = view.next
        /\ view'.done <=> view.done \/ (view.id = i /\ i \notin finished)
    BY <2>1, EndIs
  <2> QED
    BY <1>1, <1>2, <2>1, <2>2, ViewStays
<1>3. CASE ~Ended(i)
  BY <1>1, <1>3, OutputSame DEF GetAnswered, tracker, screen
<1> QED
  BY <1>2, <1>3

\* The view takes message e: what is left on its way continues what it now shows.
LEMMA HeadTaken ==
  ASSUME FeedTypes, FeedTypes', OutputInv, UNCHANGED <<status, latest, seq, link, finished>>,
         wire # <<>>, wire' = Tail(wire), NEW e, e = Head(wire), IsOf(e, view.id),
         view'.id = view.id, view'.next <= Reach(e), remounted' \/ view'.next = Reach(e),
         e.reset => view'.next = Reach(e) /\ ~remounted',
         ~e.reset => view.next <= view'.next /\ (remounted' <=> remounted),
         Brings(e, view, seq) => Closing(e) \/ view'.next = seq[view.id],
         Closing(e) => Complete',
         ~Closing(e) => \A a \in 1 .. Len(view'.text) : view'.text[a] < view'.next,
         view.done \/ e.done => view'.done, ViewSound'
  PROVE  OutputInv'
<1>1. wire \in Seq(Message)
  BY DEF FeedTypes
<1>2. /\ Len(wire') = Len(wire) - 1 /\ Len(wire) \in Nat \ {0}
      /\ \A n \in 1 .. Len(wire') : n + 1 \in 1 .. Len(wire) /\ wire'[n] = wire[n + 1]
      /\ e = wire[1] /\ e \in Message /\ e.kind = "output" /\ e.id = view.id
      /\ 1 \in 1 .. Len(wire)
  BY <1>1, TailIs DEF IsOf
<1>3. Messages' /\ InOrder(wire)' /\ NoGaps(wire)'
  BY <1>1, MessagesInTail, InOrderInTail, NoGapsInTail DEF OutputInv
<1>4. CASE view.id = NoId
  BY <1>3, <1>4 DEF OutputInv, ViewInv
<1>5. CASE view.id # NoId
  <2>1. ViewSound /\ Continues /\ Ends /\ Sound(e) /\ e.reset \in BOOLEAN
    BY <1>2, <1>5, FieldsOf DEF OutputInv, ViewInv, Messages
  <2>2. /\ view.next \in Nat /\ view'.next \in Nat /\ seq[view.id] \in Nat /\ Reach(e) \in Nat
        /\ Reach(e) <= seq[view.id] /\ view'.next <= seq[view.id]
    <3>1. Reach(e) \in Nat
      BY <1>2, FieldsOf DEF Reach
    <3> QED
      BY <1>2, <1>5, <2>1, <3>1 DEF FeedTypes, Sound
  <2>3. ASSUME NEW n \in 1 .. Len(wire'), IsOf(wire'[n], view.id)
        PROVE  /\ Closing(wire'[n]) \/ (~Closing(e) /\ Reach(e) <= Reach(wire'[n]))
               /\ Reach(wire'[n]) \in Nat /\ Reach(wire'[n]) <= seq[view.id] /\ wire'[n].reset \in BOOLEAN
               /\ wire'[n].from \in Nat /\ wire'[n].to \in Nat
    <3>1. n + 1 \in 1 .. Len(wire) /\ wire'[n] = wire[n + 1] /\ 1 < n + 1
      BY <1>2
    <3>2. wire[n + 1] \in Message /\ wire[n + 1].kind = "output" /\ wire[n + 1].id = view.id
      BY <1>1, <2>3, <3>1 DEF IsOf
    <3>3. Sound(wire[n + 1])
      BY <3>1, <3>2 DEF OutputInv, Messages
    <3>4. Closing(wire'[n]) \/ (~Closing(e) /\ Reach(e) <= Reach(wire'[n]))
      BY <1>2, <3>1, <3>2 DEF OutputInv, InOrder, IsOf
    <3> QED
      BY <3>1, <3>2, <3>3, <3>4, FieldsOf DEF Sound, Reach
  <2>4. Continues'
    <3>1. ASSUME NEW n \in 1 .. Len(wire'), IsOf(wire'[n], view.id), ~remounted', ~wire'[n].reset,
                 ~(wire'[n].from <= view'.next)
          PROVE  \E k \in 1 .. n - 1 : IsOf(wire'[k], view.id) /\ wire'[n].from <= Reach(wire'[k])
      <4>1. n + 1 \in 1 .. Len(wire) /\ wire'[n] = wire[n + 1] /\ 1 < n + 1 /\ wire'[n].id = view.id
            /\ wire'[n].kind = "output"
        BY <1>2, <3>1 DEF IsOf
      <4>2. \E k \in 1 .. (n + 1) - 1 : IsOf(wire[k], view.id) /\ wire'[n].from <= Reach(wire[k])
        <5>1. CASE e.reset
          <6>1. wire'[n].from # 0
            BY <2>2, <3>1
          <6> QED
            BY <1>2, <3>1, <4>1, <5>1, <6>1 DEF OutputInv, NoGaps
        <5>2. CASE ~e.reset
          <6>1. ~(wire'[n].from <= view.next)
            BY <2>2, <2>3, <3>1, <5>2
          <6> QED
            BY <2>1, <3>1, <4>1, <5>2, <6>1 DEF Continues
        <5> QED
          BY <5>1, <5>2
      <4>3. PICK k \in 1 .. (n + 1) - 1 : IsOf(wire[k], view.id) /\ wire'[n].from <= Reach(wire[k])
        BY <4>2
      <4>4. k # 1
        BY <1>2, <3>1, <4>3
      <4>5. k - 1 \in 1 .. n - 1 /\ wire'[k - 1] = wire[k]
        BY <1>2, <4>1, <4>4
      <4> QED
        BY <4>3, <4>5
    <3>2. ASSUME NEW n \in 1 .. Len(wire'), IsOf(wire'[n], view.id)
          PROVE  Closing(wire'[n]) \/ view'.next <= Reach(wire'[n])
      BY <2>2, <2>3, <3>2
    <3>3. \/ \A a \in 1 .. Len(view'.text) : view'.text[a] < view'.next
          \/ latest # view.id /\ \A n \in 1 .. Len(wire') : IsOf(wire'[n], view.id) => wire'[n].reset
      BY <2>3 DEF Complete, Closing
    <3> QED
      BY <3>1, <3>2, <3>3 DEF Continues
  <2>5. ASSUME link
        PROVE  \/ \E n \in 1 .. Len(wire') : IsOf(wire'[n], view.id) /\ Brings(wire'[n], view', seq)
               \/ /\ \A n \in 1 .. Len(wire') : ~IsOf(wire'[n], view.id)
                  /\ view'.next = seq[view.id] \/ Complete'
    <3>1. PICK n \in 1 .. Len(wire) : IsOf(wire[n], view.id) /\ Brings(wire[n], view, seq)
      BY <1>2, <2>1, <2>5 DEF Ends
    <3>2. CASE n = 1
      <4>1. CASE \A k \in 1 .. Len(wire') : ~IsOf(wire'[k], view.id)
        BY <1>2, <3>1, <3>2, <4>1
      <4>2. ASSUME NEW k \in 1 .. Len(wire'), IsOf(wire'[k], view.id)
            PROVE  Brings(wire'[k], view', seq)
        <5>1. CASE Closing(wire'[k])
          BY <5>1 DEF Brings
        <5>2. CASE ~Closing(wire'[k])
          <6>1. ~Closing(e) /\ view'.next = seq[view.id]
            BY <1>2, <2>3, <3>1, <3>2, <4>2, <5>2
          <6>2. Reach(wire'[k]) = seq[view.id]
            BY <2>2, <2>3, <4>2, <5>2, <6>1
          <6>3. wire'[k].reset \/ wire'[k].to <= view'.next
            BY <2>2, <2>3, <4>2, <6>1, <6>2 DEF Reach
          <6> QED
            BY <6>2, <6>3 DEF Brings
        <5> QED
          BY <5>1, <5>2
      <4> QED
        BY <4>1, <4>2
    <3>3. CASE n # 1
      <4>1. n - 1 \in 1 .. Len(wire') /\ wire'[n - 1] = wire[n]
        BY <1>2, <3>3
      <4>2. Brings(wire[n], view', seq)
        <5>1. CASE Closing(wire[n])
          BY <5>1 DEF Brings
        <5>2. CASE ~Closing(wire[n]) /\ (wire[n].reset \/ wire[n].from < wire[n].to)
          BY <3>1, <5>2 DEF Brings
        <5>3. CASE ~Closing(wire[n]) /\ ~wire[n].reset /\ wire[n].to <= view.next
          <6>1. Reach(wire[n]) = seq[view.id] /\ wire[n].to = seq[view.id]
            BY <3>1, <5>3 DEF Brings, Reach
          <6>2. ~Closing(e)
            BY <2>3, <3>1, <4>1, <5>3
          <6>3. view.next <= Reach(e)
            BY <1>2, <2>1, <6>2 DEF Continues
          <6>4. view'.next = seq[view.id]
            <7>1. view.next = seq[view.id]
              BY <2>2, <5>3, <6>1, <6>3
            <7>2. view'.next = Reach(e) \/ view.next <= view'.next
              BY <2>1
            <7> QED
              BY <2>2, <6>3, <7>1, <7>2
          <6> QED
            BY <2>2, <6>1, <6>4 DEF Brings
        <5> QED
          BY <3>1, <5>1, <5>2, <5>3 DEF Brings
      <4> QED
        BY <3>1, <4>1, <4>2
    <3> QED
      BY <3>2, <3>3
  <2>6. ASSUME link, Ended(view.id)
        PROVE  \/ view'.done
               \/ \E n \in 1 .. Len(wire') : IsOf(wire'[n], view.id) /\ wire'[n].done
               \/ view.id \notin finished' /\ Has(wire', "finished", view.id)
    <3>1. CASE view.done
      BY <3>1
    <3>2. CASE \E n \in 1 .. Len(wire) : IsOf(wire[n], view.id) /\ wire[n].done
      <4>1. PICK n \in 1 .. Len(wire) : IsOf(wire[n], view.id) /\ wire[n].done
        BY <3>2
      <4>2. CASE n = 1
        BY <1>2, <4>1, <4>2
      <4>3. CASE n # 1
        <5>1. n - 1 \in 1 .. Len(wire') /\ wire'[n - 1] = wire[n]
          BY <1>2, <4>3
        <5> QED
          BY <4>1, <5>1
      <4> QED
        BY <4>2, <4>3
    <3>3. CASE view.id \notin finished /\ Has(wire, "finished", view.id)
      BY <1>1, <1>2, <3>3, HasInTail
    <3> QED
      BY <2>1, <2>6, <3>1, <3>2, <3>3 DEF Ends
  <2>7. Ends'
    BY <2>5, <2>6 DEF Ends, Ended
  <2> QED
    BY <1>3, <2>4, <2>7 DEF OutputInv, ViewInv
<1> QED
  BY <1>4, <1>5

\* A reset of the view: the chunks of the file, and the next ones are those the action will write.
LEMMA ResetShows ==
  ASSUME FeedTypes, FeedTypes', OutputInv, UNCHANGED <<status, latest, seq, link, finished>>,
         wire # <<>>, wire' = Tail(wire), NEW e, e = Head(wire), IsOf(e, view.id), view.id # NoId,
         e.reset, view'.id = view.id, view'.next = e.next,
         Len(view'.text) = e.text, \A a \in 1 .. e.text : view'.text[a] = a - 1,
         view'.done <=> view.done \/ e.done, skipped' = e.text .. e.whole - 1, ~remounted'
  PROVE  OutputInv'
<1>1. e = wire[1] /\ 1 \in 1 .. Len(wire) /\ e \in Message /\ e.kind = "output" /\ e.id = view.id
  BY TailIs DEF FeedTypes, IsOf
<1>2. /\ e.id \in Ids /\ e.reset \in BOOLEAN /\ e.text \in Nat /\ e.from \in Nat /\ e.to \in Nat
      /\ e.next \in Nat /\ e.whole \in Nat /\ e.done \in BOOLEAN
  BY <1>1, FieldsOf
<1>3. Sound(e) /\ ViewSound /\ seq[view.id] \in Nat
  BY <1>1, <1>2 DEF OutputInv, Messages, ViewInv, FeedTypes
<1>4. Reach(e) = e.next /\ e.next <= seq[view.id] /\ e.next <= e.whole
  BY <1>1, <1>3 DEF Reach, Sound
<1>5. 0 .. e.whole - 1 \subseteq Shown'
  <2>1. ASSUME NEW c \in 0 .. e.whole - 1 PROVE c \in Shown'
    <3>1. CASE c < e.text
      <4>1. c + 1 \in DOMAIN view'.text /\ view'.text[c + 1] = c
        <5>1. DOMAIN view'.text = 1 .. e.text
          BY DEF FeedTypes
        <5> QED
          BY <1>2, <3>1, <5>1
      <4> QED
        BY <4>1 DEF Shown, ToSet
    <3>2. CASE e.text <= c
      <4>1. c \in e.text .. e.whole - 1
        BY <1>2, <3>2
      <4> QED
        BY <4>1 DEF Shown
    <3> QED
      BY <1>2, <3>1, <3>2
  <2> QED
    BY <2>1
<1>6. ViewSound'
  <2>1. 0 .. e.next - 1 \subseteq 0 .. e.whole - 1
    BY <1>2, <1>4
  <2>2. \A a, b \in 1 .. e.text : a < b => view'.text[a] < view'.text[b]
    BY <1>2
  <2>3. view'.done => status[view.id] = "ended"
    BY <1>1, <1>3 DEF ViewSound, Sound, Ended
  <2> QED
    BY <1>4, <1>5, <2>1, <2>2, <2>3 DEF ViewSound, Ended
<1>7. Brings(e, view, seq) => Closing(e) \/ view'.next = seq[view.id]
  BY <1>4 DEF Brings
<1>8. Closing(e) => Complete'
  BY <1>1, <1>3, <1>5 DEF Complete, Sound
<1>9. ~Closing(e) => \A a \in 1 .. Len(view'.text) : view'.text[a] < view'.next
  <2>1. ~Closing(e) => e.text <= e.next
    BY <1>3 DEF Sound
  <2> QED
    BY <1>2, <2>1
<1> QED
  BY <1>1, <1>2, <1>4, <1>6, <1>7, <1>8, <1>9, HeadTaken

\* Sequence v is t with the chunks a .. b - 1 behind it.
Extends(v, t, a, b) ==
  /\ Len(v) = Len(t) + (b - a)
  /\ \A n \in 1 .. Len(t) : v[n] = t[n]
  /\ \A n \in Len(t) + 1 .. Len(v) : v[n] = a + (n - Len(t)) - 1

LEMMA ExtendedIs ==
  ASSUME NEW t \in Seq(Nat), NEW a \in Nat, NEW b \in Nat, a <= b
  PROVE  Extends(t \o [n \in 1 .. b - a |-> a + n - 1], t, a, b)
<1>1. PICK new : new = [n \in 1 .. b - a |-> a + n - 1]
  OBVIOUS
<1>2. new \in Seq(Nat) /\ Len(new) = b - a /\ \A m \in 1 .. b - a : new[m] = a + m - 1
  <2>1. b - a \in Nat
    OBVIOUS
  <2> QED
    BY <1>1, <2>1, SpanIs
<1>3. PICK v : v = t \o new
  OBVIOUS
<1>4. /\ Len(v) = Len(t) + Len(new) /\ Len(t) \in Nat
      /\ \A n \in 1 .. Len(t) : v[n] = t[n]
      /\ \A n \in 1 .. Len(v) : n > Len(t) => v[n] = new[n - Len(t)]
  <2>1. /\ Len(v) = Len(t) + Len(new)
        /\ \A n \in 1 .. Len(t) + Len(new) : v[n] = IF n <= Len(t) THEN t[n] ELSE new[n - Len(t)]
    BY <1>2, <1>3, ConcatProperties
  <2>2. Len(t) \in Nat /\ Len(new) \in Nat
    BY <1>2
  <2> QED
    BY <2>1, <2>2
<1>5. Extends(v, t, a, b)
  <2>1. ASSUME NEW n \in Len(t) + 1 .. Len(v) PROVE v[n] = a + (n - Len(t)) - 1
    <3>1. n \in 1 .. Len(v) /\ n > Len(t) /\ n - Len(t) \in 1 .. b - a
      BY <1>2, <1>4
    <3> QED
      BY <1>2, <1>4, <3>1
  <2> QED
    BY <1>2, <1>4, <2>1 DEF Extends
<1> QED
  BY <1>1, <1>3, <1>5

\* What is increasing and below `next` stays so, and all chunks are there.
LEMMA ExtendedShows ==
  ASSUME NEW t \in Seq(Nat), NEW a \in Nat, NEW b \in Nat, a <= b, NEW next \in Nat, next <= a,
         NEW v \in Seq(Nat), Extends(v, t, a, b),
         \A n \in 1 .. Len(t) : t[n] < next,
         \A m, n \in 1 .. Len(t) : m < n => t[m] < t[n]
  PROVE  /\ \A n \in 1 .. Len(v) : v[n] < (IF b <= a THEN next ELSE b)
         /\ \A m, n \in 1 .. Len(v) : m < n => v[m] < v[n]
         /\ ToSet(t) \subseteq ToSet(v) /\ a .. b - 1 \subseteq ToSet(v)
<1>1. Len(t) \in Nat /\ Len(v) = Len(t) + (b - a) /\ Len(v) \in Nat
  BY DEF Extends
<1>2. \A n \in 1 .. Len(t) : n \in 1 .. Len(v) /\ v[n] = t[n] /\ t[n] \in Nat
  BY <1>1 DEF Extends
<1>3. \A n \in Len(t) + 1 .. Len(v) : n \in 1 .. Len(v) /\ v[n] = a + (n - Len(t)) - 1
  BY <1>1 DEF Extends
<1>4. \A n \in 1 .. Len(v) : n \in 1 .. Len(t) \/ n \in Len(t) + 1 .. Len(v)
  BY <1>1
<1>5. \A n \in Len(t) + 1 .. Len(v) : a <= v[n] /\ v[n] < b /\ a < b /\ v[n] \in Nat
  BY <1>1, <1>3
<1>6. \A n \in 1 .. Len(v) : v[n] < (IF b <= a THEN next ELSE b)
  <2>1. \A n \in 1 .. Len(t) : v[n] < next /\ v[n] < a
    BY <1>2
  <2>2. ASSUME NEW n \in 1 .. Len(t) PROVE v[n] < (IF b <= a THEN next ELSE b)
    BY <1>2, <2>1, <2>2
  <2>3. ASSUME NEW n \in Len(t) + 1 .. Len(v) PROVE v[n] < (IF b <= a THEN next ELSE b)
    BY <1>5, <2>3
  <2> QED
    BY <1>4, <2>2, <2>3
<1>7. ASSUME NEW m \in 1 .. Len(v), NEW n \in 1 .. Len(v), m < n PROVE v[m] < v[n]
  <2>1. CASE n \in 1 .. Len(t)
    <3>1. m \in 1 .. Len(t)
      BY <1>1, <1>7, <2>1
    <3> QED
      BY <1>2, <1>7, <2>1, <3>1
  <2>2. CASE m \in 1 .. Len(t) /\ n \in Len(t) + 1 .. Len(v)
    <3>1. t[m] < next /\ v[m] = t[m] /\ t[m] \in Nat /\ a <= v[n] /\ v[n] \in Nat
      BY <1>2, <1>5, <2>2
    <3> QED
      BY <3>1
  <2>3. CASE m \in Len(t) + 1 .. Len(v) /\ n \in Len(t) + 1 .. Len(v)
    BY <1>1, <1>3, <1>7, <2>3
  <2> QED
    BY <1>4, <2>1, <2>2, <2>3, <1>1, <1>7
<1>8. DOMAIN t = 1 .. Len(t) /\ DOMAIN v = 1 .. Len(v)
  OBVIOUS
<1>9. ToSet(t) \subseteq ToSet(v)
  <2>1. ASSUME NEW x \in ToSet(t) PROVE x \in ToSet(v)
    <3>1. PICK n \in 1 .. Len(t) : x = t[n]
      BY <1>8, <2>1 DEF ToSet
    <3> QED
      BY <1>2, <1>8, <3>1 DEF ToSet
  <2> QED
    BY <2>1
<1>10. a .. b - 1 \subseteq ToSet(v)
  <2>1. ASSUME NEW c \in a .. b - 1 PROVE c \in ToSet(v)
    <3>1. PICK n \in Len(t) + 1 .. Len(v) : c = a + (n - Len(t)) - 1
      <4>1. Len(t) + (c - a) + 1 \in Len(t) + 1 .. Len(v) /\ c = a + ((Len(t) + (c - a) + 1) - Len(t)) - 1
        BY <1>1, <2>1
      <4> QED
        BY <4>1
    <3> QED
      BY <1>3, <1>8, <3>1 DEF ToSet
  <2> QED
    BY <2>1
<1> QED
  BY <1>6, <1>7, <1>9, <1>10

\* Chunks are added to the view.
LEMMA ChunksShow ==
  ASSUME FeedTypes, FeedTypes', OutputInv, UNCHANGED <<status, latest, seq, link, finished>>,
         wire # <<>>, wire' = Tail(wire), NEW e, e = Head(wire), IsOf(e, view.id), view.id # NoId,
         ~e.reset, NEW from, from = IF e.from < view.next THEN view.next ELSE e.from,
         view'.id = view.id, view'.next = IF e.to <= from THEN view.next ELSE e.to,
         from <= e.to => Extends(view'.text, view.text, from, e.to),
         view'.done <=> view.done \/ e.done, skipped' = skipped, remounted' <=> remounted
  PROVE  OutputInv'
<1>1. e = wire[1] /\ 1 \in 1 .. Len(wire) /\ e \in Message /\ e.kind = "output" /\ e.id = view.id
  BY TailIs DEF FeedTypes, IsOf
<1>2. /\ e.id \in Ids /\ e.from \in Nat /\ e.to \in Nat /\ e.done \in BOOLEAN
      /\ view.next \in Nat /\ view.text \in Seq(Nat) /\ from \in Nat
      /\ view'.text \in Seq(Nat) /\ view'.next \in Nat
  BY <1>1, FieldsOf DEF FeedTypes
<1>3. Sound(e) /\ ViewSound /\ Continues /\ seq[view.id] \in Nat
  BY <1>1, <1>2 DEF OutputInv, Messages, ViewInv, FeedTypes
<1>4. Reach(e) = e.to /\ ~Closing(e) /\ e.to <= seq[view.id] /\ e.from <= e.to
  BY <1>1, <1>3 DEF Reach, Sound, Closing
<1>5. view.next <= e.to /\ (remounted \/ e.from <= view.next)
  BY <1>1, <1>3, <1>4 DEF Continues, Closing
<1>6. \A a \in 1 .. Len(view.text) : view.text[a] < view.next
  BY <1>1, <1>3 DEF Continues
<1>7. /\ view.next <= view'.next /\ view'.next <= e.to /\ from <= e.to /\ view.next <= from
      /\ remounted \/ (from = view.next /\ view'.next = e.to)
      /\ e.from < e.to \/ e.to <= view.next => view'.next = e.to
  BY <1>2, <1>4, <1>5
<1>8. /\ \A n \in 1 .. Len(view'.text) : view'.text[n] < view'.next
      /\ \A m, n \in 1 .. Len(view'.text) : m < n => view'.text[m] < view'.text[n]
      /\ ToSet(view.text) \subseteq ToSet(view'.text) /\ from .. e.to - 1 \subseteq ToSet(view'.text)
  <2>1. \A m, n \in 1 .. Len(view.text) : m < n => view.text[m] < view.text[n]
    BY <1>3 DEF ViewSound
  <2>2. Extends(view'.text, view.text, from, e.to)
    BY <1>7
  <2>3. PICK t, v, next, a, b : t = view.text /\ v = view'.text /\ next = view.next /\ a = from /\ b = e.to
    OBVIOUS
  <2>4. t \in Seq(Nat) /\ v \in Seq(Nat) /\ next \in Nat /\ a \in Nat /\ b \in Nat
    BY <1>2, <2>3
  <2>5. Extends(v, t, a, b) /\ a <= b /\ next <= a
    BY <1>7, <2>2, <2>3
  <2>6. (\A n \in 1 .. Len(t) : t[n] < next) /\ \A m, n \in 1 .. Len(t) : m < n => t[m] < t[n]
    BY <1>6, <2>1, <2>3
  <2>7. /\ \A n \in 1 .. Len(v) : v[n] < (IF b <= a THEN next ELSE b)
        /\ \A m, n \in 1 .. Len(v) : m < n => v[m] < v[n]
        /\ ToSet(t) \subseteq ToSet(v) /\ a .. b - 1 \subseteq ToSet(v)
    BY <2>4, <2>5, <2>6, ExtendedShows, Zenon
  <2> QED
    BY <2>3, <2>7
<1>9. ViewSound'
  <2>1. view'.done => status[view.id] = "ended"
    BY <1>1, <1>3 DEF ViewSound, Sound, Ended
  <2>2. remounted \/ 0 .. view'.next - 1 \subseteq Shown'
    <3>1. ASSUME ~remounted, NEW c \in 0 .. view'.next - 1 PROVE c \in Shown'
      <4>1. CASE c < view.next
        <5>1. c \in 0 .. view.next - 1
          BY <1>2, <3>1, <4>1
        <5>2. 0 .. view.next - 1 \subseteq Shown
          BY <1>3, <3>1 DEF ViewSound
        <5> QED
          BY <1>8, <5>1, <5>2 DEF Shown
      <4>2. CASE ~(c < view.next)
        <5>1. c \in from .. e.to - 1
          BY <1>2, <1>7, <3>1, <4>2
        <5> QED
          BY <1>8, <5>1 DEF Shown
      <4> QED
        BY <4>1, <4>2
    <3> QED
      BY <3>1
  <2>3. view'.next <= seq[view.id]
    <3>1. view'.next \in Nat
      BY DEF FeedTypes
    <3> QED
      BY <1>2, <1>3, <1>4, <1>7, <3>1
  <2> QED
    BY <1>8, <2>1, <2>2, <2>3 DEF ViewSound, Ended
<1>10. Brings(e, view, seq) => view'.next = seq[view.id]
  BY <1>1, <1>4, <1>7 DEF Brings
<1> QED
  BY <1>1, <1>4, <1>7, <1>8, <1>9, <1>10, HeadTaken

\* What the view's handler does: it starts again on a reset, or adds the chunks it lacks.
LEMMA ShowIs ==
  ASSUME FeedTypes, NEW e \in Message, e.kind = "output", e.id = view.id, Show(e),
         e.reset => e.from = 0 /\ e.to = 0, NEW from, from = IF e.from < view.next THEN view.next ELSE e.from
  PROVE  /\ view'.id = view.id /\ (view'.done <=> view.done \/ e.done)
         /\ e.reset =>
              /\ view'.next = e.next /\ skipped' = e.text .. e.whole - 1 /\ ~remounted'
              /\ Len(view'.text) = e.text /\ \A a \in 1 .. e.text : view'.text[a] = a - 1
         /\ ~e.reset =>
              /\ view'.next = IF e.to <= from THEN view.next ELSE e.to
              /\ skipped' = skipped /\ (remounted' <=> remounted)
              /\ from <= e.to => Extends(view'.text, view.text, from, e.to)
<1>1. /\ e.reset \in BOOLEAN /\ e.text \in Nat /\ e.from \in Nat /\ e.to \in Nat /\ e.next \in Nat /\ e.done \in BOOLEAN
      /\ view.next \in Nat /\ view.text \in Seq(Nat) /\ view.done \in BOOLEAN /\ view.id \in Ids \cup {NoId}
  BY FieldsOf DEF FeedTypes
<1> DEFINE next == IF e.reset THEN e.next ELSE view.next
           text == IF e.reset THEN [n \in 1 .. e.text |-> n - 1] ELSE view.text
           start == IF e.from < next THEN next ELSE e.from
           new == [n \in 1 .. e.to - start |-> start + n - 1]
           after == IF new = <<>> THEN next ELSE e.to
<1>2. PICK done : done = (view.done \/ e.done)
  OBVIOUS
<1>3. /\ view' = [view EXCEPT !.text = text \o new, !.next = after, !.done = done]
      /\ skipped' = IF e.reset THEN e.text .. e.whole - 1 ELSE skipped
      /\ remounted' = (remounted /\ ~e.reset)
  BY <1>2, Zenon DEF Show
<1>4. next \in Nat /\ start \in Nat /\ after \in Nat /\ done \in BOOLEAN /\ e.to - start \in Int
  BY <1>1, <1>2
<1>5. text \in Seq(Nat)
  BY <1>1, CountIs
<1>6. /\ e.reset => next = e.next /\ text = [n \in 1 .. e.text |-> n - 1] /\ e.to <= start
      /\ ~e.reset => next = view.next /\ text = view.text /\ start = from
  BY <1>1
<1> HIDE DEF next, text, start
<1>7. new \in Seq(Nat) /\ Len(new) = IF e.to - start < 0 THEN 0 ELSE e.to - start
  BY <1>4, SpanIs, Zenon
<1>8. new = <<>> <=> e.to <= start
  <2> HIDE DEF new
  <2>1. new = <<>> <=> Len(new) = 0
    BY <1>7, EmptySeq
  <2> QED
    BY <1>1, <1>4, <1>7, <2>1
<1>9. view'.id = view.id /\ view'.text = text \o new /\ view'.next = after /\ (view'.done <=> view.done \/ e.done)
  <2> HIDE DEF new, after
  <2>1. text \o new \in Seq(Nat)
    BY <1>5, <1>7
  <2> QED
    BY <1>2, <1>3, <1>4, <2>1 DEF FeedTypes
<1>10. after = IF e.to <= start THEN next ELSE e.to
  BY <1>8
<1>11. ASSUME e.reset
       PROVE  /\ view'.next = e.next /\ skipped' = e.text .. e.whole - 1 /\ ~remounted'
              /\ Len(view'.text) = e.text /\ \A a \in 1 .. e.text : view'.text[a] = a - 1
  <2> HIDE DEF new, after
  <2>1. new = <<>> /\ view'.next = e.next
    BY <1>6, <1>8, <1>9, <1>10, <1>11
  <2>2. view'.text = [n \in 1 .. e.text |-> n - 1]
    BY <1>5, <1>6, <1>9, <1>11, <2>1, ConcatEmptySeq
  <2>3. Len(view'.text) = e.text /\ \A a \in 1 .. e.text : view'.text[a] = a - 1
    BY <1>1, <2>2, CountIs
  <2> QED
    BY <1>3, <1>11, <2>1, <2>3
<1>12. ASSUME ~e.reset
       PROVE  /\ view'.next = IF e.to <= from THEN view.next ELSE e.to
              /\ skipped' = skipped /\ (remounted' <=> remounted)
              /\ from <= e.to => Extends(view'.text, view.text, from, e.to)
  <2>1. from <= e.to => Extends(view'.text, view.text, from, e.to)
    <3>1. view'.text = view.text \o [n \in 1 .. e.to - from |-> from + n - 1]
      BY <1>6, <1>9, <1>12
    <3>2. from \in Nat
      BY <1>4, <1>6, <1>12
    <3> QED
      BY <1>1, <3>1, <3>2, ExtendedIs
  <2> HIDE DEF new, after
  <2> QED
    BY <1>3, <1>6, <1>9, <1>10, <1>12, <2>1
<1> QED
  BY <1>9, <1>11, <1>12

LEMMA ReceiveShows ==
  ASSUME TrackerBase, TrackerBase', OutputInv, Receive
  PROVE  OutputInv'
<1> USE DEF TrackerBase
<1>1. PICK e : e = Head(wire)
  OBVIOUS
<1>2. /\ UNCHANGED <<status, latest, seq, link>>
      /\ wire # <<>> /\ wire' = Tail(wire)
      /\ \/ e.kind = "started" /\ Began({e.id}) /\ UNCHANGED <<finished, waiters, screen, late>>
         \/ e.kind = "finished" /\ TrackerEnds({e.id}) /\ UNCHANGED <<skipped, remounted>>
         \/ e.kind = "output" /\ Show(e) /\ UNCHANGED <<tracker, late>>
  BY <1>1 DEF Receive, server, socket, rest
<1>3. e \in Message /\ e = wire[1] /\ 1 \in 1 .. Len(wire) /\ e.id \in Ids /\ wire \in Seq(Message)
  BY <1>1, <1>2, TailIs, MessageIs DEF FeedTypes
<1>4. \A k, j : Has(wire, k, j) <=> Has(wire', k, j) \/ (e.kind = k /\ e.id = j)
  BY <1>1, <1>2, <1>3, HasInTail
<1>5. CASE e.kind = "started"
  <2>1. UNCHANGED <<finished, view, skipped, remounted>> /\ ~IsOf(Head(wire), view.id)
    BY <1>1, <1>2, <1>5 DEF screen, IsOf
  <2>2. Has(wire, "finished", view.id) => Has(wire', "finished", view.id)
    BY <1>4, <1>5
  <2> QED
    BY <1>2, <2>1, <2>2, ViewStays
<1>6. CASE e.kind = "finished"
  <2>1. TrackerEnds({e.id}) /\ UNCHANGED <<skipped, remounted>> /\ ~IsOf(Head(wire), view.id)
    BY <1>1, <1>2, <1>6 DEF IsOf
  <2>2. /\ finished' = finished \cup {e.id}
        /\ view'.id = view.id /\ view'.text = view.text /\ view'.next = view.next
        /\ view'.done <=> view.done \/ (view.id = e.id /\ e.id \notin finished)
    BY <1>3, <2>1, EndIs
  <2>3. Ended(e.id)
    BY <1>3, <1>6 DEF TrackerInv, NotesTrue
  <2>4. view.id \notin finished /\ Has(wire, "finished", view.id) =>
          view'.done \/ (view.id \notin finished' /\ Has(wire', "finished", view.id))
    BY <1>4, <2>2
  <2>5. view.done => view'.done
    BY <2>2
  <2>6. view'.done => view.done \/ Ended(view.id)
    BY <2>2, <2>3
  <2> QED
    BY <1>2, <2>1, <2>2, <2>4, <2>5, <2>6, ViewStays
<1>7. CASE e.kind = "output" /\ e.id # view.id
  <2>1. UNCHANGED <<finished, view, skipped, remounted>> /\ ~IsOf(Head(wire), view.id)
    BY <1>1, <1>2, <1>7 DEF screen, Show, tracker, IsOf
  <2>2. Has(wire, "finished", view.id) => Has(wire', "finished", view.id)
    BY <1>4, <1>7
  <2> QED
    BY <1>2, <2>1, <2>2, ViewStays
<1>8. CASE e.kind = "output" /\ e.id = view.id
  <2>1. IsOf(e, view.id) /\ view.id # NoId /\ finished' = finished /\ Show(e)
    BY <1>2, <1>3, <1>8, StatusIs DEF IsOf, tracker
  <2>2. e.reset => e.from = 0 /\ e.to = 0
    BY <1>3, <1>8 DEF OutputInv, Messages, Sound
  <2>3. PICK from : from = IF e.from < view.next THEN view.next ELSE e.from
    OBVIOUS
  <2>4. /\ view'.id = view.id /\ (view'.done <=> view.done \/ e.done)
        /\ e.reset =>
             /\ view'.next = e.next /\ skipped' = e.text .. e.whole - 1 /\ ~remounted'
             /\ Len(view'.text) = e.text /\ \A a \in 1 .. e.text : view'.text[a] = a - 1
        /\ ~e.reset =>
             /\ view'.next = IF e.to <= from THEN view.next ELSE e.to
             /\ skipped' = skipped /\ (remounted' <=> remounted)
             /\ from <= e.to => Extends(view'.text, view.text, from, e.to)
    BY <1>3, <1>8, <2>1, <2>2, <2>3, ShowIs
  <2>5. CASE e.reset
    BY <1>1, <1>2, <2>1, <2>4, <2>5, ResetShows
  <2>6. CASE ~e.reset
    BY <1>1, <1>2, <2>1, <2>3, <2>4, <2>6, ChunksShow
  <2> QED
    BY <2>5, <2>6
<1> QED
  BY <1>2, <1>5, <1>6, <1>7, <1>8

-----------------------------------------------------------------------------
(* The theorems *)

LEMMA FeedInitHolds ==
  ASSUME FeedInit
  PROVE  FeedInv
<1>1. PICK f \in BOOLEAN : f = FALSE
  OBVIOUS
<1>2. view = [id |-> NoId, text |-> <<>>, next |-> 0, done |-> f]
  BY <1>1, Zenon DEF FeedInit, NoView
<1>3. /\ status = [i \in Ids |-> "none"] /\ latest = NoId /\ seq = [i \in Ids |-> 0]
      /\ link = FALSE /\ conns = 0 /\ wire = <<>>
      /\ list = [n \in 1 .. MaxConns |-> [state |-> "none", ids |-> {}]] /\ gets = {} /\ posts = [i \in Ids |-> 0]
      /\ running = {} /\ finished = {} /\ waiters = {} /\ view.id = NoId
  BY <1>2 DEF FeedInit, NoList
<1>4. view \in [id : Ids \cup {NoId}, text : Seq(Nat), next : Nat, done : BOOLEAN]
  <2>1. <<>> \in Seq(Nat)
    OBVIOUS
  <2> QED
    BY <1>1, <1>2, <2>1
<1>5. FeedTypes
  BY <1>3, <1>4, NoMessages DEF FeedTypes
<1>6. Actions
  BY <1>3 DEF Actions
<1>7. TrackerInv
  BY <1>3, NoMessages DEF TrackerInv, NotesTrue
<1>8. OutputInv
  BY <1>3, NoMessages DEF OutputInv, Messages, InOrder, NoGaps, ViewInv
<1> QED
  BY <1>5, <1>6, <1>7, <1>8 DEF FeedInv

LEMMA FeedNextHolds ==
  ASSUME FeedInv, [FeedNext]_feedVars
  PROVE  FeedInv'
<1>1. TrackerBase /\ OutputInv /\ FeedTypes /\ Actions
  BY DEF FeedInv, TrackerBase
<1> SUFFICES TrackerBase' /\ OutputInv'
  BY DEF FeedInv, TrackerBase
<1>2. ASSUME NEW i \in Ids, NEW here \in BOOLEAN, Start(i, here) PROVE TrackerBase' /\ OutputInv'
  <2>1. TrackerBase' /\ FeedTypes'
    BY <1>1, <1>2, StartTracks DEF TrackerBase
  <2>2. /\ status[i] = "none" /\ (latest # NoId => Ended(latest))
        /\ status' = [status EXCEPT ![i] = "running"] /\ latest' = i
        /\ UNCHANGED <<seq, link, finished, view, skipped, remounted>>
    BY <1>2 DEF Start, socket, tracker, screen
  <2>3. PICK e : e = Note("started", i)
    OBVIOUS
  <2>4. e \in Message /\ e.kind # "output" /\ wire' = IF link THEN Append(wire, e) ELSE wire
    <3>1. e \in Message /\ e.kind = "started"
      BY <2>3, NoteIs
    <3>2. Send(<<e>>) /\ wire \in Seq(Message)
      BY <1>1, <1>2, <2>3 DEF Start, FeedTypes
    <3> QED
      BY <3>1, <3>2, SendIs
  <2>5. \A j \in Ids : /\ status[j] # "none" => status'[j] # "none" /\ (latest # j => latest' # j)
                       /\ Ended(j) => Ended(j)'
                       /\ Ended(j)' => Ended(j)
    BY <1>1, <2>2 DEF FeedTypes, Ended
  <2> QED
    BY <1>1, <2>1, <2>2, <2>4, <2>5, NoteShows
<1>3. ASSUME NEW i \in Ids, Flush(i) PROVE TrackerBase' /\ OutputInv'
  BY <1>1, <1>3, FlushTracks, FlushShows DEF TrackerBase
<1>4. ASSUME NEW i \in Ids, Finish(i) PROVE TrackerBase' /\ OutputInv'
  <2>1. TrackerBase' /\ FeedTypes'
    BY <1>1, <1>4, FinishTracks DEF TrackerBase
  <2>2. /\ latest = i /\ status[i] = "running" /\ status' = [status EXCEPT ![i] = "ended"]
        /\ UNCHANGED <<latest, seq, link, finished, view, skipped, remounted>>
    BY <1>4 DEF Finish, socket, tracker, screen
  <2>3. PICK e : e = Note("finished", i)
    OBVIOUS
  <2>4. e \in Message /\ e.kind = "finished" /\ e.id = i /\ wire' = IF link THEN Append(wire, e) ELSE wire
    <3>1. e \in Message /\ e.kind = "finished" /\ e.id = i
      BY <2>3, NoteIs
    <3>2. Send(<<e>>) /\ wire \in Seq(Message)
      BY <1>1, <1>4, <2>3 DEF Finish, FeedTypes
    <3> QED
      BY <3>1, <3>2, SendIs
  <2>5. i \notin finished
    BY <1>1, <2>2 DEF Actions, Ended
  <2>6. \A j \in Ids : /\ status[j] # "none" => status'[j] # "none" /\ (latest # j => latest' # j)
                       /\ Ended(j) => Ended(j)'
                       /\ Ended(j)' => Ended(j) \/ (e.kind = "finished" /\ e.id = j /\ j \notin finished)
    BY <1>1, <2>2, <2>4, <2>5 DEF FeedTypes, Ended
  <2> QED
    BY <1>1, <2>1, <2>2, <2>4, <2>6, NoteShows
<1>5. ASSUME NEW i \in Ids, GetAnswered(i) PROVE TrackerBase' /\ OutputInv'
  BY <1>1, <1>5, GetAnsweredTracks, GetAnsweredShows
<1>6. ASSUME NEW i \in Ids, NEW tracks \in BOOLEAN, PostAnswered(i, tracks) PROVE TrackerBase' /\ OutputInv'
  <2>1. UNCHANGED <<status, latest, seq, link, wire, finished, view, skipped, remounted>>
    BY <1>6 DEF PostAnswered, server, socket, screen
  <2> QED
    BY <1>1, <1>6, <2>1, PostAnsweredTracks, OutputSame
<1>7. ASSUME NEW i \in Ids, Watch(i) PROVE TrackerBase' /\ OutputInv'
  BY <1>1, <1>7, WatchTracks, WatchShows DEF TrackerBase
<1>8. ASSUME NEW n \in 1 .. MaxConns, ListRead(n) PROVE TrackerBase' /\ OutputInv'
  <2>1. UNCHANGED <<status, latest, seq, link, wire, finished, view, skipped, remounted>>
    BY <1>8 DEF ListRead, server, socket, tracker, screen
  <2> QED
    BY <1>1, <1>8, <2>1, ListReadTracks, OutputSame
<1>9. ASSUME NEW n \in 1 .. MaxConns, ListAnswered(n) PROVE TrackerBase' /\ OutputInv'
  <2>1. UNCHANGED <<status, latest, seq, link, wire, finished, view, skipped, remounted>>
    BY <1>9 DEF ListAnswered, server, socket, screen
  <2> QED
    BY <1>1, <1>9, <2>1, ListAnsweredTracks, OutputSame
<1>10. ASSUME Receive PROVE TrackerBase' /\ OutputInv'
  BY <1>1, <1>10, ReceiveTracks, ReceiveShows
<1>11. ASSUME Connect PROVE TrackerBase' /\ OutputInv'
  BY <1>1, <1>11, ConnectTracks, ConnectShows DEF TrackerBase
<1>12. ASSUME Drop PROVE TrackerBase' /\ OutputInv'
  <2>1. wire' = <<>> /\ ~link' /\ UNCHANGED <<status, latest, seq, view, skipped, remounted>>
    BY <1>12 DEF Drop, Cut, server, screen
  <2>2. \A j \in Ids : Ended(j) => Ended(j)'
    BY <2>1 DEF Ended
  <2> QED
    BY <1>1, <1>12, <2>1, <2>2, DropTracks, OutputCut
<1>13. ASSUME RestFails PROVE TrackerBase' /\ OutputInv'
  <2>1. UNCHANGED <<status, latest, seq, link, wire, finished, view, skipped, remounted>>
    BY <1>13 DEF RestFails, server, socket, tracker, screen
  <2> QED
    BY <1>1, <1>13, <2>1, RestFailsTracks, OutputSame
<1>14. ASSUME Restart PROVE TrackerBase' /\ OutputInv'
  <2>1. /\ wire' = <<>> /\ ~link' /\ latest' = NoId /\ UNCHANGED <<seq, view, skipped, remounted>>
        /\ status' = [i \in Ids |-> IF status[i] = "running" THEN "ended" ELSE status[i]]
    BY <1>14 DEF Restart, Cut, screen
  <2>2. \A j \in Ids : Ended(j) => Ended(j)'
    BY <2>1 DEF Ended
  <2> QED
    BY <1>1, <1>14, <2>1, <2>2, RestartTracks, OutputCut
<1>15. CASE UNCHANGED feedVars
  <2>1. /\ UNCHANGED <<status, latest, seq, link, conns, wire, list, gets, posts, running, finished, waiters>>
        /\ UNCHANGED <<view, skipped, remounted, late, unsynced>>
    BY <1>15 DEF feedVars, server, socket, rest, tracker, screen
  <2>2. FeedTypes' /\ Actions'
    BY <1>1, <2>1 DEF FeedTypes, Actions, Ended
  <2>3. TrackerInv'
    BY <1>1, <2>1 DEF TrackerBase, TrackerInv, NotesTrue, Heard, Told, Ended
  <2> QED
    BY <1>1, <2>1, <2>2, <2>3, OutputSame DEF TrackerBase
<1> QED
  BY <1>2, <1>3, <1>4, <1>5, <1>6, <1>7, <1>8, <1>9, <1>10, <1>11, <1>12, <1>13, <1>14, <1>15 DEF FeedNext

(* FeedInv is inductive: the tracker of ActionTracker.tsx and the view of useActionOutput.ts hold *)
(* it in every reachable state, for any number of actions, chunks, connections and failures.      *)
THEOREM FeedHolds == FeedSpec => []FeedInv
<1>1. FeedInit => FeedInv
  BY FeedInitHolds
<1>2. FeedInv /\ [FeedNext]_feedVars => FeedInv'
  BY FeedNextHolds
<1> QED
  BY <1>1, <1>2, PTL DEF FeedSpec

LEMMA TrackerSettlesNow ==
  ASSUME FeedInv
  PROVE  TrackerSettles
<1> SUFFICES ASSUME Quiet, ~unsynced
             PROVE  /\ {i \in Ids : status[i] = "running"} \subseteq running
                    /\ {i \in running \cup waiters : Ended(i)} \subseteq late
  BY DEF TrackerSettles
<1>1. /\ link /\ wire = <<>> /\ gets = {} /\ conns \in 1 .. MaxConns /\ list[conns].state = "none"
      /\ running \subseteq Ids /\ waiters \subseteq Ids
  BY DEF Quiet, FeedInv, Actions, FeedTypes
<1>2. Heard(list[conns]) /\ Told(list[conns])
  BY <1>1 DEF FeedInv, TrackerInv
<1>3. \A k, i : ~Has(wire, k, i)
  BY <1>1, NoMessages DEF Has
<1>4. \A i \in Ids : status[i] = "running" => i \in running
  BY <1>1, <1>2, <1>3 DEF Heard
<1>5. \A i \in Ids : Ended(i) /\ i \in running \cup waiters => i \in late
  BY <1>1, <1>2, <1>3 DEF Told
<1> QED
  BY <1>1, <1>4, <1>5

LEMMA OutputFaithfulNow ==
  ASSUME FeedInv
  PROVE  OutputFaithful
<1> SUFFICES ASSUME view.id # NoId
             PROVE  /\ \A a, b \in 1 .. Len(view.text) : a < b => view.text[a] < view.text[b]
                    /\ remounted \/ 0 .. view.next - 1 \subseteq Shown
                    /\ view.done => Ended(view.id)
                    /\ Quiet => (remounted \/ 0 .. seq[view.id] - 1 \subseteq Shown) /\ view.done = Ended(view.id)
  BY DEF OutputFaithful, Shown
<1>1. ViewSound /\ Ends /\ view.done \in BOOLEAN
  BY DEF FeedInv, OutputInv, ViewInv, FeedTypes
<1>2. ASSUME Quiet
      PROVE  (remounted \/ 0 .. seq[view.id] - 1 \subseteq Shown) /\ view.done = Ended(view.id)
  <2>1. link /\ wire = <<>> /\ Len(wire) = 0
    BY <1>2, NoMessages DEF Quiet
  <2>2. ~Has(wire, "finished", view.id) /\ \A n \in 1 .. Len(wire) : FALSE
    BY <2>1 DEF Has
  <2>3. view.next = seq[view.id] \/ Complete
    BY <1>1, <2>1, <2>2 DEF Ends
  <2>4. view.done <=> Ended(view.id)
    BY <1>1, <2>1, <2>2 DEF Ends, ViewSound
  <2>5. remounted \/ 0 .. seq[view.id] - 1 \subseteq Shown
    BY <1>1, <2>3 DEF ViewSound, Complete
  <2>6. view.done = Ended(view.id)
    BY <1>1, <2>4 DEF Ended
  <2> QED
    BY <2>5, <2>6
<1> QED
  BY <1>1, <1>2 DEF ViewSound

(* When nothing is under way and the latest resync went through, the tracker shows every running  *)
(* action, and what it still shows or waits for runs, but for what it heard from an answer that a *)
(* newer connection had overtaken (ActionTracker.tsx).                                            *)
THEOREM TrackerAlwaysSettles == FeedSpec => []TrackerSettles
<1>1. FeedInv => TrackerSettles
  BY TrackerSettlesNow
<1> QED
  BY <1>1, FeedHolds, PTL

(* The output view shows the chunks of its action in order and once each, without a gap below     *)
(* nextSeq, through replays, resets, reconnections and restarts, and is complete and done when    *)
(* nothing is under way (useActionOutput.ts).                                                     *)
THEOREM OutputAlwaysFaithful == FeedSpec => []OutputFaithful
<1>1. FeedInv => OutputFaithful
  BY OutputFaithfulNow
<1> QED
  BY <1>1, FeedHolds, PTL

=============================================================================

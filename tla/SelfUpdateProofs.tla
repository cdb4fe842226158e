-------------------------- MODULE SelfUpdateProofs --------------------------
(***************************************************************************)
(* SelfUpdate proved for every number of releases, of scripts and of       *)
(* faults, whatever each release is like and whichever break the schema:   *)
(* at rest the checkout, the tags, the container and state.env agree, and  *)
(* an accepted release runs on a database it can use, ready for the next   *)
(* update, outside the mishaps the two properties name.  That the outcome  *)
(* of an update is told in the end is left to TLC.                         *)
(***************************************************************************)
EXTENDS SelfUpdate, TLAPS

-----------------------------------------------------------------------------
(* The inductive invariant *)

IsDb(d) == d = [schema |-> d.schema, told |-> d.told] /\ d.schema \in Nat

ScriptOK(s) ==
  /\ s = [pc |-> s.pc, current |-> s.current, target |-> s.target, from |-> s.from,
          copy |-> s.copy, detached |-> s.detached]
  /\ s.current \in Release \cup {None} /\ s.target \in Release \cup {None}
  /\ s.from \in Release \cup {None} /\ IsDb(s.copy)
  /\ s.pc \notin {"none", "fetch", "begin"} => s.current # None /\ s.target # None
StateOK(s) ==
  /\ s = [current |-> s.current, previous |-> s.previous, last |-> s.last]
  /\ s.previous \in Release \cup {None}
ContainerOK(c) == c = [image |-> c.image, on |-> c.on] /\ c.image \in Release \cup {None}

UpdateTypes ==
  /\ head \in Release /\ latest \in Release /\ kept \in Release \cup {None}
  /\ ContainerOK(container) /\ IsDb(db)
  /\ backup = [p \in Pair |-> backup[p]] /\ \A p \in Pair : IsDb(backup[p])
  /\ StateOK(state) /\ ScriptOK(script) /\ breaking \subseteq Release

\* Nothing happened after which no version is promised to be right.
Sane ==
  /\ "died" \notin mishaps /\ "swap" \notin mishaps /\ "copy" \notin mishaps
  /\ "restore" \notin mishaps /\ "again" \notin mishaps

\* Database d is one, and no migration of B newer than release v was made on it.
Usable(B, v, d) == d.schema # 0 /\ \A u \in B : ~(v < u /\ u <= d.schema)

\* The update between a and b, whichever is older, left a snapshot on which the older one runs.
Paired(B, snapshots, a, b) ==
  /\ a # None /\ a < b => Usable(B, a, snapshots[<<a, b>>])
  /\ b # None /\ b < a => Usable(B, b, snapshots[<<b, a>>])

\* The release of the checkout runs and is good; the kept image is that of the previous release.
Level ==
  /\ latest = head /\ container.image = head /\ container.on
  /\ quality[head] = "good" /\ Usable(breaking, head, db)
  /\ kept # None => kept = state.previous
  /\ "slow" \notin mishaps => state.current = head
  /\ Paired(breaking, backup, state.previous, head)

\* An update, up to the moment it is accepted
Updating ==
  /\ script.pc \in {"stage", "vacuum", "copy", "keep"} => Level /\ script.current = head
  /\ script.pc \in {"stage", "vacuum", "copy", "keep", "note", "checkout", "swap", "verify", "accept"} =>
       script.current # None /\ script.target # None /\ script.current < script.target
  /\ script.pc = "copy" => Usable(breaking, script.current, script.copy)
  /\ script.pc \in {"keep", "note", "checkout", "swap", "verify", "accept"} =>
       Usable(breaking, script.current, backup[<<script.current, script.target>>])
  /\ script.pc \in {"note", "checkout", "swap", "verify", "accept"} => kept = script.current /\ db.schema # 0
  /\ script.pc \in {"checkout", "swap", "verify", "accept"} => state.previous = script.current
  /\ script.pc \in {"swap", "verify", "accept"} => head = script.target
  /\ script.pc \in {"verify", "accept"} =>
       latest = script.target /\ container.image = script.target /\ container.on
  /\ script.pc = "accept" => quality[script.target] = "good" /\ Usable(breaking, script.target, db)

\* A rollback that an operator began at rest, or an update that was not accepted
Beginning ==
  /\ latest = head /\ container.image = head
  /\ kept # None => kept = state.previous
  /\ db.schema # 0 /\ Paired(breaking, backup, state.previous, head)
  /\ IF state.previous = None THEN Level ELSE state.previous < head \/ Usable(breaking, head, db)

\* A rollback: either the database is usable, or there is a snapshot that is.
RollingBack ==
  /\ script.pc \in {"back", "reswap", "health", "stop", "restore", "start", "recheck", "retag", "settle"} =>
       /\ script.target # None /\ script.target = state.previous /\ quality[script.target] = "good"
       /\ script.current # None /\ script.from = script.current
       /\ Paired(breaking, backup, script.target, script.current)
       /\ script.pc # "settle" /\ kept # None => kept = script.target
  /\ script.pc \in {"back", "reswap"} =>
       db.schema # 0 /\ (script.target < script.current \/ Usable(breaking, script.current, db))
  /\ script.pc \in {"reswap", "health", "stop", "restore", "start", "recheck", "retag", "settle"} =>
       head = script.target
  /\ script.pc \in {"health", "stop", "restore", "start", "recheck", "retag", "settle"} =>
       latest = script.target /\ container.image = script.target
  /\ script.pc \in {"health", "stop"} =>
       /\ container.on /\ db.schema # 0
       /\ script.target < script.current \/ Usable(breaking, script.target, db)
  /\ script.pc \in {"restore", "start"} => ~container.on
  /\ script.pc = "restore" => script.target < script.current
  /\ script.pc \in {"start", "recheck", "retag", "settle"} => Usable(breaking, script.target, db)
  /\ script.pc \in {"recheck", "retag", "settle"} => container.on
  /\ script.pc = "settle" => kept = script.current

Phase ==
  /\ script.pc \in {"none", "fetch"} => Level
  /\ script.pc = "begin" => Beginning
  /\ Updating /\ RollingBack

UpdateInv ==
  /\ UpdateTypes
  /\ Sane => Phase
  /\ "leftover" \notin mishaps /\ leftover => script.pc = "copy"

-----------------------------------------------------------------------------
(* Databases, releases and the script's record *)

(* A later release runs on what an earlier one runs on. *)
LEMMA UsableLater ==
  ASSUME NEW B, B \subseteq Nat, NEW v \in Nat, NEW w \in Nat, v <= w, NEW d, IsDb(d), Usable(B, v, d)
  PROVE  Usable(B, w, d)
BY DEF Usable, IsDb

(* A release that starts leaves a database on which it runs if it did before. *)
LEMMA MigratedIs ==
  ASSUME IsDb(db), NEW v \in Release, NEW d \in Migrated(v)
  PROVE  /\ IsDb(d) /\ (db.schema # 0 => d.schema # 0)
         /\ \A B : B \subseteq Nat /\ Usable(B, v, db) => Usable(B, v, d)
<1>1. PICK new : new = [db EXCEPT !.schema = v]
  OBVIOUS
<1>2. v \in Nat /\ v # 0
  BY UpdateAssumption DEF UpdateAssumption, Release
<1>3. IsDb(new) /\ new.schema = v
  BY <1>1, <1>2 DEF IsDb
<1>4. d = db \/ d = new
  BY <1>1 DEF Migrated
<1>5. ASSUME NEW B, B \subseteq Nat, Usable(B, v, db) PROVE Usable(B, v, new)
  BY <1>2, <1>3, <1>5 DEF Usable
<1> QED
  BY <1>2, <1>3, <1>4, <1>5

LEMMA Releases ==
  Release \subseteq Nat /\ None \in Nat /\ None \notin Release /\ Release \cup {None} \subseteq Nat
BY UpdateAssumption DEF UpdateAssumption, Release, None

LEMMA NoDbIs == IsDb(NoDb) /\ NoDb.schema = 0
BY DEF IsDb, NoDb

LEMMA NoScriptIs == ScriptOK(NoScript) /\ NoScript.pc = "none"
<1>1. PICK v \in BOOLEAN : v = FALSE
  OBVIOUS
<1>2. NoScript = [pc |-> "none", current |-> None, target |-> None, from |-> None, copy |-> NoDb, detached |-> v]
  BY <1>1, Zenon DEF NoScript
<1> QED
  BY <1>2, NoDbIs DEF ScriptOK

LEMMA GoIs ==
  ASSUME ScriptOK(script), script.pc \notin {"none", "fetch", "begin"}, NEW pc, Go(pc)
  PROVE  /\ ScriptOK(script') /\ script'.pc = pc
         /\ script'.current = script.current /\ script'.target = script.target
         /\ script'.from = script.from /\ script'.copy = script.copy
BY DEF ScriptOK, Go

LEMMA ExitIs ==
  ASSUME NEW o, Exit(o)
  PROVE  ScriptOK(script') /\ script'.pc = "none"
BY NoScriptIs DEF Exit

(* A step keeps the invariant if it keeps the types and, while all is well, the phase. *)
LEMMA StepInv ==
  ASSUME UpdateInv, UpdateTypes', mishaps \subseteq mishaps', Sane /\ Phase /\ Sane' => Phase',
         leftover' = leftover /\ script.pc # "copy"
  PROVE  UpdateInv'
<1>1. Sane' => Sane
  BY DEF Sane
<1> QED
  BY <1>1 DEF UpdateInv

-----------------------------------------------------------------------------
(* What a phase asks *)

(* Only the schema of the database, and not what is recorded last, counts. *)
LEMMA LevelStays ==
  ASSUME Level, UNCHANGED <<releases, head, images, backup>>, db'.schema = db.schema,
         mishaps \subseteq mishaps', state'.current = state.current, state'.previous = state.previous
  PROVE  Level'
BY DEF Level, releases, images, Usable, Paired

(* At rest the phase is that everything is level. *)
LEMMA AtRestPhase ==
  ASSUME script'.pc = "none", Level'
  PROVE  Phase'
BY DEF Phase, Updating, RollingBack

LEMMA PhaseStays ==
  ASSUME Phase, UNCHANGED <<releases, head, images, backup, state, script, mishaps>>, db'.schema = db.schema
  PROVE  Phase'
<1>1. Level' <=> Level
  BY DEF Level, releases, images, Usable, Paired
<1>2. Beginning' <=> Beginning
  BY <1>1 DEF Beginning, releases, images, Usable, Paired
<1>3. Updating' <=> Updating
  BY <1>1 DEF Updating, releases, images, Usable, Paired
<1>4. RollingBack' <=> RollingBack
  BY DEF RollingBack, releases, images, Usable, Paired
<1> QED
  BY <1>1, <1>2, <1>3, <1>4 DEF Phase

(* An update step that ends the script leaves what was level. *)
LEMMA FetchKeeps == ASSUME UpdateInv, Fetch PROVE UpdateInv'
<1>1. /\ UNCHANGED <<releases, head, images, backup, db, state, mishaps, leftover>>
      /\ script.pc = "fetch"
  BY DEF Fetch, data, At
<1>2. CASE \E o : Exit(o)
  <2>1. ScriptOK(script') /\ script'.pc = "none"
    BY <1>2, ExitIs
  <2>2. UpdateTypes'
    BY <1>1, <2>1 DEF UpdateInv, UpdateTypes, releases, images
  <2>3. Sane /\ Phase => Phase'
    BY <1>1, <2>1, LevelStays, AtRestPhase DEF Phase
  <2> QED
    BY <1>1, <2>2, <2>3, StepInv
<1>3. CASE \E r \in Release : ~(r <= head) /\ script' = [script EXCEPT !.pc = "stage", !.current = head, !.target = r]
  <2>1. PICK r \in Release : ~(r <= head) /\ script' = [script EXCEPT !.pc = "stage", !.current = head, !.target = r]
    BY <1>3
  <2>a. head \in Release /\ ScriptOK(script)
    BY DEF UpdateInv, UpdateTypes
  <2>b. ScriptOK(script') /\ script'.pc = "stage" /\ script'.current = head /\ script'.target = r
    BY <2>1, <2>a, Releases DEF ScriptOK
  <2>2. script'.current # None /\ script'.target # None /\ script'.current < script'.target
    BY <2>1, <2>a, <2>b, Releases
  <2>3. UpdateTypes'
    BY <1>1, <2>b DEF UpdateInv, UpdateTypes, releases, images
  <2>4. Sane /\ Phase => Phase'
    <3> SUFFICES ASSUME Phase PROVE Phase'
      OBVIOUS
    <3>1. Level'
      BY <1>1, LevelStays DEF Phase
    <3> QED
      BY <1>1, <2>b, <2>2, <3>1 DEF Phase, Updating, RollingBack
  <2> QED
    BY <1>1, <2>3, <2>4, StepInv
<1> QED
  BY <1>2, <1>3 DEF Fetch

LEMMA StageKeeps == ASSUME UpdateInv, Stage PROVE UpdateInv'
<1>1. /\ UNCHANGED <<releases, head, images, backup, db, mishaps, leftover>>
      /\ script.pc = "stage" /\ state'.current = state.current /\ state'.previous = state.previous
      /\ StateOK(state')
  BY DEF Stage, data, At, UpdateInv, UpdateTypes, StateOK
<1>2. CASE Exit("failed")
  <2>1. ScriptOK(script') /\ script'.pc = "none"
    BY <1>2, ExitIs
  <2>2. UpdateTypes'
    BY <1>1, <2>1 DEF UpdateInv, UpdateTypes, releases, images
  <2>3. Sane /\ Phase => Phase'
    BY <1>1, <2>1, LevelStays, AtRestPhase DEF Phase, Updating
  <2> QED
    BY <1>1, <2>2, <2>3, StepInv
<1>3. CASE Go("vacuum")
  <2>1. /\ ScriptOK(script') /\ script'.pc = "vacuum"
        /\ script'.current = script.current /\ script'.target = script.target
    BY <1>1, <1>3, GoIs DEF UpdateInv, UpdateTypes
  <2>2. UpdateTypes'
    BY <1>1, <2>1 DEF UpdateInv, UpdateTypes, releases, images
  <2>3. Sane /\ Phase => Phase'
    <3> SUFFICES ASSUME Phase PROVE Phase'
      OBVIOUS
    <3>1. Level'
      BY <1>1, LevelStays DEF Phase, Updating
    <3> QED
      BY <1>1, <2>1, <3>1 DEF Phase, Updating, RollingBack
  <2> QED
    BY <1>1, <2>2, <2>3, StepInv
<1> QED
  BY <1>2, <1>3 DEF Stage

LEMMA VacuumKeeps == ASSUME UpdateInv, Vacuum PROVE UpdateInv'
<1>1. /\ UNCHANGED <<releases, head, images, backup, db, state>> /\ script.pc = "vacuum"
      /\ mishaps \subseteq mishaps'
  BY DEF Vacuum, At, Smooth, Mishap
<1>2. CASE Exit("failed")
  <2>1. ScriptOK(script') /\ script'.pc = "none"
    BY <1>2, ExitIs
  <2>2. UpdateTypes'
    BY <1>1, <2>1 DEF UpdateInv, UpdateTypes, releases, images
  <2>3. Sane' => Sane
    BY <1>1 DEF Sane
  <2>4. Sane /\ Phase => Phase'
    BY <1>1, <2>1, LevelStays, AtRestPhase DEF Phase, Updating
  <2>5. \/ leftover' = leftover /\ mishaps' = mishaps
        \/ "leftover" \in mishaps'
        \/ script'.pc = "copy"
    BY DEF Vacuum, Smooth, Mishap, UpdateInv, UpdateTypes, ScriptOK
  <2>6. script'.pc # "copy" /\ script.pc # "copy"
    BY <1>1, <2>1
  <2> QED
    BY <2>2, <2>3, <2>4, <2>5, <2>6 DEF UpdateInv
<1>3. CASE /\ container.on /\ db.schema # 0 /\ ~leftover
           /\ leftover' = TRUE /\ UNCHANGED mishaps
           /\ script' = [script EXCEPT !.pc = "copy", !.copy = db]
  <2>a. ScriptOK(script) /\ IsDb(db)
    BY DEF UpdateInv, UpdateTypes
  <2>1. /\ ScriptOK(script') /\ script'.pc = "copy" /\ script'.copy = db
        /\ script'.current = script.current /\ script'.target = script.target
    BY <1>1, <1>3, <2>a DEF ScriptOK
  <2>2. UpdateTypes'
    BY <1>1, <2>1 DEF UpdateInv, UpdateTypes, releases, images
  <2>3. Sane' => Sane
    BY <1>1 DEF Sane
  <2>4. Sane /\ Phase => Phase'
    <3> SUFFICES ASSUME Phase PROVE Phase'
      OBVIOUS
    <3>1. Level' /\ Level /\ script.current = head
      BY <1>1, LevelStays DEF Phase, Updating
    <3>2. Usable(breaking, script.current, script.copy)'
      BY <1>1, <2>1, <3>1 DEF Level, releases
    <3> QED
      BY <1>1, <2>1, <3>1, <3>2 DEF Phase, Updating, RollingBack
  <2> QED
    BY <2>1, <2>2, <2>3, <2>4 DEF UpdateInv
<1> QED
  BY <1>2, <1>3 DEF Vacuum, Smooth

LEMMA CopyKeeps == ASSUME UpdateInv, Copy PROVE UpdateInv'
<1>1. /\ UNCHANGED <<releases, head, images, db, state>> /\ script.pc = "copy" /\ Go("keep")
      /\ mishaps \subseteq mishaps'
  BY DEF Copy, At
<1> DEFINE p == <<script.current, script.target>>
<1>2. PICK copied \in BOOLEAN, removed \in BOOLEAN :
        /\ backup' = [backup EXCEPT ![p] = IF copied THEN script.copy ELSE NoDb]
        /\ leftover' = ~removed
        /\ mishaps' = mishaps \cup (IF copied THEN {} ELSE {"copy"}) \cup (IF removed THEN {} ELSE {"leftover"})
  BY DEF Copy
<1>3. PICK d : /\ d = IF copied THEN script.copy ELSE NoDb
               /\ backup' = [backup EXCEPT ![p] = d]
  BY <1>2
<1>a. ScriptOK(script) /\ IsDb(script.copy)
  BY DEF UpdateInv, UpdateTypes, ScriptOK
<1>4. IsDb(d)
  BY <1>3, <1>a, NoDbIs
<1>5. /\ ScriptOK(script') /\ script'.pc = "keep"
      /\ script'.current = script.current /\ script'.target = script.target
  BY <1>1, <1>a, GoIs
<1>6. backup' = [q \in Pair |-> backup'[q]] /\ \A q \in Pair : backup'[q] = IF q = p THEN d ELSE backup[q]
  BY <1>3 DEF UpdateInv, UpdateTypes
<1>7. UpdateTypes'
  BY <1>1, <1>4, <1>5, <1>6 DEF UpdateInv, UpdateTypes, releases, images
<1>8. Sane' => Sane /\ copied
  BY <1>1, <1>2 DEF Sane
<1>9. Sane /\ copied /\ Phase => Phase'
  <2> SUFFICES ASSUME Sane, copied, Phase PROVE Phase'
    OBVIOUS
  <2>1. Level /\ script.current = head /\ d = script.copy /\ Usable(breaking, head, d)
        /\ script.current # None /\ script.target # None /\ script.current < script.target
    BY <1>1, <1>3 DEF Phase, Updating
  <2>2. script.current \in Release /\ script.target \in Release /\ p \in Pair
    BY <1>a, <2>1 DEF ScriptOK, Pair
  <2>3. Usable(breaking, script.current, backup[<<script.current, script.target>>])'
    BY <1>1, <1>5, <1>6, <2>1, <2>2 DEF releases
  <2>4. Paired(breaking, backup, state.previous, head)'
    <3> DEFINE a == state.previous
    <3>1. a \in Release \cup {None} /\ head \in Release
      BY DEF UpdateInv, UpdateTypes, StateOK
    <3>2. Paired(breaking, backup, a, head) /\ head \in Nat /\ a \in Nat
      BY <2>1, <3>1, Releases DEF Level
    <3>3. ASSUME a # None, a < head PROVE Usable(breaking, a, backup'[<<a, head>>])
      <4>1. <<a, head>> \in Pair /\ <<a, head>> # p
        BY <3>1, <3>2, <3>3, <2>1, <2>2 DEF Pair
      <4> QED
        BY <4>1, <1>6, <3>2, <3>3 DEF Paired
    <3>4. ASSUME head # None, head < a PROVE Usable(breaking, head, backup'[<<head, a>>])
      <4>0. a # None /\ a \in Release
        BY <3>1, <3>2, <3>4, Releases DEF None
      <4>1. <<head, a>> \in Pair
        BY <4>0, <3>1, <3>4 DEF Pair
      <4> QED
        BY <4>1, <1>6, <2>1, <3>2, <3>4 DEF Paired
    <3> QED
      BY <1>1, <3>3, <3>4 DEF Paired, releases
  <2>5. Level'
    BY <1>1, <2>1, <2>4 DEF Level, releases, images
  <2> QED
    BY <1>1, <1>5, <2>1, <2>3, <2>5 DEF Phase, Updating, RollingBack
<1>10. "leftover" \notin mishaps' => ~leftover'
  BY <1>2
<1> QED
  BY <1>7, <1>8, <1>9, <1>10 DEF UpdateInv

LEMMA KeepKeeps == ASSUME UpdateInv, Keep PROVE UpdateInv'
<1>1. /\ UNCHANGED <<releases, head, latest, container, backup, db, state, mishaps, leftover>>
      /\ script.pc = "keep" /\ Go("note")
      /\ kept' = IF container.image = None THEN kept ELSE container.image
  BY DEF Keep, data, At
<1>2. /\ ScriptOK(script') /\ script'.pc = "note"
      /\ script'.current = script.current /\ script'.target = script.target
  BY <1>1, GoIs DEF UpdateInv, UpdateTypes
<1>3. UpdateTypes'
  BY <1>1, <1>2 DEF UpdateInv, UpdateTypes, releases, ContainerOK
<1>4. Sane /\ Phase => Phase'
  <2> SUFFICES ASSUME Phase PROVE Phase'
    OBVIOUS
  <2>1. Level /\ script.current = head /\ script.current # None /\ script.target # None
        /\ script.current < script.target /\ Usable(breaking, script.current, backup[<<script.current, script.target>>])
    BY <1>1 DEF Phase, Updating
  <2>2. kept' = script'.current /\ db'.schema # 0
    BY <1>1, <1>2, <2>1 DEF Level, Usable
  <2>3. Usable(breaking, script.current, backup[<<script.current, script.target>>])'
    BY <1>1, <1>2, <2>1 DEF releases
  <2> QED
    BY <1>2, <2>1, <2>2, <2>3 DEF Phase, Updating, RollingBack
<1> QED
  BY <1>1, <1>3, <1>4, StepInv

LEMMA NoteKeeps == ASSUME UpdateInv, Note PROVE UpdateInv'
<1>1. /\ UNCHANGED <<releases, head, images, backup, db, mishaps, leftover>>
      /\ script.pc = "note" /\ Go("checkout") /\ state' = [state EXCEPT !.previous = script.current]
  BY DEF Note, data, At
<1>2. /\ ScriptOK(script') /\ script'.pc = "checkout"
      /\ script'.current = script.current /\ script'.target = script.target
  BY <1>1, GoIs DEF UpdateInv, UpdateTypes
<1>3. StateOK(state') /\ state'.previous = script.current
  BY <1>1 DEF UpdateInv, UpdateTypes, StateOK, ScriptOK
<1>4. UpdateTypes'
  BY <1>1, <1>2, <1>3 DEF UpdateInv, UpdateTypes, releases, images
<1>5. Sane /\ Phase => Phase'
  BY <1>1, <1>2, <1>3 DEF Phase, Updating, RollingBack, releases, images
<1> QED
  BY <1>1, <1>4, <1>5, StepInv

LEMMA CheckOutKeeps == ASSUME UpdateInv, CheckOut PROVE UpdateInv'
<1>1. /\ UNCHANGED <<releases, images, backup, db, mishaps, leftover, state>>
      /\ script.pc = "checkout" /\ Go("swap") /\ head' = script.target
  BY DEF CheckOut, data, At
<1>2. /\ ScriptOK(script') /\ script'.pc = "swap"
      /\ script'.current = script.current /\ script'.target = script.target
  BY <1>1, GoIs DEF UpdateInv, UpdateTypes
<1>3. Sane /\ Phase => Phase'
  BY <1>1, <1>2 DEF Phase, Updating, RollingBack, releases, images
<1>4. UpdateTypes'
  BY <1>1, <1>2 DEF UpdateInv, UpdateTypes, ScriptOK, releases, images
<1> QED
  BY <1>1, <1>3, <1>4, StepInv

-----------------------------------------------------------------------------
(* Swaps and health *)

LEMMA WorksIs ==
  ASSUME NEW v, NEW d
  PROVE  /\ Works(v, d) => Usable(breaking, v, d)
         /\ v # None /\ quality[v] = "good" /\ Usable(breaking, v, d) => Works(v, d)
BY DEF Works, Usable

LEMMA CreatedIs ==
  ASSUME UpdateTypes, NEW v \in Release, Created(v)
  PROVE  /\ ContainerOK(container') /\ container'.image = v /\ container'.on /\ IsDb(db')
         /\ db.schema # 0 => db'.schema # 0
         /\ \A B : B \subseteq Nat /\ Usable(B, v, db) => Usable(B, v, db')
<1>1. PICK b \in BOOLEAN : b = TRUE
  OBVIOUS
<1>2. container' = [image |-> v, on |-> b] /\ b
  BY <1>1, Zenon DEF Created
<1>3. ContainerOK(container') /\ container'.image = v /\ container'.on
  BY <1>2 DEF ContainerOK
<1>4. db' \in Migrated(v) /\ IsDb(db)
  BY DEF Created, UpdateTypes
<1> QED
  BY <1>3, <1>4, MigratedIs

LEMMA SwapBreaksTypes ==
  ASSUME UpdateTypes, NEW v \in Release, SwapBreaks(v) \/ SwapTo(v)
  PROVE  latest' \in Release /\ ContainerOK(container') /\ IsDb(db')
<1>1. CASE UNCHANGED <<latest, container, db>>
  BY <1>1 DEF UpdateTypes
<1>2. CASE latest' = v /\ UNCHANGED <<container, db>>
  BY <1>2 DEF UpdateTypes
<1>3. CASE latest' = v /\ container' = [image |-> None, on |-> FALSE] /\ UNCHANGED db
  <2>1. PICK b \in BOOLEAN : b = FALSE
    OBVIOUS
  <2>2. container' = [image |-> None, on |-> b]
    BY <1>3, <2>1, Zenon
  <2> QED
    BY <1>3, <2>2 DEF ContainerOK, UpdateTypes
<1>4. CASE SwapTo(v)
  BY <1>4, CreatedIs DEF SwapTo
<1> QED
  BY <1>1, <1>2, <1>3, <1>4 DEF SwapBreaks

(* The result of verify_running_version that sends the script to its rollback *)
LEMMA RejectedIs ==
  ASSUME UpdateTypes, script.pc \in {"swap", "verify"}, Rejected
  PROVE  /\ ScriptOK(script') /\ script'.pc = "begin"
         /\ StateOK(state') /\ state'.current = state.current /\ state'.previous = state.previous
<1>1. ScriptOK(script) /\ StateOK(state)
  BY DEF UpdateTypes
<1>2. Go("begin") /\ state' = [state EXCEPT !.last = "failed"]
  BY DEF Rejected
<1>3. ScriptOK(script') /\ script'.pc = "begin"
  BY <1>1, <1>2, GoIs
<1> QED
  BY <1>1, <1>2, <1>3 DEF StateOK

LEMMA SwapKeeps == ASSUME UpdateInv, Swap PROVE UpdateInv'
<1>1. /\ UNCHANGED <<releases, head, kept, backup, leftover>> /\ script.pc = "swap"
  BY DEF Swap, At
<1>2. UpdateTypes /\ script.target \in Release
  BY <1>1 DEF UpdateInv, UpdateTypes, ScriptOK
<1>3. CASE SwapTo(script.target) /\ Go("verify") /\ UNCHANGED <<mishaps, state>>
  <2>1. /\ ScriptOK(script') /\ script'.pc = "verify"
        /\ script'.current = script.current /\ script'.target = script.target
    BY <1>1, <1>2, <1>3, GoIs DEF UpdateTypes
  <2>2. /\ latest' = script.target /\ ContainerOK(container') /\ container'.image = script.target
        /\ container'.on /\ IsDb(db') /\ (db.schema # 0 => db'.schema # 0)
    BY <1>2, <1>3, CreatedIs DEF SwapTo
  <2>3. UpdateTypes'
    BY <1>1, <1>2, <1>3, <2>1, <2>2 DEF UpdateTypes, releases
  <2>4. Sane /\ Phase => Phase'
    BY <1>1, <1>3, <2>1, <2>2 DEF Phase, Updating, RollingBack, releases
  <2> QED
    BY <1>1, <1>3, <2>3, <2>4, StepInv
<1>4. CASE SwapBreaks(script.target) /\ Rejected /\ Mishap("swap")
  <2>1. ScriptOK(script') /\ StateOK(state')
    BY <1>1, <1>2, <1>4, RejectedIs
  <2>2. UpdateTypes'
    BY <1>1, <1>2, <1>4, <2>1, SwapBreaksTypes DEF UpdateTypes, releases
  <2>3. ~Sane' /\ mishaps \subseteq mishaps'
    BY <1>4 DEF Mishap, Sane
  <2> QED
    BY <1>1, <2>2, <2>3, StepInv
<1> QED
  BY <1>3, <1>4 DEF Swap, Smooth

LEMMA VerifyKeeps == ASSUME UpdateInv, Verify PROVE UpdateInv'
<1>1. /\ UNCHANGED <<releases, head, images, backup, db, mishaps, leftover>> /\ script.pc = "verify"
  BY DEF Verify, data, At
<1>2. UpdateTypes /\ ScriptOK(script)
  BY DEF UpdateInv, UpdateTypes
<1>3. CASE Accepted /\ Go("accept") /\ UNCHANGED state
  <2>1. /\ ScriptOK(script') /\ script'.pc = "accept"
        /\ script'.current = script.current /\ script'.target = script.target
    BY <1>1, <1>2, <1>3, GoIs
  <2>2. UpdateTypes'
    BY <1>1, <1>2, <1>3, <2>1 DEF UpdateTypes, releases, images
  <2>3. Sane /\ Phase => Phase'
    <3> SUFFICES ASSUME Phase PROVE Phase'
      OBVIOUS
    <3>1. container.image = script.target
      BY <1>1 DEF Phase, Updating
    <3>2. quality[script.target] = "good" /\ Usable(breaking, script.target, db)
      BY <1>3, <3>1, WorksIs DEF Accepted, Healthy
    <3>3. quality'[script'.target] = "good" /\ Usable(breaking, script.target, db)'
      BY <1>1, <2>1, <3>2 DEF releases
    <3> QED
      BY <1>1, <1>3, <2>1, <3>3 DEF Phase, Updating, RollingBack, releases, images
  <2> QED
    BY <1>1, <2>2, <2>3, StepInv
<1>4. CASE Rejected
  <2>1. /\ ScriptOK(script') /\ script'.pc = "begin"
        /\ StateOK(state') /\ state'.previous = state.previous
    BY <1>1, <1>2, <1>4, RejectedIs
  <2>2. UpdateTypes'
    BY <1>1, <1>2, <2>1 DEF UpdateTypes, releases, images
  <2>3. Sane /\ Phase => Phase'
    <3> SUFFICES ASSUME Phase PROVE Phase'
      OBVIOUS
    <3>1. /\ script.current # None /\ script.target # None /\ script.current < script.target
          /\ Usable(breaking, script.current, backup[<<script.current, script.target>>])
          /\ kept = script.current /\ db.schema # 0 /\ state.previous = script.current
          /\ head = script.target /\ latest = script.target /\ container.image = script.target
      BY <1>1 DEF Phase, Updating
    <3>2. script.current \in Nat /\ script.target \in Nat
      BY <1>2, Releases DEF ScriptOK
    <3>3. Paired(breaking, backup, state.previous, head)
      BY <3>1, <3>2 DEF Paired
    <3>4. Beginning'
      BY <1>1, <2>1, <3>1, <3>3 DEF Beginning, releases, images
    <3> QED
      BY <2>1, <3>4 DEF Phase, Updating, RollingBack
  <2> QED
    BY <1>1, <2>2, <2>3, StepInv
<1> QED
  BY <1>3, <1>4 DEF Verify

LEMMA AcceptKeeps == ASSUME UpdateInv, Accept PROVE UpdateInv'
<1>1. /\ UNCHANGED <<releases, head, images, backup, db, mishaps, leftover>> /\ script.pc = "accept"
      /\ state' = [state EXCEPT !.current = script.target, !.last = "success"]
  BY DEF Accept, data, At
<1>2. UpdateTypes /\ ScriptOK(script) /\ StateOK(state)
  BY DEF UpdateInv, UpdateTypes
<1>3. ScriptOK(script') /\ script'.pc = "none"
  BY ExitIs DEF Accept
<1>4. StateOK(state') /\ state'.current = script.target /\ state'.previous = state.previous
  BY <1>1, <1>2 DEF StateOK
<1>5. UpdateTypes'
  BY <1>1, <1>2, <1>3, <1>4 DEF UpdateTypes, releases, images
<1>6. Sane /\ Phase => Phase'
  <2> SUFFICES ASSUME Phase PROVE Phase'
    OBVIOUS
  <2>1. /\ script.current # None /\ script.target # None /\ script.current < script.target
        /\ Usable(breaking, script.current, backup[<<script.current, script.target>>])
        /\ kept = script.current /\ state.previous = script.current
        /\ head = script.target /\ latest = script.target /\ container.image = script.target
        /\ container.on /\ quality[script.target] = "good" /\ Usable(breaking, script.target, db)
    BY <1>1 DEF Phase, Updating
  <2>2. script.current \in Nat /\ script.target \in Nat
    BY <1>2, Releases DEF ScriptOK
  <2>3. Paired(breaking, backup, state.previous, head)
    BY <2>1, <2>2 DEF Paired
  <2>4. Paired(breaking, backup, state.previous, head)' /\ Usable(breaking, head, db)'
    BY <1>1, <1>4, <2>1, <2>3 DEF releases
  <2>5. Level'
    BY <1>1, <1>4, <2>1, <2>4 DEF Level, releases, images
  <2> QED
    BY <1>3, <2>5, AtRestPhase
<1> QED
  BY <1>1, <1>5, <1>6, StepInv

-----------------------------------------------------------------------------
(* The rollback *)

LEMMA PairedIsSymmetric ==
  ASSUME NEW B, NEW f, NEW a, NEW b, Paired(B, f, a, b)
  PROVE  Paired(B, f, b, a)
BY DEF Paired

LEMMA BeginKeeps == ASSUME UpdateInv, Begin PROVE UpdateInv'
<1>1. /\ UNCHANGED <<releases, head, images, backup, db, leftover, state>> /\ script.pc = "begin"
      /\ mishaps \subseteq mishaps'
  BY DEF Begin, data, At, Smooth, Mishap
<1>2. UpdateTypes /\ ScriptOK(script) /\ StateOK(state) /\ head # None
  BY Releases DEF UpdateInv, UpdateTypes
<1>3. CASE state.previous = None
  <2>1. ScriptOK(script') /\ script'.pc = "none"
    BY <1>3, ExitIs DEF Begin
  <2>2. UpdateTypes'
    BY <1>1, <1>2, <2>1 DEF UpdateTypes, releases, images
  <2>3. Sane /\ Phase => Phase'
    <3> SUFFICES ASSUME Phase PROVE Phase'
      OBVIOUS
    <3>1. Level
      BY <1>1, <1>3 DEF Phase, Beginning
    <3>2. Level'
      BY <1>1, <3>1, LevelStays
    <3> QED
      BY <2>1, <3>2, AtRestPhase
  <2> QED
    BY <1>1, <2>2, <2>3, StepInv
<1>4. CASE state.previous # None
  <2>1. script' = [script EXCEPT !.pc = "back", !.current = head, !.target = state.previous, !.from = container.image]
    BY <1>4 DEF Begin
  <2>2. state.previous \in Release \cup {None} /\ head \in Release /\ container.image \in Release \cup {None}
    BY <1>2 DEF UpdateTypes, StateOK, ContainerOK
  <2>3. /\ ScriptOK(script') /\ script'.pc = "back" /\ script'.current = head
        /\ script'.target = state.previous /\ script'.from = container.image
    BY <1>2, <1>4, <2>1, <2>2 DEF ScriptOK
  <2>4. UpdateTypes'
    BY <1>1, <1>2, <2>3 DEF UpdateTypes, releases, images
  <2>5. Sane' => quality[state.previous] = "good"
    BY <1>4 DEF Begin, Mishap, Sane
  <2>6. Sane /\ Phase /\ Sane' => Phase'
    <3> SUFFICES ASSUME Phase, quality[state.previous] = "good" PROVE Phase'
      BY <2>5
    <3>1. Beginning
      BY <1>1 DEF Phase
    <3>2. state.previous < head \/ Usable(breaking, head, db)
      BY <1>4, <3>1 DEF Beginning
    <3>3. (state.previous < head \/ Usable(breaking, head, db))'
      BY <1>1, <3>2 DEF releases
    <3>4. Paired(breaking, backup, state.previous, head)'
      BY <1>1, <3>1 DEF releases, Beginning
    <3> QED
      BY <1>1, <1>2, <1>4, <2>3, <3>1, <3>3, <3>4 DEF Beginning, Phase, Updating, RollingBack, releases, images
  <2> QED
    BY <1>1, <2>4, <2>6, StepInv
<1> QED
  BY <1>3, <1>4

LEMMA BackKeeps == ASSUME UpdateInv, Back PROVE UpdateInv'
<1>1. /\ UNCHANGED <<releases, images, backup, db, mishaps, leftover, state>>
      /\ script.pc = "back" /\ Go("reswap") /\ head' = script.target
  BY DEF Back, data, At
<1>2. UpdateTypes /\ ScriptOK(script)
  BY DEF UpdateInv, UpdateTypes
<1>3. /\ ScriptOK(script') /\ script'.pc = "reswap" /\ script'.current = script.current
      /\ script'.target = script.target /\ script'.from = script.from
  BY <1>1, <1>2, GoIs
<1>4. script.target \in Release
  BY <1>1, <1>2 DEF ScriptOK
<1>5. UpdateTypes'
  BY <1>1, <1>2, <1>3, <1>4 DEF UpdateTypes, releases, images
<1>6. Sane /\ Phase => Phase'
  BY <1>1, <1>3 DEF Phase, Updating, RollingBack, releases, images
<1> QED
  BY <1>1, <1>5, <1>6, StepInv

LEMMA ReswapKeeps == ASSUME UpdateInv, Reswap PROVE UpdateInv'
<1> DEFINE image == IF kept = None THEN head ELSE kept
<1>1. /\ UNCHANGED <<releases, head, kept, backup, leftover, state>>
      /\ script.pc = "reswap" /\ Go("health")
      /\ mishaps \subseteq mishaps'
  BY DEF Reswap, At, Smooth, Mishap
<1>2. UpdateTypes /\ ScriptOK(script)
  BY DEF UpdateInv, UpdateTypes
<1>3. /\ ScriptOK(script') /\ script'.pc = "health" /\ script'.current = script.current
      /\ script'.target = script.target /\ script'.from = script.from
  BY <1>1, <1>2, GoIs
<1>4. image \in Release
  BY <1>2 DEF UpdateTypes
<1>5. SwapTo(image) \/ (SwapBreaks(image) /\ Mishap("swap"))
  BY DEF Reswap
<1>6. UpdateTypes'
  <2>1. latest' \in Release /\ ContainerOK(container') /\ IsDb(db')
    BY <1>2, <1>4, <1>5, SwapBreaksTypes
  <2> QED
    BY <1>1, <1>2, <1>3, <2>1 DEF UpdateTypes, releases
<1>7. Sane /\ Phase /\ Sane' => Phase'
  <2> SUFFICES ASSUME Phase, Sane' PROVE Phase'
    OBVIOUS
  <2>1. SwapTo(image)
    BY <1>5 DEF Mishap, Sane
  <2>2. /\ script.target # None /\ script.target = state.previous /\ quality[script.target] = "good"
        /\ script.current # None /\ script.from = script.current
        /\ Paired(breaking, backup, script.target, script.current)
        /\ kept # None => kept = script.target
        /\ db.schema # 0 /\ (script.target < script.current \/ Usable(breaking, script.current, db))
        /\ head = script.target
    BY <1>1 DEF Phase, RollingBack
  <2>3. image = script.target
    BY <2>2
  <2> HIDE DEF image
  <2>4. /\ latest' = script.target /\ container'.image = script.target /\ container'.on /\ db'.schema # 0
        /\ \A B : B \subseteq Nat /\ Usable(B, script.target, db) => Usable(B, script.target, db')
    BY <1>2, <1>4, <2>1, <2>2, <2>3, CreatedIs DEF SwapTo
  <2>5. script.target < script.current \/ Usable(breaking, script.target, db')
    <3>1. CASE script.target < script.current
      BY <3>1
    <3>2. CASE ~(script.target < script.current)
      <4>1. script.target \in Nat /\ script.current \in Nat /\ breaking \subseteq Nat /\ IsDb(db)
        BY <1>2, Releases DEF ScriptOK, UpdateTypes
      <4>2. Usable(breaking, script.current, db) /\ script.current <= script.target
        BY <2>2, <3>2, <4>1
      <4>3. Usable(breaking, script.target, db)
        BY <4>1, <4>2, UsableLater
      <4> QED
        BY <2>4, <4>1, <4>3
    <3> QED
      BY <3>1, <3>2
  <2>6. (script.target < script.current \/ Usable(breaking, script.target, db))'
    BY <1>1, <1>3, <2>5 DEF releases
  <2>7. Paired(breaking, backup, script.target, script.current)'
    BY <1>1, <1>3, <2>2 DEF releases
  <2> QED
    BY <1>1, <1>3, <2>2, <2>4, <2>6, <2>7 DEF Phase, Updating, RollingBack, releases
<1> QED
  BY <1>1, <1>6, <1>7, StepInv

LEMMA HealthKeeps == ASSUME UpdateInv, Health PROVE UpdateInv'
<1>1. /\ UNCHANGED <<releases, head, images, backup, db, mishaps, leftover, state>> /\ script.pc = "health"
      /\ (Go("retag") /\ Healthy) \/ Go("stop")
  BY DEF Health, data, At
<1>2. UpdateTypes /\ ScriptOK(script)
  BY DEF UpdateInv, UpdateTypes
<1>3. /\ ScriptOK(script') /\ script'.current = script.current
      /\ script'.target = script.target /\ script'.from = script.from
      /\ (script'.pc = "retag" /\ Healthy) \/ script'.pc = "stop"
  BY <1>1, <1>2, GoIs
<1>4. UpdateTypes'
  BY <1>1, <1>2, <1>3 DEF UpdateTypes, releases, images
<1>5. Sane /\ Phase => Phase'
  <2> SUFFICES ASSUME Phase PROVE Phase'
    OBVIOUS
  <2>1. /\ Paired(breaking, backup, script.target, script.current) /\ container.image = script.target
        /\ script.target < script.current \/ Usable(breaking, script.target, db)
    BY <1>1 DEF Phase, RollingBack
  <2>2. Healthy => Usable(breaking, script.target, db)
    BY <2>1, WorksIs DEF Healthy
  <2>3. Paired(breaking, backup, script.target, script.current)'
    BY <1>1, <1>3, <2>1 DEF releases
  <2>4. (script.target < script.current \/ Usable(breaking, script.target, db))'
    BY <1>1, <1>3, <2>1 DEF releases
  <2>5. CASE script'.pc = "retag" /\ Healthy
    <3>1. Usable(breaking, script.target, db)'
      BY <1>1, <1>3, <2>2, <2>5 DEF releases
    <3> QED
      BY <1>1, <1>3, <2>3, <2>5, <3>1 DEF Phase, Updating, RollingBack, releases, images, Healthy
  <2>6. CASE script'.pc = "stop"
    BY <1>1, <1>3, <2>3, <2>4, <2>6 DEF Phase, Updating, RollingBack, releases, images
  <2> QED
    BY <1>3, <2>5, <2>6
<1> QED
  BY <1>1, <1>4, <1>5, StepInv

LEMMA StopKeeps == ASSUME UpdateInv, Stop PROVE UpdateInv'
<1>1. /\ UNCHANGED <<releases, head, latest, kept, backup, db, leftover, state>> /\ script.pc = "stop"
      /\ mishaps \subseteq mishaps'
      /\ \/ Found = NoDb /\ Go("recheck") /\ UNCHANGED container
         \/ Found # NoDb /\ Go("restore") /\ container' = [container EXCEPT !.on = FALSE]
         \/ Found # NoDb /\ Go("restore") /\ UNCHANGED container /\ "restore" \in mishaps'
  BY DEF Stop, data, At, Smooth, Mishap
<1>2. UpdateTypes /\ ScriptOK(script) /\ ContainerOK(container)
  BY DEF UpdateInv, UpdateTypes
<1>3. /\ ScriptOK(script') /\ script'.current = script.current
      /\ script'.target = script.target /\ script'.from = script.from
      /\ \/ Found = NoDb /\ script'.pc = "recheck" /\ UNCHANGED container
         \/ Found # NoDb /\ script'.pc = "restore"
  BY <1>1, <1>2, GoIs
<1>4. /\ ContainerOK(container') /\ container'.image = container.image
      /\ Found # NoDb => ~container'.on \/ "restore" \in mishaps'
  <2>1. PICK b \in BOOLEAN : b = FALSE
    OBVIOUS
  <2>2. \/ container' = container /\ (Found # NoDb => "restore" \in mishaps')
        \/ container' = [container EXCEPT !.on = b]
    BY <1>1, <2>1, Zenon
  <2> QED
    BY <1>2, <2>1, <2>2 DEF ContainerOK
<1>5. UpdateTypes'
  BY <1>1, <1>2, <1>3, <1>4 DEF UpdateTypes, releases
<1>6. Sane /\ Phase /\ Sane' => Phase'
  <2> SUFFICES ASSUME Phase, Sane' PROVE Phase'
    OBVIOUS
  <2>1. /\ Paired(breaking, backup, script.target, script.current) /\ script.target # None
        /\ script.target < script.current \/ Usable(breaking, script.target, db)
        /\ container.on
    BY <1>1 DEF Phase, RollingBack
  <2>2. script.target \in Release /\ script.current \in Release
    BY <1>1, <1>2 DEF ScriptOK
  <2>3. Paired(breaking, backup, script.target, script.current)'
    BY <1>1, <1>3, <2>1 DEF releases
  <2>4. CASE script.target < script.current
    <3>1. Found = backup[<<script.target, script.current>>]
      BY <2>2, <2>4 DEF Found, Pair
    <3>2. Found # NoDb
      BY <2>1, <2>4, <3>1, NoDbIs DEF Paired, Usable
    <3>3. ~container'.on
      BY <1>4, <2>1, <3>2 DEF Sane
    <3> QED
      BY <1>1, <1>3, <1>4, <2>3, <2>4, <3>2, <3>3 DEF Phase, Updating, RollingBack, releases
  <2>5. CASE ~(script.target < script.current)
    <3>1. Found = NoDb
      BY <2>5 DEF Found, Pair
    <3>2. Usable(breaking, script.target, db)'
      BY <1>1, <1>3, <2>1, <2>5 DEF releases
    <3> QED
      BY <1>1, <1>3, <2>1, <2>3, <3>1, <3>2 DEF Phase, Updating, RollingBack, releases
  <2> QED
    BY <2>4, <2>5
<1> QED
  BY <1>1, <1>5, <1>6, StepInv

LEMMA RestoreKeeps == ASSUME UpdateInv, Restore PROVE UpdateInv'
<1>1. /\ UNCHANGED <<releases, head, images, backup, leftover, state>> /\ script.pc = "restore"
      /\ Go("start") /\ mishaps \subseteq mishaps'
      /\ \/ db' = Found
         \/ container.on /\ db' = NoDb
         \/ db' \in Damaged /\ "restore" \in mishaps'
  BY DEF Restore, At, Smooth, Mishap
<1>2. UpdateTypes /\ ScriptOK(script)
  BY DEF UpdateInv, UpdateTypes
<1>3. /\ ScriptOK(script') /\ script'.current = script.current /\ script'.pc = "start"
      /\ script'.target = script.target /\ script'.from = script.from
  BY <1>1, <1>2, GoIs
<1>4. script.target \in Release /\ script.current \in Release
  BY <1>1, <1>2 DEF ScriptOK
<1>5. IsDb(Found) /\ IsDb(NoDb) /\ \A d \in Damaged : IsDb(d)
  <2>1. IsDb(Found) /\ IsDb(NoDb)
    BY <1>2, NoDbIs DEF Found, UpdateTypes
  <2>2. ASSUME NEW d \in [schema : 1 .. db.schema, told : 0 .. db.told] PROVE IsDb(d)
    BY <1>2, <2>2 DEF IsDb, UpdateTypes
  <2> QED
    BY <2>1, <2>2 DEF Damaged
<1>6. UpdateTypes'
  BY <1>1, <1>2, <1>3, <1>5 DEF UpdateTypes, releases, images
<1>7. Sane /\ Phase /\ Sane' => Phase'
  <2> SUFFICES ASSUME Phase, Sane' PROVE Phase'
    OBVIOUS
  <2>1. /\ Paired(breaking, backup, script.target, script.current) /\ script.target # None
        /\ script.target < script.current /\ ~container.on
    BY <1>1 DEF Phase, RollingBack
  <2>2. db' = Found /\ Found = backup[<<script.target, script.current>>]
    BY <1>1, <1>4, <2>1 DEF Found, Pair, Sane
  <2>3. Usable(breaking, script.target, db)'
    BY <1>1, <1>3, <2>1, <2>2 DEF Paired, releases
  <2>4. Paired(breaking, backup, script.target, script.current)'
    BY <1>1, <1>3, <2>1 DEF releases
  <2> QED
    BY <1>1, <1>3, <2>1, <2>3, <2>4 DEF Phase, Updating, RollingBack, releases, images
<1> QED
  BY <1>1, <1>6, <1>7, StepInv

LEMMA StartRestoredKeeps == ASSUME UpdateInv, StartRestored PROVE UpdateInv'
<1>1. /\ UNCHANGED <<releases, head, latest, kept, backup, leftover, state>> /\ script.pc = "start"
      /\ Go("recheck") /\ mishaps \subseteq mishaps'
      /\ \/ Created(latest)
         \/ container.on /\ UNCHANGED <<container, db>>
         \/ UNCHANGED <<container, db>> /\ Mishap("swap")
  BY DEF StartRestored, At, Smooth, Mishap
<1>2. UpdateTypes /\ ScriptOK(script) /\ latest \in Release
  BY DEF UpdateInv, UpdateTypes
<1>3. /\ ScriptOK(script') /\ script'.current = script.current /\ script'.pc = "recheck"
      /\ script'.target = script.target /\ script'.from = script.from
  BY <1>1, <1>2, GoIs
<1>4. CASE Created(latest)
  <2>1. /\ ContainerOK(container') /\ container'.image = latest /\ container'.on /\ IsDb(db')
        /\ \A B : B \subseteq Nat /\ Usable(B, latest, db) => Usable(B, latest, db')
    BY <1>2, <1>4, CreatedIs
  <2>2. UpdateTypes'
    BY <1>1, <1>2, <1>3, <2>1 DEF UpdateTypes, releases
  <2>3. Sane /\ Phase => Phase'
    <3> SUFFICES ASSUME Phase PROVE Phase'
      OBVIOUS
    <3>1. /\ Paired(breaking, backup, script.target, script.current)
          /\ latest = script.target /\ Usable(breaking, script.target, db)
      BY <1>1 DEF Phase, RollingBack
    <3>2. breaking \subseteq Nat
      BY <1>2, Releases DEF UpdateTypes
    <3>3. Usable(breaking, script.target, db)'
      BY <1>1, <1>3, <2>1, <3>1, <3>2 DEF releases
    <3>4. Paired(breaking, backup, script.target, script.current)'
      BY <1>1, <1>3, <3>1 DEF releases
    <3> QED
      BY <1>1, <1>3, <2>1, <3>1, <3>3, <3>4 DEF Phase, Updating, RollingBack, releases
  <2> QED
    BY <1>1, <2>2, <2>3, StepInv
<1>5. CASE UNCHANGED <<container, db>>
  <2>1. UpdateTypes'
    BY <1>1, <1>2, <1>3, <1>5 DEF UpdateTypes, releases
  <2>2. CASE Mishap("swap")
    <3>1. ~Sane'
      BY <2>2 DEF Mishap, Sane
    <3> QED
      BY <1>1, <2>1, <3>1, StepInv
  <2>3. CASE container.on
    <3>1. ~Phase
      BY <1>1, <2>3 DEF Phase, RollingBack
    <3> QED
      BY <1>1, <2>1, <3>1, StepInv
  <2>4. CASE Created(latest)
    BY <1>4, <2>4
  <2> QED
    BY <1>1, <2>2, <2>3, <2>4
<1> QED
  BY <1>1, <1>4, <1>5

LEMMA RecheckKeeps == ASSUME UpdateInv, Recheck PROVE UpdateInv'
<1>1. /\ UNCHANGED <<releases, head, images, backup, db, leftover, state>> /\ script.pc = "recheck"
      /\ mishaps \subseteq mishaps'
      /\ \/ Go("retag") /\ UNCHANGED mishaps
         \/ Exit("failed") /\ (~Healthy \/ Mishap("slow"))
  BY DEF Recheck, At, data, Smooth, Mishap
<1>2. UpdateTypes /\ ScriptOK(script)
  BY DEF UpdateInv, UpdateTypes
<1>3. CASE Go("retag") /\ UNCHANGED mishaps
  <2>1. /\ ScriptOK(script') /\ script'.current = script.current /\ script'.pc = "retag"
        /\ script'.target = script.target /\ script'.from = script.from
    BY <1>1, <1>2, <1>3, GoIs
  <2>2. UpdateTypes'
    BY <1>1, <1>2, <2>1 DEF UpdateTypes, releases, images
  <2>3. Sane /\ Phase => Phase'
    <3> SUFFICES ASSUME Phase PROVE Phase'
      OBVIOUS
    <3>1. /\ Paired(breaking, backup, script.target, script.current)
          /\ Usable(breaking, script.target, db)
      BY <1>1 DEF Phase, RollingBack
    <3>2. (/\ Paired(breaking, backup, script.target, script.current)
           /\ Usable(breaking, script.target, db))'
      BY <1>1, <2>1, <3>1 DEF releases
    <3> QED
      BY <1>1, <2>1, <3>2 DEF Phase, Updating, RollingBack, releases, images
  <2> QED
    BY <1>1, <2>2, <2>3, StepInv
<1>4. CASE Exit("failed") /\ (~Healthy \/ Mishap("slow"))
  <2>1. ScriptOK(script') /\ script'.pc = "none"
    BY <1>4, ExitIs
  <2>2. UpdateTypes'
    BY <1>1, <1>2, <2>1 DEF UpdateTypes, releases, images
  <2>3. Sane /\ Phase => Phase'
    <3> SUFFICES ASSUME Phase PROVE Phase'
      OBVIOUS
    <3>1. /\ script.target # None /\ script.target = state.previous /\ quality[script.target] = "good"
          /\ kept # None => kept = script.target
          /\ head = script.target /\ latest = script.target /\ container.image = script.target
          /\ Usable(breaking, script.target, db) /\ container.on
      BY <1>1 DEF Phase, RollingBack
    <3>2. Healthy
      BY <3>1, WorksIs DEF Healthy
    <3>3. "slow" \in mishaps'
      BY <1>4, <3>2 DEF Mishap
    <3>4. Paired(breaking, backup, state.previous, head)'
      <4>1. ~(script.target < script.target)
        BY <1>1, <1>2, Releases DEF ScriptOK
      <4> QED
        BY <1>1, <3>1, <4>1 DEF Paired
    <3>5. Usable(breaking, head, db)'
      BY <1>1, <3>1 DEF releases
    <3>6. Level'
      BY <1>1, <3>1, <3>3, <3>4, <3>5 DEF Level, releases, images
    <3> QED
      BY <2>1, <3>6, AtRestPhase
  <2> QED
    BY <1>1, <2>2, <2>3, StepInv
<1> QED
  BY <1>1, <1>3, <1>4

LEMMA RetagKeeps == ASSUME UpdateInv, Retag PROVE UpdateInv'
<1>1. /\ UNCHANGED <<releases, head, latest, container, backup, db, mishaps, leftover, state>>
      /\ script.pc = "retag" /\ Go("settle")
      /\ kept' = IF script.from = None THEN kept ELSE script.from
  BY DEF Retag, At, data
<1>2. UpdateTypes /\ ScriptOK(script)
  BY DEF UpdateInv, UpdateTypes
<1>3. /\ ScriptOK(script') /\ script'.current = script.current /\ script'.pc = "settle"
      /\ script'.target = script.target /\ script'.from = script.from
  BY <1>1, <1>2, GoIs
<1>4. UpdateTypes'
  BY <1>1, <1>2, <1>3 DEF UpdateTypes, ScriptOK, releases
<1>5. Sane /\ Phase => Phase'
  <2> SUFFICES ASSUME Phase PROVE Phase'
    OBVIOUS
  <2>1. /\ Paired(breaking, backup, script.target, script.current)
        /\ Usable(breaking, script.target, db) /\ script.from = script.current /\ script.current # None
    BY <1>1 DEF Phase, RollingBack
  <2>2. (/\ Paired(breaking, backup, script.target, script.current)
         /\ Usable(breaking, script.target, db))'
    BY <1>1, <1>3, <2>1 DEF releases
  <2>3. kept' = script'.current
    BY <1>1, <1>3, <2>1
  <2> QED
    BY <1>1, <1>3, <2>2, <2>3 DEF Phase, Updating, RollingBack, releases
<1> QED
  BY <1>1, <1>4, <1>5, StepInv

LEMMA SettleKeeps == ASSUME UpdateInv, Settle PROVE UpdateInv'
<1>1. /\ UNCHANGED <<releases, head, images, backup, db, mishaps, leftover>> /\ script.pc = "settle"
      /\ state' = [current |-> script.target, previous |-> script.current, last |-> "rolled-back"]
  BY DEF Settle, At, data
<1>2. UpdateTypes /\ ScriptOK(script)
  BY DEF UpdateInv, UpdateTypes
<1>3. ScriptOK(script') /\ script'.pc = "none"
  BY ExitIs DEF Settle
<1>4. StateOK(state') /\ state'.current = script.target /\ state'.previous = script.current
  BY <1>1, <1>2 DEF StateOK, ScriptOK
<1>5. UpdateTypes'
  BY <1>1, <1>2, <1>3, <1>4 DEF UpdateTypes, releases, images
<1>6. Sane /\ Phase => Phase'
  <2> SUFFICES ASSUME Phase PROVE Phase'
    OBVIOUS
  <2>1. /\ quality[script.target] = "good" /\ Paired(breaking, backup, script.target, script.current)
        /\ head = script.target /\ latest = script.target /\ container.image = script.target
        /\ Usable(breaking, script.target, db) /\ container.on /\ kept = script.current
    BY <1>1 DEF Phase, RollingBack
  <2>2. Paired(breaking, backup, script.current, script.target)
    BY <2>1, PairedIsSymmetric
  <2>3. Paired(breaking, backup, state.previous, head)' /\ Usable(breaking, head, db)'
    BY <1>1, <1>4, <2>1, <2>2 DEF releases
  <2>4. Level'
    BY <1>1, <1>4, <2>1, <2>3 DEF Level, releases, images
  <2> QED
    BY <1>3, <2>4, AtRestPhase
<1> QED
  BY <1>1, <1>5, <1>6, StepInv

-----------------------------------------------------------------------------
(* Around the scripts *)

LEMMA DieKeeps == ASSUME UpdateInv, Die PROVE UpdateInv'
<1>1. /\ UNCHANGED <<releases, head, kept, backup, leftover, state>> /\ script.pc # "none"
      /\ mishaps \subseteq mishaps' /\ Exit("failed")
  BY DEF Die, AtRest, Mishap
<1>2. UpdateTypes /\ ScriptOK(script)
  BY DEF UpdateInv, UpdateTypes
<1>3. ScriptOK(script') /\ script'.pc = "none"
  BY <1>1, ExitIs
<1>4. CASE script.pc \in {"restore", "swap", "reswap"}
  <2>1. latest' \in Release /\ ContainerOK(container') /\ IsDb(db')
    <3>1. CASE script.pc = "restore"
      BY <1>2, <3>1, NoDbIs DEF Die, At, UpdateTypes
    <3>2. CASE script.pc = "swap"
      <4>1. script.target \in Release /\ SwapBreaks(script.target)
        BY <1>2, <3>2 DEF Die, At, ScriptOK
      <4> QED
        BY <1>2, <4>1, SwapBreaksTypes
    <3>3. CASE script.pc = "reswap"
      <4> DEFINE image == IF kept = None THEN head ELSE kept
      <4>1. image \in Release
        BY <1>2 DEF UpdateTypes
      <4>2. SwapBreaks(image)
        BY <3>3 DEF Die, At
      <4> QED
        BY <1>2, <4>1, <4>2, SwapBreaksTypes
    <3> QED
      BY <1>4, <3>1, <3>2, <3>3
  <2>2. UpdateTypes'
    BY <1>1, <1>2, <1>3, <2>1 DEF UpdateTypes, releases
  <2>3. "died" \in mishaps'
    BY <1>4 DEF Die, At, Mishap
  <2> QED
    BY <1>1, <1>4, <2>2, <2>3, StepInv DEF Sane
<1>5. CASE script.pc \notin {"restore", "swap", "reswap"}
  <2>1. UNCHANGED <<latest, container, db>>
    BY <1>5 DEF Die, At
  <2>2. UpdateTypes'
    BY <1>1, <1>2, <1>3, <2>1 DEF UpdateTypes, releases
  <2>3. CASE script.pc \in {"fetch", "stage", "vacuum", "keep", "copy"}
    <3>1. Sane /\ Phase => Phase'
      <4> SUFFICES ASSUME Phase PROVE Phase'
        OBVIOUS
      <4>1. Level
        BY <2>3 DEF Phase, Updating
      <4>2. Level'
        BY <1>1, <2>1, <4>1, LevelStays DEF images
      <4> QED
        BY <1>3, <4>2, AtRestPhase
    <3>2. script.pc = "copy" => "leftover" \in mishaps'
      BY DEF Die, At, Mishap
    <3>3. Sane' => Sane
      BY <1>1 DEF Sane
    <3> QED
      BY <1>1, <2>2, <3>1, <3>2, <3>3 DEF UpdateInv
  <2>4. CASE script.pc \notin {"fetch", "stage", "vacuum", "keep", "copy"}
    <3>1. "died" \in mishaps'
      BY <2>4 DEF Die, At, Mishap
    <3> QED
      BY <1>1, <2>2, <2>4, <3>1, StepInv DEF Sane
  <2> QED
    BY <2>3, <2>4
<1> QED
  BY <1>4, <1>5

LEMMA RunCliKeeps == ASSUME UpdateInv, NEW pc \in {"fetch", "begin"}, RunCli(pc) PROVE UpdateInv'
<1>1. /\ UNCHANGED <<releases, head, images, backup, db, mishaps, leftover, state>>
      /\ script.pc = "none" /\ script' = [NoScript EXCEPT !.pc = pc]
  BY DEF RunCli, AtRest, data
<1>2. UpdateTypes
  BY DEF UpdateInv
<1>3. ScriptOK(script') /\ script'.pc = pc
  BY <1>1, NoScriptIs DEF ScriptOK
<1>4. UpdateTypes'
  BY <1>1, <1>2, <1>3 DEF UpdateTypes, releases, images
<1>5. Sane /\ Phase => Phase'
  <2> SUFFICES ASSUME Phase PROVE Phase'
    OBVIOUS
  <2>1. Level'
    BY <1>1, LevelStays DEF Phase
  <2>2. Beginning'
    BY <2>1 DEF Beginning, Level, Usable
  <2> QED
    BY <1>3, <2>1, <2>2 DEF Phase, Updating, RollingBack
<1> QED
  BY <1>1, <1>4, <1>5, StepInv

LEMMA StartSelfUpdateKeeps == ASSUME UpdateInv, StartSelfUpdate PROVE UpdateInv'
<1>1. /\ UNCHANGED <<releases, head, images, backup, leftover, state, mishaps>> /\ script.pc = "none"
  BY DEF StartSelfUpdate, AtRest
<1>2. UpdateTypes /\ IsDb(db)
  BY DEF UpdateInv, UpdateTypes
<1>3. PICK t \in BOOLEAN : t = TRUE
  OBVIOUS
<1>4. \/ script' = [NoScript EXCEPT !.pc = "fetch", !.detached = t] /\ UNCHANGED db
      \/ UNCHANGED script /\ \E n : db' = [db EXCEPT !.told = n]
  BY <1>3, Zenon DEF StartSelfUpdate
<1>5. /\ ScriptOK(script') /\ script'.pc \in {"none", "fetch"}
      /\ IsDb(db') /\ db'.schema = db.schema
  BY <1>1, <1>2, <1>4, NoScriptIs DEF ScriptOK, IsDb, UpdateTypes
<1>6. UpdateTypes'
  BY <1>1, <1>2, <1>5 DEF UpdateTypes, releases, images
<1>7. Sane /\ Phase => Phase'
  <2> SUFFICES ASSUME Phase PROVE Phase'
    OBVIOUS
  <2>1. Level'
    BY <1>1, <1>5, LevelStays DEF Phase
  <2> QED
    BY <1>5, <2>1 DEF Phase, Updating, RollingBack
<1> QED
  BY <1>1, <1>6, <1>7, StepInv

LEMMA NotifyKeeps == ASSUME UpdateInv, Notify PROVE UpdateInv'
<1>1. /\ UNCHANGED <<releases, head, images, backup, leftover, state, script, mishaps>>
      /\ db' = [db EXCEPT !.told = updater.id]
  BY DEF Notify
<1>2. UpdateTypes /\ IsDb(db)
  BY DEF UpdateInv, UpdateTypes
<1>3. IsDb(db') /\ db'.schema = db.schema
  BY <1>1, <1>2 DEF IsDb
<1>4. UpdateTypes'
  BY <1>1, <1>2, <1>3 DEF UpdateTypes, releases, images
<1>5. Phase => Phase'
  BY <1>1, <1>3, PhaseStays
<1> QED
  BY <1>1, <1>4, <1>5 DEF UpdateInv, Sane

LEMMA RepairKeeps == ASSUME UpdateInv, Repair PROVE UpdateInv'
<1>1. /\ UNCHANGED <<releases, head, latest, kept, backup, leftover, state, script, mishaps>>
      /\ script.pc = "none" /\ ~container.on /\ Created(latest)
  BY DEF Repair, AtRest
<1>2. UpdateTypes /\ latest \in Release
  BY DEF UpdateInv, UpdateTypes
<1>3. ContainerOK(container') /\ IsDb(db')
  BY <1>1, <1>2, CreatedIs
<1>4. UpdateTypes'
  BY <1>1, <1>2, <1>3 DEF UpdateTypes, releases
<1>5. ~(Sane /\ Phase)
  BY <1>1 DEF Phase, Level
<1> QED
  BY <1>1, <1>4, <1>5, StepInv

LEMMA ImagesPrunedKeeps == ASSUME UpdateInv, ImagesPruned PROVE UpdateInv'
<1>1. /\ UNCHANGED <<releases, head, latest, container, backup, db, leftover, state, script, mishaps>>
      /\ script.pc = "none" /\ kept' = None
  BY DEF ImagesPruned, AtRest, data
<1>2. UpdateTypes
  BY DEF UpdateInv
<1>3. UpdateTypes'
  BY <1>1, <1>2 DEF UpdateTypes, releases
<1>4. Phase => Phase'
  <2> SUFFICES ASSUME Phase PROVE Phase'
    OBVIOUS
  <2>1. Level
    BY <1>1 DEF Phase
  <2>2. Level'
    BY <1>1, <2>1 DEF Level, releases
  <2> QED
    BY <1>1, <2>2, AtRestPhase
<1> QED
  BY <1>1, <1>3, <1>4, StepInv

-----------------------------------------------------------------------------
(* The theorems *)

LEMMA UpdateBegins == ASSUME UpdateInit PROVE UpdateInv
<1>1. /\ quality[1] = "good" /\ breaking \subseteq Release \ {1}
      /\ head = 1 /\ latest = 1 /\ kept = None
      /\ db = [schema |-> 1, told |-> 0] /\ backup = [p \in Pair |-> NoDb]
      /\ state = [current |-> 1, previous |-> None, last |-> "success"]
      /\ script = NoScript /\ mishaps = {}
  BY DEF UpdateInit
<1>2. leftover = FALSE
  BY DEF UpdateInit
<1>3. PICK t \in BOOLEAN : t = TRUE
  OBVIOUS
<1>4. container = [image |-> 1, on |-> t]
  BY <1>3, Zenon DEF UpdateInit
<1>5. 1 \in Release
  BY UpdateAssumption DEF UpdateAssumption, Release
<1>6. ContainerOK(container) /\ container.image = 1 /\ container.on
  BY <1>3, <1>4, <1>5 DEF ContainerOK
<1>7. IsDb(db) /\ db.schema = 1
  BY <1>1 DEF IsDb
<1>8. StateOK(state) /\ state.current = 1 /\ state.previous = None
  BY <1>1 DEF StateOK
<1>9. ScriptOK(script) /\ script.pc = "none"
  BY <1>1, NoScriptIs
<1>10. backup = [p \in Pair |-> backup[p]] /\ \A p \in Pair : IsDb(backup[p])
  BY <1>1, NoDbIs
<1>11. UpdateTypes
  BY <1>1, <1>5, <1>6, <1>7, <1>8, <1>9, <1>10 DEF UpdateTypes
<1>12. Usable(breaking, head, db)
  BY <1>1, <1>7, Releases DEF Usable
<1>13. Paired(breaking, backup, state.previous, head)
  BY <1>1, <1>8 DEF Paired, None
<1>14. Level
  BY <1>1, <1>6, <1>8, <1>12, <1>13 DEF Level
<1>15. Phase
  BY <1>9, <1>14 DEF Phase, Updating, RollingBack
<1> QED
  BY <1>2, <1>11, <1>15 DEF UpdateInv

LEMMA UpdateSteps == UpdateInv /\ [UpdateNext]_updateVars => UpdateInv'
<1> SUFFICES ASSUME UpdateInv, [UpdateNext]_updateVars PROVE UpdateInv'
  OBVIOUS
<1>1. CASE ScriptStep
  BY <1>1, FetchKeeps, StageKeeps, VacuumKeeps, CopyKeeps, KeepKeeps, NoteKeeps, CheckOutKeeps, SwapKeeps,
     VerifyKeeps, AcceptKeeps, BeginKeeps, BackKeeps, ReswapKeeps, HealthKeeps, StopKeeps, RestoreKeeps,
     StartRestoredKeeps, RecheckKeeps, RetagKeeps, SettleKeeps DEF ScriptStep
<1>2. CASE Die \/ RunCli("fetch") \/ RunCli("begin") \/ StartSelfUpdate \/ Notify \/ Repair \/ ImagesPruned
  BY <1>2, DieKeeps, RunCliKeeps, StartSelfUpdateKeeps, NotifyKeeps, RepairKeeps, ImagesPrunedKeeps
<1>3. CASE UNCHANGED updateVars
  <2>1. UNCHANGED <<releases, head, images, data, state, script, mishaps>>
    BY <1>3 DEF updateVars
  <2>2. UpdateTypes' /\ (Phase => Phase') /\ (Sane' <=> Sane)
    BY <2>1, PhaseStays DEF UpdateInv, UpdateTypes, releases, images, data, Sane
  <2> QED
    BY <2>1, <2>2 DEF UpdateInv, data
<1> QED
  BY <1>1, <1>2, <1>3 DEF UpdateNext

(* At every command of every script: what the checkout, the tags, the      *)
(* container, state.env, the database and its snapshots are to each other  *)
(* there, as long as no swap broke, no snapshot was lost on its way to the *)
(* host, no stop or copy of a restore failed, no script died past its      *)
(* point of change and no rollback went back to a release that had been    *)
(* rolled back from.                                                       *)
THEOREM UpdateHolds == UpdateSpec => []UpdateInv
<1>1. UpdateInit => UpdateInv
  BY UpdateBegins
<1> QED
  BY <1>1, UpdateSteps, PTL DEF UpdateSpec

(* At rest the checkout, the tags, the container and state.env name the    *)
(* same releases, however many updates were refused, failed or were rolled *)
(* back: outside the mishaps the property names, for any number of faults. *)
THEOREM VersionsHold == UpdateSpec => []VersionsAgree
<1>1. UpdateInv => VersionsAgree
  BY DEF UpdateInv, Sane, Phase, Level, VersionsAgree, AtRest
<1> QED
  BY <1>1, UpdateHolds, PTL

(* At rest an accepted release runs on a database it can use, and no       *)
(* leftover of a backup blocks the next update, outside the mishaps the    *)
(* property names; a failed restore, which the script ignores, is one.     *)
THEOREM UpdatableHolds == UpdateSpec => []UpdatableAgain
<1>1. UpdateInv => UpdatableAgain
  <2> SUFFICES ASSUME UpdateInv, AtRest, mishaps \cap {"leftover", "died", "swap", "copy", "restore", "again"} = {}
               PROVE  Accepted /\ ~leftover
    BY DEF UpdatableAgain
  <2>1. Level /\ ~leftover /\ UpdateTypes
    BY DEF UpdateInv, Sane, Phase, AtRest
  <2>2. container.on /\ container.image = head /\ quality[head] = "good" /\ Usable(breaking, head, db) /\ head # None
    BY <2>1, Releases DEF Level, UpdateTypes
  <2>3. Works(head, db)
    BY <2>2, WorksIs
  <2> QED
    BY <2>1, <2>2, <2>3 DEF Accepted, Healthy
<1> QED
  BY <1>1, UpdateHolds, PTL

=============================================================================

------------------------------- MODULE History -------------------------------
(***************************************************************************)
(* The history and the statistics of one user (presence/history.go): lists   *)
(* and counters in Redis, written by recordHistory at the end of every sync  *)
(* and erased by PurgeHistory.                                               *)
(*                                                                           *)
(* Each node follows the user on its own and writes to the same Redis.  Its  *)
(* Presence object remembers in three markers what it has recorded last.     *)
(* The sync takes a snapshot under p.mu, recordHistory compares it with the  *)
(* markers under p.mu again, and its Redis commands follow one by one; any   *)
(* number of goroutines may be between those points.                         *)
(*                                                                           *)
(* The user's songs are numbered: listening to a track once is a song, to it *)
(* again is another.  Times count in units of which Gap is the largest move  *)
(* of a start that is still the same song.                                   *)
(***************************************************************************)
EXTENDS Plays, Sequences, FiniteSets, Functions

CONSTANTS Nodes, Workers, Tracks,
          Statuses,   \* None is also no status
          Strays,     \* starts that a report may give of any song
          HistoryCap, \* events kept per list, 100 in the code
          MaxSongs,   \* bound: songs the user plays
          MaxSyncs    \* bound: syncs and purges started

ASSUME HistoryAssumption ==
  /\ HistoryCap \in Nat \ {0} /\ MaxSongs \in Nat /\ MaxSyncs \in Nat
  /\ Strays \subseteq Nat
  /\ IsFiniteSet(Tracks) /\ None \notin Tracks \cup Statuses
  /\ IsFiniteSet(Workers) /\ IsFiniteSet(Nodes) /\ Nodes # {}

VARIABLES
  world,      \* what Discord reports of the user
  mark,       \* the markers of each node's object
  pc, node,   \* of each goroutine: where it is and on which node
  snap,       \* the snapshot it records
  todo,       \* the Redis commands it has yet to issue
  db,         \* the user's keys in Redis
  syncs,      \* syncs and purges started
  heard,      \* ghost: the last song each object has been told of
  due,        \* ghost: the plays of each track the objects were told of
  overlapped, \* ghost: two recorders of one node have overlapped
  mixed,      \* ghost: a purge has overlapped a recorder or a purge
  cut,        \* ghost: a crash has cut a goroutine short
  blind,      \* ghost: a song was reported without its start
  strayed     \* ghost: a song was reported with a start more than Gap off

goroutines == <<pc, node, snap, todo>>
ghosts == <<heard, due, overlapped, mixed, cut, blind, strayed>>
vars == <<world, mark, goroutines, db, syncs, ghosts>>

NoMark == [status |-> None, track |-> None, start |-> 0]
EmptyDB == [statuses |-> <<>>, tracks |-> <<>>, seen |-> FALSE, today |-> 0,
            counts |-> [t \in Tracks |-> 0], meta |-> {}]
Nothing == [status |-> None, track |-> None, start |-> 0, song |-> 0, on |-> FALSE]

Active == {w \in Workers : pc[w] # "idle"}

Init ==
  /\ world \in {[Nothing EXCEPT !.status = s] : s \in Statuses}
  /\ mark = [n \in Nodes |-> NoMark]
  /\ pc = [w \in Workers |-> "idle"]
  /\ node = [w \in Workers |-> None]
  /\ snap = [w \in Workers |-> Nothing] /\ todo = [w \in Workers |-> <<>>]
  /\ db = EmptyDB /\ syncs = 0
  /\ heard = [n \in Nodes |-> 0] /\ due = [t \in Tracks |-> 0]
  /\ overlapped = FALSE /\ mixed = FALSE /\ cut = FALSE
  /\ blind = FALSE /\ strayed = FALSE

-----------------------------------------------------------------------------
(* Redis. *)

\* A command and what it does to the user's keys.
Cmd(name, arg) == [name |-> name, arg |-> arg]

\* Mutant: the stop index of LTRIM is taken for a length.
KeepOneMore(l, n) == SubSeq(l, 1, IF n + 1 < Len(l) THEN n + 1 ELSE Len(l))

\* LTRIM 0 n-1.
Keep(l, n) == SubSeq(l, 1, IF n < Len(l) THEN n ELSE Len(l))

Exec(c) ==
  CASE c.name = "SetSeen"     -> [db EXCEPT !.seen = TRUE]
    [] c.name = "LPushStatus" -> [db EXCEPT !.statuses = <<c.arg>> \o @]
    [] c.name = "LTrimStatus" -> [db EXCEPT !.statuses = Keep(@, HistoryCap)]
    [] c.name = "LPushTrack"  -> [db EXCEPT !.tracks = <<c.arg>> \o @]
    [] c.name = "LTrimTrack"  -> [db EXCEPT !.tracks = Keep(@, HistoryCap)]
    [] c.name = "HIncrCount"  -> [db EXCEPT !.counts[c.arg] = @ + 1]
    [] c.name = "HSetMeta"    -> [db EXCEPT !.meta = @ \cup {c.arg}]
    [] c.name = "IncrToday"   -> [db EXCEPT !.today = @ + 1]
    [] c.name = "Del"         -> [db EXCEPT ![c.arg] = EmptyDB[c.arg]]

-----------------------------------------------------------------------------
(* The user, and the sync that a node makes of what it is told. *)

\* The reports that may follow: the same again, another status, the music
\* stopped or going on, the same song with its start a little off, far off or
\* left out, another song.  The starts of two songs are more than Gap apart.
Base(song) == song * (2 * Gap + 1)
Window(song) == Base(song) .. Base(song) + Gap
Reports ==
  {world}
    \cup {[world EXCEPT !.status = s] : s \in Statuses}
    \cup {[world EXCEPT !.on = ~@] : s \in {1} \cap 1..world.song}
    \cup {[world EXCEPT !.start = s] :
            s \in IF world.on THEN {0} \cup Window(world.song) \cup Strays ELSE {}}
    \cup {[status |-> world.status, track |-> t, start |-> Base(world.song + 1),
           song |-> world.song + 1, on |-> TRUE] :
            t \in IF world.song < MaxSongs THEN Tracks ELSE {}}

\* applySync on node n, up to the release of p.mu.
Sync(w, n) ==
  /\ pc[w] = "idle" /\ syncs < MaxSyncs /\ syncs' = syncs + 1
  /\ world' \in Reports
  /\ pc' = [pc EXCEPT ![w] = "compare"] /\ node' = [node EXCEPT ![w] = n]
  /\ snap' = [snap EXCEPT ![w] = world']
  /\ IF world'.on /\ world'.song # heard[n]
       THEN /\ due' = [due EXCEPT ![world'.track] = @ + 1]
            /\ heard' = [heard EXCEPT ![n] = world'.song]
       ELSE UNCHANGED <<due, heard>>
  /\ overlapped' = (overlapped \/ \E v \in Active : node[v] = n /\ pc[v] # "purge")
  /\ mixed' = (mixed \/ \E v \in Active : pc[v] = "purge")
  /\ blind' = (blind \/ (world'.on /\ world'.start = 0))
  /\ strayed' = (strayed \/ (world'.on /\ world'.start \notin {0} \cup Window(world'.song)))
  /\ UNCHANGED <<mark, todo, db, cut>>

-----------------------------------------------------------------------------
(* recordHistory. *)

StatusCommands(s) == <<Cmd("LPushStatus", s), Cmd("LTrimStatus", None)>>

\* Mutant: the details are stored from the second play on.
TrackCommandsNoMeta(t) ==
  <<Cmd("LPushTrack", t), Cmd("LTrimTrack", None), Cmd("HIncrCount", t)>>
    \o (IF db.counts[t] > 0 THEN <<Cmd("HSetMeta", t)>> ELSE <<>>)
    \o <<Cmd("IncrToday", None)>>

TrackCommands(t) ==
  <<Cmd("LPushTrack", t), Cmd("LTrimTrack", None), Cmd("HIncrCount", t),
    Cmd("HSetMeta", t), Cmd("IncrToday", None)>>

\* Mutant: the status marker is moved by a song only.
MovedWithSong(m, s) ==
  [status |-> IF s.on \/ m.status = None THEN s.status ELSE m.status,
   track |-> IF s.on THEN s.track ELSE m.track,
   start |-> IF s.on THEN s.start ELSE m.start]

\* The markers after a snapshot: without music the last song stays.
Moved(m, s) ==
  [status |-> s.status,
   track |-> IF s.on THEN s.track ELSE m.track,
   start |-> IF s.on THEN s.start ELSE m.start]

\* The comparison, and the new markers, under p.mu.
Compare(w) ==
  LET s == snap[w]  m == mark[node[w]] IN
  /\ pc[w] = "compare"
  /\ mark' = [mark EXCEPT ![node[w]] = Moved(m, s)]
  /\ todo' = [todo EXCEPT ![w] =
                <<Cmd("SetSeen", None)>>
                \o (IF s.status # m.status THEN StatusCommands(s.status) ELSE <<>>)
                \o (IF IsNewPlay(IF s.on THEN s.track ELSE None, m.track, s.start, m.start)
                      THEN TrackCommands(s.track) ELSE <<>>)]
  /\ pc' = [pc EXCEPT ![w] = "run"] /\ snap' = [snap EXCEPT ![w] = Nothing]
  /\ UNCHANGED <<world, node, db, syncs, ghosts>>

-----------------------------------------------------------------------------
(* PurgeHistory. *)

\* Mutant: the details of the tracks are forgotten.
PurgedKeysButMeta == <<"statuses", "tracks", "seen", "today", "counts">>

PurgedKeys == <<"statuses", "tracks", "seen", "today", "counts", "meta">>

Purge(w, n) ==
  /\ pc[w] = "idle" /\ syncs < MaxSyncs /\ syncs' = syncs + 1
  /\ pc' = [pc EXCEPT ![w] = "purge"] /\ node' = [node EXCEPT ![w] = n]
  /\ todo' = [todo EXCEPT ![w] = [i \in DOMAIN PurgedKeys |-> Cmd("Del", PurgedKeys[i])]]
  /\ mixed' = (mixed \/ Active # {})
  /\ UNCHANGED <<world, mark, snap, db, heard, due, overlapped, cut, blind, strayed>>

\* The markers of the object on this node, under p.mu.
Reset(w) ==
  /\ pc[w] = "purge" /\ todo[w] = <<>>
  /\ mark' = [mark EXCEPT ![node[w]] = NoMark]
  /\ heard' = [heard EXCEPT ![node[w]] = 0] /\ due' = [t \in Tracks |-> 0]
  /\ pc' = [pc EXCEPT ![w] = "idle"] /\ node' = [node EXCEPT ![w] = None]
  /\ UNCHANGED <<world, snap, todo, db, syncs, overlapped, mixed, cut, blind, strayed>>

-----------------------------------------------------------------------------
\* The next Redis command of a goroutine; the last one ends a recordHistory.
Issue(w) ==
  /\ todo[w] # <<>>
  /\ db' = Exec(Head(todo[w]))
  /\ todo' = [todo EXCEPT ![w] = Tail(@)]
  /\ IF pc[w] = "run" /\ Len(todo[w]) = 1
       THEN pc' = [pc EXCEPT ![w] = "idle"] /\ node' = [node EXCEPT ![w] = None]
       ELSE UNCHANGED <<pc, node>>
  /\ UNCHANGED <<world, mark, snap, syncs, ghosts>>

\* The process of a node ends and starts again, with a new object.
Crash(n) ==
  LET victims == {w \in Active : node[w] = n}
      Reborn(f, v) == [w \in Workers |-> IF w \in victims THEN v ELSE f[w]] IN
  /\ mark[n] # NoMark \/ victims # {}
  /\ mark' = [mark EXCEPT ![n] = NoMark] /\ heard' = [heard EXCEPT ![n] = 0]
  /\ pc' = Reborn(pc, "idle") /\ node' = Reborn(node, None)
  /\ snap' = Reborn(snap, Nothing) /\ todo' = Reborn(todo, <<>>)
  /\ cut' = (cut \/ victims # {})
  /\ UNCHANGED <<world, db, syncs, due, overlapped, mixed, blind, strayed>>

Next ==
  \/ \E w \in Workers :
       Compare(w) \/ Issue(w) \/ Reset(w) \/ \E n \in Nodes : Sync(w, n) \/ Purge(w, n)
  \/ \E n \in Nodes : Crash(n)

Spec == Init /\ [][Next]_vars

-----------------------------------------------------------------------------
(* Correctness. *)

\* The goroutines that are between the LPUSH and the LTRIM of a list.
Untrimmed(trim) ==
  {w \in Workers : pc[w] = "run" /\ todo[w] # <<>> /\ Head(todo[w]).name = trim}

\* Until a crash cuts a goroutine short, which may be between its LPUSH and its
\* LTRIM, a list exceeds its cap by no more than the goroutines that have pushed
\* and not yet trimmed, however many record at once on however many nodes.
ListsBounded ==
  cut \/ /\ Len(db.statuses) <= HistoryCap + Cardinality(Untrimmed("LTrimStatus"))
         /\ Len(db.tracks) <= HistoryCap + Cardinality(Untrimmed("LTrimTrack"))

\* No play is missed, even when recorders overlap and their snapshots arrive in
\* another order: a quiet history counts every song each node was told of, if
\* the reports gave the songs their own starts, Gap off at most.
NoPlayMissed ==
  (Active = {} /\ ~mixed /\ ~cut /\ ~blind /\ ~strayed) => \A t \in Tracks : db.counts[t] >= due[t]

\* "a single song that arrives as many jittered events" is one play
\* (history_test.go): without an overlap on one node no song is counted twice
\* by a node, also when reports without a start come in between.  A start that
\* moves by more than Gap is by IsNewPlay another play; see NowPlaying for where
\* starts come from.
NoPlayInflated ==
  (Active = {} /\ ~mixed /\ ~cut /\ ~overlapped /\ ~strayed) => \A t \in Tracks : db.counts[t] <= due[t]

\* The list, the counters and the details agree when nothing is under way,
\* however the recorders have overlapped: MostPlayed finds the details of every
\* track it ranks, and Stats counts what History lists.
StatisticsAgree ==
  (Active = {} /\ ~mixed /\ ~cut) =>
    /\ db.meta = {t \in Tracks : db.counts[t] > 0}
    /\ db.today = SumFunction(db.counts)
    /\ Len(db.tracks) = IF db.today < HistoryCap THEN db.today ELSE HistoryCap

\* Stats falls back on the newest status event for a user who is not monitored:
\* once every node has recorded the current status, that is the newest event.
NewestStatusIsCurrent ==
  (Active = {} /\ ~mixed /\ ~cut /\ ~overlapped /\ \A n \in Nodes : mark[n].status = world.status)
    => db.statuses # <<>> /\ Head(db.statuses) = world.status

\* A purge that no recorder overlaps leaves no key behind, and the object it
\* leaves records what comes next afresh.
PurgeErases ==
  [][\A w \in Workers :
       (pc[w] = "purge" /\ pc'[w] = "idle" /\ ~mixed /\ ~cut')
         => db' = EmptyDB /\ \E n \in Nodes : node[w] = n /\ mark'[n] = NoMark]_vars

=============================================================================

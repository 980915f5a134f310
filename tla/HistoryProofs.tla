---------------------------- MODULE HistoryProofs ----------------------------
(***************************************************************************)
(* Six properties of History, for every set of nodes, goroutines, tracks    *)
(* and statuses, every cap of the lists and every number of songs, syncs    *)
(* and purges.                                                              *)
(*                                                                          *)
(* Steps is what the program point of a goroutine says of the commands it   *)
(* has yet to issue.  Alone is what the ghosts say of an execution without  *)
(* an overlap.  On these rest the invariants behind the properties: what is *)
(* not in the database yet is in the commands of a goroutine, or in a       *)
(* snapshot that it has yet to compare.                                     *)
(***************************************************************************)
EXTENDS History, TLAPS, FiniteSetTheorems, SequenceTheorems

-----------------------------------------------------------------------------
(* Types, and what a goroutine has yet to do. *)

Keys == {"statuses", "tracks", "seen", "today", "counts", "meta"}

Commands ==
  {Cmd(name, None) : name \in {"SetSeen", "LTrimStatus", "LTrimTrack", "IncrToday"}}
    \cup {Cmd("LPushStatus", s) : s \in Statuses}
    \cup {Cmd(name, t) : name \in {"LPushTrack", "HIncrCount", "HSetMeta"}, t \in Tracks}

Deletions == {Cmd("Del", k) : k \in Keys}

Databases ==
  [statuses : Seq(Statuses), tracks : Seq(Tracks), seen : BOOLEAN, today : Nat,
   counts : [Tracks -> Nat], meta : SUBSET Tracks]

\* The reports that Discord makes, and Nothing.
IsReport(r) ==
  /\ r \in [status : Statuses \cup {None}, track : Tracks \cup {None}, start : Nat,
            song : 0..MaxSongs, on : BOOLEAN]
  /\ r.song # 0 => r.track \in Tracks
  /\ r.on => r.song # 0

\* A report does not say when its song started, or gives a start of the song.
OnTime(r) == r.song # 0 => r.start \in {0} \cup Window(r.song)

Markers == [status : Statuses \cup {None}, track : Tracks \cup {None}, start : Nat]

Types ==
  /\ IsReport(world) /\ world.status \in Statuses
  /\ mark \in [Nodes -> Markers]
  /\ pc \in [Workers -> {"idle", "compare", "run", "purge"}]
  /\ node \in [Workers -> Nodes \cup {None}]
  /\ DOMAIN snap = Workers /\ \A w \in Workers : IsReport(snap[w])
  /\ todo \in [Workers -> Seq(Commands \cup Deletions)]
  /\ db \in Databases
  /\ syncs \in Nat
  /\ heard \in [Nodes -> 0..MaxSongs] /\ due \in [Tracks -> Nat]
  /\ {overlapped, mixed, cut, blind, strayed} \subseteq BOOLEAN

\* A recorder's commands: each at most once, a push is followed by its trim,
\* and the commands of a play follow each other.
Recording(q) ==
  /\ q \in Seq(Commands)
  /\ \A i, j \in DOMAIN q : q[i].name = q[j].name => i = j
  /\ \A i \in DOMAIN q :
       /\ q[i].name = "LPushStatus" => i + 1 \in DOMAIN q /\ q[i + 1].name = "LTrimStatus"
       /\ q[i].name = "LPushTrack" => i + 1 \in DOMAIN q /\ q[i + 1].name = "LTrimTrack"
       /\ q[i].name = "LTrimTrack" => i + 1 \in DOMAIN q /\ q[i + 1].name = "HIncrCount"
       /\ q[i].name = "HIncrCount" => i + 1 \in DOMAIN q /\ q[i + 1] = Cmd("HSetMeta", q[i].arg)
       /\ q[i].name = "HSetMeta" => i + 1 \in DOMAIN q /\ q[i + 1].name = "IncrToday"

Steps ==
  \A w \in Workers :
    /\ pc[w] # "idle" => node[w] \in Nodes
    /\ pc[w] \in {"idle", "compare"} => todo[w] = <<>>
    /\ pc[w] = "compare" => snap[w].status \in Statuses
    /\ pc[w] = "run" => todo[w] # <<>> /\ Recording(todo[w])
    /\ pc[w] = "purge" => todo[w] \in Seq(Deletions)

\* Without an overlap a node has one recorder, and a purge runs by itself.
Alone ==
  \A v, w \in Active :
    v # w => /\ node[v] = node[w] => overlapped \/ mixed
             /\ pc[v] = "purge" => mixed

\* Until a report strays, all are on time.
Punctual == ~strayed => OnTime(world) /\ \A w \in Workers : OnTime(snap[w])

\* A command is among those that a goroutine has yet to issue.
Has(q, c) == \E i \in DOMAIN q : q[i] = c
Named(q, name) == \E i \in DOMAIN q : q[i].name = name

-----------------------------------------------------------------------------
(* The invariants behind the properties. *)

Purging == \E w \in Workers : pc[w] = "purge"

\* A key that a purge has not deleted yet it is about to delete.
Erased ==
  ~mixed => \A w \in Workers : pc[w] = "purge" =>
    \A k \in Keys : db[k] = EmptyDB[k] \/ Has(todo[w], Cmd("Del", k))

\* A status that a goroutine has yet to push is the marker of its node.  Some
\* node has not recorded a status, or has recorded the newest event, or is
\* about to.
Newest ==
  (~mixed /\ ~cut /\ ~overlapped /\ ~Purging) =>
    /\ \A w \in Workers, s \in Statuses :
         Has(todo[w], Cmd("LPushStatus", s)) => s = mark[node[w]].status
    /\ \/ \E n \in Nodes : mark[n].status = None
       \/ \E w \in Workers, s \in Statuses : Has(todo[w], Cmd("LPushStatus", s))
       \/ \E n \in Nodes : db.statuses # <<>> /\ Head(db.statuses) = mark[n].status

\* The goroutines that are about to count a play of t.
Counting(t) == {w \in Workers : Has(todo[w], Cmd("HIncrCount", t))}

\* w holds a snapshot of a song, on node n, that it has yet to compare.
Holds(w, n, t, song) ==
  /\ pc[w] = "compare" /\ node[w] = n
  /\ snap[w].on /\ snap[w].track = t /\ snap[w].song = song

Marks(n, t, song) == mark[n].track = t /\ mark[n].start \in {0} \cup Window(song)

\* The songs that a node has been told of and has not recorded.
Owed(t) ==
  {p \in Nodes \X (1..MaxSongs) :
     ~Marks(p[1], t, p[2]) /\ \E w \in Workers : Holds(w, p[1], t, p[2])}

\* A node's snapshots and markers are of songs that it has been told of, and
\* those that its snapshots are of are all known to begin somewhere.
Told ==
  /\ \A n \in Nodes : heard[n] <= world.song
  /\ (~mixed /\ ~strayed) =>
       /\ \A n \in Nodes : mark[n].track # None =>
            /\ \E k \in 1..heard[n] : mark[n].start \in {0} \cup Window(k)
            /\ ~blind => mark[n].start # 0
       /\ \A w \in Workers : (pc[w] = "compare" /\ snap[w].on) =>
            /\ snap[w].song <= heard[node[w]]
            /\ ~blind => snap[w].start # 0

NothingLost ==
  (~mixed /\ ~cut /\ ~blind /\ ~strayed /\ ~Purging) =>
    \A t \in Tracks :
      due[t] <= db.counts[t] + Cardinality(Counting(t)) + Cardinality(Owed(t))

\* The nodes that are about to find a new play of t.
Finding(t) ==
  {n \in Nodes : \E w \in Workers :
     /\ pc[w] = "compare" /\ node[w] = n /\ snap[w].on /\ snap[w].track = t
     /\ IsNewPlay(t, mark[n].track, snap[w].start, mark[n].start)}

\* A node that was told of the song the user listens to has marked it, or is
\* about to; a snapshot is of the song that its node was told of last.
Settled ==
  (~overlapped /\ ~mixed /\ ~strayed) =>
    /\ \A n \in Nodes : (heard[n] = world.song /\ world.song # 0) =>
         \/ Marks(n, world.track, world.song)
         \/ \E w \in Workers : Holds(w, n, world.track, world.song)
    /\ \A w \in Workers : (pc[w] = "compare" /\ snap[w].on) =>
         /\ snap[w].song = heard[node[w]]
         /\ snap[w].song = world.song => snap[w].track = world.track

NothingTwice ==
  (~mixed /\ ~cut /\ ~overlapped /\ ~strayed /\ ~Purging) =>
    \A t \in Tracks :
      db.counts[t] + Cardinality(Counting(t)) + Cardinality(Finding(t)) <= due[t]

\* The goroutines that have issued this command for a play, and have yet to
\* count the play in tracks_today.
Late(name) == {w \in Workers : Named(todo[w], "IncrToday") /\ ~Named(todo[w], name)}

\* A track that has been counted has its details, or is about to get them; the
\* counters, and the list up to its cap, differ by the plays under way.
Tallied ==
  (~mixed /\ ~cut /\ ~Purging) =>
    /\ \A t \in Tracks :
         /\ t \in db.meta => db.counts[t] > 0
         /\ db.counts[t] > 0 =>
              t \in db.meta \/ \E w \in Workers : Has(todo[w], Cmd("HSetMeta", t))
         /\ \A w \in Workers : Has(todo[w], Cmd("HSetMeta", t)) =>
              Has(todo[w], Cmd("HIncrCount", t)) \/ db.counts[t] > 0
    /\ SumFunction(db.counts) = db.today + Cardinality(Late("HIncrCount"))
    /\ LET pushed == db.today + Cardinality(Late("LPushTrack")) IN
         /\ Len(db.tracks) <= pushed
         /\ Len(db.tracks) >= pushed \/ Len(db.tracks) >= HistoryCap

Invariant ==
  /\ Types /\ Steps /\ ListsBounded
  /\ Alone /\ Erased /\ Newest
  /\ Punctual /\ Told /\ NothingLost /\ Settled /\ NothingTwice /\ Tallied

-----------------------------------------------------------------------------
(* Sequences of commands. *)

LEMMA HasTail ==
  ASSUME NEW S, NEW q \in Seq(S), q # <<>>, NEW c
  PROVE  Has(q, c) <=> (Head(q) = c \/ Has(Tail(q), c))
<1>1. /\ Head(q) = q[1] /\ Len(q) \in Nat /\ Len(q) >= 1
      /\ DOMAIN q = 1..Len(q) /\ DOMAIN Tail(q) = 1..(Len(q) - 1)
      /\ \A i \in 1..(Len(q) - 1) : Tail(q)[i] = q[i + 1]
  BY HeadTailProperties
<1>2. ASSUME Has(q, c) PROVE Head(q) = c \/ Has(Tail(q), c)
  <2>1. PICK i \in 1..Len(q) : q[i] = c BY <1>1, <1>2 DEF Has
  <2>2. CASE i = 1 BY <1>1, <2>1, <2>2
  <2>3. CASE i # 1
    <3>1. i - 1 \in 1..(Len(q) - 1) /\ (i - 1) + 1 = i BY <1>1, <2>3
    <3> QED BY <1>1, <2>1, <3>1 DEF Has
  <2> QED BY <2>2, <2>3
<1>3. ASSUME Head(q) = c PROVE Has(q, c)
  <2>1. 1 \in DOMAIN q BY <1>1
  <2> QED BY <1>1, <1>3, <2>1 DEF Has
<1>4. ASSUME Has(Tail(q), c) PROVE Has(q, c)
  <2>1. PICK i \in 1..(Len(q) - 1) : Tail(q)[i] = c BY <1>1, <1>4 DEF Has
  <2>2. i + 1 \in 1..Len(q) BY <1>1
  <2> QED BY <1>1, <2>1, <2>2 DEF Has
<1> QED BY <1>2, <1>3, <1>4

\* The rest of a recorder's commands; none has the name of the first one.
LEMMA RecordingTail ==
  ASSUME NEW q, Recording(q), q # <<>>
  PROVE  /\ Head(q) \in Commands
         /\ Recording(Tail(q))
         /\ \A c : Has(Tail(q), c) => c.name # Head(q).name
         /\ Head(q).name = "LPushStatus" =>
              Tail(q) # <<>> /\ Head(Tail(q)).name = "LTrimStatus"
         /\ Head(q).name = "LPushTrack" =>
              Tail(q) # <<>> /\ Head(Tail(q)).name = "LTrimTrack"
<1>1. q \in Seq(Commands) BY DEF Recording
<1>2. /\ Head(q) = q[1] /\ Head(q) \in Commands /\ Len(q) \in Nat /\ Len(q) >= 1
      /\ Tail(q) \in Seq(Commands) /\ Len(Tail(q)) = Len(q) - 1
      /\ DOMAIN q = 1..Len(q) /\ DOMAIN Tail(q) = 1..(Len(q) - 1)
      /\ \A i \in 1..(Len(q) - 1) : Tail(q)[i] = q[i + 1]
  BY <1>1, HeadTailProperties
<1>3. \A i, j \in 1..Len(q) : q[i].name = q[j].name => i = j
  BY <1>2 DEF Recording
<1>4. \A i \in 1..Len(q) :
        /\ q[i].name = "LPushStatus" => i + 1 \in 1..Len(q) /\ q[i + 1].name = "LTrimStatus"
        /\ q[i].name = "LPushTrack" => i + 1 \in 1..Len(q) /\ q[i + 1].name = "LTrimTrack"
        /\ q[i].name = "LTrimTrack" => i + 1 \in 1..Len(q) /\ q[i + 1].name = "HIncrCount"
        /\ q[i].name = "HIncrCount" =>
             i + 1 \in 1..Len(q) /\ q[i + 1] = Cmd("HSetMeta", q[i].arg)
        /\ q[i].name = "HSetMeta" => i + 1 \in 1..Len(q) /\ q[i + 1].name = "IncrToday"
  BY <1>2 DEF Recording
<1>5. Recording(Tail(q))
  <2>1. ASSUME NEW i \in 1..(Len(q) - 1), NEW j \in 1..(Len(q) - 1),
               Tail(q)[i].name = Tail(q)[j].name
        PROVE  i = j
    <3>1. i + 1 \in 1..Len(q) /\ j + 1 \in 1..Len(q) BY <1>2
    <3>2. i + 1 = j + 1 BY <1>2, <1>3, <2>1, <3>1
    <3> QED BY <3>2
  <2>2. ASSUME NEW i \in 1..(Len(q) - 1)
        PROVE  /\ Tail(q)[i].name = "LPushStatus" =>
                    i + 1 \in 1..(Len(q) - 1) /\ Tail(q)[i + 1].name = "LTrimStatus"
               /\ Tail(q)[i].name = "LPushTrack" =>
                    i + 1 \in 1..(Len(q) - 1) /\ Tail(q)[i + 1].name = "LTrimTrack"
               /\ Tail(q)[i].name = "LTrimTrack" =>
                    i + 1 \in 1..(Len(q) - 1) /\ Tail(q)[i + 1].name = "HIncrCount"
               /\ Tail(q)[i].name = "HIncrCount" =>
                    i + 1 \in 1..(Len(q) - 1)
                    /\ Tail(q)[i + 1] = Cmd("HSetMeta", Tail(q)[i].arg)
               /\ Tail(q)[i].name = "HSetMeta" =>
                    i + 1 \in 1..(Len(q) - 1) /\ Tail(q)[i + 1].name = "IncrToday"
    <3>1. i + 1 \in 1..Len(q) BY <1>2
    <3>2. (i + 1) + 1 \in 1..Len(q) => i + 1 \in 1..(Len(q) - 1) BY <1>2
    <3> QED BY <1>2, <1>4, <3>1, <3>2
  <2> QED BY <1>2, <2>1, <2>2 DEF Recording
<1>6. ASSUME NEW c, Has(Tail(q), c) PROVE c.name # Head(q).name
  <2>1. PICK i \in 1..(Len(q) - 1) : Tail(q)[i] = c BY <1>2, <1>6 DEF Has
  <2>2. i + 1 \in 1..Len(q) /\ i + 1 # 1 /\ 1 \in 1..Len(q) BY <1>2
  <2> QED BY <1>2, <1>3, <2>1, <2>2
<1>7. ASSUME 2 \in 1..Len(q) PROVE Tail(q) # <<>> /\ Head(Tail(q)) = q[2]
  <2>1. 1 \in 1..(Len(q) - 1) /\ Len(Tail(q)) # 0 BY <1>2, <1>7
  <2>2. Tail(q) # <<>>
    <3>1. PICK r \in Seq(Commands) : r = Tail(q) BY <1>2
    <3>2. Len(r) # 0 BY <2>1, <3>1
    <3>3. r # <<>> BY <3>2
    <3> QED BY <3>1, <3>3
  <2>3. Head(Tail(q)) = Tail(q)[1] BY <1>2, <2>2, HeadTailProperties
  <2> QED BY <1>2, <2>1, <2>2, <2>3
<1>8. 1 \in 1..Len(q) /\ 1 + 1 = 2 BY <1>2
<1> QED BY <1>2, <1>4, <1>5, <1>6, <1>7, <1>8

\* The commands that Compare leaves to a recorder.
Recorded(changed, s, new, t) ==
  <<Cmd("SetSeen", None)>>
    \o (IF changed THEN StatusCommands(s) ELSE <<>>)
    \o (IF new THEN TrackCommands(t) ELSE <<>>)

LEMMA RecordedCommands ==
  ASSUME NEW s \in Statuses, NEW changed \in BOOLEAN, NEW new \in BOOLEAN,
         NEW t, new => t \in Tracks, NEW q, q = Recorded(changed, s, new, t)
  PROVE  /\ q # <<>> /\ Recording(q) /\ Head(q).name = "SetSeen"
         /\ \A c : Has(q, c) => c \in Commands
         /\ \A x : Has(q, Cmd("LPushStatus", x)) <=> (changed /\ x = s)
         /\ \A x : Has(q, Cmd("HIncrCount", x)) <=> (new /\ x = t)
         /\ \A x : Has(q, Cmd("HSetMeta", x)) <=> (new /\ x = t)
         /\ Named(q, "IncrToday") => Named(q, "HIncrCount") /\ Named(q, "LPushTrack")
<1>a. /\ Cmd("SetSeen", None) \in Commands /\ Cmd("LTrimStatus", None) \in Commands
      /\ Cmd("LTrimTrack", None) \in Commands /\ Cmd("IncrToday", None) \in Commands
      /\ Cmd("LPushStatus", s) \in Commands
      /\ new => /\ Cmd("LPushTrack", t) \in Commands /\ Cmd("HIncrCount", t) \in Commands
                /\ Cmd("HSetMeta", t) \in Commands
  BY DEF Commands
<1>b. \A n, x : Cmd(n, x).name = n /\ Cmd(n, x).arg = x BY DEF Cmd
<1>c. \A n, x, m, y : Cmd(n, x) = Cmd(m, y) <=> (n = m /\ x = y) BY DEF Cmd
<1>d. q \in Seq(Commands)
  <2>1. <<Cmd("SetSeen", None)>> \in Seq(Commands) BY <1>a
  <2>2. (IF changed THEN StatusCommands(s) ELSE <<>>) \in Seq(Commands)
    BY <1>a DEF StatusCommands
  <2>3. (IF new THEN TrackCommands(t) ELSE <<>>) \in Seq(Commands)
    BY <1>a DEF TrackCommands
  <2> QED BY <2>1, <2>2, <2>3, ConcatProperties DEF Recorded
<1>e. ASSUME NEW n \in Nat \ {0}, Len(q) = n
      PROVE  q # <<>> /\ Head(q) = q[1] /\ DOMAIN q = 1..n
  <2>1. q # <<>> BY <1>d, <1>e, EmptySeq
  <2> QED BY <1>d, <1>e, <2>1, HeadTailProperties, LenProperties
<1>f. \A c : Has(q, c) => c \in Commands
  <2> QED BY <1>d, LenProperties DEF Has
<1>1. CASE changed /\ new
  <2>1. /\ Len(q) = 8
        /\ q[1] = Cmd("SetSeen", None) /\ q[2] = Cmd("LPushStatus", s)
        /\ q[3] = Cmd("LTrimStatus", None) /\ q[4] = Cmd("LPushTrack", t)
        /\ q[5] = Cmd("LTrimTrack", None) /\ q[6] = Cmd("HIncrCount", t)
        /\ q[7] = Cmd("HSetMeta", t) /\ q[8] = Cmd("IncrToday", None)
    BY <1>1 DEF Recorded, StatusCommands, TrackCommands
  <2>2. q # <<>> /\ Head(q) = Cmd("SetSeen", None) /\ DOMAIN q = 1..8
    BY <2>1, <1>d, <1>e
  <2>3. \A i \in 1..8 : i = 1 \/ i = 2 \/ i = 3 \/ i = 4 \/ i = 5 \/ i = 6 \/ i = 7 \/ i = 8
    OBVIOUS
  <2>5. Recording(q)
    BY <1>d, <1>b, <2>1, <2>2, <2>3 DEF Recording
  <2>6. /\ \A x : Has(q, Cmd("LPushStatus", x)) <=> x = s
        /\ \A x : Has(q, Cmd("HIncrCount", x)) <=> x = t
        /\ \A x : Has(q, Cmd("HSetMeta", x)) <=> x = t
    BY <1>c, <2>1, <2>2, <2>3 DEF Has
  <2>7. Named(q, "HIncrCount") /\ Named(q, "LPushTrack")
    BY <1>b, <2>1, <2>2, <2>3 DEF Named
  <2> QED BY <1>1, <1>b, <1>f, <2>2, <2>5, <2>6, <2>7
<1>2. CASE changed /\ ~new
  <2>1. /\ Len(q) = 3
        /\ q[1] = Cmd("SetSeen", None) /\ q[2] = Cmd("LPushStatus", s)
        /\ q[3] = Cmd("LTrimStatus", None)
    BY <1>2 DEF Recorded, StatusCommands, TrackCommands
  <2>2. q # <<>> /\ Head(q) = Cmd("SetSeen", None) /\ DOMAIN q = 1..3
    BY <2>1, <1>d, <1>e
  <2>3. \A i \in 1..3 : i = 1 \/ i = 2 \/ i = 3
    OBVIOUS
  <2>5. Recording(q)
    BY <1>d, <1>b, <2>1, <2>2, <2>3 DEF Recording
  <2>6. /\ \A x : Has(q, Cmd("LPushStatus", x)) <=> x = s
        /\ \A x : ~Has(q, Cmd("HIncrCount", x))
        /\ \A x : ~Has(q, Cmd("HSetMeta", x))
    BY <1>c, <2>1, <2>2, <2>3 DEF Has
  <2>7. ~Named(q, "IncrToday")
    BY <1>b, <2>1, <2>2, <2>3 DEF Named
  <2> QED BY <1>2, <1>b, <1>f, <2>2, <2>5, <2>6, <2>7
<1>3. CASE ~changed /\ new
  <2>1. /\ Len(q) = 6
        /\ q[1] = Cmd("SetSeen", None) /\ q[2] = Cmd("LPushTrack", t)
        /\ q[3] = Cmd("LTrimTrack", None) /\ q[4] = Cmd("HIncrCount", t)
        /\ q[5] = Cmd("HSetMeta", t) /\ q[6] = Cmd("IncrToday", None)
    BY <1>3 DEF Recorded, StatusCommands, TrackCommands
  <2>2. q # <<>> /\ Head(q) = Cmd("SetSeen", None) /\ DOMAIN q = 1..6
    BY <2>1, <1>d, <1>e
  <2>3. \A i \in 1..6 : i = 1 \/ i = 2 \/ i = 3 \/ i = 4 \/ i = 5 \/ i = 6
    OBVIOUS
  <2>5. Recording(q)
    BY <1>d, <1>b, <2>1, <2>2, <2>3 DEF Recording
  <2>6. /\ \A x : ~Has(q, Cmd("LPushStatus", x))
        /\ \A x : Has(q, Cmd("HIncrCount", x)) <=> x = t
        /\ \A x : Has(q, Cmd("HSetMeta", x)) <=> x = t
    BY <1>c, <2>1, <2>2, <2>3 DEF Has
  <2>7. Named(q, "HIncrCount") /\ Named(q, "LPushTrack")
    BY <1>b, <2>1, <2>2, <2>3 DEF Named
  <2> QED BY <1>3, <1>b, <1>f, <2>2, <2>5, <2>6, <2>7
<1>4. CASE ~changed /\ ~new
  <2>1. Len(q) = 1 /\ q[1] = Cmd("SetSeen", None)
    BY <1>4 DEF Recorded
  <2>2. q # <<>> /\ Head(q) = Cmd("SetSeen", None) /\ DOMAIN q = {1}
    BY <2>1, <1>d, <1>e
  <2>5. Recording(q)
    BY <1>d, <1>b, <2>1, <2>2 DEF Recording
  <2>6. /\ \A x : ~Has(q, Cmd("LPushStatus", x))
        /\ \A x : ~Has(q, Cmd("HIncrCount", x))
        /\ \A x : ~Has(q, Cmd("HSetMeta", x))
    BY <1>c, <2>1, <2>2 DEF Has
  <2>7. ~Named(q, "IncrToday")
    BY <1>b, <2>1, <2>2 DEF Named
  <2> QED BY <1>4, <1>b, <1>f, <2>2, <2>5, <2>6, <2>7
<1> QED BY <1>1, <1>2, <1>3, <1>4

-----------------------------------------------------------------------------
(* What the commands do to the database. *)

LEMMA Push ==
  ASSUME NEW S, NEW l \in Seq(S), NEW x \in S
  PROVE  /\ <<x>> \o l \in Seq(S) /\ <<x>> \o l # <<>>
         /\ Len(<<x>> \o l) = Len(l) + 1 /\ Head(<<x>> \o l) = x
<1>1. <<x>> \in Seq(S) /\ Len(<<x>>) = 1 /\ <<x>>[1] = x OBVIOUS
<1>2. PICK p : p = <<x>> OBVIOUS
<1>3. PICK q : q = p \o l OBVIOUS
<1>4. Len(l) \in Nat BY LenProperties
<1>5. q \in Seq(S) /\ Len(q) = 1 + Len(l)
  BY <1>1, <1>2, <1>3, ConcatProperties
<1>6. q[1] = x
  <2>1. 1 \in 1 .. Len(p) + Len(l) /\ 1 <= Len(p) BY <1>1, <1>2, <1>4
  <2> QED BY <2>1, <1>1, <1>2, <1>3, ConcatProperties
<1>7. q # <<>> BY <1>4, <1>5, EmptySeq
<1>8. Head(q) = x BY <1>5, <1>6, <1>7, HeadTailProperties
<1> QED BY <1>2, <1>3, <1>4, <1>5, <1>7, <1>8

LEMMA Trim ==
  ASSUME NEW S, NEW l \in Seq(S), NEW n \in Nat \ {0}
  PROVE  /\ Keep(l, n) \in Seq(S) /\ Len(Keep(l, n)) <= n /\ Len(Keep(l, n)) <= Len(l)
         /\ l # <<>> => Keep(l, n) # <<>> /\ Head(Keep(l, n)) = Head(l)
<1>1. PICK m : m = IF n < Len(l) THEN n ELSE Len(l) OBVIOUS
<1>2. Len(l) \in Nat /\ m \in Nat /\ m <= n /\ m <= Len(l) BY <1>1, LenProperties
<1>3. PICK k : k = SubSeq(l, 1, m) OBVIOUS
<1>4. Keep(l, n) = k BY <1>1, <1>3 DEF Keep
<1>5. k \in Seq(S) /\ Len(k) = m /\ \A i \in 1..m : k[i] = l[i]
  <2>1. 1 \in 1..(Len(l) + 1) /\ m \in 0..Len(l) BY <1>2
  <2>2. \A i \in 1 .. m : k[i] = l[1 + i - 1] /\ 1 + i - 1 = i
    BY <1>2, <1>3, <2>1, SubSeqProperties
  <2>3. k \in Seq(S) /\ Len(k) = IF 1 <= m THEN m - 1 + 1 ELSE 0
    BY <1>2, <1>3, <2>1, SubSeqProperties
  <2> QED BY <1>2, <2>2, <2>3
<1>6. ASSUME l # <<>> PROVE k # <<>> /\ Head(k) = Head(l)
  <2>1. Len(l) # 0 BY <1>6, EmptySeq
  <2>2. 1 \in 1..m BY <2>1, <1>1, <1>2
  <2>3. k # <<>> BY <1>5, <2>2, EmptySeq
  <2> QED BY <1>5, <1>6, <2>2, <2>3, HeadTailProperties
<1> QED BY <1>2, <1>4, <1>5, <1>6

LEMMA CommandKinds ==
  ASSUME NEW c \in Commands
  PROVE  \/ c \in {Cmd("SetSeen", None), Cmd("LTrimStatus", None), Cmd("LTrimTrack", None),
                   Cmd("IncrToday", None)}
         \/ \E s \in Statuses : c = Cmd("LPushStatus", s)
         \/ \E t \in Tracks : c \in {Cmd("LPushTrack", t), Cmd("HIncrCount", t),
                                     Cmd("HSetMeta", t)}
BY DEF Commands

LEMMA Names ==
  \A n, x, m, y : /\ Cmd(n, x).name = n /\ Cmd(n, x).arg = x
                  /\ Cmd(n, x) = Cmd(m, y) <=> (n = m /\ x = y)
BY DEF Cmd

\* A key is written, the others stay.
LEMMA Written ==
  ASSUME db \in Databases
  PROVE  /\ \A v \in Seq(Statuses) :
              [db EXCEPT !.statuses = v] \in {d \in Databases :
                 d.statuses = v /\ d.tracks = db.tracks /\ d.counts = db.counts}
         /\ \A v \in Seq(Tracks) :
              [db EXCEPT !.tracks = v] \in {d \in Databases :
                 d.statuses = db.statuses /\ d.tracks = v /\ d.counts = db.counts}
         /\ \A v \in [Tracks -> Nat] :
              [db EXCEPT !.counts = v] \in {d \in Databases :
                 d.statuses = db.statuses /\ d.tracks = db.tracks /\ d.counts = v}
         /\ \A v \in BOOLEAN :
              [db EXCEPT !.seen = v] \in {d \in Databases :
                 d.statuses = db.statuses /\ d.tracks = db.tracks /\ d.counts = db.counts}
         /\ \A v \in Nat :
              [db EXCEPT !.today = v] \in {d \in Databases :
                 d.statuses = db.statuses /\ d.tracks = db.tracks /\ d.counts = db.counts}
         /\ \A v \in SUBSET Tracks :
              [db EXCEPT !.meta = v] \in {d \in Databases :
                 d.statuses = db.statuses /\ d.tracks = db.tracks /\ d.counts = db.counts}
BY DEF Databases

LEMMA ExecCommand ==
  ASSUME db \in Databases, NEW c \in Commands, NEW e, e = Exec(c)
  PROVE  /\ e \in Databases
         /\ IF c.name = "LPushStatus"
              THEN /\ Len(e.statuses) = Len(db.statuses) + 1
                   /\ e.statuses # <<>> /\ Head(e.statuses) = c.arg
              ELSE /\ Len(e.statuses) <= Len(db.statuses)
                   /\ db.statuses # <<>> =>
                        e.statuses # <<>> /\ Head(e.statuses) = Head(db.statuses)
         /\ c.name = "LTrimStatus" => Len(e.statuses) <= HistoryCap
         /\ IF c.name = "LPushTrack"
              THEN Len(e.tracks) = Len(db.tracks) + 1
              ELSE Len(e.tracks) <= Len(db.tracks)
         /\ c.name = "LTrimTrack" => Len(e.tracks) <= HistoryCap
         /\ \A t \in Tracks :
              e.counts[t] = db.counts[t] + IF c = Cmd("HIncrCount", t) THEN 1 ELSE 0
<1>1. /\ db.statuses \in Seq(Statuses) /\ db.tracks \in Seq(Tracks) /\ db.seen \in BOOLEAN
      /\ db.today \in Nat /\ db.counts \in [Tracks -> Nat] /\ db.meta \in SUBSET Tracks
  BY DEF Databases
<1>a. Len(db.statuses) \in Nat /\ Len(db.tracks) \in Nat
  BY <1>1, LenProperties
<1>b. \A n \in Nat : n + 0 = n /\ n <= n OBVIOUS
<1>2. CASE c = Cmd("SetSeen", None)
  <2>1. Exec(c) = [db EXCEPT !.seen = TRUE] BY <1>2, Names DEF Exec
  <2>2. e \in Databases /\ e.statuses = db.statuses /\ e.tracks = db.tracks /\ e.counts = db.counts
    BY <2>1, Written
  <2>3. c.name = "SetSeen" /\ \A t : c # Cmd("HIncrCount", t) BY <1>2, Names
  <2> QED BY <1>1, <1>a, <1>b, <2>2, <2>3
<1>3. CASE c = Cmd("LTrimStatus", None)
  <2>1. Exec(c) = [db EXCEPT !.statuses = Keep(db.statuses, HistoryCap)]
    BY <1>3, Names DEF Exec
  <2>2. PICK l : l = Keep(db.statuses, HistoryCap) OBVIOUS
  <2>3. /\ l \in Seq(Statuses) /\ Len(l) <= HistoryCap /\ Len(l) <= Len(db.statuses)
        /\ db.statuses # <<>> => l # <<>> /\ Head(l) = Head(db.statuses)
    BY <1>1, <2>2, Trim, HistoryAssumption
  <2>4. e \in Databases /\ e.statuses = l /\ e.tracks = db.tracks /\ e.counts = db.counts
    BY <2>1, <2>2, <2>3, Written
  <2>5. c.name = "LTrimStatus" /\ \A t : c # Cmd("HIncrCount", t) BY <1>3, Names
  <2> QED BY <1>1, <1>a, <1>b, <2>3, <2>4, <2>5
<1>4. CASE c = Cmd("LTrimTrack", None)
  <2>1. Exec(c) = [db EXCEPT !.tracks = Keep(db.tracks, HistoryCap)]
    BY <1>4, Names DEF Exec
  <2>2. PICK l : l = Keep(db.tracks, HistoryCap) OBVIOUS
  <2>3. l \in Seq(Tracks) /\ Len(l) <= HistoryCap /\ Len(l) <= Len(db.tracks)
    BY <1>1, <2>2, Trim, HistoryAssumption
  <2>4. e \in Databases /\ e.statuses = db.statuses /\ e.tracks = l /\ e.counts = db.counts
    BY <2>1, <2>2, <2>3, Written
  <2>5. c.name = "LTrimTrack" /\ \A t : c # Cmd("HIncrCount", t) BY <1>4, Names
  <2> QED BY <1>1, <1>a, <1>b, <2>3, <2>4, <2>5
<1>5. CASE c = Cmd("IncrToday", None)
  <2>1. Exec(c) = [db EXCEPT !.today = db.today + 1] BY <1>5, Names DEF Exec
  <2>2. db.today + 1 \in Nat BY <1>1
  <2>3. e \in Databases /\ e.statuses = db.statuses /\ e.tracks = db.tracks /\ e.counts = db.counts
    BY <2>1, <2>2, Written
  <2>4. c.name = "IncrToday" /\ \A t : c # Cmd("HIncrCount", t) BY <1>5, Names
  <2> QED BY <1>1, <1>a, <1>b, <2>3, <2>4
<1>6. CASE \E s \in Statuses : c = Cmd("LPushStatus", s)
  <2>0. PICK s \in Statuses : c = Cmd("LPushStatus", s) BY <1>6
  <2>1. Exec(c) = [db EXCEPT !.statuses = <<s>> \o db.statuses] BY <2>0, Names DEF Exec
  <2>2. PICK l : l = <<s>> \o db.statuses OBVIOUS
  <2>3. l \in Seq(Statuses) /\ l # <<>> /\ Len(l) = Len(db.statuses) + 1 /\ Head(l) = s
    BY <1>1, <2>2, Push
  <2>4. e \in Databases /\ e.statuses = l /\ e.tracks = db.tracks /\ e.counts = db.counts
    BY <2>1, <2>2, <2>3, Written
  <2>5. c.name = "LPushStatus" /\ c.arg = s /\ \A t : c # Cmd("HIncrCount", t)
    BY <2>0, Names
  <2> QED BY <1>1, <1>a, <1>b, <2>3, <2>4, <2>5
<1>7. CASE \E t \in Tracks : c = Cmd("LPushTrack", t)
  <2>0. PICK t \in Tracks : c = Cmd("LPushTrack", t) BY <1>7
  <2>1. Exec(c) = [db EXCEPT !.tracks = <<t>> \o db.tracks] BY <2>0, Names DEF Exec
  <2>2. PICK l : l = <<t>> \o db.tracks OBVIOUS
  <2>3. l \in Seq(Tracks) /\ Len(l) = Len(db.tracks) + 1 BY <1>1, <2>2, Push
  <2>a. e = [db EXCEPT !.tracks = l] /\ l \in Seq(Tracks) BY <2>1, <2>2, <2>3
  <2>4. e \in Databases /\ e.statuses = db.statuses /\ e.tracks = l /\ e.counts = db.counts
    BY <2>a, Written
  <2>5. c.name = "LPushTrack" /\ \A u : c # Cmd("HIncrCount", u) BY <2>0, Names
  <2> QED BY <1>1, <1>a, <1>b, <2>3, <2>4, <2>5
<1>8. CASE \E t \in Tracks : c = Cmd("HIncrCount", t)
  <2>0. PICK t \in Tracks : c = Cmd("HIncrCount", t) BY <1>8
  <2>1. Exec(c) = [db EXCEPT !.counts[t] = db.counts[t] + 1] BY <2>0, Names DEF Exec
  <2>2. PICK f : f = [db.counts EXCEPT ![t] = db.counts[t] + 1] OBVIOUS
  <2>3. /\ f \in [Tracks -> Nat] /\ f[t] = db.counts[t] + 1
        /\ \A u \in Tracks \ {t} : f[u] = db.counts[u]
    BY <1>1, <2>2
  <2>4. Exec(c) = [db EXCEPT !.counts = f] BY <1>1, <2>1, <2>2 DEF Databases
  <2>5. e \in Databases /\ e.statuses = db.statuses /\ e.tracks = db.tracks /\ e.counts = f
    BY <2>3, <2>4, Written
  <2>6. c.name = "HIncrCount" /\ \A u : c = Cmd("HIncrCount", u) <=> u = t BY <2>0, Names
  <2>7. \A u \in Tracks :
          e.counts[u] = db.counts[u] + IF c = Cmd("HIncrCount", u) THEN 1 ELSE 0
    <3> TAKE u \in Tracks
    <3>1. db.counts[u] \in Nat BY <1>1
    <3>2. CASE u = t BY <2>3, <2>5, <2>6, <3>2
    <3>3. CASE u # t BY <2>3, <2>5, <2>6, <3>1, <3>3
    <3> QED BY <3>2, <3>3
  <2> QED BY <1>1, <1>a, <1>b, <2>5, <2>6, <2>7
<1>9. CASE \E t \in Tracks : c = Cmd("HSetMeta", t)
  <2>0. PICK t \in Tracks : c = Cmd("HSetMeta", t) BY <1>9
  <2>a. c.name = "HSetMeta" /\ c.arg = t BY <2>0, Names
  <2>1. Exec(c) = [db EXCEPT !.meta = db.meta \cup {t}] BY <2>a DEF Exec
  <2>2. db.meta \cup {t} \in SUBSET Tracks BY <1>1
  <2>3. e \in Databases /\ e.statuses = db.statuses /\ e.tracks = db.tracks /\ e.counts = db.counts
    BY <2>1, <2>2, Written
  <2>4. c.name = "HSetMeta" /\ \A u : c # Cmd("HIncrCount", u) BY <2>0, Names
  <2> QED BY <1>1, <1>a, <1>b, <2>3, <2>4
<1> QED BY <1>2, <1>3, <1>4, <1>5, <1>6, <1>7, <1>8, <1>9, CommandKinds

LEMMA ExecDeletion ==
  ASSUME db \in Databases, NEW k \in Keys, NEW e, e = Exec(Cmd("Del", k))
  PROVE  /\ e \in Databases
         /\ e[k] = EmptyDB[k] /\ \A j \in Keys : j # k => e[j] = db[j]
         /\ Len(e.statuses) <= Len(db.statuses) /\ Len(e.tracks) <= Len(db.tracks)
<1>1. e = [db EXCEPT ![k] = EmptyDB[k]]
  <2>1. PICK c : c = Cmd("Del", k) OBVIOUS
  <2>2. c.name = "Del" /\ c.arg = k BY <2>1, Names
  <2>3. Exec(c) = [db EXCEPT ![c.arg] = EmptyDB[c.arg]] BY <2>2 DEF Exec
  <2> QED BY <2>1, <2>2, <2>3
<1>2. /\ db.statuses \in Seq(Statuses) /\ db.tracks \in Seq(Tracks)
      /\ DOMAIN db = Keys
  BY DEF Databases, Keys
<1>3. Len(db.statuses) \in Nat /\ Len(db.tracks) \in Nat BY <1>2, LenProperties
<1>4. /\ EmptyDB.statuses = <<>> /\ EmptyDB.tracks = <<>> /\ EmptyDB.seen = FALSE
      /\ EmptyDB.today = 0 /\ EmptyDB.counts \in [Tracks -> Nat] /\ EmptyDB.meta = {}
  BY DEF EmptyDB
<1>5. <<>> \in Seq(Statuses) /\ <<>> \in Seq(Tracks) BY EmptySeq
<1>6. e \in Databases
  <2>1. CASE k = "statuses"
    <3>1. PICK v : v = EmptyDB.statuses OBVIOUS
    <3>2. v \in Seq(Statuses) BY <3>1, <1>4, <1>5
    <3>3. e = [db EXCEPT !.statuses = v] BY <1>1, <2>1, <3>1
    <3> QED BY <3>2, <3>3, Written
  <2>2. CASE k = "tracks"
    <3>1. PICK v : v = EmptyDB.tracks OBVIOUS
    <3>2. v \in Seq(Tracks) BY <3>1, <1>4, <1>5
    <3>3. e = [db EXCEPT !.tracks = v] BY <1>1, <2>2, <3>1
    <3> QED BY <3>2, <3>3, Written
  <2>3. CASE k = "seen"
    <3>1. PICK v : v = EmptyDB.seen OBVIOUS
    <3>2. v \in BOOLEAN BY <3>1, <1>4, <1>5
    <3>3. e = [db EXCEPT !.seen = v] BY <1>1, <2>3, <3>1
    <3> QED BY <3>2, <3>3, Written
  <2>4. CASE k = "today"
    <3>1. PICK v : v = EmptyDB.today OBVIOUS
    <3>2. v \in Nat BY <3>1, <1>4, <1>5
    <3>3. e = [db EXCEPT !.today = v] BY <1>1, <2>4, <3>1
    <3> QED BY <3>2, <3>3, Written
  <2>5. CASE k = "counts"
    <3>1. PICK v : v = EmptyDB.counts OBVIOUS
    <3>2. v \in [Tracks -> Nat] BY <3>1, <1>4, <1>5
    <3>3. e = [db EXCEPT !.counts = v] BY <1>1, <2>5, <3>1
    <3> QED BY <3>2, <3>3, Written
  <2>6. CASE k = "meta"
    <3>1. PICK v : v = EmptyDB.meta OBVIOUS
    <3>2. v \in SUBSET Tracks BY <3>1, <1>4, <1>5
    <3>3. e = [db EXCEPT !.meta = v] BY <1>1, <2>6, <3>1
    <3> QED BY <3>2, <3>3, Written
  <2> QED BY <2>1, <2>2, <2>3, <2>4, <2>5, <2>6 DEF Keys
<1>7. e[k] = EmptyDB[k] /\ \A j \in Keys : j # k => e[j] = db[j]
  BY <1>1, <1>2
<1>8. \A n \in Nat : 0 <= n /\ n <= n OBVIOUS
<1>9. Len(e.statuses) <= Len(db.statuses) /\ Len(e.tracks) <= Len(db.tracks)
  BY <1>3, <1>4, <1>7, <1>8, EmptySeq DEF Keys
<1> QED BY <1>6, <1>7, <1>9

-----------------------------------------------------------------------------
(* Reports and their starts. *)

LEMMA Windows ==
  ASSUME NEW k \in Nat
  PROVE  /\ Base(k) \in Nat /\ Base(k) + Gap \in Nat /\ Base(k) \in Window(k)
         /\ Window(k) \subseteq Nat
         /\ k # 0 => 0 \notin Window(k)
<1>1. Gap \in Nat /\ 2 * Gap + 1 \in Nat /\ 2 * Gap + 1 >= 1 BY PlaysAssumption
<1>2. PICK g \in Nat : g = 2 * Gap + 1 BY <1>1
<1>3. k * g \in Nat /\ (k # 0 /\ g # 0 => k * g # 0) BY <1>2
<1> QED BY <1>1, <1>2, <1>3 DEF Base, Window

\* Starts of two songs are further apart than those of one.
LEMMA WindowsApart ==
  ASSUME NEW j \in Nat, NEW k \in Nat, NEW a \in Window(j), NEW b \in Window(k)
  PROVE  Distance(a, b) <= Gap <=> j = k
<1>1. Gap \in Nat BY PlaysAssumption
<1>2. PICK g \in Nat : g = 2 * Gap + 1 BY <1>1
<1>3. /\ a \in Int /\ b \in Int /\ j * g \in Int /\ k * g \in Int
      /\ j * g <= a /\ a <= j * g + Gap /\ k * g <= b /\ b <= k * g + Gap
  BY <1>1, <1>2 DEF Window, Base
<1>4. ASSUME NEW x \in Nat, NEW y \in Nat, x < y PROVE x * g + g <= y * g
  <2>1. PICK d \in Nat : y = x + 1 + d
    <3>1. y - x - 1 \in Nat /\ y = x + 1 + (y - x - 1) BY <1>4
    <3> QED BY <3>1
  <2>2. y * g = x * g + g + d * g BY <2>1
  <2>3. d * g \in Nat OBVIOUS
  <2> QED BY <2>2, <2>3
<1>5. CASE j = k BY <1>1, <1>3, <1>5 DEF Distance
<1>6. CASE j < k
  <2>1. j * g + g <= k * g BY <1>4, <1>6
  <2> QED BY <1>1, <1>2, <1>3, <1>6, <2>1 DEF Distance
<1>7. CASE k < j
  <2>1. k * g + g <= j * g BY <1>4, <1>7
  <2> QED BY <1>1, <1>2, <1>3, <1>7, <2>1 DEF Distance
<1> QED BY <1>5, <1>6, <1>7

LEMMA NextReport ==
  ASSUME IsReport(world), world.status \in Statuses, NEW r \in Reports
  PROVE  /\ IsReport(r) /\ r.status \in Statuses
         /\ \/ r.song = world.song /\ r.track = world.track
            \/ r.song = world.song + 1 /\ r.on /\ r.start \in Window(r.song)
         /\ OnTime(world) => r.on \/ OnTime(r)
<1> DEFINE R == [status : Statuses \cup {None}, track : Tracks \cup {None}, start : Nat,
                 song : 0..MaxSongs, on : BOOLEAN]
<1>1. /\ world \in R /\ MaxSongs \in Nat /\ world.song \in Nat /\ world.song <= MaxSongs
      /\ world.start \in Nat /\ world.on \in BOOLEAN
      /\ world.track \in Tracks \cup {None}
  BY HistoryAssumption DEF IsReport
<1>2. CASE r = world BY <1>2 DEF OnTime
<1>3. ASSUME NEW s \in Statuses, r = [world EXCEPT !.status = s]
      PROVE  r \in R /\ r.status = s /\ r.song = world.song /\ r.track = world.track
             /\ r.start = world.start /\ r.on = world.on
  BY <1>1, <1>3
<1>4. ASSUME world.song # 0, r = [world EXCEPT !.on = ~@]
      PROVE  r \in R /\ r.status = world.status /\ r.song = world.song
             /\ r.track = world.track /\ r.start = world.start
  BY <1>1, <1>4
<1>5. ASSUME NEW s \in {0} \cup Window(world.song) \cup Strays, world.on, r = [world EXCEPT !.start = s]
      PROVE  r \in R /\ r.status = world.status /\ r.song = world.song
             /\ r.track = world.track /\ r.start = s /\ r.on = world.on
  <2>1. s \in Nat BY <1>1, Windows, HistoryAssumption
  <2> QED BY <1>1, <1>5, <2>1
<1>6. ASSUME NEW t \in Tracks, world.song < MaxSongs,
             r = [status |-> world.status, track |-> t, start |-> Base(world.song + 1),
                  song |-> world.song + 1, on |-> TRUE]
      PROVE  r \in R /\ r.status = world.status /\ r.song = world.song + 1
             /\ r.track = t /\ r.start = Base(world.song + 1) /\ r.on
  <2>1. PICK k \in Nat : k = world.song + 1 BY <1>1
  <2>2. k \in 0..MaxSongs BY <1>1, <1>6, <2>1
  <2>3. Base(k) \in Nat BY Windows
  <2> QED BY <1>1, <1>6, <2>1, <2>2, <2>3
<1>7. CASE \E s \in Statuses : r = [world EXCEPT !.status = s]
  BY <1>1, <1>3, <1>7 DEF IsReport, OnTime
<1>8. CASE world.song # 0 /\ r = [world EXCEPT !.on = ~@]
  BY <1>1, <1>4, <1>8 DEF IsReport, OnTime
<1>9. CASE world.on /\ \E s \in {0} \cup Window(world.song) \cup Strays : r = [world EXCEPT !.start = s]
  BY <1>1, <1>5, <1>9 DEF IsReport
<1>10. CASE /\ world.song < MaxSongs
            /\ \E t \in Tracks :
                 r = [status |-> world.status, track |-> t, start |-> Base(world.song + 1),
                      song |-> world.song + 1, on |-> TRUE]
  <2>1. PICK t \in Tracks :
               /\ r \in R /\ r.status = world.status /\ r.song = world.song + 1
               /\ r.track = t /\ r.start = Base(world.song + 1) /\ r.on
    BY <1>6, <1>10
  <2>2. Base(world.song + 1) \in Window(world.song + 1)
    <3>1. world.song + 1 \in Nat BY <1>1
    <3> QED BY <3>1, Windows
  <2> QED BY <2>1, <2>2 DEF IsReport
<1>11. \/ r = world \/ \E s \in Statuses : r = [world EXCEPT !.status = s]
       \/ world.song # 0 /\ r = [world EXCEPT !.on = ~@]
       \/ world.on /\ \E s \in {0} \cup Window(world.song) \cup Strays : r = [world EXCEPT !.start = s]
       \/ /\ world.song < MaxSongs
          /\ \E t \in Tracks :
               r = [status |-> world.status, track |-> t, start |-> Base(world.song + 1),
                    song |-> world.song + 1, on |-> TRUE]
  <2>1. \A s \in {1} \cap 1..world.song : world.song # 0 BY <1>1
  <2> QED BY <2>1 DEF Reports
<1> QED BY <1>2, <1>7, <1>8, <1>9, <1>10, <1>11

-----------------------------------------------------------------------------
(* The types, and what a goroutine has yet to do. *)

LEMMA NoCommands == \A c : ~Has(<<>>, c)
BY DEF Has

LEMMA NoDeletion == Commands \cap Deletions = {}
BY Names DEF Commands, Deletions

\* The command that a goroutine issues, and those that are left to it.
LEMMA Issuing ==
  ASSUME Types, Steps, NEW w \in Workers, todo[w] # <<>>
  PROVE  /\ pc[w] \in {"run", "purge"} /\ node[w] \in Nodes
         /\ Tail(todo[w]) \in Seq(Commands \cup Deletions)
         /\ Len(todo[w]) = 1 <=> Tail(todo[w]) = <<>>
         /\ \A c : Has(todo[w], c) <=> c = Head(todo[w]) \/ Has(Tail(todo[w]), c)
         /\ pc[w] = "run" =>
              /\ Head(todo[w]) \in Commands /\ Recording(Tail(todo[w]))
              /\ \A c : Has(Tail(todo[w]), c) => c.name # Head(todo[w]).name
              /\ Head(todo[w]).name = "LPushStatus" =>
                   Tail(todo[w]) # <<>> /\ Head(Tail(todo[w])).name = "LTrimStatus"
              /\ Head(todo[w]).name = "LPushTrack" =>
                   Tail(todo[w]) # <<>> /\ Head(Tail(todo[w])).name = "LTrimTrack"
         /\ pc[w] = "purge" =>
              /\ Tail(todo[w]) \in Seq(Deletions)
              /\ \E k \in Keys : Head(todo[w]) = Cmd("Del", k)
<1>1. PICK q : q = todo[w] OBVIOUS
<1>2. q \in Seq(Commands \cup Deletions) /\ q # <<>> BY <1>1 DEF Types
<1>3. pc[w] \in {"run", "purge"} /\ node[w] \in Nodes
  BY DEF Types, Steps
<1>4. Tail(q) \in Seq(Commands \cup Deletions) /\ Len(Tail(q)) = Len(q) - 1 /\ Len(q) \in Nat
  BY <1>2, HeadTailProperties, LenProperties
<1>5. Len(q) = 1 <=> Tail(q) = <<>>
  <2>1. PICK r : r = Tail(q) OBVIOUS
  <2>2. r = <<>> => Len(r) = 0 BY EmptySeq
  <2>3. r # <<>> => Len(r) # 0 BY <1>4, <2>1, EmptySeq
  <2> QED BY <1>4, <2>1, <2>2, <2>3
<1>6. \A c : Has(q, c) <=> c = Head(q) \/ Has(Tail(q), c)
  BY <1>2, HasTail
<1>7. ASSUME pc[w] = "run"
      PROVE  /\ Head(q) \in Commands /\ Recording(Tail(q))
             /\ \A c : Has(Tail(q), c) => c.name # Head(q).name
             /\ Head(q).name = "LPushStatus" =>
                  Tail(q) # <<>> /\ Head(Tail(q)).name = "LTrimStatus"
             /\ Head(q).name = "LPushTrack" =>
                  Tail(q) # <<>> /\ Head(Tail(q)).name = "LTrimTrack"
  <2>1. Recording(q) BY <1>1, <1>7 DEF Steps
  <2> QED BY <1>2, <2>1, RecordingTail
<1>8. ASSUME pc[w] = "purge"
      PROVE  Tail(q) \in Seq(Deletions) /\ \E k \in Keys : Head(q) = Cmd("Del", k)
  <2>1. q \in Seq(Deletions) BY <1>1, <1>8 DEF Steps
  <2>2. Tail(q) \in Seq(Deletions) /\ Head(q) \in Deletions BY <1>2, <2>1, HeadTailProperties
  <2> QED BY <2>2 DEF Deletions
<1> QED BY <1>1, <1>3, <1>4, <1>5, <1>6, <1>7, <1>8

\* What Compare finds.
Changed(w) == snap[w].status # mark[node[w]].status
New(w) ==
  snap[w].on /\ IsNewPlay(snap[w].track, mark[node[w]].track, snap[w].start, mark[node[w]].start)

LEMMA Comparing ==
  ASSUME Types, Steps, NEW w \in Workers, Compare(w)
  PROVE  /\ node[w] \in Nodes /\ snap[w].status \in Statuses
         /\ todo'[w] # <<>> /\ Recording(todo'[w])
         /\ Head(todo'[w]).name = "SetSeen"
         /\ \A x : Has(todo'[w], Cmd("LPushStatus", x)) <=> (Changed(w) /\ x = snap[w].status)
         /\ \A x : Has(todo'[w], Cmd("HIncrCount", x)) <=> (New(w) /\ x = snap[w].track)
         /\ \A x : Has(todo'[w], Cmd("HSetMeta", x)) <=> (New(w) /\ x = snap[w].track)
         /\ Named(todo'[w], "IncrToday") =>
              Named(todo'[w], "HIncrCount") /\ Named(todo'[w], "LPushTrack")
         /\ \A v \in Workers : v # w => todo'[v] = todo[v]
         /\ todo' \in [Workers -> Seq(Commands \cup Deletions)]
<1>1. /\ todo \in [Workers -> Seq(Commands \cup Deletions)]
      /\ pc[w] = "compare" /\ node[w] \in Nodes /\ snap[w].status \in Statuses
      /\ IsReport(snap[w])
  BY DEF Types, Steps, Compare
<1>2. snap[w].on => snap[w].track \in Tracks
  BY <1>1 DEF IsReport
<1>3. New(w) <=> IsNewPlay(IF snap[w].on THEN snap[w].track ELSE None,
                           mark[node[w]].track, snap[w].start, mark[node[w]].start)
  BY <1>1 DEF New, IsNewPlay, IsReport
<1>4. PICK q : q = Recorded(Changed(w), snap[w].status, New(w), snap[w].track) OBVIOUS
<1>5. todo' = [todo EXCEPT ![w] = q]
  BY <1>3, <1>4 DEF Compare, Recorded, Changed
<1>6. Changed(w) \in BOOLEAN /\ New(w) \in BOOLEAN /\ (New(w) => snap[w].track \in Tracks)
  BY <1>1, <1>2 DEF Changed, New, IsNewPlay, IsReport
<1>7. /\ q # <<>> /\ Recording(q) /\ Head(q).name = "SetSeen"
      /\ \A x : Has(q, Cmd("LPushStatus", x)) <=> (Changed(w) /\ x = snap[w].status)
      /\ \A x : Has(q, Cmd("HIncrCount", x)) <=> (New(w) /\ x = snap[w].track)
      /\ \A x : Has(q, Cmd("HSetMeta", x)) <=> (New(w) /\ x = snap[w].track)
      /\ Named(q, "IncrToday") => Named(q, "HIncrCount") /\ Named(q, "LPushTrack")
  BY <1>1, <1>4, <1>6, RecordedCommands
<1>8. q \in Seq(Commands \cup Deletions)
  <2>1. q \in Seq(Commands) BY <1>7 DEF Recording
  <2> QED BY <2>1
<1> QED BY <1>1, <1>5, <1>7, <1>8

LEMMA TypesInit == Init => Types /\ Steps
<1> SUFFICES ASSUME Init PROVE Types /\ Steps OBVIOUS
<1>1. IsReport(world) /\ world.status \in Statuses
  <2>1. PICK s \in Statuses : world = [Nothing EXCEPT !.status = s] BY DEF Init
  <2>2. world = [status |-> s, track |-> None, start |-> 0, song |-> 0, on |-> FALSE]
    BY <2>1 DEF Nothing
  <2>3. 0 \in 0..MaxSongs BY HistoryAssumption
  <2> QED BY <2>2, <2>3 DEF IsReport
<1>2. mark \in [Nodes -> Markers] BY DEF Init, NoMark, Markers
<1>3. \A w \in Workers : IsReport(snap[w])
  BY HistoryAssumption DEF Init, Nothing, IsReport
<1>4. EmptyDB \in Databases
  BY EmptySeq DEF EmptyDB, Databases
<1>5. todo \in [Workers -> Seq(Commands \cup Deletions)]
  BY EmptySeq DEF Init
<1>6. heard \in [Nodes -> 0..MaxSongs] BY HistoryAssumption DEF Init
<1> QED BY <1>1, <1>2, <1>3, <1>4, <1>5, <1>6 DEF Init, Types, Steps

LEMMA SyncTypes ==
  ASSUME Types, Steps, NEW w \in Workers, NEW n \in Nodes, Sync(w, n)
  PROVE  Types' /\ Steps'
<1>1. /\ IsReport(world') /\ world'.status \in Statuses
      /\ world'.song \in 0..MaxSongs
      /\ world'.on => world'.track \in Tracks
  BY NextReport DEF Sync, Types, IsReport
<1>2. /\ pc' = [pc EXCEPT ![w] = "compare"] /\ node' = [node EXCEPT ![w] = n]
      /\ snap' = [snap EXCEPT ![w] = world'] /\ pc[w] = "idle"
      /\ UNCHANGED <<mark, todo, db, cut>> /\ syncs' = syncs + 1
  BY DEF Sync
<1>3. due' \in [Tracks -> Nat] /\ heard' \in [Nodes -> 0..MaxSongs]
  <2>1. due \in [Tracks -> Nat] /\ heard \in [Nodes -> 0..MaxSongs] BY DEF Types
  <2>2. CASE world'.on /\ world'.song # heard[n]
    <3>1. /\ due' = [due EXCEPT ![world'.track] = @ + 1]
          /\ heard' = [heard EXCEPT ![n] = world'.song]
      BY <2>2 DEF Sync
    <3>2. PICK t \in Tracks : t = world'.track BY <1>1, <2>2
    <3>3. due' = [due EXCEPT ![t] = due[t] + 1] BY <3>1, <3>2
    <3>4. due' \in [Tracks -> Nat] BY <2>1, <3>3
    <3>5. PICK k \in 0..MaxSongs : k = world'.song BY <1>1
    <3>6. heard' = [heard EXCEPT ![n] = k] BY <3>1, <3>5
    <3>7. heard' \in [Nodes -> 0..MaxSongs] BY <2>1, <3>6
    <3> QED BY <3>4, <3>7
  <2>3. CASE ~(world'.on /\ world'.song # heard[n]) BY <2>1, <2>3 DEF Sync
  <2> QED BY <2>2, <2>3
<1>4. {overlapped', mixed', cut', blind', strayed'} \subseteq BOOLEAN
  BY <1>1 DEF Sync, Types
<1>5. DOMAIN snap' = Workers /\ \A v \in Workers : IsReport(snap'[v])
  BY <1>1, <1>2 DEF Types
<1>6. Types' BY <1>1, <1>2, <1>3, <1>4, <1>5 DEF Types
<1>7. Steps' BY <1>1, <1>2 DEF Steps, Types
<1> QED BY <1>6, <1>7

LEMMA CompareTypes ==
  ASSUME Types, Steps, NEW w \in Workers, Compare(w)
  PROVE  Types' /\ Steps'
<1>1. /\ pc' = [pc EXCEPT ![w] = "run"] /\ snap' = [snap EXCEPT ![w] = Nothing]
      /\ mark' = [mark EXCEPT ![node[w]] = Moved(mark[node[w]], snap[w])]
      /\ UNCHANGED <<world, node, db, syncs, ghosts>>
  BY DEF Compare
<1>2. IsReport(Nothing) BY HistoryAssumption DEF Nothing, IsReport
<1>3. node[w] \in Nodes /\ Moved(mark[node[w]], snap[w]) \in Markers
  BY Comparing DEF Types, IsReport, Markers, Moved
<1>4. todo' \in [Workers -> Seq(Commands \cup Deletions)] BY Comparing
<1>5. mark' \in [Nodes -> Markers] BY <1>1, <1>3 DEF Types
<1>6. DOMAIN snap' = Workers /\ \A v \in Workers : IsReport(snap'[v])
  BY <1>1, <1>2 DEF Types
<1>7. Types' BY <1>1, <1>4, <1>5, <1>6 DEF Types, ghosts
<1>8. \A v \in Workers : v # w => /\ pc'[v] = pc[v] /\ todo'[v] = todo[v]
                                  /\ snap'[v] = snap[v] /\ node'[v] = node[v]
  BY <1>1, Comparing DEF Types
<1>9. pc'[w] = "run" /\ node'[w] \in Nodes /\ todo'[w] # <<>> /\ Recording(todo'[w])
  BY <1>1, <1>3, Comparing DEF Types
<1>10. Steps' BY <1>8, <1>9 DEF Steps
<1> QED BY <1>7, <1>10

LEMMA PurgeTypes ==
  ASSUME Types, Steps, NEW w \in Workers, NEW n \in Nodes, Purge(w, n)
  PROVE  /\ Types' /\ Steps'
         /\ \A k \in Keys : Has(todo'[w], Cmd("Del", k))
<1>1. /\ pc' = [pc EXCEPT ![w] = "purge"] /\ node' = [node EXCEPT ![w] = n]
      /\ UNCHANGED <<world, mark, snap, db, heard, due, overlapped, cut, blind, strayed>>
      /\ syncs' = syncs + 1 /\ mixed' = (mixed \/ Active # {})
  BY DEF Purge
<1>2. PICK q : q = [i \in DOMAIN PurgedKeys |-> Cmd("Del", PurgedKeys[i])] OBVIOUS
<1>3. todo' = [todo EXCEPT ![w] = q] BY <1>2 DEF Purge
<1>4. /\ DOMAIN PurgedKeys = 1..6
      /\ PurgedKeys[1] = "statuses" /\ PurgedKeys[2] = "tracks" /\ PurgedKeys[3] = "seen"
      /\ PurgedKeys[4] = "today" /\ PurgedKeys[5] = "counts" /\ PurgedKeys[6] = "meta"
  BY DEF PurgedKeys
<1>5. /\ \A i \in 1..6 : PurgedKeys[i] \in Keys
      /\ \A k \in Keys : \E i \in 1..6 : PurgedKeys[i] = k
  BY <1>4 DEF Keys
<1>6. DOMAIN q = 1..6 /\ \A i \in 1..6 : q[i] = Cmd("Del", PurgedKeys[i])
  BY <1>2, <1>4
<1>7. q \in [1..6 -> Deletions]
  BY <1>2, <1>4, <1>5 DEF Deletions
<1>8. q \in Seq(Deletions) /\ q \in Seq(Commands \cup Deletions)
  <2>1. 6 \in Nat /\ q \in [1..6 -> Commands \cup Deletions] BY <1>7
  <2> QED BY <1>7, <2>1, SeqDef
<1>9. \A k \in Keys : Has(q, Cmd("Del", k))
  BY <1>5, <1>6 DEF Has
<1>10. Types' BY <1>1, <1>3, <1>8 DEF Types
<1>11. Steps' BY <1>1, <1>3, <1>8 DEF Steps, Types
<1>12. todo'[w] = q BY <1>3 DEF Types
<1> QED BY <1>9, <1>10, <1>11, <1>12

LEMMA ResetTypes ==
  ASSUME Types, Steps, NEW w \in Workers, Reset(w)
  PROVE  Types' /\ Steps'
<1>1. /\ pc[w] = "purge" /\ todo[w] = <<>> /\ node[w] \in Nodes
      /\ pc' = [pc EXCEPT ![w] = "idle"] /\ node' = [node EXCEPT ![w] = None]
      /\ mark' = [mark EXCEPT ![node[w]] = NoMark]
      /\ heard' = [heard EXCEPT ![node[w]] = 0] /\ due' = [t \in Tracks |-> 0]
      /\ UNCHANGED <<world, snap, todo, db, syncs, overlapped, mixed, cut, blind, strayed>>
  BY DEF Reset, Steps
<1>2. NoMark \in Markers BY DEF NoMark, Markers
<1>3. 0 \in 0..MaxSongs BY HistoryAssumption
<1>4. Types' BY <1>1, <1>2, <1>3 DEF Types
<1>5. Steps' BY <1>1 DEF Steps, Types
<1> QED BY <1>4, <1>5

LEMMA IssueTypes ==
  ASSUME Types, Steps, NEW w \in Workers, Issue(w)
  PROVE  Types' /\ Steps'
<1>1. /\ todo[w] # <<>> /\ db' = Exec(Head(todo[w]))
      /\ todo' = [todo EXCEPT ![w] = Tail(todo[w])]
      /\ UNCHANGED <<world, mark, snap, syncs, ghosts>>
  BY DEF Issue
<1>2. PICK q : q = Tail(todo[w]) OBVIOUS
<1>3. todo'[w] = q /\ \A v \in Workers : v # w => todo'[v] = todo[v]
  BY <1>1, <1>2 DEF Types
<1>4. db' \in Databases
  <2>1. CASE pc[w] = "run"
    <3>1. Head(todo[w]) \in Commands BY <1>1, <2>1, Issuing
    <3> QED BY <1>1, <3>1, ExecCommand DEF Types
  <2>2. CASE pc[w] = "purge"
    <3>1. PICK k \in Keys : Head(todo[w]) = Cmd("Del", k) BY <1>1, <2>2, Issuing
    <3> QED BY <1>1, <3>1, ExecDeletion DEF Types
  <2> QED BY <1>1, <2>1, <2>2, Issuing
<1>5. q \in Seq(Commands \cup Deletions) BY <1>1, <1>2, Issuing
<1>6. \/ pc[w] = "run" /\ q = <<>> /\ pc' = [pc EXCEPT ![w] = "idle"]
         /\ node' = [node EXCEPT ![w] = None]
      \/ pc[w] = "run" /\ q # <<>> /\ UNCHANGED <<pc, node>>
      \/ pc[w] = "purge" /\ UNCHANGED <<pc, node>>
  BY <1>1, <1>2, Issuing DEF Issue
<1>7. pc' \in [Workers -> {"idle", "compare", "run", "purge"}]
      /\ node' \in [Workers -> Nodes \cup {None}]
  BY <1>6 DEF Types
<1>8. todo' \in [Workers -> Seq(Commands \cup Deletions)]
  BY <1>1, <1>2, <1>5 DEF Types
<1>9. Types' BY <1>1, <1>4, <1>7, <1>8 DEF Types, ghosts
<1>10. /\ pc[w] = "run" => Recording(q)
       /\ pc[w] = "purge" => q \in Seq(Deletions)
       /\ node[w] \in Nodes
  BY <1>1, <1>2, Issuing
<1>11. \A v \in Workers : v # w => pc'[v] = pc[v] /\ node'[v] = node[v]
  BY <1>6 DEF Types
<1>12. snap' = snap BY <1>1
<1>13. ASSUME NEW v \in Workers, v # w
       PROVE  /\ pc'[v] # "idle" => node'[v] \in Nodes
              /\ pc'[v] \in {"idle", "compare"} => todo'[v] = <<>>
              /\ pc'[v] = "compare" => snap'[v].status \in Statuses
              /\ pc'[v] = "run" => todo'[v] # <<>> /\ Recording(todo'[v])
              /\ pc'[v] = "purge" => todo'[v] \in Seq(Deletions)
  BY <1>3, <1>11, <1>12, <1>13 DEF Steps
<1>14. /\ pc'[w] # "idle" => node'[w] \in Nodes
       /\ pc'[w] \in {"idle", "compare"} => todo'[w] = <<>>
       /\ pc'[w] = "compare" => snap'[w].status \in Statuses
       /\ pc'[w] = "run" => todo'[w] # <<>> /\ Recording(todo'[w])
       /\ pc'[w] = "purge" => todo'[w] \in Seq(Deletions)
  BY <1>3, <1>6, <1>10 DEF Types
<1>15. Steps' BY <1>13, <1>14 DEF Steps
<1> QED BY <1>9, <1>15

LEMMA CrashTypes ==
  ASSUME Types, Steps, NEW n \in Nodes, Crash(n)
  PROVE  /\ Types' /\ Steps'
         /\ \A w \in Workers :
              IF pc[w] # "idle" /\ node[w] = n
                THEN pc'[w] = "idle" /\ todo'[w] = <<>>
                ELSE /\ pc'[w] = pc[w] /\ node'[w] = node[w]
                     /\ snap'[w] = snap[w] /\ todo'[w] = todo[w]
         /\ cut' \/ \A w \in Workers : pc[w] # "idle" => node[w] # n
<1> DEFINE victims == {w \in Active : node[w] = n}
           Reborn(f, v) == [w \in Workers |-> IF w \in victims THEN v ELSE f[w]]
<1>1. /\ mark' = [mark EXCEPT ![n] = NoMark] /\ heard' = [heard EXCEPT ![n] = 0]
      /\ pc' = Reborn(pc, "idle") /\ node' = Reborn(node, None)
      /\ snap' = Reborn(snap, Nothing) /\ todo' = Reborn(todo, <<>>)
      /\ cut' = (cut \/ victims # {})
      /\ UNCHANGED <<world, db, syncs, due, overlapped, mixed, blind, strayed>>
  BY DEF Crash
<1>2. NoMark \in Markers /\ 0 \in 0..MaxSongs /\ IsReport(Nothing)
      /\ <<>> \in Seq(Commands \cup Deletions)
  BY HistoryAssumption, EmptySeq DEF NoMark, Markers, Nothing, IsReport
<1>3. \A w \in Workers :
        IF pc[w] # "idle" /\ node[w] = n
          THEN pc'[w] = "idle" /\ todo'[w] = <<>> /\ node'[w] = None /\ snap'[w] = Nothing
          ELSE /\ pc'[w] = pc[w] /\ node'[w] = node[w]
               /\ snap'[w] = snap[w] /\ todo'[w] = todo[w]
  BY <1>1 DEF Active
<1>4. /\ DOMAIN pc' = Workers /\ DOMAIN node' = Workers /\ DOMAIN snap' = Workers
      /\ DOMAIN todo' = Workers
  BY <1>1
<1>5. /\ pc' \in [Workers -> {"idle", "compare", "run", "purge"}]
      /\ node' \in [Workers -> Nodes \cup {None}]
  BY <1>1 DEF Types
<1>6. todo' \in [Workers -> Seq(Commands \cup Deletions)]
  BY <1>1, <1>2 DEF Types
<1>7. \A w \in Workers : IsReport(snap'[w]) BY <1>2, <1>3 DEF Types
<1>8. mark' \in [Nodes -> Markers] /\ heard' \in [Nodes -> 0..MaxSongs]
  BY <1>1, <1>2 DEF Types
<1>9. cut' \in BOOLEAN BY <1>1 DEF Types
<1>10. Types' BY <1>1, <1>4, <1>5, <1>6, <1>7, <1>8, <1>9 DEF Types
<1>11. Steps' BY <1>3 DEF Steps
<1>12. cut' \/ \A w \in Workers : pc[w] # "idle" => node[w] # n
  BY <1>1 DEF Active
<1> QED BY <1>3, <1>10, <1>11, <1>12

LEMMA TypesStep == Types /\ Steps /\ [Next]_vars => Types' /\ Steps'
<1> SUFFICES ASSUME Types, Steps, [Next]_vars PROVE Types' /\ Steps' OBVIOUS
<1>1. CASE UNCHANGED vars BY <1>1 DEF vars, goroutines, ghosts, Types, Steps
<1>2. CASE \E w \in Workers :
             Compare(w) \/ Issue(w) \/ Reset(w) \/ \E n \in Nodes : Sync(w, n) \/ Purge(w, n)
  BY <1>2, SyncTypes, CompareTypes, PurgeTypes, ResetTypes, IssueTypes
<1>3. CASE \E n \in Nodes : Crash(n) BY <1>3, CrashTypes
<1> QED BY <1>1, <1>2, <1>3 DEF Next

-----------------------------------------------------------------------------
(* The lists are bounded. *)

\* A list that grows by at most the goroutines that join those between the push
\* and the trim, or is trimmed, stays bounded.
LEMMA StaysBounded ==
  ASSUME NEW S \in SUBSET Workers, NEW T \in SUBSET Workers, NEW l \in Nat, NEW m \in Nat,
         l <= HistoryCap + Cardinality(S),
         \/ m <= HistoryCap
         \/ m <= l /\ S \subseteq T
         \/ m = l + 1 /\ \E w \in T : w \notin S /\ S \subseteq T
  PROVE  m <= HistoryCap + Cardinality(T)
<1>1. IsFiniteSet(S) /\ IsFiniteSet(T) /\ HistoryCap \in Nat
  BY HistoryAssumption, FS_Subset
<1>2. Cardinality(S) \in Nat /\ Cardinality(T) \in Nat
  BY <1>1, FS_CardinalityType
<1>3. S \subseteq T => Cardinality(S) <= Cardinality(T)
  BY <1>1, FS_Subset
<1>4. ASSUME NEW w \in T, w \notin S, S \subseteq T
      PROVE  Cardinality(S) + 1 <= Cardinality(T)
  <2>1. Cardinality(S \cup {w}) = Cardinality(S) + 1 BY <1>1, <1>4, FS_AddElement
  <2>2. S \cup {w} \in SUBSET T BY <1>4
  <2>3. Cardinality(S \cup {w}) <= Cardinality(T) BY <1>1, <2>2, FS_Subset
  <2> QED BY <2>1, <2>3
<1> QED BY <1>1, <1>2, <1>3, <1>4

LEMMA BoundedInit == Init => ListsBounded
<1> SUFFICES ASSUME Init PROVE ListsBounded OBVIOUS
<1>1. Len(db.statuses) = 0 /\ Len(db.tracks) = 0 BY EmptySeq DEF Init, EmptyDB
<1>2. \A trim : Cardinality(Untrimmed(trim)) \in Nat
  <2> TAKE trim
  <2>1. Untrimmed(trim) \in SUBSET Workers BY DEF Untrimmed
  <2> QED BY <2>1, HistoryAssumption, FS_Subset, FS_CardinalityType
<1> QED BY <1>1, <1>2, HistoryAssumption DEF ListsBounded

LEMMA IssueBounded ==
  ASSUME Types, Steps, ListsBounded, NEW w \in Workers, Issue(w)
  PROVE  ListsBounded'
<1>1. SUFFICES ASSUME ~cut
      PROVE  /\ Len(db'.statuses) <= HistoryCap + Cardinality(Untrimmed("LTrimStatus")')
             /\ Len(db'.tracks) <= HistoryCap + Cardinality(Untrimmed("LTrimTrack")')
  BY DEF Issue, ghosts, ListsBounded
<1>2. /\ Len(db.statuses) <= HistoryCap + Cardinality(Untrimmed("LTrimStatus"))
      /\ Len(db.tracks) <= HistoryCap + Cardinality(Untrimmed("LTrimTrack"))
  BY <1>1 DEF ListsBounded
<1>3. Types' /\ db \in Databases /\ db' \in Databases BY IssueTypes DEF Types
<1>4. /\ Len(db.statuses) \in Nat /\ Len(db.tracks) \in Nat
      /\ Len(db'.statuses) \in Nat /\ Len(db'.tracks) \in Nat
  BY <1>3, LenProperties DEF Databases
<1>5. PICK c : c = Head(todo[w]) OBVIOUS
<1>6. todo[w] # <<>> /\ db' = Exec(c) /\ todo'[w] = Tail(todo[w])
  BY <1>5 DEF Issue, Types
<1>7. \A v \in Workers : v # w => pc'[v] = pc[v] /\ todo'[v] = todo[v]
  BY DEF Issue, Types
<1>8. \A trim : Untrimmed(trim) \in SUBSET Workers /\ Untrimmed(trim)' \in SUBSET Workers
  BY DEF Untrimmed
<1>9. ASSUME NEW trim, c.name # trim
      PROVE  w \notin Untrimmed(trim) /\ Untrimmed(trim) \subseteq Untrimmed(trim)'
  BY <1>5, <1>7, <1>9 DEF Untrimmed
<1>10. CASE pc[w] = "purge"
  <2>1. PICK k \in Keys : c = Cmd("Del", k) BY <1>5, <1>6, <1>10, Issuing
  <2>2. Len(db'.statuses) <= Len(db.statuses) /\ Len(db'.tracks) <= Len(db.tracks)
    BY <1>3, <1>6, <2>1, ExecDeletion
  <2>3. c.name # "LTrimStatus" /\ c.name # "LTrimTrack" BY <2>1, Names
  <2> QED BY <1>2, <1>4, <1>8, <1>9, <2>2, <2>3, StaysBounded
<1>11. CASE pc[w] = "run"
  <2>1. /\ c \in Commands
        /\ c.name = "LPushStatus" => todo'[w] # <<>> /\ Head(todo'[w]).name = "LTrimStatus"
        /\ c.name = "LPushTrack" => todo'[w] # <<>> /\ Head(todo'[w]).name = "LTrimTrack"
    BY <1>5, <1>6, <1>11, Issuing
  <2>2. todo'[w] # <<>> => pc'[w] = "run" BY <1>6, <1>11, Issuing DEF Issue
  <2>3. c.name = "LPushStatus" => w \in Untrimmed("LTrimStatus")'
    BY <2>1, <2>2 DEF Untrimmed
  <2>4. c.name = "LPushTrack" => w \in Untrimmed("LTrimTrack")'
    BY <2>1, <2>2 DEF Untrimmed
  <2>5. Len(db'.statuses) <= HistoryCap + Cardinality(Untrimmed("LTrimStatus")')
    <3>1. CASE c.name = "LTrimStatus"
      <4>1. Len(db'.statuses) <= HistoryCap BY <1>3, <1>6, <2>1, <3>1, ExecCommand
      <4> QED BY <1>2, <1>4, <1>8, <4>1, StaysBounded
    <3>2. CASE c.name = "LPushStatus"
      <4>1. Len(db'.statuses) = Len(db.statuses) + 1 BY <1>3, <1>6, <2>1, <3>2, ExecCommand
      <4>2. w \notin Untrimmed("LTrimStatus")
            /\ Untrimmed("LTrimStatus") \subseteq Untrimmed("LTrimStatus")'
        BY <1>9, <3>2
      <4> QED BY <1>2, <1>4, <1>8, <2>3, <3>2, <4>1, <4>2, StaysBounded
    <3>3. CASE c.name \notin {"LPushStatus", "LTrimStatus"}
      <4>1. Len(db'.statuses) <= Len(db.statuses) BY <1>3, <1>6, <2>1, <3>3, ExecCommand
      <4>2. Untrimmed("LTrimStatus") \subseteq Untrimmed("LTrimStatus")' BY <1>9, <3>3
      <4> QED BY <1>2, <1>4, <1>8, <4>1, <4>2, StaysBounded
    <3> QED BY <3>1, <3>2, <3>3
  <2>6. Len(db'.tracks) <= HistoryCap + Cardinality(Untrimmed("LTrimTrack")')
    <3>1. CASE c.name = "LTrimTrack"
      <4>1. Len(db'.tracks) <= HistoryCap BY <1>3, <1>6, <2>1, <3>1, ExecCommand
      <4> QED BY <1>2, <1>4, <1>8, <4>1, StaysBounded
    <3>2. CASE c.name = "LPushTrack"
      <4>1. Len(db'.tracks) = Len(db.tracks) + 1 BY <1>3, <1>6, <2>1, <3>2, ExecCommand
      <4>2. w \notin Untrimmed("LTrimTrack")
            /\ Untrimmed("LTrimTrack") \subseteq Untrimmed("LTrimTrack")'
        BY <1>9, <3>2
      <4> QED BY <1>2, <1>4, <1>8, <2>4, <3>2, <4>1, <4>2, StaysBounded
    <3>3. CASE c.name \notin {"LPushTrack", "LTrimTrack"}
      <4>1. Len(db'.tracks) <= Len(db.tracks) BY <1>3, <1>6, <2>1, <3>3, ExecCommand
      <4>2. Untrimmed("LTrimTrack") \subseteq Untrimmed("LTrimTrack")' BY <1>9, <3>3
      <4> QED BY <1>2, <1>4, <1>8, <4>1, <4>2, StaysBounded
    <3> QED BY <3>1, <3>2, <3>3
  <2> QED BY <2>5, <2>6
<1> QED BY <1>6, <1>10, <1>11, Issuing

LEMMA BoundedStep ==
  ASSUME Types, Steps, ListsBounded, [Next]_vars
  PROVE  ListsBounded'
<1>1. ASSUME db' = db, \A trim : Untrimmed(trim)' = Untrimmed(trim), cut' = cut
      PROVE  ListsBounded'
  BY <1>1 DEF ListsBounded
<1>2. CASE UNCHANGED vars
  BY <1>1, <1>2 DEF vars, goroutines, ghosts, Untrimmed
<1>3. ASSUME NEW w \in Workers, Compare(w) PROVE ListsBounded'
  <2>1. /\ pc' = [pc EXCEPT ![w] = "run"] /\ pc[w] = "compare"
        /\ UNCHANGED <<db, ghosts>>
        /\ Head(todo'[w]).name = "SetSeen"
        /\ \A v \in Workers : v # w => todo'[v] = todo[v]
    BY <1>3, Comparing DEF Compare
  <2>2. \A trim \in {"LTrimStatus", "LTrimTrack"} : Untrimmed(trim)' = Untrimmed(trim)
    BY <2>1 DEF Untrimmed, Types
  <2> QED BY <2>1, <2>2 DEF ListsBounded, ghosts
<1>4. ASSUME NEW w \in Workers, Reset(w) PROVE ListsBounded'
  <2>1. /\ pc' = [pc EXCEPT ![w] = "idle"] /\ pc[w] = "purge" /\ UNCHANGED <<db, cut, todo>>
    BY <1>4 DEF Reset
  <2> QED BY <1>1, <2>1 DEF Untrimmed, Types
<1>5. ASSUME NEW w \in Workers, NEW n \in Nodes, Sync(w, n) PROVE ListsBounded'
  <2>1. /\ pc' = [pc EXCEPT ![w] = "compare"] /\ pc[w] = "idle" /\ UNCHANGED <<db, cut, todo>>
    BY <1>5 DEF Sync
  <2> QED BY <1>1, <2>1 DEF Untrimmed, Types
<1>6. ASSUME NEW w \in Workers, NEW n \in Nodes, Purge(w, n) PROVE ListsBounded'
  <2>1. /\ pc' = [pc EXCEPT ![w] = "purge"] /\ pc[w] = "idle" /\ UNCHANGED <<db, cut>>
        /\ \A v \in Workers : v # w => todo'[v] = todo[v]
    BY <1>6 DEF Purge, Types
  <2> QED BY <1>1, <2>1 DEF Untrimmed, Types
<1>7. ASSUME NEW n \in Nodes, Crash(n) PROVE ListsBounded'
  <2>1. CASE cut' BY <2>1 DEF ListsBounded
  <2>2. CASE ~cut'
    <3>1. db' = db /\ cut' = cut BY <1>7, <2>2 DEF Crash, Types
    <3>2. \A v \in Workers : pc'[v] = pc[v] /\ todo'[v] = todo[v] BY <1>7, <2>2, CrashTypes
    <3> QED BY <1>1, <3>1, <3>2 DEF Untrimmed
  <2> QED BY <2>1, <2>2
<1> QED BY <1>2, <1>3, <1>4, <1>5, <1>6, <1>7, IssueBounded DEF Next

-----------------------------------------------------------------------------
(* Executions without an overlap, and what a purge leaves. *)

LEMMA AloneStep ==
  ASSUME Types, Steps, Alone, [Next]_vars
  PROVE  Alone'
<1> USE DEF Active
<1>1. CASE UNCHANGED vars
  BY <1>1 DEF vars, goroutines, ghosts, Alone
<1>2. ASSUME NEW w \in Workers, Compare(w) PROVE Alone'
  <2>1. /\ pc' = [pc EXCEPT ![w] = "run"] /\ pc[w] = "compare" /\ UNCHANGED <<node, ghosts>>
    BY <1>2 DEF Compare
  <2> QED BY <2>1 DEF Alone, Types, ghosts
<1>3. ASSUME NEW w \in Workers, Issue(w) PROVE Alone'
  <2>1. /\ pc[w] \in {"run", "purge"} /\ UNCHANGED <<overlapped, mixed>>
        /\ \/ pc' = [pc EXCEPT ![w] = "idle"] /\ node' = [node EXCEPT ![w] = None]
           \/ UNCHANGED <<pc, node>>
    BY <1>3, Issuing DEF Issue, ghosts
  <2>2. \A v \in Workers : pc'[v] # "idle" => pc'[v] = pc[v] /\ node'[v] = node[v]
    BY <2>1 DEF Types
  <2> QED BY <2>1, <2>2 DEF Alone
<1>4. ASSUME NEW w \in Workers, Reset(w) PROVE Alone'
  <2>1. /\ pc' = [pc EXCEPT ![w] = "idle"] /\ node' = [node EXCEPT ![w] = None]
        /\ UNCHANGED <<overlapped, mixed>>
    BY <1>4 DEF Reset
  <2> QED BY <2>1 DEF Alone, Types
<1>5. ASSUME NEW w \in Workers, NEW n \in Nodes, Sync(w, n) PROVE Alone'
  <2>1. /\ pc' = [pc EXCEPT ![w] = "compare"] /\ node' = [node EXCEPT ![w] = n]
        /\ overlapped' = (overlapped \/ \E v \in Active : node[v] = n /\ pc[v] # "purge")
        /\ mixed' = (mixed \/ \E v \in Active : pc[v] = "purge") /\ pc[w] = "idle"
    BY <1>5 DEF Sync
  <2> QED BY <2>1 DEF Alone, Types
<1>6. ASSUME NEW w \in Workers, NEW n \in Nodes, Purge(w, n) PROVE Alone'
  <2>1. /\ pc' = [pc EXCEPT ![w] = "purge"] /\ node' = [node EXCEPT ![w] = n]
        /\ overlapped' = overlapped /\ mixed' = (mixed \/ Active # {}) /\ pc[w] = "idle"
    BY <1>6 DEF Purge
  <2>2. mixed' \/ \A v \in Workers : pc[v] = "idle" BY <2>1
  <2>3. mixed => mixed' BY <2>1
  <2> QED BY <2>1, <2>2, <2>3 DEF Alone, Types
<1>7. ASSUME NEW n \in Nodes, Crash(n) PROVE Alone'
  <2>1. UNCHANGED <<overlapped, mixed>> BY <1>7 DEF Crash
  <2>2. \A w \in Workers :
          pc'[w] = "idle" \/ (pc'[w] = pc[w] /\ node'[w] = node[w])
    BY <1>7, CrashTypes
  <2> QED BY <2>1, <2>2 DEF Alone
<1> QED BY <1>1, <1>2, <1>3, <1>4, <1>5, <1>6, <1>7 DEF Next

\* While a purge runs by itself nobody else is active.
LEMMA PurgeAlone ==
  ASSUME Alone, ~mixed, NEW w \in Workers, pc[w] = "purge"
  PROVE  \A v \in Workers : v # w => pc[v] = "idle"
BY DEF Alone, Active

LEMMA ErasedStep ==
  ASSUME Types, Steps, Alone, Erased, [Next]_vars
  PROVE  Erased'
<1> SUFFICES ASSUME ~mixed', NEW v \in Workers, pc'[v] = "purge", NEW k \in Keys
             PROVE  db'[k] = EmptyDB[k] \/ Has(todo'[v], Cmd("Del", k))
  BY DEF Erased, EmptyDB
<1>1. ASSUME ~mixed, pc[v] = "purge"
      PROVE  db[k] = EmptyDB[k] \/ Has(todo[v], Cmd("Del", k))
  BY <1>1 DEF Erased
<1>2. CASE UNCHANGED vars
  BY <1>1, <1>2 DEF vars, goroutines, ghosts
<1>3. ASSUME NEW w \in Workers, Compare(w)
      PROVE  db'[k] = EmptyDB[k] \/ Has(todo'[v], Cmd("Del", k))
  <2>1. pc' = [pc EXCEPT ![w] = "run"] /\ UNCHANGED <<db, ghosts>> BY <1>3 DEF Compare
  <2>2. v # w /\ pc[v] = "purge" BY <2>1 DEF Types
  <2>3. todo'[v] = todo[v] BY <1>3, <2>2, Comparing
  <2> QED BY <1>1, <2>1, <2>2, <2>3 DEF ghosts
<1>4. ASSUME NEW w \in Workers, Issue(w)
      PROVE  db'[k] = EmptyDB[k] \/ Has(todo'[v], Cmd("Del", k))
  <2>1. /\ todo[w] # <<>> /\ db' = Exec(Head(todo[w])) /\ UNCHANGED ghosts
        /\ todo' = [todo EXCEPT ![w] = Tail(todo[w])]
    BY <1>4 DEF Issue
  <2>2. pc[w] \in {"run", "purge"} /\ ~mixed /\ pc[v] = "purge"
    BY <1>4, <2>1, Issuing DEF Issue, ghosts, Types
  <2>3. w = v BY <2>2, PurgeAlone
  <2>4. PICK j \in Keys : Head(todo[v]) = Cmd("Del", j) BY <2>1, <2>2, <2>3, Issuing
  <2>5. db'[j] = EmptyDB[j] /\ \A i \in Keys : i # j => db'[i] = db[i]
    BY <2>1, <2>3, <2>4, ExecDeletion DEF Types
  <2>6. Has(todo[v], Cmd("Del", k)) <=> k = j \/ Has(todo'[v], Cmd("Del", k))
    <3>1. todo'[v] = Tail(todo[v]) BY <2>1, <2>3 DEF Types
    <3>2. Cmd("Del", k) = Cmd("Del", j) <=> k = j BY Names
    <3>3. Has(todo[v], Cmd("Del", k))
            <=> Cmd("Del", k) = Head(todo[v]) \/ Has(Tail(todo[v]), Cmd("Del", k))
      BY <2>1, <2>3, Issuing
    <3> QED BY <2>4, <3>1, <3>2, <3>3
  <2> QED BY <1>1, <2>2, <2>5, <2>6
<1>5. ASSUME NEW w \in Workers, Reset(w)
      PROVE  db'[k] = EmptyDB[k] \/ Has(todo'[v], Cmd("Del", k))
  <2>1. pc' = [pc EXCEPT ![w] = "idle"] /\ UNCHANGED <<db, todo, mixed>> BY <1>5 DEF Reset
  <2> QED BY <1>1, <2>1 DEF Types
<1>6. ASSUME NEW w \in Workers, NEW n \in Nodes, Sync(w, n)
      PROVE  db'[k] = EmptyDB[k] \/ Has(todo'[v], Cmd("Del", k))
  <2>1. /\ pc' = [pc EXCEPT ![w] = "compare"] /\ UNCHANGED <<db, todo>>
        /\ mixed => mixed'
    BY <1>6 DEF Sync
  <2> QED BY <1>1, <2>1 DEF Types
<1>7. ASSUME NEW w \in Workers, NEW n \in Nodes, Purge(w, n)
      PROVE  db'[k] = EmptyDB[k] \/ Has(todo'[v], Cmd("Del", k))
  <2>1. /\ pc' = [pc EXCEPT ![w] = "purge"] /\ db' = db /\ (mixed => mixed')
        /\ \A u \in Workers : u # w => todo'[u] = todo[u]
    BY <1>7 DEF Purge, Types
  <2>2. CASE v = w BY <1>7, <2>2, PurgeTypes
  <2>3. CASE v # w BY <1>1, <2>1, <2>3 DEF Types
  <2> QED BY <2>2, <2>3
<1>8. ASSUME NEW n \in Nodes, Crash(n)
      PROVE  db'[k] = EmptyDB[k] \/ Has(todo'[v], Cmd("Del", k))
  <2>1. UNCHANGED <<db, mixed>> BY <1>8 DEF Crash
  <2>2. pc[v] = "purge" /\ todo'[v] = todo[v] BY <1>8, CrashTypes
  <2> QED BY <1>1, <2>1, <2>2
<1> QED BY <1>2, <1>3, <1>4, <1>5, <1>6, <1>7, <1>8 DEF Next

\* A purge that ran by itself finds an empty database at its end.
LEMMA ResetErased ==
  ASSUME Types, Steps, Erased, ~mixed, NEW w \in Workers, Reset(w)
  PROVE  db = EmptyDB
<1>1. \A k \in Keys : db[k] = EmptyDB[k]
  BY NoCommands DEF Erased, Reset
<1>2. db \in Databases BY DEF Types
<1>3. /\ db.statuses = EmptyDB.statuses /\ db.tracks = EmptyDB.tracks /\ db.seen = EmptyDB.seen
      /\ db.today = EmptyDB.today /\ db.counts = EmptyDB.counts /\ db.meta = EmptyDB.meta
  BY <1>1 DEF Keys
<1> QED BY <1>2, <1>3 DEF Databases, EmptyDB

LEMMA EraseStep ==
  ASSUME Types, Steps, Alone, Erased, [Next]_vars, NEW w \in Workers,
         pc[w] = "purge", pc'[w] = "idle", ~mixed, ~cut'
  PROVE  db' = EmptyDB /\ \E n \in Nodes : node[w] = n /\ mark'[n] = NoMark
<1>1. CASE Reset(w)
  <2>1. node[w] \in Nodes BY <1>1 DEF Reset, Steps
  <2>2. db' = db /\ mark'[node[w]] = NoMark BY <1>1, <2>1 DEF Reset, Types
  <2> QED BY <1>1, <2>1, <2>2, ResetErased
<1>2. CASE UNCHANGED vars BY <1>2 DEF vars, goroutines
<1>3. ASSUME NEW v \in Workers, Reset(v), v # w PROVE FALSE
  BY <1>3 DEF Reset, Types
<1>4. ASSUME NEW v \in Workers, Compare(v) PROVE FALSE
  BY <1>4 DEF Compare, Types
<1>5. ASSUME NEW v \in Workers, Issue(v) PROVE FALSE
  BY <1>5 DEF Issue, Types
<1>6. ASSUME NEW v \in Workers, NEW n \in Nodes, Sync(v, n) \/ Purge(v, n) PROVE FALSE
  BY <1>6 DEF Sync, Purge, Types
<1>7. ASSUME NEW n \in Nodes, Crash(n) PROVE FALSE
  BY <1>7, CrashTypes
<1> QED BY <1>1, <1>2, <1>3, <1>4, <1>5, <1>6, <1>7 DEF Next

-----------------------------------------------------------------------------
(* The newest status event. *)

\* w is about to push s.
Pushes(w, s) == Has(todo[w], Cmd("LPushStatus", s))

LEMMA NewestInit == Init => Newest
<1> SUFFICES ASSUME Init PROVE Newest OBVIOUS
<1>1. PICK n \in Nodes : TRUE BY HistoryAssumption
<1>2. mark[n].status = None BY DEF Init, NoMark
<1>3. \A w \in Workers : todo[w] = <<>> BY DEF Init
<1> QED BY <1>2, <1>3, NoCommands DEF Newest

LEMMA NewestCompare ==
  ASSUME Types, Steps, Alone, Newest, NEW w \in Workers, Compare(w)
  PROVE  Newest'
<1>1. /\ pc[w] = "compare" /\ pc' = [pc EXCEPT ![w] = "run"]
      /\ mark' = [mark EXCEPT ![node[w]] = Moved(mark[node[w]], snap[w])]
      /\ UNCHANGED <<node, db, mixed, cut, overlapped>>
  BY DEF Compare, ghosts
<1>2. /\ node[w] \in Nodes /\ snap[w].status \in Statuses
      /\ \A x : Pushes(w, x)' <=> (Changed(w) /\ x = snap[w].status)
      /\ \A v \in Workers : v # w => todo'[v] = todo[v]
  BY Comparing DEF Pushes
<1>3. SUFFICES ASSUME ~mixed, ~cut, ~overlapped, \A v \in Workers : pc[v] # "purge"
      PROVE  /\ \A v \in Workers, s \in Statuses : Pushes(v, s)' => s = mark'[node'[v]].status
             /\ \/ \E n \in Nodes : mark'[n].status = None
                \/ \E v \in Workers, s \in Statuses : Pushes(v, s)'
                \/ \E n \in Nodes : db'.statuses # <<>> /\ Head(db'.statuses) = mark'[n].status
  BY <1>1 DEF Newest, Purging, Types, Pushes
<1>4. /\ \A v \in Workers, s \in Statuses : Pushes(v, s) => s = mark[node[v]].status
      /\ \/ \E n \in Nodes : mark[n].status = None
         \/ \E v \in Workers, s \in Statuses : Pushes(v, s)
         \/ \E n \in Nodes : db.statuses # <<>> /\ Head(db.statuses) = mark[n].status
  BY <1>3 DEF Newest, Purging, Pushes
<1>5. mark'[node[w]].status = snap[w].status /\ \A n \in Nodes : n # node[w] => mark'[n] = mark[n]
  BY <1>1, <1>2 DEF Types, Moved
<1>6. ASSUME NEW v \in Workers, v # w, NEW s \in Statuses, Pushes(v, s)
      PROVE  node[v] # node[w] /\ node[v] \in Nodes
  <2>1. pc[v] = "run" BY <1>3, <1>6, NoCommands DEF Steps, Types, Pushes
  <2> QED BY <1>1, <1>3, <1>6, <2>1 DEF Alone, Active, Steps
<1>7. \A v \in Workers, s \in Statuses : Pushes(v, s)' => s = mark'[node'[v]].status
  <2> TAKE v \in Workers, s \in Statuses
  <2>1. CASE v = w BY <1>1, <1>2, <1>5, <2>1
  <2>2. CASE v # w
    <3>1. Pushes(v, s)' <=> Pushes(v, s) BY <1>2, <2>2 DEF Pushes
    <3> QED BY <1>1, <1>4, <1>5, <1>6, <2>2, <3>1
  <2> QED BY <2>1, <2>2
<1>8. CASE Changed(w)
  BY <1>2, <1>7, <1>8
<1>9. CASE ~Changed(w)
  <2>1. \A n \in Nodes : mark'[n].status = mark[n].status BY <1>5, <1>9 DEF Changed
  <2>2. todo[w] = <<>> BY <1>1 DEF Steps
  <2>3. \A v \in Workers, s \in Statuses : Pushes(v, s) => Pushes(v, s)'
    BY <1>2, <2>2, NoCommands DEF Pushes
  <2> QED BY <1>1, <1>4, <1>7, <2>1, <2>3
<1> QED BY <1>8, <1>9

LEMMA NewestIssue ==
  ASSUME Types, Steps, Newest, NEW w \in Workers, Issue(w)
  PROVE  Newest'
<1>1. PICK c : c = Head(todo[w]) OBVIOUS
<1>2. /\ todo[w] # <<>> /\ db' = Exec(c) /\ todo'[w] = Tail(todo[w])
      /\ \A v \in Workers : v # w => todo'[v] = todo[v] /\ pc'[v] = pc[v] /\ node'[v] = node[v]
      /\ UNCHANGED <<mark, mixed, cut, overlapped>>
      /\ pc[w] = "purge" => pc'[w] = "purge"
      /\ (node'[w] = node[w] \/ todo'[w] = <<>>) /\ node[w] \in Nodes
  <2>1. todo[w] # <<>> BY DEF Issue
  <2> QED BY <1>1, <2>1, Issuing DEF Issue, Types, ghosts
<1>3. SUFFICES ASSUME ~mixed, ~cut, ~overlapped, \A v \in Workers : pc[v] # "purge"
      PROVE  /\ \A v \in Workers, s \in Statuses : Pushes(v, s)' => s = mark[node'[v]].status
             /\ \/ \E n \in Nodes : mark[n].status = None
                \/ \E v \in Workers, s \in Statuses : Pushes(v, s)'
                \/ \E n \in Nodes : db'.statuses # <<>> /\ Head(db'.statuses) = mark[n].status
  BY <1>2 DEF Newest, Purging, Pushes
<1>4. /\ \A v \in Workers, s \in Statuses : Pushes(v, s) => s = mark[node[v]].status
      /\ \/ \E n \in Nodes : mark[n].status = None
         \/ \E v \in Workers, s \in Statuses : Pushes(v, s)
         \/ \E n \in Nodes : db.statuses # <<>> /\ Head(db.statuses) = mark[n].status
  BY <1>3 DEF Newest, Purging, Pushes
<1>5. /\ c \in Commands
      /\ \A s : Pushes(w, s) <=> Cmd("LPushStatus", s) = c \/ Pushes(w, s)'
  BY <1>1, <1>2, <1>3, Issuing DEF Pushes
<1>6. \A v \in Workers, s \in Statuses : v # w => (Pushes(v, s)' <=> Pushes(v, s))
  BY <1>2 DEF Pushes
<1>7. \A v \in Workers, s \in Statuses : Pushes(v, s)' => s = mark[node'[v]].status
  <2> TAKE v \in Workers, s \in Statuses
  <2>1. CASE v = w
    <3>1. Pushes(w, s)' => todo'[w] # <<>> BY NoCommands DEF Pushes
    <3> QED BY <1>2, <1>4, <1>5, <2>1, <3>1
  <2>2. CASE v # w BY <1>2, <1>4, <1>6, <2>2
  <2> QED BY <2>1, <2>2
<1>8. CASE c.name = "LPushStatus"
  <2>1. PICK s \in Statuses : c = Cmd("LPushStatus", s)
    BY <1>5, <1>8, CommandKinds, Names
  <2>2. s = mark[node[w]].status BY <1>4, <1>5, <2>1
  <2>3. db'.statuses # <<>> /\ Head(db'.statuses) = c.arg
    BY <1>2, <1>5, <1>8, ExecCommand DEF Types
  <2>4. c.arg = s BY <2>1, Names
  <2> QED BY <1>2, <1>7, <2>2, <2>3, <2>4
<1>9. CASE c.name # "LPushStatus"
  <2>1. \A s : c # Cmd("LPushStatus", s) BY <1>9, Names
  <2>2. \A v \in Workers, s \in Statuses : Pushes(v, s)' <=> Pushes(v, s)
    BY <1>5, <1>6, <2>1
  <2>3. db.statuses # <<>> => db'.statuses # <<>> /\ Head(db'.statuses) = Head(db.statuses)
    BY <1>2, <1>5, <1>9, ExecCommand DEF Types
  <2> QED BY <1>4, <1>7, <2>2, <2>3
<1> QED BY <1>8, <1>9

LEMMA NewestReset ==
  ASSUME Types, Steps, Alone, NEW w \in Workers, Reset(w)
  PROVE  Newest'
<1>1. /\ pc[w] = "purge" /\ todo[w] = <<>> /\ node[w] \in Nodes
      /\ mark' = [mark EXCEPT ![node[w]] = NoMark] /\ UNCHANGED <<todo, mixed>>
  BY DEF Reset, Steps
<1>2. mark'[node[w]].status = None BY <1>1 DEF Types, NoMark
<1>3. ASSUME ~mixed PROVE \A v \in Workers : todo'[v] = <<>>
  BY <1>1, <1>3, PurgeAlone DEF Steps
<1> QED BY <1>1, <1>2, <1>3, NoCommands DEF Newest

LEMMA NewestCrash ==
  ASSUME Types, Steps, Newest, NEW n \in Nodes, Crash(n)
  PROVE  Newest'
<1>1. SUFFICES ASSUME ~cut', ~mixed', ~overlapped', ~Purging' PROVE Newest'
  BY DEF Newest
<1>2. /\ mark' = [mark EXCEPT ![n] = NoMark] /\ UNCHANGED <<db, mixed, overlapped>> /\ ~cut
  BY <1>1 DEF Crash, Types
<1>3. \A v \in Workers : /\ pc'[v] = pc[v] /\ node'[v] = node[v] /\ todo'[v] = todo[v]
                         /\ pc[v] # "idle" => node[v] # n
  BY <1>1, CrashTypes
<1>4. \A v \in Workers, s \in Statuses : Pushes(v, s) => s = mark[node[v]].status
  BY <1>1, <1>2, <1>3 DEF Newest, Purging, Pushes
<1>5. mark'[n].status = None BY <1>2 DEF Types, NoMark
<1>6. ASSUME NEW v \in Workers, NEW s \in Statuses, Pushes(v, s)'
      PROVE  s = mark'[node'[v]].status
  <2>1. Pushes(v, s) BY <1>3, <1>6 DEF Pushes
  <2>2. pc[v] # "idle" BY <2>1, NoCommands DEF Pushes, Steps
  <2>3. node[v] \in Nodes /\ node[v] # n BY <1>3, <2>2 DEF Steps
  <2> QED BY <1>2, <1>3, <1>4, <2>1, <2>3 DEF Types
<1> QED BY <1>5, <1>6 DEF Newest, Pushes

LEMMA NewestStep ==
  ASSUME Types, Steps, Alone, Newest, [Next]_vars
  PROVE  Newest'
<1>1. CASE UNCHANGED vars
  BY <1>1 DEF vars, goroutines, ghosts, Newest, Purging
<1>2. ASSUME NEW w \in Workers, NEW n \in Nodes, Sync(w, n) PROVE Newest'
  <2>1. /\ pc' = [pc EXCEPT ![w] = "compare"] /\ node' = [node EXCEPT ![w] = n]
        /\ UNCHANGED <<mark, todo, db, cut>> /\ pc[w] = "idle"
        /\ (overlapped => overlapped') /\ (mixed => mixed')
    BY <1>2 DEF Sync
  <2>2. Purging => Purging' BY <2>1 DEF Purging, Types
  <2>3. \A v \in Workers, s \in Statuses : Pushes(v, s) => node'[v] = node[v]
    BY <2>1, NoCommands DEF Pushes, Steps, Types
  <2> QED BY <2>1, <2>2, <2>3 DEF Newest, Pushes
<1>3. ASSUME NEW w \in Workers, NEW n \in Nodes, Purge(w, n) PROVE Newest'
  BY <1>3 DEF Purge, Newest, Purging, Types
<1> QED BY <1>1, <1>2, <1>3, NewestCompare, NewestIssue, NewestReset, NewestCrash DEF Next

-----------------------------------------------------------------------------
(* What the nodes have been told of. *)

LEMMA PunctualStep ==
  ASSUME Types, Steps, Punctual, [Next]_vars
  PROVE  Punctual'
<1>1. OnTime(Nothing) BY DEF OnTime, Nothing
<1>2. ASSUME UNCHANGED <<world, strayed>>,
             \A w \in Workers : snap'[w] \in {snap[w], Nothing}
      PROVE  Punctual'
  BY <1>1, <1>2 DEF Punctual
<1>3. CASE UNCHANGED vars BY <1>2, <1>3 DEF vars, goroutines, ghosts
<1>4. ASSUME NEW w \in Workers, Compare(w) \/ Issue(w) \/ Reset(w) PROVE Punctual'
  BY <1>2, <1>4 DEF Compare, Issue, Reset, ghosts, Types
<1>5. ASSUME NEW w \in Workers, NEW n \in Nodes, Purge(w, n) PROVE Punctual'
  BY <1>2, <1>5 DEF Purge
<1>6. ASSUME NEW n \in Nodes, Crash(n) PROVE Punctual'
  BY <1>2, <1>6 DEF Crash
<1>7. ASSUME NEW w \in Workers, NEW n \in Nodes, Sync(w, n) PROVE Punctual'
  <2>1. /\ snap' = [snap EXCEPT ![w] = world']
        /\ ~strayed' => ~strayed /\ (world'.on => OnTime(world'))
    BY <1>7 DEF Sync, OnTime
  <2>2. ~strayed' => OnTime(world')
    <3>1. OnTime(world) => world'.on \/ OnTime(world') BY <1>7, NextReport DEF Sync, Types
    <3> QED BY <2>1, <3>1 DEF Punctual
  <2>3. \A v \in Workers : snap'[v] \in {snap[v], world'} BY <2>1 DEF Types
  <2> QED BY <2>1, <2>2, <2>3 DEF Punctual
<1> QED BY <1>3, <1>4, <1>5, <1>6, <1>7 DEF Next

LEMMA ToldInit == Init => Told
<1> SUFFICES ASSUME Init PROVE Told OBVIOUS
<1>1. world.song = 0 /\ \A n \in Nodes : heard[n] = 0 /\ mark[n].track = None
  BY DEF Init, Nothing, NoMark
<1>2. \A w \in Workers : pc[w] = "idle" BY DEF Init
<1> QED BY <1>1, <1>2 DEF Told

LEMMA ToldSync ==
  ASSUME Types, Steps, Told, NEW w \in Workers, NEW n \in Nodes, Sync(w, n)
  PROVE  /\ Told'
         /\ world.song <= world'.song
         /\ \A m \in Nodes : heard[m] <= heard'[m]
<1>1. /\ world'.song \in Nat /\ world.song \in Nat /\ world.song <= world'.song
  <2>1. world'.song = world.song \/ world'.song = world.song + 1
    BY NextReport DEF Sync, Types
  <2>2. world.song \in 0..MaxSongs BY DEF Types, IsReport
  <2> QED BY <2>1, <2>2, HistoryAssumption
<1>2. /\ pc' = [pc EXCEPT ![w] = "compare"] /\ node' = [node EXCEPT ![w] = n]
      /\ snap' = [snap EXCEPT ![w] = world'] /\ mark' = mark
      /\ (mixed => mixed')
      /\ ~blind' => ~blind /\ ~(world'.on /\ world'.start = 0)
      /\ strayed => strayed'
  BY DEF Sync
<1>3. heard \in [Nodes -> 0..MaxSongs] /\ MaxSongs \in Nat
  BY HistoryAssumption DEF Types
<1>4. /\ \A m \in Nodes : m # n => heard'[m] = heard[m]
      /\ heard'[n] = IF world'.on /\ world'.song # heard[n] THEN world'.song ELSE heard[n]
  BY <1>3 DEF Sync
<1>5. \A m \in Nodes : heard[m] <= world.song /\ heard[m] \in Nat
  BY <1>3 DEF Told
<1>6. \A m \in Nodes : heard[m] <= heard'[m] /\ heard'[m] <= world'.song /\ heard'[m] \in Nat
  BY <1>1, <1>4, <1>5
<1>7. ASSUME ~mixed', ~strayed', NEW m \in Nodes, mark'[m].track # None
      PROVE  /\ \E k \in 1..heard'[m] : mark'[m].start \in {0} \cup Window(k)
             /\ ~blind' => mark'[m].start # 0
  <2>1. PICK k \in 1..heard[m] : mark[m].start \in {0} \cup Window(k)
    BY <1>2, <1>7 DEF Told
  <2>2. k \in 1..heard'[m] BY <1>5, <1>6
  <2> QED BY <1>2, <1>7, <2>1, <2>2 DEF Told
<1>8. ASSUME ~mixed', ~strayed', NEW v \in Workers, pc'[v] = "compare", snap'[v].on
      PROVE  snap'[v].song <= heard'[node'[v]] /\ (~blind' => snap'[v].start # 0)
  <2>1. CASE v = w
    <3>1. snap'[v] = world' /\ node'[v] = n BY <1>2, <2>1 DEF Types
    <3> QED BY <1>1, <1>2, <1>4, <1>5, <1>8, <3>1
  <2>2. CASE v # w
    <3>1. /\ pc[v] = "compare" /\ snap'[v] = snap[v] /\ node'[v] = node[v]
          /\ node[v] \in Nodes
      BY <1>2, <1>8, <2>2 DEF Types, Steps
    <3>2. snap[v].song <= heard[node[v]] /\ (~blind => snap[v].start # 0)
      BY <1>2, <1>8, <3>1 DEF Told
    <3>3. snap[v].song \in Nat BY DEF Types, IsReport
    <3> QED BY <1>2, <1>5, <1>6, <3>1, <3>2, <3>3
  <2> QED BY <2>1, <2>2
<1>9. Told' BY <1>6, <1>7, <1>8 DEF Told
<1> QED BY <1>1, <1>6, <1>9

LEMMA ToldCompare ==
  ASSUME Types, Steps, Punctual, Told, NEW w \in Workers, Compare(w)
  PROVE  Told'
<1>1. /\ pc[w] = "compare" /\ pc' = [pc EXCEPT ![w] = "run"]
      /\ mark' = [mark EXCEPT ![node[w]] = Moved(mark[node[w]], snap[w])]
      /\ snap' = [snap EXCEPT ![w] = Nothing]
      /\ UNCHANGED <<world, node, heard, mixed, blind, strayed>>
  BY DEF Compare, ghosts
<1>2. node[w] \in Nodes /\ IsReport(snap[w]) BY <1>1 DEF Types, Steps
<1>3. \A v \in Workers : pc'[v] = "compare" => pc[v] = "compare" /\ snap'[v] = snap[v]
  BY <1>1 DEF Types
<1>4. \A n \in Nodes : heard'[n] <= world'.song BY <1>1 DEF Told
<1>5. ASSUME ~mixed', ~strayed', NEW n \in Nodes, mark'[n].track # None
      PROVE  /\ \E k \in 1..heard'[n] : mark'[n].start \in {0} \cup Window(k)
             /\ ~blind' => mark'[n].start # 0
  <2>1. CASE n # node[w] \/ ~snap[w].on
    <3>1. mark'[n].track = mark[n].track /\ mark'[n].start = mark[n].start
      BY <1>1, <1>2, <2>1 DEF Types, Moved
    <3> QED BY <1>1, <1>5, <3>1 DEF Told
  <2>2. CASE n = node[w] /\ snap[w].on
    <3>1. mark'[n].start = snap[w].start BY <1>1, <1>2, <2>2 DEF Types, Moved
    <3>2. /\ snap[w].song # 0 /\ snap[w].song \in Nat
          /\ snap[w].start \in {0} \cup Window(snap[w].song)
      BY <1>1, <1>2, <1>5, <2>2, HistoryAssumption DEF IsReport, Punctual, OnTime
    <3>3. snap[w].song <= heard[n] /\ (~blind => snap[w].start # 0)
      BY <1>1, <1>5, <2>2 DEF Told
    <3>4. snap[w].song \in 1..heard'[n]
      BY <1>1, <3>2, <3>3, HistoryAssumption DEF Types
    <3> QED BY <1>1, <3>1, <3>2, <3>3, <3>4
  <2> QED BY <2>1, <2>2
<1> QED BY <1>1, <1>3, <1>4, <1>5 DEF Told

LEMMA ToldStep ==
  ASSUME Types, Steps, Punctual, Alone, Told, [Next]_vars
  PROVE  Told'
<1>1. CASE UNCHANGED vars BY <1>1 DEF vars, goroutines, ghosts, Told
<1>2. ASSUME NEW w \in Workers, Issue(w) PROVE Told'
  <2>1. /\ UNCHANGED <<world, mark, snap, heard, mixed, blind, strayed>>
        /\ \A v \in Workers :
             pc'[v] = "compare" => pc[v] = "compare" /\ node'[v] = node[v]
    BY <1>2, Issuing DEF Issue, ghosts, Types
  <2> QED BY <2>1 DEF Told
<1>3. ASSUME NEW w \in Workers, NEW n \in Nodes, Purge(w, n) PROVE Told'
  <2>1. /\ UNCHANGED <<world, mark, snap, heard, blind, strayed>> /\ (mixed => mixed')
        /\ \A v \in Workers :
             pc'[v] = "compare" => pc[v] = "compare" /\ node'[v] = node[v]
    BY <1>3 DEF Purge, Types
  <2> QED BY <2>1 DEF Told
<1>4. ASSUME NEW w \in Workers, Reset(w) PROVE Told'
  <2>1. /\ pc[w] = "purge" /\ node[w] \in Nodes /\ UNCHANGED <<world, snap, mixed, blind, strayed>>
        /\ mark' = [mark EXCEPT ![node[w]] = NoMark]
        /\ heard' = [heard EXCEPT ![node[w]] = 0]
        /\ pc' = [pc EXCEPT ![w] = "idle"]
    BY <1>4 DEF Reset, Steps
  <2>2. /\ mark'[node[w]].track = None /\ heard'[node[w]] = 0
        /\ \A n \in Nodes : n # node[w] => mark'[n] = mark[n] /\ heard'[n] = heard[n]
    BY <2>1 DEF Types, NoMark
  <2>3. world.song \in Nat BY HistoryAssumption DEF Types, IsReport
  <2>4. ~mixed => \A v \in Workers : pc'[v] = "idle" BY <2>1, PurgeAlone DEF Types
  <2> QED BY <2>1, <2>2, <2>3, <2>4 DEF Told
<1>5. ASSUME NEW n \in Nodes, Crash(n) PROVE Told'
  <2>1. /\ mark' = [mark EXCEPT ![n] = NoMark] /\ heard' = [heard EXCEPT ![n] = 0]
        /\ UNCHANGED <<world, mixed, blind, strayed>>
    BY <1>5 DEF Crash
  <2>2. /\ mark'[n].track = None /\ heard'[n] = 0
        /\ \A m \in Nodes : m # n => mark'[m] = mark[m] /\ heard'[m] = heard[m]
    BY <2>1 DEF Types, NoMark
  <2>3. world.song \in Nat BY HistoryAssumption DEF Types, IsReport
  <2>4. \A v \in Workers : pc'[v] = "compare" =>
          /\ pc[v] = "compare" /\ node'[v] = node[v] /\ snap'[v] = snap[v]
          /\ node[v] # n /\ node[v] \in Nodes
    BY <1>5, CrashTypes DEF Steps
  <2> QED BY <2>1, <2>2, <2>3, <2>4 DEF Told
<1> QED BY <1>1, <1>2, <1>3, <1>4, <1>5, ToldSync, ToldCompare DEF Next

-----------------------------------------------------------------------------
(* No play is missed. *)

SetsFinite ==
  \A t \in Tracks :
    /\ IsFiniteSet(Counting(t)) /\ Cardinality(Counting(t)) \in Nat
    /\ IsFiniteSet(Owed(t)) /\ Cardinality(Owed(t)) \in Nat
    /\ IsFiniteSet(Finding(t)) /\ Cardinality(Finding(t)) \in Nat

LEMMA FiniteSets == SetsFinite
<1> SUFFICES ASSUME NEW t \in Tracks
             PROVE  /\ IsFiniteSet(Counting(t)) /\ Cardinality(Counting(t)) \in Nat
                    /\ IsFiniteSet(Owed(t)) /\ Cardinality(Owed(t)) \in Nat
                    /\ IsFiniteSet(Finding(t)) /\ Cardinality(Finding(t)) \in Nat
  BY DEF SetsFinite
<1>1. IsFiniteSet(Workers) /\ IsFiniteSet(Nodes) /\ IsFiniteSet(1..MaxSongs)
  BY HistoryAssumption, FS_Interval
<1>2. IsFiniteSet(Nodes \X (1..MaxSongs)) BY <1>1, FS_Product
<1>3. /\ Counting(t) \in SUBSET Workers /\ Owed(t) \in SUBSET (Nodes \X (1..MaxSongs))
      /\ Finding(t) \in SUBSET Nodes
  BY DEF Counting, Owed, Finding
<1>4. IsFiniteSet(Counting(t)) /\ IsFiniteSet(Owed(t)) /\ IsFiniteSet(Finding(t))
  BY <1>1, <1>2, <1>3, FS_Subset
<1> QED BY <1>4, FS_CardinalityType

LEMMA FiniteThen == SetsFinite'
BY FiniteSets, PTL

\* How far apart two finite sets are in size.
LEMMA Sizes ==
  ASSUME NEW S, NEW T, IsFiniteSet(S), IsFiniteSet(T)
  PROVE  /\ S \subseteq T => Cardinality(S) <= Cardinality(T)
         /\ \A x : S \subseteq T \cup {x} => Cardinality(S) <= Cardinality(T) + 1
         /\ \A x \in T : (S \subseteq T /\ x \notin S) => Cardinality(S) + 1 <= Cardinality(T)
<1>1. Cardinality(S) \in Nat /\ Cardinality(T) \in Nat BY FS_CardinalityType
<1>2. S \subseteq T => Cardinality(S) <= Cardinality(T) BY FS_Subset
<1>3. ASSUME NEW x, S \subseteq T \cup {x} PROVE Cardinality(S) <= Cardinality(T) + 1
  <2>1. /\ IsFiniteSet(T \cup {x})
        /\ Cardinality(T \cup {x}) = IF x \in T THEN Cardinality(T) ELSE Cardinality(T) + 1
    BY FS_AddElement
  <2>2. Cardinality(S) <= Cardinality(T \cup {x}) BY <1>3, <2>1, FS_Subset
  <2> QED BY <1>1, <2>1, <2>2
<1>4. ASSUME NEW x \in T, S \subseteq T, x \notin S
      PROVE  Cardinality(S) + 1 <= Cardinality(T)
  <2>1. Cardinality(S \cup {x}) = Cardinality(S) + 1 BY <1>4, FS_AddElement
  <2>2. S \cup {x} \in SUBSET T BY <1>4
  <2>3. Cardinality(S \cup {x}) <= Cardinality(T) BY <2>2, FS_Subset
  <2> QED BY <2>1, <2>3
<1> QED BY <1>2, <1>3, <1>4

LEMMA LostSync ==
  ASSUME Types, Steps, Punctual, Told, NothingLost,
         NEW w \in Workers, NEW n \in Nodes, Sync(w, n)
  PROVE  NothingLost'
<1>1. /\ pc' = [pc EXCEPT ![w] = "compare"] /\ node' = [node EXCEPT ![w] = n]
      /\ snap' = [snap EXCEPT ![w] = world'] /\ pc[w] = "idle"
      /\ UNCHANGED <<mark, todo, db, cut>>
      /\ mixed' = (mixed \/ \E v \in Active : pc[v] = "purge")
      /\ blind' = (blind \/ (world'.on /\ world'.start = 0))
      /\ strayed => strayed'
  BY DEF Sync
<1>2. SUFFICES ASSUME ~mixed', ~cut', ~blind', ~strayed', NEW t \in Tracks
      PROVE  due'[t] <= db'.counts[t] + Cardinality(Counting(t)') + Cardinality(Owed(t)')
  BY DEF NothingLost
<1>3. ~mixed /\ ~cut /\ ~blind /\ ~strayed /\ ~Purging /\ (world'.on => world'.start # 0)
  BY <1>1, <1>2 DEF Purging, Active
<1>4. due[t] <= db.counts[t] + Cardinality(Counting(t)) + Cardinality(Owed(t))
  BY <1>3 DEF NothingLost
<1>5. due[t] \in Nat /\ db.counts[t] \in Nat BY DEF Types, Databases
<1>6. Counting(t)' = Counting(t) BY <1>1 DEF Counting
<1>7. Owed(t) \subseteq Owed(t)'
  BY <1>1 DEF Owed, Marks, Holds, Types
<1>8. /\ IsFiniteSet(Owed(t)) /\ IsFiniteSet(Owed(t)')
      /\ Cardinality(Owed(t)) \in Nat /\ Cardinality(Owed(t)') \in Nat
      /\ Cardinality(Counting(t)) \in Nat
  BY FiniteSets, FiniteThen DEF SetsFinite
<1>9. CASE world'.on /\ world'.song # heard[n] /\ t = world'.track
  <2>1. due'[t] = due[t] + 1 BY <1>9, <1>5 DEF Sync, Types
  <2>2. PICK k : k = world'.song OBVIOUS
  <2>3. IsReport(world') /\ k # 0 /\ k \in 1..MaxSongs
    BY <1>9, <2>2, NextReport, HistoryAssumption DEF Sync, Types, IsReport
  <2>4. heard[n] \in Nat /\ heard[n] < k
    <3>1. heard[n] <= world.song /\ world.song <= k BY <2>2, ToldSync DEF Told
    <3>2. heard[n] \in Nat /\ world.song \in Nat /\ k \in Nat /\ heard[n] # k
      BY <1>9, <2>2, <2>3, HistoryAssumption DEF Types, IsReport
    <3> QED BY <3>1, <3>2
  <2>5. Holds(w, n, t, k)' BY <1>1, <1>9, <2>2 DEF Holds, Types
  <2>6. ~Marks(n, t, k)'
    <3>1. SUFFICES ASSUME mark[n].track = t, mark[n].start \in {0} \cup Window(k) PROVE FALSE
      BY <1>1 DEF Marks
    <3>2. mark[n].track # None BY <3>1, HistoryAssumption
    <3>3. PICK j \in 1..heard[n] : mark[n].start \in {0} \cup Window(j) BY <1>3, <3>2 DEF Told
    <3>4. mark[n].start # 0 BY <1>3, <3>2 DEF Told
    <3>5. mark[n].start \in Window(j) /\ mark[n].start \in Window(k) BY <3>1, <3>3, <3>4
    <3>6. Distance(mark[n].start, mark[n].start) <= Gap
      BY PlaysAssumption DEF Distance, Types, Markers
    <3>7. j \in Nat /\ k \in Nat BY <2>3, <2>4
    <3>8. j = k BY <3>5, <3>6, <3>7, WindowsApart
    <3> QED BY <2>4, <3>8
  <2>7. <<n, k>> \in Owed(t)' BY <2>3, <2>5, <2>6 DEF Owed
  <2>8. <<n, k>> \notin Owed(t)
    <3>1. SUFFICES ASSUME NEW v \in Workers, Holds(v, n, t, k) PROVE FALSE BY DEF Owed
    <3>2. k <= heard[n] BY <1>3, <3>1 DEF Holds, Told
    <3> QED BY <2>3, <2>4, <3>2
  <2>9. Cardinality(Owed(t)) + 1 <= Cardinality(Owed(t)') BY <1>7, <1>8, <2>7, <2>8, Sizes
  <2> QED BY <1>1, <1>4, <1>5, <1>6, <1>8, <2>1, <2>9
<1>10. CASE ~(world'.on /\ world'.song # heard[n] /\ t = world'.track)
  <2>1. due'[t] = due[t] BY <1>10 DEF Sync, Types
  <2>2. Cardinality(Owed(t)) <= Cardinality(Owed(t)') BY <1>7, <1>8, Sizes
  <2> QED BY <1>1, <1>4, <1>5, <1>6, <1>8, <2>1, <2>2
<1> QED BY <1>9, <1>10
LEMMA LostCompare ==
  ASSUME Types, Steps, Punctual, Told, NothingLost, NEW w \in Workers, Compare(w)
  PROVE  NothingLost'
<1>1. /\ pc[w] = "compare" /\ pc' = [pc EXCEPT ![w] = "run"]
      /\ mark' = [mark EXCEPT ![node[w]] = Moved(mark[node[w]], snap[w])]
      /\ snap' = [snap EXCEPT ![w] = Nothing]
      /\ UNCHANGED <<node, db, due, mixed, cut, blind, strayed>>
  BY DEF Compare, ghosts
<1>2. PICK n \in Nodes : n = node[w] BY Comparing
<1>3. SUFFICES ASSUME ~mixed, ~cut, ~blind, ~strayed, ~Purging, NEW t \in Tracks
      PROVE  due[t] <= db.counts[t] + Cardinality(Counting(t)') + Cardinality(Owed(t)')
  BY <1>1 DEF NothingLost, Purging, Types
<1>4. due[t] <= db.counts[t] + Cardinality(Counting(t)) + Cardinality(Owed(t))
  BY <1>3 DEF NothingLost
<1>5. due[t] \in Nat /\ db.counts[t] \in Nat BY DEF Types, Databases
<1>6. /\ IsFiniteSet(Owed(t)) /\ IsFiniteSet(Owed(t)')
      /\ Cardinality(Owed(t)) \in Nat /\ Cardinality(Owed(t)') \in Nat
      /\ IsFiniteSet(Counting(t)) /\ IsFiniteSet(Counting(t)')
      /\ Cardinality(Counting(t)) \in Nat /\ Cardinality(Counting(t)') \in Nat
  BY FiniteSets, FiniteThen DEF SetsFinite
<1>7. /\ todo[w] = <<>>
      /\ \A v \in Workers : v # w => todo'[v] = todo[v]
      /\ Has(todo'[w], Cmd("HIncrCount", t)) <=> (New(w) /\ t = snap[w].track)
  BY <1>1, Comparing DEF Steps
<1>8. /\ Counting(t) \subseteq Counting(t)' /\ w \notin Counting(t)
      /\ (New(w) /\ t = snap[w].track) => w \in Counting(t)'
  BY <1>7, NoCommands DEF Counting
<1>9. PICK k : k = snap[w].song OBVIOUS
<1>10. IsReport(snap[w]) /\ mark[n] \in Markers BY DEF Types
<1>11. ASSUME NEW p \in Owed(t), p \notin Owed(t)'
       PROVE  New(w) /\ t = snap[w].track /\ p = <<n, k>>
  <2>1. PICK m \in Nodes, j \in 1..MaxSongs : p = <<m, j>> BY DEF Owed
  <2>2. PICK v \in Workers : Holds(v, m, t, j) BY <2>1 DEF Owed
  <2>3. ~Marks(m, t, j) BY <2>1 DEF Owed
  <2>4. v # w => Holds(v, m, t, j)' BY <1>1, <2>2 DEF Holds, Types
  <2>5. v = w \/ Marks(m, t, j)' BY <1>11, <2>1, <2>4 DEF Owed
  <2>6. m = n /\ snap[w].on
    <3>1. CASE v = w BY <1>2, <2>2, <3>1 DEF Holds
    <3>2. CASE Marks(m, t, j)'
      <4>1. m # n => mark'[m] = mark[m] BY <1>1, <1>2 DEF Types
      <4>2. ~snap[w].on => mark'[n].track = mark[n].track /\ mark'[n].start = mark[n].start
        BY <1>1, <1>2 DEF Types, Moved
      <4> QED BY <2>3, <3>2, <4>1, <4>2 DEF Marks
    <3> QED BY <2>5, <3>1, <3>2
  <2>7. /\ snap[w].start # 0 /\ k # 0 /\ k \in Nat /\ snap[w].start \in Window(k)
        /\ snap[w].track \in Tracks /\ snap[w].start \in Nat
    <3>1. snap[w].start # 0 BY <1>1, <1>3, <2>6 DEF Told
    <3>2. /\ k # 0 /\ k \in 0..MaxSongs /\ snap[w].start \in {0} \cup Window(k)
          /\ snap[w].track \in Tracks /\ snap[w].start \in Nat
      BY <1>3, <1>9, <1>10, <2>6 DEF IsReport, Punctual, OnTime
    <3> QED BY <3>1, <3>2, HistoryAssumption
  <2>8. t = snap[w].track /\ j = k
    <3>1. CASE v = w BY <1>9, <2>2, <3>1 DEF Holds
    <3>2. CASE Marks(m, t, j)'
      <4>1. mark'[n].track = snap[w].track /\ mark'[n].start = snap[w].start
        BY <1>1, <1>2, <2>6 DEF Types, Moved
      <4>2. t = snap[w].track /\ snap[w].start \in Window(j)
        BY <2>6, <2>7, <3>2, <4>1 DEF Marks
      <4>3. Distance(snap[w].start, snap[w].start) <= Gap
        BY <2>7, PlaysAssumption DEF Distance
      <4>4. j \in Nat OBVIOUS
      <4>5. j = k BY <2>7, <4>2, <4>3, <4>4, WindowsApart
      <4> QED BY <4>2, <4>5
    <3> QED BY <2>5, <3>1, <3>2
  <2>9. New(w)
    <3>1. SUFFICES ASSUME ~New(w) PROVE FALSE OBVIOUS
    <3>2. ~IsNewPlay(t, mark[n].track, snap[w].start, mark[n].start)
      BY <1>2, <2>6, <2>8, <3>1 DEF New
    <3>3. t # None BY HistoryAssumption
    <3>4. mark[n].track = t BY <3>2, <3>3 DEF IsNewPlay
    <3>5. mark[n].start # 0 /\ \E i \in 1..heard[n] : mark[n].start \in {0} \cup Window(i)
      BY <1>3, <3>3, <3>4 DEF Told
    <3>6. PICK i \in Nat : mark[n].start \in Window(i)
      <4>1. heard[n] \in 0..MaxSongs BY DEF Types
      <4>2. \A i \in 1..heard[n] : i \in Nat BY <4>1, HistoryAssumption
      <4> QED BY <3>5, <4>2
    <3>7. Distance(snap[w].start, mark[n].start) <= Gap
      <4>1. ~(Distance(snap[w].start, mark[n].start) > Gap)
        BY <2>7, <3>2, <3>3, <3>5 DEF IsNewPlay
      <4>2. mark[n].start \in Nat /\ Gap \in Nat BY <1>10, PlaysAssumption DEF Markers
      <4> QED BY <2>7, <4>1, <4>2 DEF Distance
    <3>8. i = k BY <2>7, <3>6, <3>7, WindowsApart
    <3> QED BY <2>3, <2>6, <2>8, <3>4, <3>6, <3>8 DEF Marks
  <2> QED BY <2>1, <2>6, <2>8, <2>9
<1>12. CASE New(w) /\ t = snap[w].track
  <2>1. Cardinality(Counting(t)) + 1 <= Cardinality(Counting(t)')
    BY <1>6, <1>8, <1>12, Sizes
  <2>2. Owed(t) \subseteq Owed(t)' \cup {<<n, k>>} BY <1>11
  <2>3. Cardinality(Owed(t)) <= Cardinality(Owed(t)') + 1 BY <1>6, <2>2, Sizes
  <2> QED BY <1>4, <1>5, <1>6, <2>1, <2>3
<1>13. CASE ~(New(w) /\ t = snap[w].track)
  <2>1. Cardinality(Counting(t)) <= Cardinality(Counting(t)') BY <1>6, <1>8, Sizes
  <2>2. Owed(t) \subseteq Owed(t)' BY <1>11, <1>13
  <2>3. Cardinality(Owed(t)) <= Cardinality(Owed(t)') BY <1>6, <2>2, Sizes
  <2> QED BY <1>4, <1>5, <1>6, <2>1, <2>3
<1> QED BY <1>12, <1>13

\* What a command does to the counters, and to the goroutines about to count.
LEMMA IssueCounts ==
  ASSUME Types, Steps, NEW w \in Workers, Issue(w), pc[w] = "run", NEW t \in Tracks
  PROVE  \/ /\ Head(todo[w]) = Cmd("HIncrCount", t)
            /\ db'.counts[t] = db.counts[t] + 1
            /\ w \in Counting(t) /\ Counting(t)' = Counting(t) \ {w}
         \/ db'.counts[t] = db.counts[t] /\ Counting(t)' = Counting(t)
<1>1. PICK c : c = Head(todo[w]) OBVIOUS
<1>2. /\ todo[w] # <<>> /\ db' = Exec(c) /\ todo'[w] = Tail(todo[w])
      /\ \A v \in Workers : v # w => todo'[v] = todo[v]
  BY <1>1 DEF Issue, Types
<1>3. /\ c \in Commands
      /\ Has(todo[w], Cmd("HIncrCount", t)) <=>
           Cmd("HIncrCount", t) = c \/ Has(todo'[w], Cmd("HIncrCount", t))
      /\ Has(todo'[w], Cmd("HIncrCount", t)) => Cmd("HIncrCount", t).name # c.name
  BY <1>1, <1>2, Issuing
<1>4. db'.counts[t] = db.counts[t] + IF c = Cmd("HIncrCount", t) THEN 1 ELSE 0
  BY <1>2, <1>3, ExecCommand DEF Types
<1>5. db.counts[t] \in Nat BY DEF Types, Databases
<1>6. CASE c = Cmd("HIncrCount", t)
  <2>1. ~Has(todo'[w], Cmd("HIncrCount", t)) BY <1>3, <1>6
  <2>2. w \in Counting(t) /\ Counting(t)' = Counting(t) \ {w}
    BY <1>2, <1>3, <1>6, <2>1 DEF Counting
  <2> QED BY <1>1, <1>4, <1>6, <2>2
<1>7. CASE c # Cmd("HIncrCount", t)
  <2>1. Counting(t)' = Counting(t) BY <1>2, <1>3, <1>7 DEF Counting
  <2> QED BY <1>4, <1>5, <1>7, <2>1
<1> QED BY <1>6, <1>7

LEMMA LostStep ==
  ASSUME Types, Steps, Punctual, Alone, Told, NothingLost, [Next]_vars
  PROVE  NothingLost'
<1>1. CASE UNCHANGED vars
  BY <1>1 DEF vars, goroutines, ghosts, NothingLost, Purging, Counting, Owed, Holds, Marks
<1>2. ASSUME NEW w \in Workers, Issue(w) PROVE NothingLost'
  <2>1. /\ UNCHANGED <<mark, snap, due, mixed, cut, blind, strayed>>
        /\ pc[w] \in {"run", "purge"} /\ (pc[w] = "purge" => pc'[w] = "purge")
        /\ \A v \in Workers : v # w => pc'[v] = pc[v] /\ node'[v] = node[v]
        /\ pc'[w] # "compare"
    BY <1>2, Issuing DEF Issue, ghosts, Types
  <2>2. SUFFICES ASSUME ~mixed, ~cut, ~blind, ~strayed, ~Purging, NEW t \in Tracks
        PROVE  due[t] <= db'.counts[t] + Cardinality(Counting(t)') + Cardinality(Owed(t)')
    BY <2>1 DEF NothingLost, Purging
  <2>3. due[t] <= db.counts[t] + Cardinality(Counting(t)) + Cardinality(Owed(t))
    BY <2>2 DEF NothingLost
  <2>4. Owed(t)' = Owed(t) BY <2>1 DEF Owed, Holds, Marks
  <2>5. pc[w] = "run" BY <2>1, <2>2 DEF Purging
  <2>6. due[t] \in Nat /\ db.counts[t] \in Nat BY DEF Types, Databases
  <2>7. /\ IsFiniteSet(Counting(t)) /\ Cardinality(Counting(t)) \in Nat
        /\ Cardinality(Owed(t)) \in Nat
    BY FiniteSets DEF SetsFinite
  <2>8. CASE /\ db'.counts[t] = db.counts[t] + 1
             /\ w \in Counting(t) /\ Counting(t)' = Counting(t) \ {w}
    <3>1. Cardinality(Counting(t)') = Cardinality(Counting(t)) - 1
      BY <2>7, <2>8, FS_RemoveElement
    <3> QED BY <2>3, <2>4, <2>6, <2>7, <2>8, <3>1
  <2>9. CASE db'.counts[t] = db.counts[t] /\ Counting(t)' = Counting(t)
    BY <2>3, <2>4, <2>9
  <2> QED BY <1>2, <2>5, <2>8, <2>9, IssueCounts
<1>3. ASSUME NEW w \in Workers, NEW n \in Nodes, Purge(w, n) PROVE NothingLost'
  BY <1>3 DEF Purge, NothingLost, Purging, Types
<1>4. ASSUME NEW w \in Workers, Reset(w) PROVE NothingLost'
  <2>1. \A t \in Tracks : due'[t] = 0 /\ db'.counts[t] \in Nat
    BY <1>4 DEF Reset, Types, Databases
  <2> QED BY <2>1, FiniteThen DEF NothingLost, SetsFinite
<1>5. ASSUME NEW n \in Nodes, Crash(n) PROVE NothingLost'
  <2>1. /\ mark' = [mark EXCEPT ![n] = NoMark] /\ UNCHANGED <<db, due, mixed, blind, strayed>>
        /\ (cut => cut')
    BY <1>5 DEF Crash
  <2>2. ASSUME ~cut'
        PROVE  \A v \in Workers :
                 /\ pc'[v] = pc[v] /\ node'[v] = node[v] /\ snap'[v] = snap[v]
                 /\ todo'[v] = todo[v] /\ (pc[v] # "idle" => node[v] # n)
    BY <1>5, <2>2, CrashTypes
  <2>3. SUFFICES ASSUME ~cut', ~mixed, ~blind, ~strayed, ~Purging', NEW t \in Tracks
        PROVE  due[t] <= db.counts[t] + Cardinality(Counting(t)') + Cardinality(Owed(t)')
    BY <2>1 DEF NothingLost
  <2>4. due[t] <= db.counts[t] + Cardinality(Counting(t)) + Cardinality(Owed(t))
    BY <2>1, <2>2, <2>3 DEF NothingLost, Purging
  <2>5. Counting(t)' = Counting(t) BY <2>2, <2>3 DEF Counting
  <2>6. ASSUME NEW p \in Owed(t) PROVE p \in Owed(t)'
    <3>1. PICK v \in Workers : Holds(v, p[1], t, p[2]) BY DEF Owed
    <3>2. Holds(v, p[1], t, p[2])' BY <2>2, <2>3, <3>1 DEF Holds
    <3>3. p[1] # n /\ p[1] \in Nodes BY <2>2, <2>3, <3>1 DEF Holds, Owed
    <3>4. ~Marks(p[1], t, p[2])' BY <2>1, <3>3 DEF Owed, Marks, Types
    <3> QED BY <3>2, <3>4 DEF Owed
  <2>7. /\ IsFiniteSet(Owed(t)) /\ IsFiniteSet(Owed(t)')
        /\ Cardinality(Owed(t)) \in Nat /\ Cardinality(Owed(t)') \in Nat
        /\ Cardinality(Counting(t)) \in Nat /\ db.counts[t] \in Nat /\ due[t] \in Nat
    BY FiniteSets, FiniteThen DEF SetsFinite, Types, Databases
  <2>8. Cardinality(Owed(t)) <= Cardinality(Owed(t)') BY <2>6, <2>7, Sizes
  <2> QED BY <2>4, <2>5, <2>7, <2>8
<1> QED BY <1>1, <1>2, <1>3, <1>4, <1>5, LostSync, LostCompare DEF Next

LEMMA LostInit == Init => NothingLost
<1> SUFFICES ASSUME Init PROVE NothingLost OBVIOUS
<1>1. \A t \in Tracks : due[t] = 0 /\ db.counts[t] = 0 BY DEF Init, EmptyDB
<1> QED BY <1>1, FiniteSets DEF NothingLost, SetsFinite

-----------------------------------------------------------------------------
(* No play is counted twice. *)

LEMMA NobodyElse ==
  ASSUME NEW w \in Workers, NEW n \in Nodes, Sync(w, n), ~overlapped', ~mixed'
  PROVE  /\ \A v \in Workers : pc[v] # "idle" => node[v] # n
         /\ ~overlapped /\ ~mixed /\ ~Purging
BY DEF Sync, Active, Purging

LEMMA SettledSync ==
  ASSUME Types, Steps, Told, Settled, NEW w \in Workers, NEW n \in Nodes, Sync(w, n)
  PROVE  Settled'
<1> SUFFICES ASSUME ~overlapped', ~mixed', ~strayed' PROVE Settled' BY DEF Settled
<1>1. /\ pc' = [pc EXCEPT ![w] = "compare"] /\ node' = [node EXCEPT ![w] = n]
      /\ snap' = [snap EXCEPT ![w] = world'] /\ pc[w] = "idle" /\ mark' = mark
      /\ strayed => strayed'
  BY DEF Sync
<1>2. /\ \A v \in Workers : pc[v] # "idle" => node[v] # n
      /\ ~overlapped /\ ~mixed /\ ~strayed
  BY <1>1, NobodyElse
<1>3. /\ \A m \in Nodes : m # n => heard'[m] = heard[m]
      /\ heard'[n] = IF world'.on /\ world'.song # heard[n] THEN world'.song ELSE heard[n]
      /\ \A m \in Nodes : heard[m] \in Nat /\ heard[m] <= world.song
  BY HistoryAssumption DEF Sync, Types, Told
<1>4. /\ world.song \in Nat /\ world'.song \in Nat
      /\ \/ world'.song = world.song /\ world'.track = world.track
         \/ world'.song = world.song + 1
  <2>1. \/ world'.song = world.song /\ world'.track = world.track
        \/ world'.song = world.song + 1
    BY NextReport DEF Sync, Types
  <2>2. world.song \in 0..MaxSongs BY DEF Types, IsReport
  <2> QED BY <2>1, <2>2, HistoryAssumption
<1>5. /\ \A m \in Nodes : (heard[m] = world.song /\ world.song # 0) =>
           \/ Marks(m, world.track, world.song)
           \/ \E v \in Workers : Holds(v, m, world.track, world.song)
      /\ \A v \in Workers : (pc[v] = "compare" /\ snap[v].on) =>
           /\ snap[v].song = heard[node[v]]
           /\ snap[v].song = world.song => snap[v].track = world.track
  BY <1>2 DEF Settled
<1>6. \A v \in Workers : v # w => pc'[v] = pc[v] /\ node'[v] = node[v] /\ snap'[v] = snap[v]
  BY <1>1 DEF Types
<1>7. pc'[w] = "compare" /\ node'[w] = n /\ snap'[w] = world' BY <1>1 DEF Types
<1>8. ASSUME NEW m \in Nodes, heard'[m] = world'.song, world'.song # 0
      PROVE  \/ Marks(m, world.track, world.song)' 
             \/ \E v \in Workers : Holds(v, m, world.track, world.song)'
  <2>1. CASE m = n /\ world'.on
    <3>1. Holds(w, n, world.track, world.song)' BY <1>7, <2>1 DEF Holds
    <3> QED BY <2>1, <3>1
  <2>2. CASE ~(m = n /\ world'.on)
    <3>1. heard[m] = world'.song BY <1>3, <1>8, <2>2
    <3>2. world'.song = world.song /\ world'.track = world.track BY <1>3, <1>4, <3>1
    <3>3. CASE Marks(m, world.track, world.song)
      BY <1>1, <3>2, <3>3 DEF Marks
    <3>4. CASE \E v \in Workers : Holds(v, m, world.track, world.song)
      <4>1. PICK v \in Workers : Holds(v, m, world.track, world.song) BY <3>4
      <4>2. v # w BY <1>1, <4>1 DEF Holds
      <4>3. Holds(v, m, world.track, world.song)' BY <1>6, <3>2, <4>1, <4>2 DEF Holds
      <4> QED BY <4>3
    <3> QED BY <1>5, <1>8, <3>1, <3>2, <3>3, <3>4
  <2> QED BY <2>1, <2>2
<1>9. ASSUME NEW v \in Workers, pc'[v] = "compare", snap'[v].on
      PROVE  /\ snap'[v].song = heard'[node'[v]]
             /\ snap'[v].song = world'.song => snap'[v].track = world'.track
  <2>1. CASE v = w BY <1>3, <1>7, <1>9, <2>1
  <2>2. CASE v # w
    <3>1. pc[v] = "compare" /\ node[v] # n /\ node[v] \in Nodes
      BY <1>2, <1>6, <1>9, <2>2 DEF Steps
    <3>2. snap[v].song = heard[node[v]] /\ (snap[v].song = world.song => snap[v].track = world.track)
      BY <1>5, <1>6, <1>9, <2>2, <3>1
    <3>3. snap[v].song # world.song + 1 BY <1>3, <1>4, <3>1, <3>2
    <3> QED BY <1>3, <1>4, <1>6, <2>2, <3>1, <3>2, <3>3
  <2> QED BY <2>1, <2>2
<1> QED BY <1>8, <1>9 DEF Settled

LEMMA SettledCompare ==
  ASSUME Types, Steps, Punctual, Settled, NEW w \in Workers, Compare(w)
  PROVE  Settled'
<1>1. /\ pc[w] = "compare" /\ pc' = [pc EXCEPT ![w] = "run"]
      /\ mark' = [mark EXCEPT ![node[w]] = Moved(mark[node[w]], snap[w])]
      /\ snap' = [snap EXCEPT ![w] = Nothing]
      /\ UNCHANGED <<world, node, heard, overlapped, mixed, strayed>>
  BY DEF Compare, ghosts
<1> SUFFICES ASSUME ~overlapped, ~mixed, ~strayed PROVE Settled' BY <1>1 DEF Settled
<1>2. \A v \in Workers : v # w => pc'[v] = pc[v] /\ snap'[v] = snap[v]
  BY <1>1 DEF Types
<1>3. pc'[w] = "run" BY <1>1 DEF Types
<1>4. ASSUME NEW n \in Nodes, heard[n] = world.song, world.song # 0
      PROVE  \/ Marks(n, world.track, world.song)'
             \/ \E v \in Workers : Holds(v, n, world.track, world.song)'
  <2>1. CASE n = node[w] /\ snap[w].on
    <3>1. snap[w].song = world.song /\ snap[w].track = world.track
      BY <1>1, <1>4, <2>1 DEF Settled
    <3>2. snap[w].start \in {0} \cup Window(world.song)
      BY <1>4, <3>1 DEF Punctual, OnTime
    <3>3. mark'[n].track = snap[w].track /\ mark'[n].start = snap[w].start
      BY <1>1, <2>1 DEF Types, Moved
    <3> QED BY <1>1, <3>1, <3>2, <3>3 DEF Marks
  <2>2. CASE ~(n = node[w] /\ snap[w].on)
    <3>1. mark'[n].track = mark[n].track /\ mark'[n].start = mark[n].start
      BY <1>1, <2>2 DEF Types, Moved
    <3>2. Marks(n, world.track, world.song) => Marks(n, world.track, world.song)'
      BY <1>1, <3>1 DEF Marks
    <3>3. ASSUME NEW v \in Workers, Holds(v, n, world.track, world.song)
          PROVE  Holds(v, n, world.track, world.song)'
      <4>1. v # w BY <2>2, <3>3 DEF Holds
      <4> QED BY <1>1, <1>2, <3>3, <4>1 DEF Holds
    <3> QED BY <1>4, <3>2, <3>3 DEF Settled
  <2> QED BY <2>1, <2>2
<1>5. ASSUME NEW v \in Workers, pc'[v] = "compare", snap'[v].on
      PROVE  /\ snap'[v].song = heard[node[v]]
             /\ snap'[v].song = world.song => snap'[v].track = world.track
  <2>1. v # w BY <1>3, <1>5
  <2> QED BY <1>2, <1>5, <2>1 DEF Settled
<1> QED BY <1>1, <1>4, <1>5 DEF Settled

LEMMA SettledStep ==
  ASSUME Types, Steps, Punctual, Alone, Told, Settled, [Next]_vars
  PROVE  Settled'
<1>0. ASSUME UNCHANGED <<world, mark, heard, snap>>, (overlapped => overlapped'), (mixed => mixed'),
             (strayed => strayed'),
             \A v \in Workers : pc'[v] = "compare" <=> pc[v] = "compare",
             \A v \in Workers : pc[v] = "compare" => node'[v] = node[v]
      PROVE  Settled'
  BY <1>0 DEF Settled, Holds, Marks
<1>1. CASE UNCHANGED vars BY <1>0, <1>1 DEF vars, goroutines, ghosts
<1>2. ASSUME NEW w \in Workers, Issue(w) PROVE Settled'
  <2>1. /\ UNCHANGED <<world, mark, snap, heard, overlapped, mixed, strayed>>
        /\ pc[w] # "compare" /\ pc'[w] # "compare"
        /\ \A v \in Workers : v # w => pc'[v] = pc[v] /\ node'[v] = node[v]
    BY <1>2, Issuing DEF Issue, ghosts, Types
  <2> QED BY <1>0, <2>1
<1>3. ASSUME NEW w \in Workers, NEW n \in Nodes, Purge(w, n) PROVE Settled'
  <2>1. /\ UNCHANGED <<world, mark, snap, heard, overlapped, strayed>> /\ (mixed => mixed')
        /\ pc[w] # "compare" /\ pc'[w] # "compare"
        /\ \A v \in Workers : v # w => pc'[v] = pc[v] /\ node'[v] = node[v]
    BY <1>3 DEF Purge, Types
  <2> QED BY <1>0, <2>1
<1>4. ASSUME NEW w \in Workers, Reset(w) PROVE Settled'
  <2>1. /\ pc[w] = "purge" /\ node[w] \in Nodes /\ UNCHANGED <<world, snap, mixed, overlapped, strayed>>
        /\ mark' = [mark EXCEPT ![node[w]] = NoMark]
        /\ heard' = [heard EXCEPT ![node[w]] = 0]
        /\ pc' = [pc EXCEPT ![w] = "idle"]
    BY <1>4 DEF Reset, Steps
  <2> SUFFICES ASSUME ~overlapped, ~mixed, ~strayed PROVE Settled' BY <2>1 DEF Settled
  <2>2. \A v \in Workers : pc'[v] = "idle" /\ pc[v] # "compare"
    BY <2>1, PurgeAlone DEF Types
  <2>3. /\ heard'[node[w]] = 0
        /\ \A n \in Nodes : n # node[w] => mark'[n] = mark[n] /\ heard'[n] = heard[n]
    BY <2>1 DEF Types
  <2>4. \A n \in Nodes : (heard[n] = world.song /\ world.song # 0) => Marks(n, world.track, world.song)
    BY <2>2 DEF Settled, Holds
  <2>5. \A n \in Nodes : (heard'[n] = world'.song /\ world'.song # 0)
                            => Marks(n, world.track, world.song)'
    BY <2>1, <2>3, <2>4 DEF Marks
  <2> QED BY <2>2, <2>5 DEF Settled
<1>5. ASSUME NEW n \in Nodes, Crash(n) PROVE Settled'
  <2>1. /\ mark' = [mark EXCEPT ![n] = NoMark] /\ heard' = [heard EXCEPT ![n] = 0]
        /\ UNCHANGED <<world, mixed, overlapped, strayed>>
    BY <1>5 DEF Crash
  <2> SUFFICES ASSUME ~overlapped, ~mixed, ~strayed PROVE Settled' BY <2>1 DEF Settled
  <2>2. \A v \in Workers :
          IF pc[v] # "idle" /\ node[v] = n
            THEN pc'[v] = "idle"
            ELSE pc'[v] = pc[v] /\ node'[v] = node[v] /\ snap'[v] = snap[v]
    BY <1>5, CrashTypes
  <2>3. heard'[n] = 0 /\ \A m \in Nodes : m # n => mark'[m] = mark[m] /\ heard'[m] = heard[m]
    BY <2>1 DEF Types
  <2>4. ASSUME NEW m \in Nodes, heard'[m] = world.song, world.song # 0
        PROVE  \/ Marks(m, world.track, world.song)'
               \/ \E v \in Workers : Holds(v, m, world.track, world.song)'
    <3>1. m # n BY <2>3, <2>4
    <3>2. Marks(m, world.track, world.song) => Marks(m, world.track, world.song)'
      BY <2>1, <2>3, <3>1 DEF Marks
    <3>3. \A v \in Workers : Holds(v, m, world.track, world.song)
                                => Holds(v, m, world.track, world.song)'
      BY <2>1, <2>2, <3>1 DEF Holds
    <3> QED BY <2>3, <2>4, <3>1, <3>2, <3>3 DEF Settled
  <2>5. ASSUME NEW v \in Workers, pc'[v] = "compare", snap'[v].on
        PROVE  /\ snap'[v].song = heard'[node'[v]]
               /\ snap'[v].song = world.song => snap'[v].track = world.track
    <3>1. /\ pc[v] = "compare" /\ node[v] # n /\ node[v] \in Nodes
          /\ node'[v] = node[v] /\ snap'[v] = snap[v]
      BY <2>2, <2>5 DEF Steps
    <3> QED BY <2>3, <2>5, <3>1 DEF Settled
  <2> QED BY <2>1, <2>4, <2>5 DEF Settled
<1> QED BY <1>1, <1>2, <1>3, <1>4, <1>5, SettledSync, SettledCompare DEF Next
\* Two starts of one song, one of which may be unknown, are no new play.
LEMMA OneSong ==
  ASSUME NEW k \in Nat, NEW t, NEW a \in {0} \cup Window(k), NEW b \in {0} \cup Window(k)
  PROVE  ~IsNewPlay(t, t, a, b)
<1>1. SUFFICES ASSUME a # 0, b # 0 PROVE ~(Distance(a, b) > Gap) BY DEF IsNewPlay
<1>2. a \in Window(k) /\ b \in Window(k) /\ Window(k) \subseteq Nat BY <1>1, Windows
<1>3. Distance(a, b) <= Gap BY <1>2, WindowsApart
<1>4. Distance(a, b) \in Int BY <1>2 DEF Distance
<1> QED BY <1>3, <1>4, PlaysAssumption

LEMMA TwiceInit == Init => NothingTwice
<1> SUFFICES ASSUME Init, NEW t \in Tracks
             PROVE  db.counts[t] + Cardinality(Counting(t)) + Cardinality(Finding(t)) <= due[t]
  BY DEF NothingTwice
<1>1. db.counts[t] = 0 /\ due[t] = 0 BY DEF Init, EmptyDB
<1>2. Counting(t) = {} /\ Finding(t) = {} BY NoCommands DEF Init, Counting, Finding
<1> QED BY <1>1, <1>2, FS_EmptySet

LEMMA TwiceSync ==
  ASSUME Types, Steps, Punctual, Told, Settled, NothingTwice,
         NEW w \in Workers, NEW n \in Nodes, Sync(w, n)
  PROVE  NothingTwice'
<1>1. /\ pc' = [pc EXCEPT ![w] = "compare"] /\ node' = [node EXCEPT ![w] = n]
      /\ snap' = [snap EXCEPT ![w] = world'] /\ pc[w] = "idle"
      /\ UNCHANGED <<mark, todo, db, cut>> /\ (strayed => strayed')
      /\ ~strayed' => (world'.on => world'.start \in {0} \cup Window(world'.song))
  BY DEF Sync
<1>2. SUFFICES ASSUME ~overlapped', ~mixed', ~cut', ~strayed', NEW t \in Tracks
      PROVE  db.counts[t] + Cardinality(Counting(t)') + Cardinality(Finding(t)') <= due'[t]
  BY <1>1 DEF NothingTwice
<1>3. /\ \A v \in Workers : pc[v] # "idle" => node[v] # n
      /\ ~overlapped /\ ~mixed /\ ~Purging /\ ~cut /\ ~strayed
  BY <1>1, <1>2, NobodyElse
<1>4. db.counts[t] + Cardinality(Counting(t)) + Cardinality(Finding(t)) <= due[t]
  BY <1>3 DEF NothingTwice
<1>5. Counting(t)' = Counting(t) BY <1>1 DEF Counting
<1>6. /\ IsFiniteSet(Finding(t)) /\ IsFiniteSet(Finding(t)')
      /\ Cardinality(Finding(t)) \in Nat /\ Cardinality(Finding(t)') \in Nat
      /\ Cardinality(Counting(t)) \in Nat /\ db.counts[t] \in Nat /\ due[t] \in Nat
  BY FiniteSets, FiniteThen DEF SetsFinite, Types, Databases
<1>7. ASSUME NEW m \in Finding(t)', m \notin Finding(t)
      PROVE  /\ m = n /\ world'.on /\ t = world'.track
             /\ IsNewPlay(t, mark[n].track, world'.start, mark[n].start)
  <2>1. PICK v \in Workers :
               /\ pc'[v] = "compare" /\ node'[v] = m /\ snap'[v].on /\ snap'[v].track = t
               /\ IsNewPlay(t, mark'[m].track, snap'[v].start, mark'[m].start)
    BY DEF Finding
  <2>2. v = w
    <3>1. SUFFICES ASSUME v # w PROVE FALSE OBVIOUS
    <3>2. pc[v] = "compare" /\ node[v] = m /\ snap[v] = snap'[v]
      BY <1>1, <2>1, <3>1 DEF Types
    <3>3. m \in Nodes BY <3>2 DEF Steps
    <3> QED BY <1>1, <1>7, <2>1, <3>2, <3>3 DEF Finding
  <2>3. snap'[w] = world' /\ node'[w] = n BY <1>1 DEF Types
  <2> QED BY <1>1, <2>1, <2>2, <2>3
<1>8. CASE world'.on /\ world'.song # heard[n] /\ t = world'.track
  <2>1. due'[t] = due[t] + 1 BY <1>8 DEF Sync, Types
  <2>2. Finding(t)' \subseteq Finding(t) \cup {n} BY <1>7
  <2>3. Cardinality(Finding(t)') <= Cardinality(Finding(t)) + 1 BY <1>6, <2>2, Sizes
  <2> QED BY <1>4, <1>5, <1>6, <2>1, <2>3
<1>9. CASE ~(world'.on /\ world'.song # heard[n] /\ t = world'.track)
  <2>1. due'[t] = due[t] BY <1>9 DEF Sync, Types
  <2>2. ASSUME NEW m \in Finding(t)', m \notin Finding(t) PROVE FALSE
    <3>1. /\ m = n /\ world'.on /\ t = world'.track
          /\ IsNewPlay(t, mark[n].track, world'.start, mark[n].start)
      BY <1>7, <2>2
    <3>2. world'.song = heard[n] BY <1>9, <3>1
    <3>3. /\ IsReport(world')
          /\ \/ world'.song = world.song /\ world'.track = world.track
             \/ world'.song = world.song + 1
      BY NextReport DEF Sync, Types
    <3>4. world'.song # 0 /\ world'.song \in Nat /\ world.song \in Nat /\ heard[n] <= world.song
      BY <3>1, <3>3, HistoryAssumption DEF IsReport, Types, Told
    <3>5. world'.song = world.song /\ world'.track = world.track BY <3>2, <3>3, <3>4
    <3>6. Marks(n, world.track, world.song)
      BY <1>3, <3>2, <3>4, <3>5 DEF Settled, Holds
    <3>7. /\ mark[n].track = t /\ mark[n].start \in {0} \cup Window(world'.song)
          /\ world'.start \in {0} \cup Window(world'.song)
      BY <1>1, <1>2, <3>1, <3>5, <3>6 DEF Marks
    <3> QED BY <3>1, <3>4, <3>7, OneSong
  <2>3. Finding(t)' \subseteq Finding(t) BY <2>2
  <2>4. Cardinality(Finding(t)') <= Cardinality(Finding(t)) BY <1>6, <2>3, Sizes
  <2> QED BY <1>4, <1>5, <1>6, <2>1, <2>4
<1> QED BY <1>8, <1>9

LEMMA TwiceCompare ==
  ASSUME Types, Steps, Alone, NothingTwice, NEW w \in Workers, Compare(w)
  PROVE  NothingTwice'
<1>1. /\ pc[w] = "compare" /\ pc' = [pc EXCEPT ![w] = "run"]
      /\ mark' = [mark EXCEPT ![node[w]] = Moved(mark[node[w]], snap[w])]
      /\ snap' = [snap EXCEPT ![w] = Nothing]
      /\ UNCHANGED <<node, db, due, mixed, cut, overlapped, strayed>>
  BY DEF Compare, ghosts
<1>2. PICK n \in Nodes : n = node[w] BY Comparing
<1>3. SUFFICES ASSUME ~mixed, ~cut, ~overlapped, ~strayed, ~Purging, NEW t \in Tracks
      PROVE  db.counts[t] + Cardinality(Counting(t)') + Cardinality(Finding(t)') <= due[t]
  BY <1>1 DEF NothingTwice, Purging, Types
<1>4. db.counts[t] + Cardinality(Counting(t)) + Cardinality(Finding(t)) <= due[t]
  BY <1>3 DEF NothingTwice
<1>5. /\ IsFiniteSet(Finding(t)) /\ IsFiniteSet(Finding(t)')
      /\ Cardinality(Finding(t)) \in Nat /\ Cardinality(Finding(t)') \in Nat
      /\ IsFiniteSet(Counting(t)) /\ IsFiniteSet(Counting(t)')
      /\ Cardinality(Counting(t)) \in Nat /\ Cardinality(Counting(t)') \in Nat
      /\ db.counts[t] \in Nat /\ due[t] \in Nat
  BY FiniteSets, FiniteThen DEF SetsFinite, Types, Databases
<1>6. /\ \A v \in Workers : v # w => todo'[v] = todo[v]
      /\ Has(todo'[w], Cmd("HIncrCount", t)) <=> (New(w) /\ t = snap[w].track)
  BY Comparing
<1>7. ASSUME NEW m \in Finding(t)' PROVE m \in Finding(t) /\ m # n
  <2>1. PICK v \in Workers :
               /\ pc'[v] = "compare" /\ node'[v] = m /\ snap'[v].on /\ snap'[v].track = t
               /\ IsNewPlay(t, mark'[m].track, snap'[v].start, mark'[m].start)
    BY DEF Finding
  <2>2. v # w /\ pc[v] = "compare" /\ node[v] = m /\ snap'[v] = snap[v]
    BY <1>1, <2>1 DEF Types
  <2>3. m # n BY <1>1, <1>2, <1>3, <2>2 DEF Alone, Active
  <2>4. m \in Nodes /\ mark'[m] = mark[m] BY <1>1, <1>2, <2>2, <2>3 DEF Types, Steps
  <2> QED BY <2>1, <2>2, <2>3, <2>4 DEF Finding
<1>8. CASE New(w) /\ t = snap[w].track
  <2>1. n \in Finding(t) BY <1>1, <1>2, <1>8 DEF Finding, New
  <2>2. Finding(t)' \subseteq Finding(t) /\ n \notin Finding(t)' BY <1>7
  <2>3. Cardinality(Finding(t)') + 1 <= Cardinality(Finding(t)) BY <1>5, <2>1, <2>2, Sizes
  <2>4. Counting(t)' \subseteq Counting(t) \cup {w} BY <1>6 DEF Counting
  <2>5. Cardinality(Counting(t)') <= Cardinality(Counting(t)) + 1 BY <1>5, <2>4, Sizes
  <2> QED BY <1>4, <1>5, <2>3, <2>5
<1>9. CASE ~(New(w) /\ t = snap[w].track)
  <2>1. Finding(t)' \subseteq Finding(t) BY <1>7
  <2>2. Counting(t)' \subseteq Counting(t) BY <1>6, <1>9 DEF Counting
  <2>3. Cardinality(Finding(t)') <= Cardinality(Finding(t)) BY <1>5, <2>1, Sizes
  <2>4. Cardinality(Counting(t)') <= Cardinality(Counting(t)) BY <1>5, <2>2, Sizes
  <2> QED BY <1>4, <1>5, <2>3, <2>4
<1> QED BY <1>8, <1>9

LEMMA TwiceStep ==
  ASSUME Types, Steps, Punctual, Alone, Erased, Told, Settled, NothingTwice, [Next]_vars
  PROVE  NothingTwice'
<1>1. CASE UNCHANGED vars
  BY <1>1 DEF vars, goroutines, ghosts, NothingTwice, Purging, Counting, Finding
<1>2. ASSUME NEW w \in Workers, Issue(w) PROVE NothingTwice'
  <2>1. /\ UNCHANGED <<mark, snap, due, mixed, cut, overlapped, strayed>>
        /\ pc[w] \in {"run", "purge"} /\ (pc[w] = "purge" => pc'[w] = "purge")
        /\ \A v \in Workers : v # w => pc'[v] = pc[v] /\ node'[v] = node[v]
        /\ pc'[w] # "compare"
    BY <1>2, Issuing DEF Issue, ghosts, Types
  <2>2. SUFFICES ASSUME ~mixed, ~cut, ~overlapped, ~strayed, ~Purging, NEW t \in Tracks
        PROVE  db'.counts[t] + Cardinality(Counting(t)') + Cardinality(Finding(t)') <= due[t]
    BY <2>1 DEF NothingTwice, Purging
  <2>3. db.counts[t] + Cardinality(Counting(t)) + Cardinality(Finding(t)) <= due[t]
    BY <2>2 DEF NothingTwice
  <2>4. Finding(t)' = Finding(t) BY <2>1 DEF Finding
  <2>5. pc[w] = "run" BY <2>1, <2>2 DEF Purging
  <2>6. /\ IsFiniteSet(Counting(t)) /\ Cardinality(Counting(t)) \in Nat
        /\ Cardinality(Finding(t)) \in Nat /\ db.counts[t] \in Nat /\ due[t] \in Nat
    BY FiniteSets DEF SetsFinite, Types, Databases
  <2>7. CASE /\ db'.counts[t] = db.counts[t] + 1
             /\ w \in Counting(t) /\ Counting(t)' = Counting(t) \ {w}
    <3>1. Cardinality(Counting(t)') = Cardinality(Counting(t)) - 1
      BY <2>6, <2>7, FS_RemoveElement
    <3> QED BY <2>3, <2>4, <2>6, <2>7, <3>1
  <2>8. CASE db'.counts[t] = db.counts[t] /\ Counting(t)' = Counting(t)
    BY <2>3, <2>4, <2>8
  <2> QED BY <1>2, <2>5, <2>7, <2>8, IssueCounts
<1>3. ASSUME NEW w \in Workers, NEW n \in Nodes, Purge(w, n) PROVE NothingTwice'
  BY <1>3 DEF Purge, NothingTwice, Purging, Types
<1>4. ASSUME NEW w \in Workers, Reset(w) PROVE NothingTwice'
  <2>1. /\ pc[w] = "purge" /\ todo[w] = <<>> /\ UNCHANGED <<db, todo, mixed>>
        /\ pc' = [pc EXCEPT ![w] = "idle"] /\ due' = [t \in Tracks |-> 0]
    BY <1>4 DEF Reset
  <2>2. SUFFICES ASSUME ~mixed, NEW t \in Tracks
        PROVE  db.counts[t] + Cardinality(Counting(t)') + Cardinality(Finding(t)') <= due'[t]
    BY <2>1 DEF NothingTwice
  <2>3. db.counts[t] = 0 BY <1>4, <2>2, ResetErased DEF EmptyDB
  <2>4. \A v \in Workers : pc'[v] = "idle" /\ todo'[v] = <<>>
    BY <2>1, <2>2, PurgeAlone DEF Types, Steps
  <2>5. Counting(t)' = {} /\ Finding(t)' = {} BY <2>4, NoCommands DEF Counting, Finding
  <2> QED BY <2>1, <2>3, <2>5, FS_EmptySet
<1>5. ASSUME NEW n \in Nodes, Crash(n) PROVE NothingTwice'
  <2>1. /\ mark' = [mark EXCEPT ![n] = NoMark] /\ UNCHANGED <<db, due, mixed, overlapped, strayed>>
        /\ (cut => cut')
    BY <1>5 DEF Crash
  <2>2. ASSUME ~cut'
        PROVE  \A v \in Workers :
                 /\ pc'[v] = pc[v] /\ node'[v] = node[v] /\ snap'[v] = snap[v]
                 /\ todo'[v] = todo[v] /\ (pc[v] # "idle" => node[v] # n)
    BY <1>5, <2>2, CrashTypes
  <2>3. SUFFICES ASSUME ~cut', ~mixed, ~overlapped, ~strayed, ~Purging', NEW t \in Tracks
        PROVE  db.counts[t] + Cardinality(Counting(t)') + Cardinality(Finding(t)') <= due[t]
    BY <2>1 DEF NothingTwice
  <2>4. db.counts[t] + Cardinality(Counting(t)) + Cardinality(Finding(t)) <= due[t]
    BY <2>1, <2>2, <2>3 DEF NothingTwice, Purging
  <2>5. Counting(t)' = Counting(t) BY <2>2, <2>3 DEF Counting
  <2>6. ASSUME NEW m \in Finding(t)' PROVE m \in Finding(t)
    <3>1. PICK v \in Workers :
                 /\ pc'[v] = "compare" /\ node'[v] = m /\ snap'[v].on /\ snap'[v].track = t
                 /\ IsNewPlay(t, mark'[m].track, snap'[v].start, mark'[m].start)
      BY DEF Finding
    <3>2. pc[v] = "compare" /\ node[v] = m /\ snap'[v] = snap[v] /\ m # n /\ m \in Nodes
      BY <2>2, <2>3, <3>1 DEF Steps
    <3>3. mark'[m] = mark[m] BY <2>1, <3>2 DEF Types
    <3> QED BY <3>1, <3>2, <3>3 DEF Finding
  <2>7. /\ IsFiniteSet(Finding(t)) /\ IsFiniteSet(Finding(t)')
        /\ Cardinality(Finding(t)) \in Nat /\ Cardinality(Finding(t)') \in Nat
        /\ Cardinality(Counting(t)) \in Nat /\ db.counts[t] \in Nat /\ due[t] \in Nat
    BY FiniteSets, FiniteThen DEF SetsFinite, Types, Databases
  <2>8. Cardinality(Finding(t)') <= Cardinality(Finding(t)) BY <2>6, <2>7, Sizes
  <2> QED BY <2>4, <2>5, <2>7, <2>8
<1> QED BY <1>1, <1>2, <1>3, <1>4, <1>5, TwiceSync, TwiceCompare DEF Next

-----------------------------------------------------------------------------
(* Sums.  A property of finite sets that fails somewhere fails at a set such  *)
(* that it holds of every smaller one: that is the induction used here.      *)

LEMMA Smallest ==
  ASSUME NEW S, IsFiniteSet(S), NEW C, C \subseteq SUBSET S, C # {}
  PROVE  \E T \in C : \A U \in C : U \subseteq T => U = T
<1>1. IsWellFoundedOn(StrictSubsetOrdering(S), FiniteSubsetsOf(S))
  BY FS_StrictSubsetOrderingWellFounded
<1>2. C \subseteq FiniteSubsetsOf(S)
  BY FS_FiniteSubsetsOfFinite
<1>3. PICK T \in C : \A U \in C : <<U, T>> \notin StrictSubsetOrdering(S)
  <2> HIDE DEF FiniteSubsetsOf, StrictSubsetOrdering
  <2> QED BY <1>1, <1>2, WFMin
<1> QED BY <1>3 DEF StrictSubsetOrdering

\* The element that a fold takes from s first.
First(s) == CHOOSE x \in s : TRUE

\* One step of the fold that sums f, and the functions that satisfy it.
Plus(f, g, s) == IF s = {} THEN 0 ELSE f[First(s)] + g[s \ {First(s)}]

Sums(f, S) == CHOOSE g : g = [s \in SUBSET S |-> Plus(f, g, s)]

LEMMA FirstIn == \A s : s # {} => First(s) \in s
BY DEF First

LEMMA SumIsFold ==
  ASSUME NEW f, NEW S
  PROVE  SumFunctionOnSet(f, S) = Sums(f, S)[S]
BY DEF SumFunctionOnSet, FoldFunctionOnSet, MapThenFoldSet, Sums, Plus, First

IsSum(f, g, S) == \A s \in SUBSET S : g[s] = Plus(f, g, s)

LEMMA SumsAgree ==
  ASSUME NEW S, IsFiniteSet(S), NEW f, NEW g, NEW h, IsSum(f, g, S), IsSum(f, h, S)
  PROVE  \A s \in SUBSET S : g[s] = h[s]
<1> USE DEF IsSum
<1> DEFINE C == {s \in SUBSET S : g[s] # h[s]}
<1>1. SUFFICES ASSUME C # {} PROVE FALSE
  OBVIOUS
<1>2. PICK s \in C : \A u \in C : u \subseteq s => u = s
  <2> HIDE DEF C
  <2>1. C \subseteq SUBSET S
    BY DEF C
  <2> QED BY <1>1, <2>1, Smallest
<1>3. s # {}
  BY <1>2 DEF Plus
<1>4. s \ {First(s)} \notin C /\ s \ {First(s)} \in SUBSET S
  BY <1>2, <1>3, FirstIn
<1> QED BY <1>2, <1>3, <1>4 DEF Plus

LEMMA SumsExist ==
  ASSUME NEW S, IsFiniteSet(S), NEW f
  PROVE  Sums(f, S) = [s \in SUBSET S |-> Plus(f, Sums(f, S), s)]
<1> DEFINE Exists(T) == \E g : g = [s \in SUBSET T |-> Plus(f, g, s)]
           C == {T \in SUBSET S : ~Exists(T)}
<1>1. SUFFICES ASSUME C # {} PROVE FALSE
  <2>1. C = {} => Exists(S)
    OBVIOUS
  <2> QED BY <2>1 DEF Sums
<1>2. PICK T \in C : \A U \in C : U \subseteq T => U = T
  <2> HIDE DEF C
  <2>1. C \subseteq SUBSET S
    BY DEF C
  <2> QED BY <1>1, <2>1, Smallest
<1>3. \A U \in SUBSET T : /\ IsFiniteSet(U)
                          /\ U # T => Sums(f, U) = [s \in SUBSET U |-> Plus(f, Sums(f, U), s)]
  <2>1. TAKE U \in SUBSET T
  <2>2. IsFiniteSet(U)
    BY <1>2, FS_Subset
  <2>3. U # T => Exists(U)
    BY <1>2
  <2> QED BY <2>2, <2>3 DEF Sums
\* The sums over the smaller sets, each from a function of its own.
<1> DEFINE v == [u \in SUBSET T |-> Sums(f, u)[u]]
           h == [s \in SUBSET T |-> Plus(f, v, s)]
<1>4. \A u \in SUBSET T : u # T => v[u] = Plus(f, v, u)
  <2>1. TAKE u \in SUBSET T
  <2>2. CASE u = {}
    BY <2>2, <1>3 DEF Plus
  <2>3. ASSUME u # {}, u # T PROVE v[u] = Plus(f, v, u)
    <3> DEFINE w == u \ {First(u)}
    <3>1. w \in SUBSET u /\ w # T /\ w \in SUBSET T /\ w \in SUBSET w /\ u \in SUBSET u
      BY <2>3, FirstIn
    <3>2. IsSum(f, Sums(f, u), u)
      BY <1>3, <2>3 DEF IsSum
    <3>3. IsSum(f, Sums(f, u), w) /\ IsSum(f, Sums(f, w), w)
      BY <1>3, <3>1, <3>2 DEF IsSum
    <3>4. Sums(f, u)[w] = Sums(f, w)[w]
      <4>1. IsFiniteSet(w) /\ w \in SUBSET w
        BY <1>3, <3>1
      <4> HIDE DEF w
      <4> QED BY <3>3, <4>1, SumsAgree
    <3>5. v[u] = Plus(f, Sums(f, u), u)
      BY <3>2 DEF IsSum
    <3> QED BY <3>4, <3>5, <3>1, <2>3 DEF Plus
  <2> QED BY <2>2, <2>3
<1>5. h = [s \in SUBSET T |-> Plus(f, h, s)]
  <2>1. \A s \in SUBSET T : Plus(f, v, s) = Plus(f, h, s)
    <3>1. TAKE s \in SUBSET T
    <3>2. s # {} => s \ {First(s)} \in SUBSET T /\ s \ {First(s)} # T
      BY FirstIn
    <3>3. s # {} => h[s \ {First(s)}] = v[s \ {First(s)}]
      BY <3>2, <1>4
    <3> QED BY <3>3 DEF Plus
  <2> QED BY <2>1
<1>6. Exists(T)
  <2> HIDE DEF h
  <2> QED BY <1>5
<1> QED BY <1>2, <1>6

\* A sum begins with the element that the fold takes first.
LEMMA SumUnfolds ==
  ASSUME NEW S, IsFiniteSet(S), NEW f
  PROVE  /\ SumFunctionOnSet(f, {}) = 0
         /\ S # {} => SumFunctionOnSet(f, S) =
                        f[First(S)] + SumFunctionOnSet(f, S \ {First(S)})
<1>1. \A T : IsFiniteSet(T) =>
        Sums(f, T) = [s \in SUBSET T |-> Plus(f, Sums(f, T), s)]
  BY SumsExist
<1>2. SumFunctionOnSet(f, {}) = 0
  <2>1. Sums(f, {})[{}] = Plus(f, Sums(f, {}), {})
    BY <1>1, FS_EmptySet
  <2> QED BY <2>1, SumIsFold DEF Plus
<1>3. ASSUME S # {}
      PROVE  SumFunctionOnSet(f, S) = f[First(S)] + SumFunctionOnSet(f, S \ {First(S)})
  <2> DEFINE T == S \ {First(S)}
  <2>1. IsFiniteSet(T) /\ SUBSET T \subseteq SUBSET S
    BY FS_RemoveElement
  <2>2. \A s \in SUBSET T : Sums(f, S)[s] = Sums(f, T)[s]
    <3>1. IsSum(f, Sums(f, S), T) /\ IsSum(f, Sums(f, T), T)
      BY <1>1, <2>1 DEF IsSum
    <3> QED BY <2>1, <3>1, SumsAgree
  <2>3. Sums(f, S)[S] = f[First(S)] + Sums(f, S)[T]
    BY <1>1, <1>3 DEF Plus
  <2> QED BY <2>2, <2>3, SumIsFold
<1> QED BY <1>2, <1>3

\* A sum does not depend on the order, and is a natural number.
LEMMA SumTakes ==
  ASSUME NEW S, IsFiniteSet(S), NEW f, \A t \in S : f[t] \in Nat
  PROVE  /\ SumFunctionOnSet(f, S) \in Nat
         /\ \A t \in S : SumFunctionOnSet(f, S) = f[t] + SumFunctionOnSet(f, S \ {t})
<1> DEFINE Fine(T) == /\ SumFunctionOnSet(f, T) \in Nat
                      /\ \A t \in T : SumFunctionOnSet(f, T) =
                                        f[t] + SumFunctionOnSet(f, T \ {t})
           C == {T \in SUBSET S : ~Fine(T)}
<1>1. SUFFICES ASSUME C # {} PROVE FALSE
  OBVIOUS
<1>2. PICK T \in C : \A U \in C : U \subseteq T => U = T
  <2> HIDE DEF C
  <2>1. C \subseteq SUBSET S
    BY DEF C
  <2> QED BY <1>1, <2>1, Smallest
<1> DEFINE x == First(T)
<1>3. IsFiniteSet(T)
  BY <1>2, FS_Subset
<1>4. T # {}
  <2>1. SumFunctionOnSet(f, {}) = 0
    BY FS_EmptySet, SumUnfolds
  <2>2. Fine({})
    BY <2>1
  <2> HIDE DEF Fine
  <2> QED BY <1>2, <2>2
<1>5. \A U \in SUBSET T : U # T => Fine(U)
  BY <1>2
<1>6. x \in T /\ SumFunctionOnSet(f, T) = f[x] + SumFunctionOnSet(f, T \ {x})
  BY <1>3, <1>4, FirstIn, SumUnfolds
<1>7. SumFunctionOnSet(f, T) \in Nat
  <2>1. SumFunctionOnSet(f, T \ {x}) \in Nat
    BY <1>5, <1>6
  <2> QED BY <2>1, <1>6, <1>2
<1>8. ASSUME NEW t \in T
      PROVE  SumFunctionOnSet(f, T) = f[t] + SumFunctionOnSet(f, T \ {t})
  <2>1. CASE t = x
    BY <2>1, <1>6
  <2>2. ASSUME t # x PROVE SumFunctionOnSet(f, T) = f[t] + SumFunctionOnSet(f, T \ {t})
    <3> DEFINE R == (T \ {x}) \ {t}
    <3>1. (T \ {t}) \ {x} = R
      OBVIOUS
    <3>2. Fine(T \ {x}) /\ Fine(T \ {t}) /\ Fine(R)
      BY <1>5, <1>6
    <3>3. SumFunctionOnSet(f, T \ {x}) = f[t] + SumFunctionOnSet(f, R)
      BY <3>2, <2>2
    <3>4. SumFunctionOnSet(f, T \ {t}) = f[x] + SumFunctionOnSet(f, R)
      BY <3>2, <3>1, <2>2, <1>6
    <3>5. f[x] \in Nat /\ f[t] \in Nat /\ SumFunctionOnSet(f, R) \in Nat
      BY <3>2, <1>6, <1>2
    <3> HIDE DEF R, x
    <3> QED BY <3>3, <3>4, <3>5, <1>6
  <2> QED BY <2>1, <2>2
<1> QED BY <1>2, <1>7, <1>8

\* A sum depends on the values at its indices only.
LEMMA SumLocal ==
  ASSUME NEW S, IsFiniteSet(S), NEW f, NEW g,
         \A t \in S : f[t] \in Nat /\ g[t] = f[t]
  PROVE  SumFunctionOnSet(g, S) = SumFunctionOnSet(f, S)
<1> DEFINE C == {T \in SUBSET S : SumFunctionOnSet(g, T) # SumFunctionOnSet(f, T)}
<1>1. SUFFICES ASSUME C # {} PROVE FALSE
  OBVIOUS
<1>2. PICK T \in C : \A U \in C : U \subseteq T => U = T
  <2> HIDE DEF C
  <2>1. C \subseteq SUBSET S
    BY DEF C
  <2> QED BY <1>1, <2>1, Smallest
<1>3. IsFiniteSet(T)
  BY <1>2, FS_Subset
<1>4. T # {}
  BY <1>2, <1>3, SumUnfolds
<1>5. SumFunctionOnSet(g, T \ {First(T)}) = SumFunctionOnSet(f, T \ {First(T)})
  BY <1>2, <1>4, FirstIn
<1>6. g[First(T)] = f[First(T)]
  BY <1>2, <1>4, FirstIn
<1> QED BY <1>2, <1>3, <1>4, <1>5, <1>6, SumUnfolds

LEMMA SumOfZeros ==
  ASSUME NEW S, IsFiniteSet(S)
  PROVE  SumFunction([t \in S |-> 0]) = 0
<1> DEFINE f == [t \in S |-> 0]
           C == {T \in SUBSET S : SumFunctionOnSet(f, T) # 0}
<1>1. SUFFICES ASSUME C # {} PROVE FALSE
  BY DEF SumFunction
<1>2. PICK T \in C : \A U \in C : U \subseteq T => U = T
  <2> HIDE DEF C
  <2>1. C \subseteq SUBSET S
    BY DEF C
  <2> QED BY <1>1, <2>1, Smallest
<1>3. IsFiniteSet(T)
  BY <1>2, FS_Subset
<1>4. T # {}
  BY <1>2, <1>3, SumUnfolds
<1>5. SumFunctionOnSet(f, T \ {First(T)}) = 0 /\ f[First(T)] = 0
  BY <1>2, <1>4, FirstIn
<1>6. SumFunctionOnSet(f, T) = f[First(T)] + SumFunctionOnSet(f, T \ {First(T)})
  BY <1>3, <1>4, SumUnfolds
<1> QED BY <1>2, <1>5, <1>6

\* One more at one index is one more in the sum.
LEMMA SumGrows ==
  ASSUME NEW S, IsFiniteSet(S), NEW f \in [S -> Nat], NEW t \in S
  PROVE  /\ SumFunction(f) \in Nat
         /\ SumFunction([f EXCEPT ![t] = @ + 1]) = SumFunction(f) + 1
<1> DEFINE g == [f EXCEPT ![t] = @ + 1]
<1>1. DOMAIN f = S /\ DOMAIN g = S /\ g[t] = f[t] + 1 /\ f[t] \in Nat
      /\ \A u \in S : g[u] \in Nat /\ f[u] \in Nat /\ (u # t => g[u] = f[u])
  OBVIOUS
<1>2. SumFunction(f) = SumFunctionOnSet(f, S) /\ SumFunction(g) = SumFunctionOnSet(g, S)
  BY <1>1 DEF SumFunction
<1>3. IsFiniteSet(S \ {t})
  BY FS_RemoveElement
<1> HIDE DEF g
<1>4. SumFunctionOnSet(g, S \ {t}) = SumFunctionOnSet(f, S \ {t})
  BY <1>1, <1>3, SumLocal
<1>5. SumFunctionOnSet(f, S \ {t}) \in Nat
  BY <1>1, <1>3, SumTakes
<1>6. /\ SumFunctionOnSet(f, S) = f[t] + SumFunctionOnSet(f, S \ {t})
      /\ SumFunctionOnSet(g, S) = g[t] + SumFunctionOnSet(g, S \ {t})
  BY <1>1, SumTakes
<1>7. SumFunctionOnSet(g, S) = SumFunctionOnSet(f, S) + 1 /\ SumFunctionOnSet(f, S) \in Nat
  BY <1>1, <1>4, <1>5, <1>6
<1> QED BY <1>2, <1>7 DEF g

-----------------------------------------------------------------------------
(* The list, the counters and the details. *)

\* What follows in a recorder's commands.
LEMMA RecordingOrder ==
  ASSUME NEW q, Recording(q)
  PROVE  /\ Named(q, "LPushTrack") => Named(q, "HIncrCount")
         /\ Named(q, "HIncrCount") => Named(q, "HSetMeta")
         /\ Named(q, "HSetMeta") => Named(q, "IncrToday")
         /\ \A t : Has(q, Cmd("HIncrCount", t)) => Has(q, Cmd("HSetMeta", t))
<1>1. Named(q, "LPushTrack") => Named(q, "HIncrCount")
  <2>1. ASSUME NEW i \in DOMAIN q, q[i].name = "LPushTrack"
        PROVE  \E j \in DOMAIN q : q[j].name = "HIncrCount"
    <3>1. i + 1 \in DOMAIN q /\ q[i + 1].name = "LTrimTrack"
      BY <2>1 DEF Recording
    <3> QED BY <3>1 DEF Recording
  <2> QED BY <2>1 DEF Named
<1>2. Named(q, "HIncrCount") => Named(q, "HSetMeta")
  BY Names DEF Named, Recording
<1>3. Named(q, "HSetMeta") => Named(q, "IncrToday")
  BY DEF Named, Recording
<1>4. \A t : Has(q, Cmd("HIncrCount", t)) => Has(q, Cmd("HSetMeta", t))
  <2>1. ASSUME NEW t, NEW i \in DOMAIN q, q[i] = Cmd("HIncrCount", t)
        PROVE  \E j \in DOMAIN q : q[j] = Cmd("HSetMeta", t)
    <3>1. q[i].name = "HIncrCount" /\ q[i].arg = t
      BY <2>1, Names
    <3> QED BY <3>1 DEF Recording
  <2> QED BY <2>1 DEF Has
<1> QED BY <1>1, <1>2, <1>3, <1>4

LEMMA NamedHas == \A q, name : Named(q, name) <=> \E c : Has(q, c) /\ c.name = name
BY DEF Named, Has

\* How a command moves the goroutine that issues it in and out of Late.
LEMMA IssueLate ==
  ASSUME Types, Steps, NEW w \in Workers, Issue(w), pc[w] = "run",
         NEW name \in {"HIncrCount", "LPushTrack"}
  PROVE  /\ Head(todo[w]).name = name =>
              w \notin Late(name) /\ Late(name)' = Late(name) \cup {w}
         /\ Head(todo[w]).name = "IncrToday" =>
              w \in Late(name) /\ Late(name)' = Late(name) \ {w}
         /\ Head(todo[w]).name \notin {name, "IncrToday"} => Late(name)' = Late(name)
<1>1. PICK c : c = Head(todo[w]) OBVIOUS
<1>2. /\ todo[w] # <<>> /\ todo'[w] = Tail(todo[w])
      /\ \A v \in Workers : v # w => todo'[v] = todo[v]
  BY DEF Issue, Types
<1>3. /\ Recording(todo[w]) /\ Recording(todo'[w])
      /\ \A d : Has(todo[w], d) <=> d = c \/ Has(todo'[w], d)
      /\ \A d : Has(todo'[w], d) => d.name # c.name
  BY <1>1, <1>2, Issuing DEF Steps
<1>4. /\ \A n : Named(todo[w], n) <=> c.name = n \/ Named(todo'[w], n)
      /\ ~Named(todo'[w], c.name)
  BY <1>3, NamedHas
<1>5. /\ Named(todo[w], name) => Named(todo[w], "IncrToday")
      /\ Named(todo'[w], name) => Named(todo'[w], "IncrToday")
  BY <1>3, RecordingOrder
<1>6. CASE c.name = name
  <2>1. w \notin Late(name) BY <1>4, <1>6 DEF Late
  <2>2. Named(todo'[w], "IncrToday") /\ ~Named(todo'[w], name) BY <1>4, <1>5, <1>6
  <2>3. Late(name)' = Late(name) \cup {w} BY <1>2, <2>1, <2>2 DEF Late
  <2> QED BY <1>1, <1>6, <2>1, <2>3
<1>7. CASE c.name = "IncrToday"
  <2>1. Named(todo[w], "IncrToday") /\ ~Named(todo'[w], "IncrToday") BY <1>4, <1>7
  <2>2. ~Named(todo[w], name) BY <1>4, <1>5, <1>7, <2>1
  <2>3. w \in Late(name) /\ Late(name)' = Late(name) \ {w} BY <1>2, <2>1, <2>2 DEF Late
  <2> QED BY <1>1, <1>7, <2>3
<1>8. CASE c.name \notin {name, "IncrToday"}
  <2>1. /\ Named(todo'[w], "IncrToday") <=> Named(todo[w], "IncrToday")
        /\ Named(todo'[w], name) <=> Named(todo[w], name)
    BY <1>4, <1>8
  <2>2. Late(name)' = Late(name) BY <1>2, <2>1 DEF Late
  <2> QED BY <1>1, <1>8, <2>2
<1> QED BY <1>6, <1>7, <1>8

\* What a command does to the track list, the counters and the details.
LEMMA ExecPlays ==
  ASSUME db \in Databases, NEW c \in Commands, NEW e, e = Exec(c)
  PROVE  /\ e.today = IF c.name = "IncrToday" THEN db.today + 1 ELSE db.today
         /\ c.name = "LPushTrack" => Len(e.tracks) = Len(db.tracks) + 1
         /\ c.name = "LTrimTrack" =>
              Len(e.tracks) = IF HistoryCap < Len(db.tracks) THEN HistoryCap ELSE Len(db.tracks)
         /\ c.name \notin {"LPushTrack", "LTrimTrack"} => e.tracks = db.tracks
         /\ e.meta = IF c.name = "HSetMeta" THEN db.meta \cup {c.arg} ELSE db.meta
         /\ IF c.name = "HIncrCount"
              THEN c.arg \in Tracks /\ e.counts = [db.counts EXCEPT ![c.arg] = @ + 1]
              ELSE e.counts = db.counts
<1>1. /\ db \in [statuses : Seq(Statuses), tracks : Seq(Tracks), seen : BOOLEAN, today : Nat,
                 counts : [Tracks -> Nat], meta : SUBSET Tracks]
      /\ db.tracks \in Seq(Tracks)
  BY DEF Databases
<1>2. CASE c \in {Cmd("SetSeen", None), Cmd("LTrimStatus", None)}
  <2>1. \/ c.name = "SetSeen" /\ e = [db EXCEPT !.seen = TRUE]
        \/ c.name = "LTrimStatus" /\ e = [db EXCEPT !.statuses = Keep(db.statuses, HistoryCap)]
    BY <1>2, Names DEF Exec
  <2> QED BY <1>1, <2>1
<1>3. CASE c = Cmd("LTrimTrack", None)
  <2>1. c.name = "LTrimTrack" /\ e = [db EXCEPT !.tracks = Keep(db.tracks, HistoryCap)]
    BY <1>3, Names DEF Exec
  <2>2. Len(Keep(db.tracks, HistoryCap)) =
          IF HistoryCap < Len(db.tracks) THEN HistoryCap ELSE Len(db.tracks)
    BY <1>1, HistoryAssumption, LenProperties, SubSeqProperties DEF Keep
  <2> QED BY <1>1, <2>1, <2>2
<1>4. CASE c = Cmd("IncrToday", None)
  <2>1. c.name = "IncrToday" /\ e = [db EXCEPT !.today = db.today + 1]
    BY <1>4, Names DEF Exec
  <2> QED BY <1>1, <2>1
<1>5. CASE \E s \in Statuses : c = Cmd("LPushStatus", s)
  <2>1. c.name = "LPushStatus" /\ e = [db EXCEPT !.statuses = <<c.arg>> \o db.statuses]
    BY <1>5, Names DEF Exec
  <2> QED BY <1>1, <2>1
<1>6. CASE \E t \in Tracks : c = Cmd("LPushTrack", t)
  <2>0. PICK t \in Tracks : c = Cmd("LPushTrack", t) BY <1>6
  <2>1. Exec(c) = [db EXCEPT !.tracks = <<t>> \o db.tracks] BY <2>0, Names DEF Exec
  <2>2. PICK l : l = <<t>> \o db.tracks OBVIOUS
  <2>3. Len(l) = Len(db.tracks) + 1 BY <1>1, <2>2, Push
  <2>4. c.name = "LPushTrack" BY <2>0, Names
  <2>5. e = [db EXCEPT !.tracks = l] BY <2>1, <2>2
  <2> QED BY <1>1, <2>3, <2>4, <2>5
<1>7. CASE \E t \in Tracks : c = Cmd("HIncrCount", t)
  <2>0. PICK t \in Tracks : c = Cmd("HIncrCount", t) BY <1>7
  <2>1. c.name = "HIncrCount" /\ c.arg = t BY <2>0, Names
  <2>2. e = [db EXCEPT !.counts[t] = @ + 1] BY <2>1 DEF Exec
  <2> QED BY <1>1, <2>1, <2>2
<1>8. CASE \E t \in Tracks : c = Cmd("HSetMeta", t)
  <2>0. PICK t \in Tracks : c = Cmd("HSetMeta", t) BY <1>8
  <2>1. c.name = "HSetMeta" /\ c.arg = t BY <2>0, Names
  <2>2. e = [db EXCEPT !.meta = @ \cup {t}] BY <2>1 DEF Exec
  <2> QED BY <1>1, <2>1, <2>2
<1> QED BY <1>2, <1>3, <1>4, <1>5, <1>6, <1>7, <1>8, CommandKinds

LEMMA LateSets ==
  \A name : IsFiniteSet(Late(name)) /\ Cardinality(Late(name)) \in Nat
<1> TAKE name
<1>1. Late(name) \in SUBSET Workers BY DEF Late
<1> QED BY <1>1, HistoryAssumption, FS_Subset, FS_CardinalityType

\* Before anything is recorded, and after a purge, there is nothing to agree.
Blank == db = EmptyDB /\ \A w \in Workers : todo[w] = <<>>

LEMMA BlankTallied == Blank => Tallied
<1> SUFFICES ASSUME db = EmptyDB, \A w \in Workers : todo[w] = <<>> PROVE Tallied
  BY DEF Blank
<1>1. \A w \in Workers : /\ \A c : ~Has(todo[w], c)
                         /\ \A name : ~Named(todo[w], name)
  BY DEF Has, Named
<1>2. \A name : Cardinality(Late(name)) = 0
  <2> TAKE name
  <2>1. Late(name) = {} BY <1>1 DEF Late
  <2> QED BY <2>1, FS_EmptySet
<1>3. /\ db.counts = [t \in Tracks |-> 0] /\ db.meta = {} /\ db.today = 0
      /\ Len(db.tracks) = 0
  BY EmptySeq DEF EmptyDB
<1>4. SumFunction(db.counts) = 0
  BY <1>3, HistoryAssumption, SumOfZeros
<1> QED BY <1>1, <1>2, <1>3, <1>4 DEF Tallied

LEMMA BlankThen == Blank' => Tallied'
BY BlankTallied, PTL

\* The three parts of a step that issues a command.
LEMMA IssueDetails ==
  ASSUME Types, Steps, NEW w \in Workers, Issue(w), pc[w] = "run",
         ~mixed, ~cut, ~Purging, Tallied, NEW t \in Tracks
  PROVE  /\ t \in db'.meta => db'.counts[t] > 0
         /\ db'.counts[t] > 0 =>
              t \in db'.meta \/ \E v \in Workers : Has(todo'[v], Cmd("HSetMeta", t))
         /\ \A v \in Workers : Has(todo'[v], Cmd("HSetMeta", t)) =>
              Has(todo'[v], Cmd("HIncrCount", t)) \/ db'.counts[t] > 0
<1>1. PICK c : c = Head(todo[w]) OBVIOUS
<1>2. /\ todo[w] # <<>> /\ todo'[w] = Tail(todo[w]) /\ db' = Exec(c)
      /\ \A v \in Workers : v # w => todo'[v] = todo[v]
  BY <1>1 DEF Issue, Types
<1>3. /\ c \in Commands /\ Recording(todo[w]) /\ Recording(todo'[w])
      /\ \A d : Has(todo[w], d) <=> d = c \/ Has(todo'[w], d)
      /\ \A d : Has(todo'[w], d) => d.name # c.name
  BY <1>1, <1>2, Issuing DEF Steps
<1>4. /\ t \in db.meta => db.counts[t] > 0
      /\ db.counts[t] > 0 =>
           t \in db.meta \/ \E v \in Workers : Has(todo[v], Cmd("HSetMeta", t))
      /\ \A v \in Workers : Has(todo[v], Cmd("HSetMeta", t)) =>
           Has(todo[v], Cmd("HIncrCount", t)) \/ db.counts[t] > 0
  BY DEF Tallied
<1>5. /\ db'.meta = IF c.name = "HSetMeta" THEN db.meta \cup {c.arg} ELSE db.meta
      /\ db'.counts[t] = db.counts[t] + IF c = Cmd("HIncrCount", t) THEN 1 ELSE 0
      /\ db.counts[t] \in Nat
  <2>1. db \in Databases /\ db.counts[t] \in Nat BY DEF Types, Databases
  <2>2. db'.counts[t] = db.counts[t] + IF c = Cmd("HIncrCount", t) THEN 1 ELSE 0
    BY <1>2, <1>3, <2>1, ExecCommand
  <2>3. db'.meta = IF c.name = "HSetMeta" THEN db.meta \cup {c.arg} ELSE db.meta
    BY <1>2, <1>3, <2>1, ExecPlays
  <2> QED BY <2>1, <2>2, <2>3
<1>6. /\ Has(todo[w], Cmd("HIncrCount", t)) => Has(todo[w], Cmd("HSetMeta", t))
      /\ Has(todo'[w], Cmd("HIncrCount", t)) => Has(todo'[w], Cmd("HSetMeta", t))
  BY <1>3, RecordingOrder
<1>7. c.name = "HSetMeta" => c = Cmd("HSetMeta", c.arg)
  BY <1>3, CommandKinds, Names
<1>8. /\ Cmd("HSetMeta", t).name = "HSetMeta" /\ Cmd("HIncrCount", t).name = "HIncrCount"
      /\ Cmd("HSetMeta", t) # Cmd("HIncrCount", t)
  BY Names
<1>9. t \in db'.meta => db'.counts[t] > 0
  <2>1. CASE t \in db.meta BY <1>4, <1>5, <2>1
  <2>2. CASE t \notin db.meta /\ t \in db'.meta
    <3>1. c = Cmd("HSetMeta", t) BY <1>5, <1>7, <2>2
    <3>2. ~Has(todo'[w], Cmd("HIncrCount", t)) BY <1>3, <1>6, <1>8, <3>1
    <3>3. db.counts[t] > 0 BY <1>3, <1>4, <1>8, <3>1, <3>2
    <3> QED BY <1>5, <3>3
  <2> QED BY <2>1, <2>2
<1>10. ASSUME db'.counts[t] > 0
       PROVE  t \in db'.meta \/ \E v \in Workers : Has(todo'[v], Cmd("HSetMeta", t))
  <2>1. CASE c = Cmd("HIncrCount", t)
    <3>1. Has(todo'[w], Cmd("HSetMeta", t)) BY <1>3, <1>6, <1>8, <2>1
    <3> QED BY <3>1
  <2>2. CASE c = Cmd("HSetMeta", t)
    BY <1>5, <2>2, Names
  <2>3. CASE c # Cmd("HIncrCount", t) /\ c # Cmd("HSetMeta", t)
    <3>1. db.counts[t] > 0 BY <1>5, <1>10, <2>3
    <3>2. \A v \in Workers : Has(todo[v], Cmd("HSetMeta", t)) => Has(todo'[v], Cmd("HSetMeta", t))
      BY <1>2, <1>3, <2>3
    <3> QED BY <1>4, <1>5, <3>1, <3>2
  <2> QED BY <2>1, <2>2, <2>3
<1>11. ASSUME NEW v \in Workers, Has(todo'[v], Cmd("HSetMeta", t))
       PROVE  Has(todo'[v], Cmd("HIncrCount", t)) \/ db'.counts[t] > 0
  <2>1. Has(todo[v], Cmd("HSetMeta", t)) BY <1>2, <1>3, <1>11
  <2>2. Has(todo[v], Cmd("HIncrCount", t)) =>
          Has(todo'[v], Cmd("HIncrCount", t)) \/ c = Cmd("HIncrCount", t)
    BY <1>2, <1>3
  <2> QED BY <1>4, <1>5, <2>1, <2>2
<1> QED BY <1>9, <1>10, <1>11

LEMMA IssueSum ==
  ASSUME Types, Steps, NEW w \in Workers, Issue(w), pc[w] = "run",
         ~mixed, ~cut, ~Purging, Tallied
  PROVE  SumFunction(db'.counts) = db'.today + Cardinality(Late("HIncrCount")')
<1>1. PICK c : c = Head(todo[w]) OBVIOUS
<1>2. c \in Commands /\ db' = Exec(c) BY <1>1, Issuing DEF Issue
<1>3. /\ db'.today = IF c.name = "IncrToday" THEN db.today + 1 ELSE db.today
      /\ IF c.name = "HIncrCount"
           THEN c.arg \in Tracks /\ db'.counts = [db.counts EXCEPT ![c.arg] = @ + 1]
           ELSE db'.counts = db.counts
  BY <1>2, ExecPlays DEF Types
<1>4. SumFunction(db.counts) = db.today + Cardinality(Late("HIncrCount"))
  BY DEF Tallied
<1>5. /\ db.today \in Nat /\ IsFiniteSet(Late("HIncrCount"))
      /\ Cardinality(Late("HIncrCount")) \in Nat /\ db.counts \in [Tracks -> Nat]
  BY LateSets DEF Types, Databases
<1>6. CASE c.name = "HIncrCount"
  <2>1. PICK t \in Tracks : db'.counts = [db.counts EXCEPT ![t] = @ + 1] BY <1>3, <1>6
  <2>2. SumFunction(db'.counts) = SumFunction(db.counts) + 1
    BY <1>5, <2>1, HistoryAssumption, SumGrows
  <2>3. w \notin Late("HIncrCount") /\ Late("HIncrCount")' = Late("HIncrCount") \cup {w}
    BY <1>1, <1>6, IssueLate
  <2>4. Cardinality(Late("HIncrCount")') = Cardinality(Late("HIncrCount")) + 1
    BY <1>5, <2>3, FS_AddElement
  <2> QED BY <1>3, <1>4, <1>5, <1>6, <2>2, <2>4
<1>7. CASE c.name = "IncrToday"
  <2>1. w \in Late("HIncrCount") /\ Late("HIncrCount")' = Late("HIncrCount") \ {w}
    BY <1>1, <1>7, IssueLate
  <2>2. Cardinality(Late("HIncrCount")') = Cardinality(Late("HIncrCount")) - 1
    BY <1>5, <2>1, FS_RemoveElement
  <2> QED BY <1>3, <1>4, <1>5, <1>7, <2>2
<1>8. CASE c.name \notin {"HIncrCount", "IncrToday"}
  <2>1. Late("HIncrCount")' = Late("HIncrCount") BY <1>1, <1>8, IssueLate
  <2> QED BY <1>3, <1>4, <1>8, <2>1
<1> QED BY <1>6, <1>7, <1>8

LEMMA IssueList ==
  ASSUME Types, Steps, NEW w \in Workers, Issue(w), pc[w] = "run",
         ~mixed, ~cut, ~Purging, Tallied, NEW pushed,
         pushed = db'.today + Cardinality(Late("LPushTrack")')
  PROVE  /\ Len(db'.tracks) <= pushed
         /\ Len(db'.tracks) >= pushed \/ Len(db'.tracks) >= HistoryCap
<1>1. PICK c : c = Head(todo[w]) OBVIOUS
<1>2. c \in Commands /\ db' = Exec(c) BY <1>1, Issuing DEF Issue
<1>3. /\ db'.today = IF c.name = "IncrToday" THEN db.today + 1 ELSE db.today
      /\ c.name = "LPushTrack" => Len(db'.tracks) = Len(db.tracks) + 1
      /\ c.name = "LTrimTrack" =>
           Len(db'.tracks) = IF HistoryCap < Len(db.tracks) THEN HistoryCap ELSE Len(db.tracks)
      /\ c.name \notin {"LPushTrack", "LTrimTrack"} => db'.tracks = db.tracks
  BY <1>2, ExecPlays DEF Types
<1>4. PICK before : before = db.today + Cardinality(Late("LPushTrack")) OBVIOUS
<1>5. Len(db.tracks) <= before /\ (Len(db.tracks) >= before \/ Len(db.tracks) >= HistoryCap)
  BY <1>4 DEF Tallied
<1>6. /\ db.today \in Nat /\ IsFiniteSet(Late("LPushTrack"))
      /\ Cardinality(Late("LPushTrack")) \in Nat /\ Len(db.tracks) \in Nat /\ HistoryCap \in Nat
  BY LateSets, LenProperties, HistoryAssumption DEF Types, Databases
<1>7. CASE c.name = "LPushTrack"
  <2>1. w \notin Late("LPushTrack") /\ Late("LPushTrack")' = Late("LPushTrack") \cup {w}
    BY <1>1, <1>7, IssueLate
  <2>2. Cardinality(Late("LPushTrack")') = Cardinality(Late("LPushTrack")) + 1
    BY <1>6, <2>1, FS_AddElement
  <2> QED BY <1>3, <1>4, <1>5, <1>6, <1>7, <2>2
<1>8. CASE c.name = "IncrToday"
  <2>1. w \in Late("LPushTrack") /\ Late("LPushTrack")' = Late("LPushTrack") \ {w}
    BY <1>1, <1>8, IssueLate
  <2>2. Cardinality(Late("LPushTrack")') = Cardinality(Late("LPushTrack")) - 1
    BY <1>6, <2>1, FS_RemoveElement
  <2> QED BY <1>3, <1>4, <1>5, <1>6, <1>8, <2>2
<1>9. CASE c.name \notin {"LPushTrack", "IncrToday"}
  <2>1. Late("LPushTrack")' = Late("LPushTrack") BY <1>1, <1>9, IssueLate
  <2> QED BY <1>3, <1>4, <1>5, <1>6, <1>9, <2>1
<1> QED BY <1>7, <1>8, <1>9

LEMMA TalliedStep ==
  ASSUME Types, Steps, Alone, Erased, Tallied, [Next]_vars
  PROVE  Tallied'
\* Nothing that Tallied speaks of changes.
<1>1. ASSUME db' = db, Purging' = Purging, mixed => mixed', cut => cut',
             \A v \in Workers : todo'[v] = todo[v] \/ cut' \/ mixed'
      PROVE  Tallied'
  <2>1. SUFFICES ASSUME ~mixed', ~cut', ~Purging', todo = [v \in Workers |-> todo'[v]]
        PROVE  Tallied'
    BY <1>1 DEF Tallied, Types
  <2>2. \A name : Late(name)' = Late(name) BY <1>1, <2>1 DEF Late
  <2>3. \A v \in Workers : todo'[v] = todo[v] BY <1>1, <2>1
  <2> QED BY <1>1, <2>1, <2>2, <2>3 DEF Tallied
<1>2. CASE UNCHANGED vars
  BY <1>1, <1>2 DEF vars, goroutines, ghosts, Purging
<1>3. ASSUME NEW w \in Workers, Compare(w) PROVE Tallied'
  <2>1. /\ pc' = [pc EXCEPT ![w] = "run"] /\ pc[w] = "compare" /\ UNCHANGED <<db, ghosts>>
    BY <1>3 DEF Compare
  <2>2. /\ \A v \in Workers : v # w => todo'[v] = todo[v]
        /\ todo[w] = <<>>
        /\ \A x : Has(todo'[w], Cmd("HSetMeta", x)) => Has(todo'[w], Cmd("HIncrCount", x))
        /\ Named(todo'[w], "IncrToday") =>
             Named(todo'[w], "HIncrCount") /\ Named(todo'[w], "LPushTrack")
    BY <1>3, <2>1, Comparing DEF Steps
  <2>3. SUFFICES ASSUME ~mixed, ~cut, ~Purging PROVE Tallied'
    <3>1. Purging' = Purging BY <2>1 DEF Purging, Types
    <3> QED BY <2>1, <3>1 DEF Tallied, ghosts
  <2>4. \A name \in {"HIncrCount", "LPushTrack"} : Late(name)' = Late(name)
    <3>1. ~Named(todo[w], "IncrToday") BY <2>2 DEF Named
    <3> QED BY <2>2, <3>1 DEF Late
  <2>5. \A c : ~Has(todo[w], c) BY <2>2, NoCommands
  <2>6. ASSUME NEW t \in Tracks
        PROVE  /\ t \in db.meta => db.counts[t] > 0
               /\ db.counts[t] > 0 =>
                    t \in db.meta \/ \E v \in Workers : Has(todo'[v], Cmd("HSetMeta", t))
               /\ \A v \in Workers : Has(todo'[v], Cmd("HSetMeta", t)) =>
                    Has(todo'[v], Cmd("HIncrCount", t)) \/ db.counts[t] > 0
    <3>1. /\ t \in db.meta => db.counts[t] > 0
          /\ db.counts[t] > 0 =>
               t \in db.meta \/ \E v \in Workers : Has(todo[v], Cmd("HSetMeta", t))
          /\ \A v \in Workers : Has(todo[v], Cmd("HSetMeta", t)) =>
               Has(todo[v], Cmd("HIncrCount", t)) \/ db.counts[t] > 0
      BY <2>3 DEF Tallied
    <3> QED BY <2>2, <2>5, <3>1
  <2>7. db' = db BY <2>1
  <2> QED BY <2>3, <2>4, <2>6, <2>7 DEF Tallied
<1>4. ASSUME NEW w \in Workers, Issue(w) PROVE Tallied'
  <2>1. /\ pc[w] \in {"run", "purge"} /\ (pc[w] = "purge" => pc'[w] = "purge")
        /\ UNCHANGED ghosts
        /\ \A v \in Workers : v # w => pc'[v] = pc[v]
        /\ pc'[w] \in {"idle", pc[w]}
    BY <1>4, Issuing DEF Issue, Types
  <2>2. SUFFICES ASSUME ~mixed, ~cut, ~Purging PROVE Tallied'
    BY <2>1 DEF Tallied, Purging, ghosts
  <2>3. pc[w] = "run" BY <2>1, <2>2 DEF Purging
  <2>4. \A t \in Tracks :
          /\ t \in db'.meta => db'.counts[t] > 0
          /\ db'.counts[t] > 0 =>
               t \in db'.meta \/ \E v \in Workers : Has(todo'[v], Cmd("HSetMeta", t))
          /\ \A v \in Workers : Has(todo'[v], Cmd("HSetMeta", t)) =>
               Has(todo'[v], Cmd("HIncrCount", t)) \/ db'.counts[t] > 0
    BY <1>4, <2>2, <2>3, IssueDetails
  <2>5. SumFunction(db'.counts) = db'.today + Cardinality(Late("HIncrCount")')
    BY <1>4, <2>2, <2>3, IssueSum
  <2>6. PICK pushed : pushed = db'.today + Cardinality(Late("LPushTrack")') OBVIOUS
  <2>7. /\ Len(db'.tracks) <= pushed
        /\ Len(db'.tracks) >= pushed \/ Len(db'.tracks) >= HistoryCap
    BY <1>4, <2>2, <2>3, <2>6, IssueList
  <2> QED BY <2>4, <2>5, <2>6, <2>7 DEF Tallied
<1>5. ASSUME NEW w \in Workers, NEW n \in Nodes, Sync(w, n) PROVE Tallied'
  <2>1. /\ pc[w] = "idle" /\ pc' = [pc EXCEPT ![w] = "compare"] /\ UNCHANGED <<db, todo, cut>>
        /\ mixed => mixed'
    BY <1>5 DEF Sync
  <2>2. Purging' = Purging BY <2>1 DEF Purging, Types
  <2> QED BY <1>1, <2>1, <2>2
<1>6. ASSUME NEW w \in Workers, NEW n \in Nodes, Purge(w, n) PROVE Tallied'
  BY <1>6 DEF Purge, Tallied, Purging, Types
<1>7. ASSUME NEW w \in Workers, Reset(w) PROVE Tallied'
  <2>1. /\ pc[w] = "purge" /\ todo[w] = <<>> /\ UNCHANGED <<db, todo, mixed>>
        /\ pc' = [pc EXCEPT ![w] = "idle"]
    BY <1>7 DEF Reset
  <2>2. SUFFICES ASSUME ~mixed PROVE Tallied'
    BY <2>1 DEF Tallied
  <2>3. db' = EmptyDB BY <1>7, <2>1, <2>2, ResetErased
  <2>4. \A v \in Workers : todo'[v] = <<>>
    BY <2>1, <2>2, PurgeAlone DEF Types, Steps
  <2>5. Blank' BY <2>3, <2>4 DEF Blank, EmptyDB
  <2> QED BY <2>5, BlankThen
<1>8. ASSUME NEW n \in Nodes, Crash(n) PROVE Tallied'
  <2>1. UNCHANGED <<db, mixed>> /\ (cut => cut') BY <1>8 DEF Crash
  <2>2. ASSUME ~cut'
        PROVE  \A v \in Workers : pc'[v] = pc[v] /\ todo'[v] = todo[v]
    BY <1>8, <2>2, CrashTypes
  <2>3. CASE cut' BY <2>3 DEF Tallied
  <2>4. CASE ~cut'
    <3>1. Purging' = Purging BY <2>2, <2>4 DEF Purging
    <3> QED BY <1>1, <2>1, <2>2, <2>4, <3>1
  <2> QED BY <2>3, <2>4
<1> QED BY <1>2, <1>3, <1>4, <1>5, <1>6, <1>7, <1>8 DEF Next

-----------------------------------------------------------------------------
(* The theorems. *)

LEMMA InvariantHolds == Spec => []Invariant
<1>1. Init => Invariant
  <2>1. Init => Alone BY DEF Init, Alone, Active
  <2>2. Init => Erased BY DEF Init, Erased
  <2>3. Init => Settled BY DEF Init, Settled, Nothing
  <2>4. Init => Tallied BY BlankTallied DEF Init, Blank
  <2>5. Init => Punctual BY DEF Init, Punctual, OnTime, Nothing
  <2> QED BY <2>1, <2>2, <2>3, <2>4, <2>5, TypesInit, BoundedInit, NewestInit, ToldInit, LostInit,
             TwiceInit DEF Invariant
<1>2. Invariant /\ [Next]_vars => Invariant'
  <2> SUFFICES ASSUME Invariant, [Next]_vars PROVE Invariant' OBVIOUS
  <2>1. /\ Types /\ Steps /\ ListsBounded /\ Alone /\ Erased /\ Newest
        /\ Punctual /\ Told /\ NothingLost /\ Settled /\ NothingTwice /\ Tallied
    BY DEF Invariant
  <2>2. Types' /\ Steps' BY <2>1, TypesStep
  <2>3. ListsBounded' BY <2>1, BoundedStep
  <2>4. Alone' BY <2>1, AloneStep
  <2>5. Erased' BY <2>1, ErasedStep
  <2>6. Newest' BY <2>1, NewestStep
  <2>7. Told' BY <2>1, ToldStep
  <2>8. NothingLost' BY <2>1, LostStep
  <2>9. Settled' BY <2>1, SettledStep
  <2>10. NothingTwice' BY <2>1, TwiceStep
  <2>11. Tallied' BY <2>1, TalliedStep
  <2>12. Punctual' BY <2>1, PunctualStep
  <2> QED BY <2>2, <2>3, <2>4, <2>5, <2>6, <2>7, <2>8, <2>9, <2>10, <2>11, <2>12
      DEF Invariant
<1> QED BY <1>1, <1>2, PTL DEF Spec

\* While no goroutine is active nothing is about to be counted or found.
LEMMA AllIdle ==
  ASSUME Steps, Types, Active = {}, NEW t \in Tracks
  PROVE  /\ \A w \in Workers : todo[w] = <<>>
         /\ ~Purging
         /\ Cardinality(Counting(t)) = 0 /\ Cardinality(Owed(t)) = 0
         /\ Cardinality(Finding(t)) = 0
<1>1. \A w \in Workers : pc[w] = "idle" BY DEF Active
<1>2. \A w \in Workers : todo[w] = <<>> BY <1>1 DEF Steps
<1>3. Counting(t) = {} /\ Owed(t) = {} /\ Finding(t) = {}
  BY <1>1, <1>2, NoCommands DEF Counting, Owed, Holds, Finding
<1> QED BY <1>1, <1>2, <1>3, FS_EmptySet DEF Purging

\* Until a crash cuts a goroutine short, which may leave a pushed event that
\* nobody trims, a list exceeds its cap by no more than the goroutines between
\* the LPUSH and the LTRIM of recordHistory, however many record at once.
THEOREM ListsStayBounded == Spec => []ListsBounded
<1>1. Invariant => ListsBounded BY DEF Invariant
<1> QED BY <1>1, InvariantHolds, PTL

\* No play is missed, although the snapshots of recordHistory overlap and reach
\* its comparison in another order: as long as the reports give every song a
\* start of its own, a quiet history counts every song each node was told of.
THEOREM NoPlayIsMissed == Spec => []NoPlayMissed
<1>1. Invariant => NoPlayMissed
  <2> SUFFICES ASSUME Invariant, Active = {}, ~mixed, ~cut, ~blind, ~strayed, NEW t \in Tracks
               PROVE  db.counts[t] >= due[t]
    BY DEF NoPlayMissed
  <2>1. due[t] <= db.counts[t] + Cardinality(Counting(t)) + Cardinality(Owed(t))
    BY AllIdle DEF Invariant, NothingLost
  <2>2. due[t] \in Nat /\ db.counts[t] \in Nat BY DEF Invariant, Types, Databases
  <2>3. Cardinality(Counting(t)) = 0 /\ Cardinality(Owed(t)) = 0 BY AllIdle DEF Invariant
  <2> QED BY <2>1, <2>2, <2>3
<1> QED BY <1>1, InvariantHolds, PTL

\* Many jittered reports of one song are one play (isNewPlay and the markers):
\* without an overlap on one node no node counts a song twice, also when some
\* reports do not say when it started, as long as the starts that they do give
\* are Gap from each other at most.  A start that moves further is another play.
THEOREM NoPlayIsInflated == Spec => []NoPlayInflated
<1>1. Invariant => NoPlayInflated
  <2> SUFFICES ASSUME Invariant, Active = {}, ~mixed, ~cut, ~overlapped, ~strayed, NEW t \in Tracks
               PROVE  db.counts[t] <= due[t]
    BY DEF NoPlayInflated
  <2>1. db.counts[t] + Cardinality(Counting(t)) + Cardinality(Finding(t)) <= due[t]
    BY AllIdle DEF Invariant, NothingTwice
  <2>2. due[t] \in Nat /\ db.counts[t] \in Nat BY DEF Invariant, Types, Databases
  <2>3. Cardinality(Counting(t)) = 0 /\ Cardinality(Finding(t)) = 0 BY AllIdle DEF Invariant
  <2> QED BY <2>1, <2>2, <2>3
<1> QED BY <1>1, InvariantHolds, PTL

\* The newest status event, which Stats falls back on, is the status that all
\* nodes have recorded last.
THEOREM NewestStatusIsRight == Spec => []NewestStatusIsCurrent
<1>1. Invariant => NewestStatusIsCurrent
  <2> SUFFICES ASSUME Invariant, Active = {}, ~mixed, ~cut, ~overlapped,
                      \A n \in Nodes : mark[n].status = world.status
               PROVE  db.statuses # <<>> /\ Head(db.statuses) = world.status
    BY DEF NewestStatusIsCurrent
  <2>1. \A w \in Workers : pc[w] = "idle" /\ todo[w] = <<>>
    BY DEF Invariant, Active, Steps
  <2>2. world.status # None BY HistoryAssumption DEF Invariant, Types
  <2>3. /\ \A w \in Workers : \A s : ~Has(todo[w], Cmd("LPushStatus", s))
        /\ ~Purging
    BY <2>1, NoCommands DEF Purging
  <2> QED BY <2>2, <2>3 DEF Invariant, Newest
<1> QED BY <1>1, InvariantHolds, PTL

\* When nothing is under way, the details are those of the tracks that were
\* counted, tracks_today is the sum of the counters, and the list as long as
\* that, up to its cap, however the recorders have overlapped.
THEOREM StatisticsAlwaysAgree == Spec => []StatisticsAgree
<1>1. Invariant => StatisticsAgree
  <2> SUFFICES ASSUME Invariant, Active = {}, ~mixed, ~cut
               PROVE  /\ db.meta = {t \in Tracks : db.counts[t] > 0}
                      /\ db.today = SumFunction(db.counts)
                      /\ Len(db.tracks) = IF db.today < HistoryCap THEN db.today ELSE HistoryCap
    BY DEF StatisticsAgree
  <2>1. \A w \in Workers : pc[w] = "idle" /\ todo[w] = <<>>
    BY DEF Invariant, Active, Steps
  <2>2. /\ \A w \in Workers : \A c : ~Has(todo[w], c)
        /\ \A w \in Workers : \A name : ~Named(todo[w], name)
        /\ ~Purging
    BY <2>1 DEF Has, Named, Purging
  <2>3. \A name : Cardinality(Late(name)) = 0
    <3> TAKE name
    <3>1. Late(name) = {} BY <2>2 DEF Late
    <3> QED BY <3>1, FS_EmptySet
  <2>4. db.today \in Nat /\ Len(db.tracks) \in Nat /\ HistoryCap \in Nat /\ db.meta \subseteq Tracks
    BY LenProperties, HistoryAssumption DEF Invariant, Types, Databases
  <2>5. \A t \in Tracks : t \in db.meta <=> db.counts[t] > 0
    BY <2>2 DEF Invariant, Tallied
  <2>6. SumFunction(db.counts) = db.today
    BY <2>2, <2>3, <2>4 DEF Invariant, Tallied
  <2>7. Len(db.tracks) <= db.today /\ (Len(db.tracks) >= db.today \/ Len(db.tracks) >= HistoryCap)
    BY <2>2, <2>3, <2>4 DEF Invariant, Tallied
  <2>8. Len(db.tracks) <= HistoryCap
    <3>1. Untrimmed("LTrimTrack") = {} BY <2>1 DEF Untrimmed
    <3>2. Cardinality(Untrimmed("LTrimTrack")) = 0 BY <3>1, FS_EmptySet
    <3>3. Len(db.tracks) <= HistoryCap + Cardinality(Untrimmed("LTrimTrack"))
      BY DEF Invariant, ListsBounded
    <3> QED BY <2>4, <3>2, <3>3
  <2> QED BY <2>4, <2>5, <2>6, <2>7, <2>8
<1> QED BY <1>1, InvariantHolds, PTL

\* A purge that no recorder overlaps leaves no key behind, and its node's
\* object without a marker (PurgeHistory).
THEOREM PurgesErase == Spec => PurgeErases
<1>1. Invariant /\ [Next]_vars =>
        [\A w \in Workers :
           (pc[w] = "purge" /\ pc'[w] = "idle" /\ ~mixed /\ ~cut')
             => db' = EmptyDB /\ \E n \in Nodes : node[w] = n /\ mark'[n] = NoMark]_vars
  BY EraseStep DEF Invariant
<1> QED BY <1>1, InvariantHolds, PTL DEF Spec, PurgeErases

=============================================================================

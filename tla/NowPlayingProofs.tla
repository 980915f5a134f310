--------------------------- MODULE NowPlayingProofs ---------------------------
(***************************************************************************)
(* The properties of NowPlaying, for every value of the constants: any      *)
(* tracks, sources and length of the songs, any expiry, and any jitter that *)
(* isNewPlay tolerates.                                                     *)
(*                                                                          *)
(* The argument about plays gives every song s a stretch of time: from      *)
(* S[s], when it began, to E[s], when it would have begun had it run        *)
(* without a pause to where it was cut off. Timeline says that a stretch is *)
(* no longer than its song stood still, and that those of two songs are     *)
(* apart, unless the later one began early; Carriers that every report and  *)
(* activity has a start inside the stretch of its song, but for the songs   *)
(* of which a report gave another; Marks and Last that the markers hold     *)
(* such a start too, of a song that was recorded, and of the last one that  *)
(* was counted. Then the comparison of two starts with    *)
(* Gap tells one song from two.                                             *)
(***************************************************************************)
EXTENDS NowPlaying, TLAPS

LEMMA MinOfTwo ==
  ASSUME NEW a \in Int, NEW b \in Int
  PROVE  Min({a, b}) = IF a <= b THEN a ELSE b
<1> DEFINE m == IF a <= b THEN a ELSE b
<1>1. m \in {a, b} /\ \A y \in {a, b} : m <= y OBVIOUS
<1>2. \A x \in {a, b} : (\A y \in {a, b} : x <= y) => x = m OBVIOUS
<1> HIDE DEF m
<1>3. (CHOOSE x \in {a, b} : \A y \in {a, b} : x <= y) = m
  BY <1>1, <1>2
<1> QED BY <1>3 DEF Min, m

LEMMA MaxOfTwo ==
  ASSUME NEW a \in Int, NEW b \in Int
  PROVE  Max({a, b}) = IF a <= b THEN b ELSE a
<1> DEFINE m == IF a <= b THEN b ELSE a
<1>1. m \in {a, b} /\ \A y \in {a, b} : m >= y OBVIOUS
<1>2. \A x \in {a, b} : (\A y \in {a, b} : x >= y) => x = m OBVIOUS
<1> HIDE DEF m
<1>3. (CHOOSE x \in {a, b} : \A y \in {a, b} : x >= y) = m
  BY <1>1, <1>2
<1> QED BY <1>3 DEF Max, m

\* The last and the first of at most two activities.
LEMMA OfTwo ==
  ASSUME NEW n \in 0..2, NEW is \in SUBSET (1..n), is # {}
  PROVE  Min(is) \in is /\ Max(is) \in is
<1>1. is = {1} \/ is = {2} \/ is = {1, 2}
  BY 1..n \subseteq {1, 2}
<1>2. Min({1, 1}) = 1 /\ Max({1, 1}) = 1 /\ Min({2, 2}) = 2 /\ Max({2, 2}) = 2
      /\ Min({1, 2}) = 1 /\ Max({1, 2}) = 2
  BY MinOfTwo, MaxOfTwo
<1>3. {1, 1} = {1} /\ {2, 2} = {2} OBVIOUS
<1> QED BY <1>1, <1>2, <1>3

-----------------------------------------------------------------------------
(* What is shown. *)

\* The track, the times and the song of m and n are the same.
SameMusic(m, n) == m.track = n.track /\ m.times = n.times /\ m.song = n.song

LEMMA ShownFromActivities ==
  ASSUME NEW n \in 0..2, NEW acts, DOMAIN acts = 1..n
  PROVE  /\ \/ Spotify(acts) = NoMusic
            \/ /\ Spotify(acts).source = "spotify"
               /\ \E i \in 1..n : Spotify(acts) = Music("spotify", acts[i])
         /\ \/ Ytm(acts) = NoMusic
            \/ \E i \in 1..n : Ytm(acts) = Music("youtube_music", acts[i])
<1>1. \A kind : Of(acts, kind) \in SUBSET (1..n) BY DEF Of
<1>2. Of(acts, "spotify") # {} => Max(Of(acts, "spotify")) \in 1..n BY <1>1, OfTwo
<1>3. Of(acts, "ytm") # {} => Min(Of(acts, "ytm")) \in 1..n BY <1>1, OfTwo
<1> QED BY <1>2, <1>3 DEF Spotify, Ytm, Music

\* NowPlaying is nothing, the report, or one of the activities.
LEMMA ShownFrom ==
  ASSUME NEW n \in 0..2, NEW acts, DOMAIN acts = 1..n, NEW em
  PROVE  LET np == Pretty(acts, em).nowPlaying IN
         SameMusic(np, NoMusic) \/ SameMusic(np, em) \/ \E i \in 1..n : SameMusic(np, acts[i])
<1> DEFINE sp == Spotify(acts)
           yt == Ytm(acts)
<1>1. SameMusic(sp, NoMusic) \/ \E i \in 1..n : SameMusic(sp, acts[i])
  <2>1. CASE sp = NoMusic BY <2>1 DEF SameMusic
  <2>2. ASSUME NEW i \in 1..n, sp = Music("spotify", acts[i]) PROVE SameMusic(sp, acts[i])
    BY <2>2 DEF SameMusic, Music
  <2> QED BY <2>1, <2>2, ShownFromActivities
<1>2. SameMusic(yt, NoMusic) \/ \E i \in 1..n : SameMusic(yt, acts[i])
  <2>1. CASE yt = NoMusic BY <2>1 DEF SameMusic
  <2>2. ASSUME NEW i \in 1..n, yt = Music("youtube_music", acts[i]) PROVE SameMusic(yt, acts[i])
    BY <2>2 DEF SameMusic, Music
  <2> QED BY <2>1, <2>2, ShownFromActivities
<1>3. SameMusic(Music("youtube_music", em), em) BY DEF SameMusic, Music
<1> HIDE DEF sp, yt
<1>4. FromDiscord(acts).nowPlaying = IF sp # NoMusic THEN sp ELSE yt
  BY DEF FromDiscord, BuildNowPlaying, sp, yt
<1>5. CASE Live(em) /\ FromDiscord(acts).spotify = NoMusic
  <2> DEFINE m == Music("youtube_music", em)
  <2>1. Pretty(acts, em) = Overlay(FromDiscord(acts), em)
    BY <1>5 DEF Pretty, MergeExternalMusic
  <2>2. Overlay(FromDiscord(acts), em).nowPlaying = [m EXCEPT !.source = em.source]
    BY <1>5 DEF Overlay, FromDiscord, BuildNowPlaying
  <2>3. SameMusic([m EXCEPT !.source = em.source], m) BY DEF Music, SameMusic
  <2> QED BY <1>3, <2>1, <2>2, <2>3 DEF SameMusic
<1>6. CASE ~(Live(em) /\ FromDiscord(acts).spotify = NoMusic)
  BY <1>1, <1>2, <1>4, <1>6 DEF Pretty, MergeExternalMusic
<1> QED BY <1>5, <1>6

\* What is shown is the music of the field it stems from, and only a report can
\* bear the name of Spotify without it.
LEMMA ShownSource ==
  ASSUME NEW n \in 0..2, NEW acts, DOMAIN acts = 1..n, NEW em
  PROVE  LET p == Pretty(acts, em)
             np == p.nowPlaying IN
         /\ np = IF p.spotify # NoMusic THEN p.spotify ELSE [p.ytm EXCEPT !.source = np.source]
         /\ np.source = "spotify" => p.spotify # NoMusic \/ em.source = "spotify"
<1> DEFINE sp == Spotify(acts)
           yt == Ytm(acts)
           p == Pretty(acts, em)
           m == Music("youtube_music", em)
<1>1. yt = [yt EXCEPT !.source = yt.source] /\ yt.source # "spotify"
  <2>1. CASE yt = NoMusic BY <2>1 DEF NoMusic
  <2>2. ASSUME NEW i \in 1..n, yt = Music("youtube_music", acts[i])
        PROVE  yt = [yt EXCEPT !.source = yt.source] /\ yt.source # "spotify"
    BY <2>2 DEF Music
  <2> QED BY <2>1, <2>2, ShownFromActivities
<1> HIDE DEF sp, yt
<1>2. FromDiscord(acts) = [spotify |-> sp, ytm |-> yt, nowPlaying |-> IF sp # NoMusic THEN sp ELSE yt]
  BY DEF FromDiscord, BuildNowPlaying, sp, yt
<1>3. CASE Live(em) /\ sp = NoMusic
  <2>1. p = Overlay(FromDiscord(acts), em)
    BY <1>2, <1>3 DEF Pretty, MergeExternalMusic
  <2> HIDE DEF m
  <2>2. [m EXCEPT !.source = em.source].source = em.source BY DEF Music, m
  <2>3. Overlay(FromDiscord(acts), em)
          = [spotify |-> sp, ytm |-> m, nowPlaying |-> [m EXCEPT !.source = em.source]]
    <3>1. BuildNowPlaying(sp, m) = m /\ FromDiscord(acts).spotify = sp
      BY <1>2, <1>3 DEF BuildNowPlaying
    <3>2. Overlay(FromDiscord(acts), em)
            = [FromDiscord(acts) EXCEPT
                 !.ytm = m,
                 !.nowPlaying = [BuildNowPlaying(FromDiscord(acts).spotify, m)
                                   EXCEPT !.source = em.source]]
      BY DEF Overlay, m
    <3> QED BY <1>2, <3>1, <3>2
  <2>4. PICK x : x = [m EXCEPT !.source = em.source] OBVIOUS
  <2>5. p = [spotify |-> sp, ytm |-> m, nowPlaying |-> x]
    BY <2>1, <2>3, <2>4
  <2>6. p.spotify = NoMusic /\ p.ytm = m /\ p.nowPlaying = x
    BY <1>3, <2>5
  <2>7. x.source = em.source BY <2>2, <2>4
  <2> QED BY <2>4, <2>6, <2>7
<1>4. CASE ~(Live(em) /\ sp = NoMusic)
  <2>1. p = [spotify |-> sp, ytm |-> yt, nowPlaying |-> IF sp # NoMusic THEN sp ELSE yt]
    BY <1>2, <1>4 DEF Pretty, MergeExternalMusic
  <2> QED BY <1>1, <2>1
<1> QED BY <1>3, <1>4

-----------------------------------------------------------------------------
(* When the songs were played. *)

Clock == now \in Nat /\ now > Length /\ position \in 0..Length

\* The types of the player's state.
Types ==
  /\ Clock
  /\ tracks \in Seq(Tracks)
  /\ drift \in [Songs -> 0..(Gap + 1)] /\ counted \in [Songs -> 0..2]
  /\ sighted \subseteq Songs /\ astray \subseteq Songs

\* S gives when each song began and E when it would have begun had it run without
\* a pause to where the next one cut it off: every start that anyone derives from
\* what the player sent lies between the two, but for the jitter.
Latest(E, s) == IF s = Song THEN now - position ELSE E[s]

Within(S, E, s, a) == a \in Int /\ a > 0 /\ S[s] - Jitter <= a /\ a <= Latest(E, s)

Timeline(S, E) ==
  \A s \in Songs :
    /\ S[s] <= Latest(E, s)
    /\ drift[s] <= Gap => Latest(E, s) <= S[s] + drift[s]
    /\ \A r \in 1..(s - 1) :
         E[r] <= S[s] /\ (s \notin early => S[s] - E[r] > Gap + Jitter)

\* m is a song of the player with a start it may have, or any if it is among A, or
\* what Spotify plays.
Sound(S, E, A, m) ==
  /\ m.song \in 0..Song
  /\ m.song = 0 => m.track \in {None, SpotifyTrack}
  /\ m.song # 0 => /\ m.track = tracks[m.song]
                   /\ \/ m.times = NoTimes \/ m.song \in A
                      \/ Within(S, E, m.song, m.times.start)

Carriers(S, E, A) ==
  /\ Sound(S, E, A, report)
  /\ \E n \in 0..2 : DOMAIN discord = 1..n /\ \A i \in 1..n : Sound(S, E, A, discord[i])

\* The marker has the start of a song that was recorded with it, or none ...
Marks(S, E, A) ==
  mark.track \in Tracks =>
    \/ mark.start = 0 /\ mark.track \in blind
    \/ \E r \in A : tracks[r] = mark.track
    \/ \E r \in Songs \cap sighted : tracks[r] = mark.track /\ Within(S, E, r, mark.start)

\* ... and it is that of the last song that was counted.
Last(S, E, A) ==
  \A s \in Songs : (counted[s] > 0 /\ s \notin displaced /\ s \notin A) =>
    mark.track = tracks[s] /\ (mark.start = 0 \/ Within(S, E, s, mark.start))

Story(S, E, A) == Timeline(S, E) /\ Carriers(S, E, A) /\ Marks(S, E, A) /\ Last(S, E, A)

Inv ==
  /\ Types /\ SongCountedOnce /\ EverySongCounted
  /\ \E S \in [Nat -> Int], E \in [Nat -> Int], A \in SUBSET Nat : A = astray /\ Story(S, E, A)

LEMMA Numbers ==
  ASSUME Types
  PROVE  /\ Gap \in Nat /\ Jitter \in 0..Gap /\ Length \in Nat \ {0} /\ TTL \in Nat \ {0}
         /\ Song \in Nat /\ now - position \in Int /\ now - position > 0
         /\ \A s \in Songs : /\ s \in Nat \ {0} /\ tracks[s] \in Tracks
                             /\ drift[s] \in 0..(Gap + 1) /\ counted[s] \in 0..2
<1>1. Gap \in Nat /\ Jitter \in 0..Gap /\ Length \in Nat \ {0} /\ TTL \in Nat \ {0}
  BY NowPlayingAssumption, PlaysAssumption
<1>2. Song \in Nat /\ now - position \in Int /\ now - position > 0
  BY <1>1 DEF Types, Clock, Song
<1>3. \A s \in Songs : s \in Nat \ {0} /\ tracks[s] \in Tracks
  BY <1>2 DEF Types, Songs, Song
<1> QED BY <1>1, <1>2, <1>3 DEF Types

\* Starts in a stretch no longer than Gap are no new play of a track.
LEMMA NearStarts ==
  ASSUME Gap \in Nat, NEW lo \in Int, NEW hi \in Int, hi - lo <= Gap,
         NEW a \in lo..hi, NEW b \in lo..hi, NEW t
  PROVE  ~IsNewPlay(t, t, a, b)
BY DEF IsNewPlay, Distance

LEMMA FarStarts ==
  ASSUME Gap \in Nat, NEW a \in Int, NEW b \in Int, a # 0, b # 0, a - b > Gap, NEW t, t # None
  PROVE  IsNewPlay(t, t, a, b) /\ IsNewPlay(t, t, b, a)
BY DEF IsNewPlay, Distance

\* Two starts of one song that has not stood still for long are one play ...
LEMMA SameSong ==
  ASSUME Types, NEW S \in [Nat -> Int], NEW E \in [Nat -> Int], Timeline(S, E), NEW s \in Songs,
         drift[s] + Jitter <= Gap, NEW a, NEW b, Within(S, E, s, a), Within(S, E, s, b), NEW t
  PROVE  ~IsNewPlay(t, t, a, b)
<1> DEFINE lo == S[s] - Jitter
           hi == Latest(E, s)
<1>1. /\ Gap \in Nat /\ Jitter \in 0..Gap /\ drift[s] \in 0..(Gap + 1) /\ S[s] \in Int /\ hi \in Int
  BY Numbers DEF Latest
<1>2. hi <= S[s] + drift[s] BY <1>1 DEF Timeline
<1>3. a \in Int /\ b \in Int /\ lo <= a /\ lo <= b /\ a <= hi /\ b <= hi BY DEF Within
<1> HIDE DEF hi
<1>4. lo \in Int /\ hi - lo <= Gap /\ a \in lo..hi /\ b \in lo..hi BY <1>1, <1>2, <1>3
<1> HIDE DEF lo
<1> QED BY <1>1, <1>4, NearStarts

\* ... and those of two songs are two, unless the later one began early.
LEMMA OtherSong ==
  ASSUME Types, NEW S \in [Nat -> Int], NEW E \in [Nat -> Int], Timeline(S, E),
         NEW r \in Songs, NEW s \in Songs, r # s, Later(r, s) \notin early,
         NEW a, NEW b, Within(S, E, r, a), Within(S, E, s, b), NEW t, t # None
  PROVE  IsNewPlay(t, t, b, a)
<1>1. Gap \in Nat /\ Jitter \in 0..Gap /\ r \in Nat /\ s \in Nat /\ Songs = 1..Song /\ Song \in Nat
  <2>1. Songs = 1..Song BY DEF Songs, Song
  <2> QED BY <2>1, Numbers
<1>2. ASSUME NEW p \in Songs, NEW q \in Songs, p < q, q \notin early, NEW c, NEW d,
             Within(S, E, p, c), Within(S, E, q, d)
      PROVE  c \in Int /\ d \in Int /\ c > 0 /\ d > 0 /\ d - c > Gap
  <2>1. p \in Nat /\ p # Song /\ p \in 1..(q - 1) BY <1>1, <1>2
  <2>2. S[q] - E[p] > Gap + Jitter BY <1>2, <2>1 DEF Timeline
  <2>3. c <= E[p] BY <1>2, <2>1 DEF Within, Latest
  <2>4. d >= S[q] - Jitter BY <1>2 DEF Within
  <2>5. c \in Int /\ d \in Int /\ c > 0 /\ d > 0 /\ S[q] \in Int /\ E[p] \in Int
    BY <1>1, <1>2, <2>1 DEF Within
  <2>6. \A g \in Int, j \in Int, x \in Int, y \in Int, c1 \in Int, d1 \in Int :
          (x - y > g + j /\ c1 <= y /\ d1 >= x - j) => d1 - c1 > g
    OBVIOUS
  <2>7. Gap \in Int /\ Jitter \in Int BY <1>1
  <2>8. d - c > Gap BY <2>2, <2>3, <2>4, <2>5, <2>6, <2>7
  <2> QED BY <2>5, <2>8
<1>3. CASE r < s
  <2>1. a \in Int /\ b \in Int /\ a > 0 /\ b > 0 /\ b - a > Gap BY <1>2, <1>3 DEF Later
  <2> QED BY <1>1, <2>1, FarStarts
<1>4. CASE s < r
  <2>1. a \in Int /\ b \in Int /\ a > 0 /\ b > 0 /\ a - b > Gap BY <1>1, <1>2, <1>4 DEF Later
  <2> QED BY <1>1, <2>1, FarStarts
<1> QED BY <1>1, <1>3, <1>4

\* recordHistory of what is shown keeps the markers, and the two properties.
LEMMA RecordStep ==
  ASSUME Types, NEW S \in [Nat -> Int], NEW E \in [Nat -> Int], Timeline(S, E),
         NEW A, A = astray', astray \subseteq A, Marks(S, E, A), Last(S, E, A),
         SongCountedOnce, EverySongCounted,
         NEW np, Sound(S, E, A, np), Record(np), UNCHANGED world
  PROVE  /\ counted' \in [Songs -> 0..2] /\ sighted' \subseteq Songs
         /\ Marks(S, E, A)' /\ Last(S, E, A)' /\ SongCountedOnce' /\ EverySongCounted'
<1> DEFINE s0 == np.song
           new == IsNewPlay(np.track, mark.track, np.times.start, mark.start)
<1>1. UNCHANGED <<now, position, tracks, early, drift, Songs, Song>>
  BY DEF world, Songs, Song
<1>2. \A s, a : Within(S, E, s, a)' <=> Within(S, E, s, a)
  BY <1>1 DEF Within, Latest
<1>3. CASE np.track = None
  <2>1. UNCHANGED <<mark, counted, sighted, blind, displaced>>
    BY <1>3 DEF Record, plays
  <2> QED BY <1>1, <1>2, <2>1 DEF Types, Marks, Last, SongCountedOnce, Uninterrupted, EverySongCounted
<1>4. CASE np.track # None
  <2>1. /\ mark' = [track |-> np.track, start |-> np.times.start]
        /\ sighted' = IF np.times = NoTimes THEN sighted ELSE sighted \cup ({s0} \ {0})
        /\ blind' = IF np.times = NoTimes THEN blind \cup {np.track} ELSE blind
        /\ displaced' = displaced \cup {s \in Songs : s # s0 /\ counted[s] > 0}
    BY <1>4 DEF Record
  <2>2. /\ counted' \in [Songs -> 0..2]
        /\ \A s \in Songs : /\ (new /\ s = s0) => counted'[s] > counted[s] \/ counted'[s] = 2
                            /\ ~(new /\ s = s0) => counted'[s] = counted[s]
                            /\ counted'[s] >= counted[s] /\ counted'[s] <= counted[s] + 1
    <3>1. counted' = [s \in Songs |-> IF new /\ s = s0 THEN Min({counted[s] + 1, 2}) ELSE counted[s]]
      BY <1>4 DEF Record
    <3>2. \A s \in Songs : counted[s] \in 0..2 BY Numbers
    <3>3. \A s \in Songs : Min({counted[s] + 1, 2}) = IF counted[s] + 1 <= 2 THEN counted[s] + 1 ELSE 2
      <4> TAKE s \in Songs
      <4>1. counted[s] + 1 \in Int /\ 2 \in Int BY <3>2
      <4> QED BY <4>1, MinOfTwo
    <3> HIDE DEF new
    <3>4. \A c \in 0..2 : LET d == IF c + 1 <= 2 THEN c + 1 ELSE 2 IN
            d \in 0..2 /\ d >= c /\ d <= c + 1 /\ (d > c \/ d = 2)
      OBVIOUS
    <3>5. \A s \in Songs : counted'[s] = IF new /\ s = s0 THEN IF counted[s] + 1 <= 2 THEN counted[s] + 1 ELSE 2
                                        ELSE counted[s]
      BY <3>1, <3>3
    <3>6. \A s \in Songs : counted'[s] \in 0..2 BY <3>2, <3>4, <3>5
    <3>7. counted' \in [Songs -> 0..2] BY <3>1, <3>6
    <3> QED BY <3>2, <3>4, <3>5, <3>7
  <2>3. s0 \in 0..Song /\ Song \in Nat /\ Songs = 1..Song /\ (s0 # 0 => s0 \in Songs)
    <3>1. Songs = 1..Song BY DEF Songs, Song
    <3>2. Song \in Nat BY Numbers
    <3>3. s0 \in 0..Song BY DEF Sound
    <3> QED BY <3>1, <3>2, <3>3
  <2>4. CASE s0 = 0
    <3>1. mark'.track = SpotifyTrack /\ SpotifyTrack \notin Tracks
      BY <1>4, <2>1, <2>4, NowPlayingAssumption DEF Sound
    <3>2. \A s \in Songs : counted'[s] = counted[s] BY <2>2, <2>3, <2>4
    <3>3. sighted' = sighted /\ blind \subseteq blind' /\ displaced \subseteq displaced'
          /\ \A s \in Songs : counted[s] > 0 => s \in displaced'
      BY <2>1, <2>3, <2>4
    <3>4. Marks(S, E, A)' BY <3>1 DEF Marks
    <3>5. Last(S, E, A)' BY <1>1, <3>2, <3>3 DEF Last
    <3>6. SongCountedOnce' BY <1>1, <3>2, <3>3 DEF SongCountedOnce, Uninterrupted
    <3>7. EverySongCounted' BY <1>1, <3>2, <3>3 DEF EverySongCounted, Later
    <3> QED BY <2>2, <3>3, <3>4, <3>5, <3>6, <3>7 DEF Types
  <2>5. CASE s0 # 0
    <3>1. /\ s0 \in Songs /\ np.track = tracks[s0] /\ np.track \in Tracks
          /\ np.times = NoTimes \/ s0 \in A \/ Within(S, E, s0, np.times.start)
          /\ NoTimes.start = 0
      BY <2>3, <2>5, Numbers DEF Sound, NoTimes
    <3>2. mark'.track = tracks[s0] /\ mark'.start = np.times.start BY <2>1, <3>1
    <3>3. Marks(S, E, A)'
      <4>1. CASE np.times = NoTimes BY <2>1, <3>1, <3>2, <4>1 DEF Marks
      <4>3. CASE s0 \in A BY <1>1, <3>1, <3>2, <4>3 DEF Marks
      <4>2. CASE np.times # NoTimes /\ s0 \notin A
        <5>1. s0 \in Songs' \cap sighted' BY <1>1, <2>1, <2>5, <3>1, <4>2
        <5> QED BY <1>1, <1>2, <3>1, <3>2, <4>2, <5>1 DEF Marks
      <4> QED BY <4>1, <4>2, <4>3
    <3>4. Last(S, E, A)'
      <4>1. ASSUME NEW s \in Songs, counted'[s] > 0, s \notin displaced' PROVE s = s0
        BY <2>1, <2>2, <4>1
      <4> QED BY <1>1, <1>2, <3>1, <3>2, <4>1 DEF Last
    <3>5. SongCountedOnce'
      <4> SUFFICES ASSUME NEW s \in Songs, drift[s] + Jitter <= Gap, s \notin displaced',
                          s \notin A
                   PROVE  counted'[s] <= 1
        BY <1>1 DEF SongCountedOnce, Uninterrupted
      <4>1. counted[s] <= 1 /\ s \notin displaced BY <2>1 DEF SongCountedOnce, Uninterrupted
      <4>2. counted[s] \in 0..2 /\ counted'[s] \in 0..2 BY <2>2, Numbers
      <4>3. CASE ~(new /\ s = s0) BY <2>2, <4>1, <4>3
      <4>4. CASE counted[s] = 0 BY <2>2, <4>2, <4>4
      <4>5. CASE new /\ s = s0 /\ counted[s] # 0
        <5>1. mark.track = tracks[s] /\ (mark.start = 0 \/ Within(S, E, s, mark.start))
          BY <4>1, <4>2, <4>5 DEF Last
        <5>2. np.times.start # 0 /\ mark.start # 0 BY <3>1, <4>5, <5>1 DEF IsNewPlay
        <5>3. Within(S, E, s, np.times.start) /\ Within(S, E, s, mark.start)
          BY <3>1, <4>5, <5>1, <5>2
        <5> QED BY <3>1, <4>5, <5>1, <5>3, SameSong
      <4> QED BY <4>3, <4>4, <4>5
    <3>6. EverySongCounted'
      <4> SUFFICES ASSUME NEW s \in Songs \cap sighted',
                          ~(counted'[s] >= 1 \/ tracks[s] \in blind'),
                          \A r \in A : tracks[r] # tracks[s],
                          \A r \in Songs \ {s} : ~(tracks[r] = tracks[s] /\ Later(r, s) \in early)
                   PROVE  FALSE
        BY <1>1 DEF EverySongCounted, Later
      <4>1. counted[s] \in 0..2 /\ counted'[s] \in 0..2 BY <2>2, Numbers
      <4>2. blind \subseteq blind' /\ counted[s] = 0 /\ counted'[s] = 0 BY <2>1, <2>2, <4>1
      <4>3. s \notin sighted
        <5>1. s \in sighted => counted[s] >= 1 \/ tracks[s] \in blind BY DEF EverySongCounted
        <5> QED BY <4>1, <4>2, <5>1
      <4>4. s = s0 /\ np.times # NoTimes BY <2>1, <4>3
      <4>5. ~new BY <2>2, <4>1, <4>2, <4>4
      <4>6. np.times.start # 0 /\ Within(S, E, s, np.times.start)
        <5>1. s \notin A OBVIOUS
        <5> QED BY <3>1, <4>4, <5>1 DEF Within
      <4>7. mark.track = tracks[s] BY <1>4, <3>1, <4>4, <4>5 DEF IsNewPlay
      <4>8. mark.track \in Tracks /\ mark.track \notin blind BY <3>1, <4>2, <4>4, <4>7
      <4>9. PICK r \in Songs \cap sighted : tracks[r] = mark.track /\ Within(S, E, r, mark.start)
        <5>1. ~\E r \in A : tracks[r] = mark.track BY <4>7
        <5> QED BY <4>8, <5>1 DEF Marks
      <4>10. r # s /\ Later(r, s) \notin early BY <4>3, <4>7, <4>9
      <4>11. IsNewPlay(np.track, np.track, np.times.start, mark.start)
        BY <1>4, <4>6, <4>9, <4>10, OtherSong
      <4> QED BY <3>1, <4>4, <4>5, <4>7, <4>11
    <3>7. sighted' \subseteq Songs BY <2>1, <3>1 DEF Types
    <3> QED BY <2>2, <3>3, <3>4, <3>5, <3>6, <3>7
  <2> QED BY <2>4, <2>5
<1> QED BY <1>3, <1>4

-----------------------------------------------------------------------------
(* What the player sends. *)

\* The position in a report, and the times of the song that it gives.
Cut(j) == IF position + j <= Length THEN position + j ELSE Length

Right(t) ==
  /\ t.start \in Int /\ t.start > 0 /\ t.end = t.start + Length
  /\ t.start >= now - Length /\ t.start <= now
  /\ t.start >= now - position - Jitter /\ t.start <= now - position

LEMMA CutPosition ==
  ASSUME Clock, NEW j \in 0..Jitter
  PROVE  /\ Min({position + j, Length}) = Cut(j) /\ Max({0, Cut(j)}) = Cut(j)
         /\ Right([start |-> now - Cut(j), end |-> now - Cut(j) + Length])
<1>1. /\ Length \in Nat \ {0} /\ Jitter \in Nat /\ position \in 0..Length
      /\ now \in Nat /\ now > Length /\ position + j \in Int /\ 0 \in Int
  BY NowPlayingAssumption, PlaysAssumption DEF Clock
<1>2. /\ Cut(j) \in Int /\ Cut(j) >= 0 /\ Cut(j) >= position
      /\ Cut(j) <= position + Jitter /\ Cut(j) <= Length
  BY <1>1 DEF Cut
<1>3. Min({position + j, Length}) = Cut(j) BY <1>1, MinOfTwo DEF Cut
<1>4. Max({0, Cut(j)}) = Cut(j) BY <1>1, <1>2, MaxOfTwo
<1>5. Right([start |-> now - Cut(j), end |-> now - Cut(j) + Length])
  <2> DEFINE a == now - Cut(j)
  <2>1. /\ a \in Int /\ a > 0 /\ a >= now - Length /\ a <= now
        /\ a >= now - position - Jitter /\ a <= now - position
    BY <1>1, <1>2
  <2> HIDE DEF a
  <2>2. Right([start |-> a, end |-> a + Length]) BY <2>1 DEF Right
  <2> QED BY <2>2 DEF a
<1> QED BY <1>3, <1>4, <1>5

\* The times of a report that does not mislead are those of the song, from when it
\* began if it had run without a pause, or a little earlier.
LEMMA InputTimes ==
  ASSUME Clock, NEW in \in Inputs, ~Misleading(in)
  PROVE  Times(in) = NoTimes \/ Right(Times(in))
<1> SUFFICES ASSUME Times(in) # NoTimes PROVE Right(Times(in)) OBVIOUS
<1>1. /\ Length \in Nat \ {0} /\ Jitter \in Nat /\ now \in Nat /\ now > Length
      /\ position \in 0..Length
  BY NowPlayingAssumption, PlaysAssumption DEF Clock
<1>2. Min({position + Jitter, Length}) = Cut(Jitter) /\ Cut(Jitter) \in Int
  <2>1. Jitter \in 0..Jitter BY <1>1
  <2>2. Min({position + Jitter, Length}) = Cut(Jitter) BY <2>1, CutPosition
  <2>3. Cut(Jitter) \in Int BY <1>1 DEF Cut
  <2> QED BY <2>2, <2>3
<1>3. ASSUME NEW c \in Int, c \in position..Cut(Jitter)
      PROVE  Right([start |-> now - c, end |-> now - c + Length])
  <2>1. PICK j \in 0..Jitter : c = Cut(j)
    <3>1. c - position \in 0..Jitter /\ Cut(c - position) = c
      BY <1>1, <1>2, <1>3 DEF Cut
    <3> QED BY <3>1
  <2> QED BY <2>1, CutPosition
<1>4. CASE in.given = "both"
  <2>1. Times(in) = in.times /\ in.times.end > in.times.start
        /\ now - in.times.start \in position..Cut(Jitter)
    BY <1>2, <1>4 DEF Misleading, Times
  <2> DEFINE starts == {now - Min({position + j, Length}) : j \in 0..Jitter} \cup Stamps
  <2>2. PICK a \in starts : in.times = [start |-> a, end |-> a + Length] \/ in.times = [start |-> a, end |-> a]
    <3> HIDE DEF starts
    <3>1. in.times \in {[start |-> s, end |-> s + Length] : s \in starts}
                       \cup {[start |-> s, end |-> s] : s \in starts}
      BY <1>4 DEF Inputs, starts
    <3> QED BY <3>1
  <2>3. a \in Int
    <3>1. ASSUME NEW j \in 0..Jitter PROVE now - Min({position + j, Length}) \in Int
      <4>1. Cut(j) \in Int BY <1>1 DEF Cut
      <4>2. Min({position + j, Length}) = Cut(j) BY CutPosition
      <4> QED BY <1>1, <4>1, <4>2
    <3> QED BY <2>2, <3>1, NowPlayingAssumption
  <2>4. in.times = [start |-> a, end |-> a + Length]
    BY <1>1, <2>1, <2>2, <2>3
  <2>5. now - a \in Int /\ now - a \in position..Cut(Jitter) /\ now - (now - a) = a
    BY <1>1, <2>1, <2>3, <2>4
  <2> QED BY <1>3, <2>1, <2>4, <2>5
<1>5. CASE in.given = "none"
  <2>1. in.duration = Length /\ Times(in) = Derive(in)
    BY <1>1, <1>5 DEF Inputs, Times
  <2>2. in.progress \in Int
    <3>1. in.progress \in {position + j : j \in 0..Jitter} \cup {0} \cup {position}
      BY <1>5 DEF Inputs
    <3> QED BY <1>1, <3>1
  <2> DEFINE c == Min({in.progress, Length})
  <2>3. c \in Int BY <1>1, <2>2, MinOfTwo
  <2>4. c \in position..Cut(Jitter)
    BY <1>2, <1>5, <2>1 DEF Misleading
  <2> HIDE DEF c
  <2>5. Max({0, c}) = c
    <3>1. 0 \in Int /\ 0 <= c BY <1>1, <2>3, <2>4
    <3> QED BY <2>3, <3>1, MaxOfTwo
  <2>6. Derive(in) = [start |-> now - c, end |-> now - c + Length]
    BY <2>1, <2>5 DEF Derive, c
  <2> QED BY <1>3, <2>1, <2>3, <2>4, <2>6
<1>6. CASE in.given = "partial" BY <1>6 DEF Times
<1> QED BY <1>4, <1>5, <1>6 DEF Inputs

-----------------------------------------------------------------------------
(* The report and what is shown. *)

Dated == Clock /\ ReportSpansItsArrival

Listed == \E n \in 0..2 : DOMAIN discord = 1..n

LEMMA ClockStep == Clock /\ [Next]_vars => Clock'
<1> SUFFICES ASSUME Clock, [Next]_vars PROVE Clock' OBVIOUS
<1>1. Length \in Nat \ {0} BY NowPlayingAssumption
<1>2. CASE SetExternalMusic \/ ClearExternalMusic \/ SyncLocal \/ Restart
  BY <1>2 DEF Clock, SetExternalMusic, ClearExternalMusic, SyncLocal, Restart, world
<1>3. CASE Tick BY <1>1, <1>3 DEF Clock, Tick
<1>4. CASE Seek \/ \E t \in Tracks : Begin(t) BY <1>1, <1>4 DEF Clock, Seek, Begin
<1>5. CASE UNCHANGED vars BY <1>5 DEF Clock, vars, world
<1> QED BY <1>2, <1>3, <1>4, <1>5 DEF Next

LEMMA ClockInit == Init => Clock
<1>1. Length \in Nat \ {0} BY NowPlayingAssumption
<1> QED BY <1>1 DEF Init, Clock

\* A report is replaced by one whose times are right as of now, or whose song is led
\* astray, or taken away, or it stays; a song that was led astray stays so.
LEMMA ReportStep ==
  ASSUME Clock, [Next]_vars
  PROVE  /\ astray \subseteq astray'
         /\ \/ report' = report \/ report' = NoReport
            \/ /\ report'.at = now
               /\ report'.times = NoTimes \/ Right(report'.times) \/ report'.song \in astray'
<1>1. CASE SetExternalMusic
  <2>1. PICK in \in Inputs, src \in Sources :
          /\ report' = Accepted(in, src)
          /\ astray' = IF Misleading(in) THEN astray \cup {Song} ELSE astray
    BY <1>1 DEF SetExternalMusic, SyncExternal
  <2>2. report'.at = now /\ report'.times = Times(in) /\ report'.song = Song BY <2>1 DEF Accepted
  <2>3. CASE Misleading(in) BY <2>1, <2>2, <2>3
  <2>4. CASE ~Misleading(in) BY <2>1, <2>2, <2>4, InputTimes
  <2> QED BY <2>3, <2>4
<1>2. CASE ClearExternalMusic BY <1>2 DEF ClearExternalMusic, SyncExternal
<1>3. CASE SyncLocal \/ Restart \/ Seek \/ \E t \in Tracks : Begin(t)
  BY <1>3 DEF SyncLocal, Restart, Seek, Begin
<1>4. CASE Tick BY <1>4 DEF Tick
<1>5. CASE UNCHANGED vars BY <1>5 DEF vars
<1> QED BY <1>1, <1>2, <1>3, <1>4, <1>5 DEF Next

\* The times of a report span the moment it was accepted, also when they come from a
\* position past the end, unless a report gave the song a start that is not its own:
\* for any length, any Jitter up to Gap and any other starts that clients send.
THEOREM ReportsSpanTheirArrival == Spec => []ReportSpansItsArrival
<1>1. Init => Dated
  BY ClockInit DEF Init, Dated, ReportSpansItsArrival, NoReport
<1>2. Dated /\ [Next]_vars => Dated'
  <2> SUFFICES ASSUME Dated, [Next]_vars PROVE ReportSpansItsArrival'
    BY ClockStep DEF Dated
  <2>1. /\ Length \in Nat \ {0} /\ now \in Nat
    BY NowPlayingAssumption DEF Dated, Clock
  <2>2. CASE report' = report BY <2>2, ReportStep DEF Dated, ReportSpansItsArrival
  <2>3. CASE report' = NoReport BY <2>3 DEF ReportSpansItsArrival, NoReport
  <2>4. CASE /\ report'.at = now
             /\ report'.times = NoTimes \/ Right(report'.times) \/ report'.song \in astray'
    <3> SUFFICES ASSUME Right(report'.times)
                 PROVE  /\ report'.times.start < report'.times.end
                        /\ report'.times.start <= report'.at /\ report'.at <= report'.times.end
      BY <2>4 DEF ReportSpansItsArrival
    <3> QED BY <2>1, <2>4 DEF Right
  <2> QED BY <2>2, <2>3, <2>4, ReportStep DEF Dated
<1>3. Dated => ReportSpansItsArrival BY DEF Dated
<1> QED BY <1>1, <1>2, <1>3, PTL DEF Spec

LEMMA ListedInit == Init => Listed
BY DEF Init, Listed

LEMMA ListedStep == Listed /\ [Next]_vars => Listed'
<1> SUFFICES ASSUME Listed, [Next]_vars PROVE Listed' OBVIOUS
<1>1. CASE SyncLocal
  <2>1. PICK n \in 0..2 : discord' \in [1..n -> Activities]
    BY <1>1, NowPlayingAssumption DEF SyncLocal
  <2> QED BY <2>1 DEF Listed
<1>2. CASE Restart BY <1>2 DEF Restart, Listed
<1>3. CASE discord' = discord BY <1>3 DEF Listed
<1>4. ASSUME SetExternalMusic \/ ClearExternalMusic \/ Tick \/ Seek \/ \E t \in Tracks : Begin(t)
      PROVE  discord' = discord
  BY <1>4 DEF SetExternalMusic, ClearExternalMusic, Tick, Seek, Begin
<1>5. ASSUME UNCHANGED vars PROVE discord' = discord BY <1>5 DEF vars
<1> QED BY <1>1, <1>2, <1>3, <1>4, <1>5 DEF Next

\* Whatever Discord shows and whoever reports, now_playing is the song of the
\* field it stems from, Spotify's whenever Spotify plays.
THEOREM WhatIsShownIsPlaying == Spec => []SourceMatchesSong
<1>1. Listed => SourceMatchesSong
  <2> SUFFICES ASSUME Listed PROVE SourceMatchesSong OBVIOUS
  <2>1. PICK n \in 0..2 : DOMAIN discord = 1..n BY DEF Listed
  <2> QED BY <2>1, ShownSource DEF SourceMatchesSong
<1> QED BY <1>1, ListedInit, ListedStep, PTL DEF Spec

-----------------------------------------------------------------------------
(* The songs and the markers: every step keeps Inv. *)

LEMMA NothingIsSound ==
  ASSUME Types, NEW S, NEW E, NEW A
  PROVE  Sound(S, E, A, NoMusic) /\ Sound(S, E, A, NoReport)
BY Numbers DEF Sound, NoMusic, NoReport

\* What is shown is sound when the report and the activities are.
LEMMA ShownIsSound ==
  ASSUME Types, NEW S, NEW E, NEW A, NEW n \in 0..2, NEW acts, DOMAIN acts = 1..n, NEW em,
         Sound(S, E, A, em), \A i \in 1..n : Sound(S, E, A, acts[i])
  PROVE  Sound(S, E, A, Pretty(acts, em).nowPlaying)
<1>1. ASSUME NEW m, NEW k, SameMusic(m, k), Sound(S, E, A, k) PROVE Sound(S, E, A, m)
  BY <1>1 DEF SameMusic, Sound
<1>2. PICK np : np = Pretty(acts, em).nowPlaying OBVIOUS
<1>3. SameMusic(np, NoMusic) \/ SameMusic(np, em) \/ \E i \in 1..n : SameMusic(np, acts[i])
  BY <1>2, ShownFrom
<1>4. Sound(S, E, A, np) BY <1>1, <1>3, NothingIsSound
<1> QED BY <1>2, <1>4

\* A sync while the player does nothing keeps the story as it is.
LEMMA SyncStep ==
  ASSUME Types, SongCountedOnce, EverySongCounted,
         NEW S \in [Nat -> Int], NEW E \in [Nat -> Int], NEW B, B = astray, Story(S, E, B),
         NEW A \in SUBSET Nat, A = astray', B \subseteq A, A \subseteq Songs,
         UNCHANGED world, Record(Pretty(discord', report').nowPlaying),
         Sound(S, E, A, report'),
         NEW n \in 0..2, DOMAIN discord' = 1..n, \A i \in 1..n : Sound(S, E, A, discord'[i])
  PROVE  Inv'
<1>1. UNCHANGED <<now, position, tracks, early, drift, Songs, Song>>
  BY DEF world, Songs, Song
<1>2. \A m : Sound(S, E, A, m)' <=> Sound(S, E, A, m)
  BY <1>1 DEF Sound, Within, Latest
<1>3. Sound(S, E, A, Pretty(discord', report').nowPlaying) BY ShownIsSound
<1>4. /\ counted' \in [Songs -> 0..2] /\ sighted' \subseteq Songs
      /\ Marks(S, E, A)' /\ Last(S, E, A)' /\ SongCountedOnce' /\ EverySongCounted'
  <2>1. Marks(S, E, A) BY DEF Story, Marks
  <2>2. Last(S, E, A) BY DEF Story, Last
  <2> QED BY <1>3, <2>1, <2>2, RecordStep DEF Story
<1>5. Types' BY <1>1, <1>4 DEF Types, Clock
<1>6. Timeline(S, E)' BY <1>1 DEF Story, Timeline, Latest
<1>7. Carriers(S, E, A)'
  <2>1. Sound(S, E, A, report)' BY <1>1 DEF Sound, Within, Latest
  <2>2. \A i \in 1..n : Sound(S, E, A, discord[i])' BY <1>1 DEF Sound, Within, Latest
  <2> QED BY <2>1, <2>2 DEF Carriers
<1> QED BY <1>4, <1>5, <1>6, <1>7 DEF Inv, Story

\* What the player does later leaves the starts of its songs where they may be, and
\* whatever is known of them stays true.
LEMMA LaterStep ==
  ASSUME Types, SongCountedOnce, EverySongCounted,
         NEW S \in [Nat -> Int], NEW E \in [Nat -> Int], NEW A \in SUBSET Nat, A = astray,
         Story(S, E, A), NEW S2 \in [Nat -> Int], NEW E2 \in [Nat -> Int],
         \A s \in Songs, a \in Int : Within(S, E, s, a) => Within(S2, E2, s, a)',
         Song' \in Nat, Song <= Song', early \subseteq early',
         \A s \in Songs : tracks'[s] = tracks[s] /\ counted'[s] = counted[s] /\ drift'[s] >= drift[s],
         \A s \in Songs' \ Songs : counted'[s] = 0,
         UNCHANGED <<mark, sighted, blind, astray, displaced, discord>>,
         report' = report \/ report' = NoReport,
         Types', Timeline(S2, E2)'
  PROVE  Inv'
<1>1. Songs = 1..Song /\ Songs' = 1..Song' /\ Song \in Nat /\ Songs \subseteq Songs'
  <2>1. Songs = 1..Song /\ Songs' = 1..Song' BY DEF Songs, Song
  <2>2. Song \in Nat BY Numbers
  <2> QED BY <2>1, <2>2
<1>2. ASSUME NEW m, Sound(S, E, A, m) PROVE Sound(S2, E2, A, m)'
  <2>1. m.song \in 0..Song /\ (m.song # 0 => m.song \in Songs)
    <3>1. m.song \in 0..Song BY <1>2 DEF Sound
    <3>2. \A n1 \in Nat : \A k \in 0..n1 : k # 0 => k \in 1..n1 OBVIOUS
    <3>3. m.song # 0 => m.song \in 1..Song BY <1>1, <3>1, <3>2
    <3> QED BY <1>1, <3>1, <3>3
  <2>2. ASSUME m.song # 0, Within(S, E, m.song, m.times.start)
        PROVE  Within(S2, E2, m.song, m.times.start)'
    <3>1. m.times.start \in Int BY <2>2 DEF Within
    <3> QED BY <2>1, <2>2, <3>1
  <2>3. m.song \in 0..Song'
    <3>1. \A a \in Nat, b \in Nat : a <= b => \A k \in 0..a : k \in 0..b OBVIOUS
    <3> QED BY <1>1, <2>1, <3>1
  <2>4. m.song # 0 => m.track = tracks'[m.song] BY <1>2, <2>1 DEF Sound
  <2> QED BY <1>2, <2>2, <2>3, <2>4 DEF Sound
<1>3. Carriers(S2, E2, A)'
  <2>1. Sound(S2, E2, A, report)'
    <3>1. CASE report' = report BY <1>2, <3>1 DEF Story, Carriers
    <3>2. CASE report' = NoReport BY <1>2, <3>2, NothingIsSound
    <3> QED BY <3>1, <3>2
  <2>2. PICK n \in 0..2 : DOMAIN discord = 1..n /\ \A i \in 1..n : Sound(S, E, A, discord[i])
    BY DEF Story, Carriers
  <2> QED BY <1>2, <2>1, <2>2 DEF Carriers
<1>4. Marks(S2, E2, A)' BY <1>1 DEF Story, Marks, Within, Types
<1>5. Last(S2, E2, A)'
  <2> SUFFICES ASSUME NEW s \in Songs', counted'[s] > 0, s \notin displaced', s \notin A
               PROVE  mark.track = tracks'[s] /\ (mark.start = 0 \/ Within(S2, E2, s, mark.start)')
    BY DEF Last, Within
  <2>1. s \in Songs OBVIOUS
  <2> QED BY <2>1 DEF Story, Last, Within
<1>6. SongCountedOnce'
  <2> SUFFICES ASSUME NEW s \in Songs', drift'[s] + Jitter <= Gap, s \notin displaced',
                      s \notin astray'
               PROVE  counted'[s] <= 1
    BY DEF SongCountedOnce, Uninterrupted
  <2>1. CASE s \in Songs
    <3>1. drift[s] \in Int /\ drift'[s] \in Int /\ Jitter \in Int /\ Gap \in Int
      <4>1. s \in Songs' BY <1>1, <2>1
      <4>2. drift' \in [Songs' -> 0..(Gap + 1)] BY DEF Types
      <4>3. Gap \in Nat /\ Jitter \in Nat /\ drift[s] \in 0..(Gap + 1) BY <2>1, Numbers
      <4> QED BY <4>1, <4>2, <4>3
    <3>2. drift[s] + Jitter <= Gap BY <2>1, <3>1
    <3> QED BY <2>1, <3>2 DEF SongCountedOnce, Uninterrupted
  <2>2. CASE s \notin Songs BY <2>2
  <2> QED BY <2>1, <2>2
<1>7. EverySongCounted'
  <2> SUFFICES ASSUME NEW s \in Songs, s \in sighted
               PROVE  \/ counted'[s] >= 1 \/ tracks'[s] \in blind
                      \/ \E r \in astray : tracks'[r] = tracks'[s]
                      \/ \E r \in Songs' \ {s} : tracks'[r] = tracks'[s] /\ Later(r, s) \in early'
    BY DEF EverySongCounted, Types, Later
  <2>1. \/ counted[s] >= 1 \/ tracks[s] \in blind \/ \E r \in astray : tracks[r] = tracks[s]
        \/ \E r \in Songs \ {s} : tracks[r] = tracks[s] /\ Later(r, s) \in early
    BY DEF EverySongCounted
  <2> QED BY <1>1, <2>1 DEF Types
<1> QED BY <1>3, <1>4, <1>5, <1>6, <1>7 DEF Inv, Story

LEMMA InvInit == Init => Inv
<1> SUFFICES ASSUME Init PROVE Inv OBVIOUS
<1>1. Gap \in Nat /\ Length \in Nat \ {0} BY NowPlayingAssumption, PlaysAssumption
<1>2. Song = 0 /\ Songs = {} /\ tracks \in Seq(Tracks) BY DEF Init, Songs, Song
<1>3. Types BY <1>1, <1>2 DEF Init, Types, Clock
<1>4. SongCountedOnce /\ EverySongCounted BY <1>2 DEF SongCountedOnce, EverySongCounted
<1> DEFINE Z == [n \in Nat |-> 0]
<1>5. Timeline(Z, Z) BY <1>2 DEF Timeline
<1>6. Carriers(Z, Z, {})
  <2>1. report = NoReport /\ DOMAIN discord = 1..0 BY DEF Init
  <2>2. Sound(Z, Z, {}, report) BY <1>3, <2>1, NothingIsSound
  <2>3. 0 \in 0..2 /\ 1..0 = {} OBVIOUS
  <2> HIDE DEF Z
  <2> QED BY <2>1, <2>2, <2>3 DEF Carriers
<1>7. Marks(Z, Z, {}) BY NowPlayingAssumption DEF Init, Marks
<1>8. Last(Z, Z, {}) BY <1>2 DEF Last
<1>9. Z \in [Nat -> Int] /\ {} \in SUBSET Nat /\ astray = {} BY DEF Init
<1> HIDE DEF Z
<1> QED BY <1>3, <1>4, <1>5, <1>6, <1>7, <1>8, <1>9 DEF Inv, Story

LEMMA SetExternalMusicStep ==
  ASSUME Inv, SetExternalMusic
  PROVE  Inv'
<1>1. PICK S \in [Nat -> Int], E \in [Nat -> Int], A \in SUBSET Nat : A = astray /\ Story(S, E, A)
  BY DEF Inv
<1>2. PICK n \in 0..2 : DOMAIN discord = 1..n /\ \A i \in 1..n : Sound(S, E, A, discord[i])
  BY <1>1 DEF Story, Carriers
<1>3. PICK in \in Inputs, src \in Sources :
        /\ SyncExternal(Accepted(in, src))
        /\ astray' = IF Misleading(in) THEN astray \cup {Song} ELSE astray
  BY DEF SetExternalMusic
<1>4. discord' = discord /\ UNCHANGED world /\ Song > 0 BY DEF SetExternalMusic
<1> PICK em : em = Accepted(in, src) OBVIOUS
<1>5. report' = em /\ Record(Pretty(discord', report').nowPlaying)
  BY <1>3, <1>4 DEF SyncExternal
<1>6. em.song = Song /\ em.track = tracks[Song] /\ em.times = Times(in) BY DEF Accepted
<1>9. Song \in Nat /\ Song \in Songs /\ Songs \subseteq Nat /\ A \subseteq Songs
  <2>1. Songs = 1..Song BY DEF Songs, Song
  <2>2. Song \in Nat BY Numbers DEF Inv
  <2>3. A \subseteq Songs BY <1>1 DEF Inv, Types
  <2>4. \A n1 \in Nat : 1..n1 \subseteq Nat /\ (n1 > 0 => n1 \in 1..n1) OBVIOUS
  <2> QED BY <1>4, <2>1, <2>2, <2>3, <2>4
<1>10. PICK A2 \in SUBSET Nat : A2 = astray' BY <1>1, <1>3, <1>9
<1>11. A \subseteq A2 /\ A2 \subseteq Songs /\ (Misleading(in) => Song \in A2)
  BY <1>1, <1>3, <1>9, <1>10
<1>7. em.times = NoTimes \/ Song \in A2 \/ Within(S, E, Song, em.times.start)
  <2> SUFFICES ASSUME Times(in) # NoTimes, ~Misleading(in) PROVE Within(S, E, Song, em.times.start)
    BY <1>6, <1>11
  <2>1. Right(Times(in)) BY InputTimes DEF Inv, Types
  <2>2. Song \in Songs /\ Song \in Nat
    <3>1. Songs = 1..Song BY DEF Songs, Song
    <3>2. Song \in Nat BY Numbers DEF Inv
    <3> QED BY <1>4, <3>1, <3>2
  <2>3. S[Song] <= Latest(E, Song) /\ Latest(E, Song) = now - position
    BY <1>1, <2>2 DEF Story, Timeline, Latest
  <2>4. S[Song] \in Int /\ now - position \in Int /\ Jitter \in Int
    BY <2>2, Numbers DEF Inv
  <2> DEFINE a == em.times.start
  <2>5. a \in Int /\ a > 0 /\ a >= now - position - Jitter /\ a <= now - position
    BY <1>6, <2>1 DEF Right
  <2> HIDE DEF a
  <2>6. S[Song] - Jitter <= a BY <2>3, <2>4, <2>5
  <2>7. Within(S, E, Song, a) BY <2>3, <2>5, <2>6 DEF Within
  <2> QED BY <2>7 DEF a
<1>8. Sound(S, E, A2, em)
  <2>1. Song \in 0..Song /\ Song # 0 BY <1>4, <1>9
  <2> QED BY <1>6, <1>7, <2>1 DEF Sound
<1>12. \A i \in 1..n : Sound(S, E, A2, discord'[i]) BY <1>2, <1>4, <1>11 DEF Sound
<1> QED BY <1>1, <1>2, <1>4, <1>5, <1>8, <1>10, <1>11, <1>12, SyncStep DEF Inv

LEMMA ClearExternalMusicStep ==
  ASSUME Inv, ClearExternalMusic
  PROVE  Inv'
<1>1. PICK S \in [Nat -> Int], E \in [Nat -> Int], A \in SUBSET Nat : A = astray /\ Story(S, E, A)
  BY DEF Inv
<1>2. PICK n \in 0..2 : DOMAIN discord = 1..n /\ \A i \in 1..n : Sound(S, E, A, discord[i])
  BY <1>1 DEF Story, Carriers
<1>3. /\ discord' = discord /\ UNCHANGED <<world, astray>> /\ report' = NoReport
      /\ Record(Pretty(discord', report').nowPlaying)
  BY DEF ClearExternalMusic, SyncExternal
<1>4. Sound(S, E, A, report') BY <1>3, NothingIsSound DEF Inv
<1>5. A = astray' /\ A \subseteq Songs BY <1>1, <1>3 DEF Inv, Types
<1> QED BY <1>1, <1>2, <1>3, <1>4, <1>5, SyncStep DEF Inv

LEMMA SyncLocalStep ==
  ASSUME Inv, SyncLocal
  PROVE  Inv'
<1>1. PICK S \in [Nat -> Int], E \in [Nat -> Int], A \in SUBSET Nat : A = astray /\ Story(S, E, A)
  BY DEF Inv
<1>2. PICK n \in 0..2 : discord' \in [1..n -> Activities]
  <2>1. PICK k \in 0..MaxActivities : discord' \in [1..k -> Activities] BY DEF SyncLocal
  <2>2. k \in 0..2 BY NowPlayingAssumption
  <2> QED BY <2>1, <2>2
<1>3. /\ report' = report /\ UNCHANGED <<world, astray>>
      /\ Record(Pretty(discord', report').nowPlaying)
  BY DEF SyncLocal
<1>4. Sound(S, E, A, report') BY <1>1, <1>3 DEF Story, Carriers
<1>5. ASSUME NEW a \in Activities PROVE Sound(S, E, A, a)
  <2>1. Song \in Nat /\ Songs = 1..Song
    <3>1. Songs = 1..Song BY DEF Songs, Song
    <3> QED BY <3>1, Numbers DEF Inv
  <2>2. CASE a.song = 0 /\ a.track \in {None, SpotifyTrack} BY <2>1, <2>2 DEF Sound
  <2>3. CASE Song # 0 /\ a.song = Song /\ a.track = tracks[Song] /\ a.times.start = now - position
    <3>1. now - position \in Int /\ now - position > 0 /\ S[Song] \in Int /\ Jitter \in Nat
      BY <2>1, Numbers DEF Inv
    <3>2. S[Song] <= Latest(E, Song) /\ Latest(E, Song) = now - position
      BY <1>1, <2>1, <2>3 DEF Story, Timeline, Latest
    <3>3. S[Song] - Jitter <= now - position BY <3>1, <3>2
    <3>4. Within(S, E, Song, a.times.start) BY <2>3, <3>1, <3>2, <3>3 DEF Within
    <3> QED BY <2>1, <2>3, <3>4 DEF Sound
  <2> QED BY <2>1, <2>2, <2>3 DEF Activities
<1>6. \A i \in 1..n : Sound(S, E, A, discord'[i]) BY <1>2, <1>5
<1>7. A = astray' /\ A \subseteq Songs BY <1>1, <1>3 DEF Inv, Types
<1> QED BY <1>1, <1>2, <1>3, <1>4, <1>6, <1>7, SyncStep DEF Inv

LEMMA RestartStep ==
  ASSUME Inv, Restart
  PROVE  Inv'
<1>1. PICK S \in [Nat -> Int], E \in [Nat -> Int], A \in SUBSET Nat : A = astray /\ Story(S, E, A)
  BY DEF Inv
<1>2. /\ UNCHANGED world /\ UNCHANGED <<report, counted, sighted, blind, astray>>
      /\ mark' = [track |-> None, start |-> 0] /\ discord' = <<>>
      /\ displaced' = displaced \cup {s \in Songs : counted[s] > 0}
  BY DEF Restart
<1>3. UNCHANGED <<now, position, tracks, early, drift, Songs, Song>>
  BY <1>2 DEF world, Songs, Song
<1>4. Types' BY <1>2, <1>3 DEF Inv, Types, Clock
<1>5. SongCountedOnce' BY <1>2, <1>3 DEF Inv, SongCountedOnce, Uninterrupted
<1>6. EverySongCounted' BY <1>2, <1>3 DEF Inv, EverySongCounted, Later
<1>7. Timeline(S, E)' BY <1>1, <1>3 DEF Story, Timeline, Latest
<1>8. Carriers(S, E, A)'
  <2>1. Sound(S, E, A, report)' BY <1>1, <1>2, <1>3 DEF Story, Carriers, Sound, Within, Latest
  <2>2. DOMAIN discord' = 1..0 /\ 0 \in 0..2 /\ 1..0 = {} BY <1>2
  <2> QED BY <2>1, <2>2 DEF Carriers
<1>9. Marks(S, E, A)' BY <1>2, NowPlayingAssumption DEF Marks
<1>10. Last(S, E, A)' BY <1>2, <1>3 DEF Last
<1> QED BY <1>1, <1>2, <1>4, <1>5, <1>6, <1>7, <1>8, <1>9, <1>10 DEF Inv, Story

\* As time passes the start that is derived for the song stays, while it runs, or
\* moves with the clock.
LEMMA TickStep ==
  ASSUME Inv, Tick
  PROVE  Inv'
<1>1. PICK S \in [Nat -> Int], E \in [Nat -> Int], A \in SUBSET Nat : A = astray /\ Story(S, E, A)
  BY DEF Inv
<1>2. /\ now' = now + 1 /\ UNCHANGED <<mark, counted, sighted, blind, astray, displaced>>
      /\ UNCHANGED <<discord, tracks, early>> /\ (report' = report \/ report' = NoReport)
  BY DEF Tick, plays
<1>3. UNCHANGED <<Songs, Song>> BY <1>2 DEF Songs, Song
<1>4. /\ Gap \in Nat /\ Length \in Nat /\ now \in Nat /\ now > Length /\ position \in 0..Length
      /\ Song \in Nat /\ now - position \in Int
      /\ \A s \in Songs : s \in Nat /\ drift[s] \in 0..(Gap + 1)
  BY Numbers DEF Inv, Types, Clock
<1>5. \A s \in Songs : Min({drift[s] + 1, Gap + 1})
                         = IF drift[s] + 1 <= Gap + 1 THEN drift[s] + 1 ELSE Gap + 1
  <2> TAKE s \in Songs
  <2>1. drift[s] + 1 \in Int /\ Gap + 1 \in Int BY <1>4
  <2> QED BY <2>1, MinOfTwo
<1>6. \/ position' = position + 1 /\ position' \in 0..Length /\ drift' = drift
      \/ /\ position' = position
         /\ drift' = [s \in Songs |-> IF s # Song THEN drift[s]
                                      ELSE IF drift[s] + 1 <= Gap + 1 THEN drift[s] + 1 ELSE Gap + 1]
  <2>1. CASE position < Length /\ position' = position + 1 /\ UNCHANGED drift BY <1>4, <2>1
  <2>2. CASE /\ drift' = [s \in Songs |-> IF s = Song THEN Min({drift[s] + 1, Gap + 1}) ELSE drift[s]]
             /\ UNCHANGED position
    BY <1>5, <2>2
  <2> QED BY <2>1, <2>2 DEF Tick
<1>7. Clock' BY <1>2, <1>4, <1>6 DEF Clock
<1>8. drift' \in [Songs -> 0..(Gap + 1)] /\ \A s \in Songs : drift'[s] >= drift[s]
  <2>1. CASE drift' = drift BY <1>4, <2>1 DEF Inv, Types
  <2>2. CASE drift' = [s \in Songs |-> IF s # Song THEN drift[s]
                                       ELSE IF drift[s] + 1 <= Gap + 1 THEN drift[s] + 1 ELSE Gap + 1]
    BY <1>4, <2>2
  <2> QED BY <1>6, <2>1, <2>2
<1>9. Types' BY <1>2, <1>3, <1>7, <1>8 DEF Inv, Types
<1>10. /\ now' - position' \in Int /\ now - position <= now' - position'
       /\ Song \in Songs /\ drift'[Song] <= Gap =>
            drift'[Song] - drift[Song] = (now' - position') - (now - position)
  <2>1. CASE position' = position + 1 /\ drift' = drift
    <3>1. Song \in Songs => drift[Song] - drift[Song] = 0 BY <1>4
    <3> QED BY <1>2, <1>4, <2>1, <3>1
  <2>2. CASE /\ position' = position
             /\ drift' = [s \in Songs |-> IF s # Song THEN drift[s]
                                          ELSE IF drift[s] + 1 <= Gap + 1 THEN drift[s] + 1 ELSE Gap + 1]
    BY <1>2, <1>4, <2>2
  <2> QED BY <1>6, <2>1, <2>2
<1>11. \A s \in Songs : S[s] \in Int /\ E[s] \in Int BY <1>4
<1>12. \A s \in Songs : Latest(E, s) <= Latest(E, s)' /\ Latest(E, s)' \in Int /\ Latest(E, s) \in Int
  BY <1>2, <1>3, <1>4, <1>10, <1>11 DEF Latest
<1>13. \A s \in Songs, a \in Int : Within(S, E, s, a) => Within(S, E, s, a)'
  BY <1>3, <1>12 DEF Within
<1>14. Timeline(S, E)'
  <2> SUFFICES ASSUME NEW s \in Songs
               PROVE  /\ S[s] <= Latest(E, s)'
                      /\ drift'[s] <= Gap => Latest(E, s)' <= S[s] + drift'[s]
                      /\ \A r \in 1..(s - 1) :
                           E[r] <= S[s] /\ (s \notin early => S[s] - E[r] > Gap + Jitter)
    BY <1>2, <1>3 DEF Timeline, Latest
  <2>1. /\ S[s] <= Latest(E, s)
        /\ drift[s] <= Gap => Latest(E, s) <= S[s] + drift[s]
        /\ \A r \in 1..(s - 1) :
             E[r] <= S[s] /\ (s \notin early => S[s] - E[r] > Gap + Jitter)
    BY <1>1 DEF Story, Timeline
  <2>2. S[s] <= Latest(E, s)' BY <1>11, <1>12, <2>1
  <2>3. ASSUME drift'[s] <= Gap PROVE Latest(E, s)' <= S[s] + drift'[s]
    <3>1. drift[s] <= Gap /\ drift[s] \in Int /\ drift'[s] \in Int
      BY <1>4, <1>8, <2>3
    <3>2. CASE s = Song
      <4>1. Latest(E, s)' = now' - position' /\ Latest(E, s) = now - position
        BY <1>3, <3>2 DEF Latest
      <4>2. drift'[s] - drift[s] = (now' - position') - (now - position)
        BY <1>10, <2>3, <3>2
      <4> QED BY <1>4, <1>10, <1>11, <2>1, <3>1, <4>1, <4>2
    <3>3. CASE s # Song
      <4>1. Latest(E, s)' = Latest(E, s) BY <1>3, <3>3 DEF Latest
      <4>2. drift'[s] = drift[s] BY <1>6, <3>3
      <4> QED BY <2>1, <3>1, <4>1, <4>2
    <3> QED BY <3>2, <3>3
  <2> QED BY <2>1, <2>2, <2>3
<1> QED
  <2>1. \A s \in Songs : tracks'[s] = tracks[s] /\ counted'[s] = counted[s] BY <1>2
  <2>2. Song' \in Nat /\ Song <= Song' /\ early \subseteq early' /\ Songs' \ Songs = {}
    BY <1>2, <1>3, <1>4
  <2> QED BY <1>1, <1>2, <1>8, <1>9, <1>13, <1>14, <2>1, <2>2, LaterStep DEF Inv

LEMMA SeekStep ==
  ASSUME Inv, Seek
  PROVE  Inv'
<1>1. PICK S \in [Nat -> Int], E \in [Nat -> Int], A \in SUBSET Nat : A = astray /\ Story(S, E, A)
  BY DEF Inv
<1>2. /\ position' = 0 /\ drift' = [drift EXCEPT ![Song] = Gap + 1]
      /\ UNCHANGED <<now, tracks, early, discord, report, mark, counted, sighted, blind, astray, displaced>>
  BY DEF Seek, plays
<1>3. UNCHANGED <<Songs, Song>> BY <1>2 DEF Songs, Song
<1>4. /\ Gap \in Nat /\ Length \in Nat /\ now \in Nat /\ now > Length /\ position \in 0..Length
      /\ Song \in Nat /\ now - position \in Int
      /\ \A s \in Songs : s \in Nat /\ drift[s] \in 0..(Gap + 1)
  BY Numbers DEF Inv, Types, Clock
<1>5. Clock' BY <1>2, <1>4 DEF Clock
<1>6. /\ drift' \in [Songs -> 0..(Gap + 1)]
      /\ \A s \in Songs : drift'[s] = IF s = Song THEN Gap + 1 ELSE drift[s]
  <2>1. Gap + 1 \in 0..(Gap + 1) BY <1>4
  <2> QED BY <1>2, <2>1 DEF Inv, Types
<1>7. \A s \in Songs : drift'[s] >= drift[s] BY <1>4, <1>6
<1>8. Types' BY <1>2, <1>3, <1>5, <1>6 DEF Inv, Types
<1>9. \A s \in Songs : S[s] \in Int /\ E[s] \in Int BY <1>4
<1>10. \A s \in Songs :
         /\ Latest(E, s) <= Latest(E, s)' /\ Latest(E, s)' \in Int /\ Latest(E, s) \in Int
         /\ s # Song => Latest(E, s)' = Latest(E, s)
  <2>1. now - position <= now' - position' BY <1>2, <1>4
  <2> QED BY <1>2, <1>3, <1>4, <1>9, <2>1 DEF Latest
<1>11. \A s \in Songs, a \in Int : Within(S, E, s, a) => Within(S, E, s, a)'
  BY <1>3, <1>10 DEF Within
<1>12. Timeline(S, E)'
  <2> SUFFICES ASSUME NEW s \in Songs
               PROVE  /\ S[s] <= Latest(E, s)'
                      /\ drift'[s] <= Gap => Latest(E, s)' <= S[s] + drift'[s]
                      /\ \A r \in 1..(s - 1) :
                           E[r] <= S[s] /\ (s \notin early => S[s] - E[r] > Gap + Jitter)
    BY <1>2, <1>3 DEF Timeline, Latest
  <2>1. /\ S[s] <= Latest(E, s)
        /\ drift[s] <= Gap => Latest(E, s) <= S[s] + drift[s]
        /\ \A r \in 1..(s - 1) :
             E[r] <= S[s] /\ (s \notin early => S[s] - E[r] > Gap + Jitter)
    BY <1>1 DEF Story, Timeline
  <2>2. S[s] <= Latest(E, s)' BY <1>9, <1>10, <2>1
  <2>3. drift'[s] <= Gap => Latest(E, s)' <= S[s] + drift'[s]
    <3>1. ~(Gap + 1 <= Gap) BY <1>4
    <3> QED BY <1>6, <1>10, <2>1, <3>1
  <2> QED BY <2>1, <2>2, <2>3
<1> QED
  <2>1. \A s \in Songs : tracks'[s] = tracks[s] /\ counted'[s] = counted[s] BY <1>2
  <2>2. Song' \in Nat /\ Song <= Song' /\ early \subseteq early' /\ Songs' \ Songs = {}
    BY <1>2, <1>3, <1>4
  <2> QED BY <1>1, <1>2, <1>7, <1>8, <1>11, <1>12, <2>1, <2>2, LaterStep DEF Inv

LEMMA SeqIsFunction ==
  ASSUME NEW T, NEW n \in Nat, NEW f
  PROVE  (f \in Seq(T) /\ Len(f) = n) <=> f \in [1..n -> T]
OBVIOUS

LEMMA AppendFacts ==
  ASSUME NEW T, NEW f \in Seq(T), NEW x \in T
  PROVE  /\ Append(f, x) \in Seq(T) /\ Len(Append(f, x)) = Len(f) + 1
         /\ Append(f, x)[Len(f) + 1] = x /\ \A i \in 1..Len(f) : Append(f, x)[i] = f[i]
OBVIOUS

\* A song begins now, and the song before it is cut off.
LEMMA BeginStep ==
  ASSUME Inv, NEW t \in Tracks, Begin(t)
  PROVE  Inv'
<1>1. PICK S \in [Nat -> Int], E \in [Nat -> Int], A \in SUBSET Nat : A = astray /\ Story(S, E, A)
  BY DEF Inv
<1>2. /\ tracks' = Append(tracks, t) /\ drift' = Append(drift, 0) /\ counted' = Append(counted, 0)
      /\ early' = IF position <= Gap + Jitter THEN early \cup {Song + 1} ELSE early
      /\ position' = 0
      /\ UNCHANGED <<now, discord, report, mark, sighted, blind, astray, displaced>>
  BY DEF Begin
<1>3. /\ Gap \in Nat /\ Jitter \in Nat /\ Length \in Nat /\ now \in Nat /\ now > Length
      /\ position \in 0..Length /\ Song \in Nat /\ now - position \in Int
      /\ \A s \in Songs : s \in Nat /\ drift[s] \in 0..(Gap + 1)
  <2>1. Gap \in Nat /\ Jitter \in 0..Gap /\ Length \in Nat \ {0} BY Numbers DEF Inv
  <2>2. Jitter \in Nat BY <2>1
  <2>3. now \in Nat /\ now > Length /\ position \in 0..Length BY DEF Inv, Types, Clock
  <2>4. /\ Song \in Nat /\ now - position \in Int
        /\ \A s \in Songs : s \in Nat /\ drift[s] \in 0..(Gap + 1)
    BY Numbers DEF Inv
  <2> QED BY <2>1, <2>2, <2>3, <2>4
<1>4. Songs = 1..Song /\ Songs' = 1..Song' BY DEF Songs, Song
<1>5. /\ Song' = Song + 1 /\ tracks' \in Seq(Tracks) /\ \A s \in Songs : tracks'[s] = tracks[s]
  <2>1. tracks \in Seq(Tracks) BY DEF Inv, Types
  <2> QED BY <1>2, <1>4, <2>1 DEF Song
<1>6. Songs' = Songs \cup {Song + 1} /\ Song + 1 \notin Songs /\ Songs \subseteq Songs'
  BY <1>3, <1>4, <1>5
<1>7. /\ drift' \in [Songs' -> 0..(Gap + 1)] /\ drift'[Song + 1] = 0
      /\ \A s \in Songs : drift'[s] = drift[s]
  <2>1. drift \in [1..Song -> 0..(Gap + 1)] BY <1>4 DEF Inv, Types
  <2>2. 0 \in 0..(Gap + 1) BY <1>3
  <2>3. /\ drift' \in [1..(Song + 1) -> 0..(Gap + 1)] /\ drift'[Song + 1] = 0
        /\ \A i \in 1..Song : drift'[i] = drift[i]
    <3>1. PICK f : f = drift OBVIOUS
    <3>2. f \in Seq(0..(Gap + 1)) /\ Len(f) = Song BY <1>3, <2>1, <3>1, SeqIsFunction
    <3>3. drift' = Append(f, 0) /\ 0 \in 0..(Gap + 1) BY <1>2, <3>1, <2>2
    <3>4. Append(f, 0) \in Seq(0..(Gap + 1)) /\ Len(Append(f, 0)) = Song + 1 BY <3>2, <3>3, AppendFacts
    <3>5. Append(f, 0)[Song + 1] = 0 /\ \A i \in 1..Song : Append(f, 0)[i] = f[i]
      BY <3>2, <3>3, AppendFacts
    <3>6. drift' \in Seq(0..(Gap + 1)) /\ Len(drift') = Song + 1 BY <3>3, <3>4
    <3>7. Song + 1 \in Nat BY <1>3
    <3>8. drift'[Song + 1] = 0 /\ \A i \in 1..Song : drift'[i] = drift[i] BY <3>1, <3>3, <3>5
    <3> QED BY <3>6, <3>7, <3>8, SeqIsFunction
  <2> QED BY <1>4, <1>5, <2>3
<1>8. /\ counted' \in [Songs' -> 0..2] /\ counted'[Song + 1] = 0
      /\ \A s \in Songs : counted'[s] = counted[s]
  <2>1. counted \in [1..Song -> 0..2] BY <1>4 DEF Inv, Types
  <2>2. /\ counted' \in [1..(Song + 1) -> 0..2] /\ counted'[Song + 1] = 0
        /\ \A i \in 1..Song : counted'[i] = counted[i]
    <3>1. PICK f : f = counted OBVIOUS
    <3>2. f \in Seq(0..2) /\ Len(f) = Song BY <1>3, <2>1, <3>1, SeqIsFunction
    <3>3. counted' = Append(f, 0) /\ 0 \in 0..2 BY <1>2, <3>1
    <3>4. Append(f, 0) \in Seq(0..2) /\ Len(Append(f, 0)) = Song + 1 BY <3>2, <3>3, AppendFacts
    <3>5. Append(f, 0)[Song + 1] = 0 /\ \A i \in 1..Song : Append(f, 0)[i] = f[i]
      BY <3>2, <3>3, AppendFacts
    <3>6. counted' \in Seq(0..2) /\ Len(counted') = Song + 1 BY <3>3, <3>4
    <3>7. Song + 1 \in Nat BY <1>3
    <3>8. counted'[Song + 1] = 0 /\ \A i \in 1..Song : counted'[i] = counted[i] BY <3>1, <3>3, <3>5
    <3> QED BY <3>6, <3>7, <3>8, SeqIsFunction
  <2> QED BY <1>4, <1>5, <2>2
<1>9. Types'
  <2>1. Clock' BY <1>2, <1>3 DEF Clock
  <2>2. sighted' \subseteq Songs' /\ astray' \subseteq Songs' BY <1>2, <1>6 DEF Inv, Types
  <2> QED BY <1>5, <1>7, <1>8, <2>1, <2>2 DEF Types
<1> PICK S2 : S2 = [S EXCEPT ![Song + 1] = now] OBVIOUS
<1> PICK E2 : E2 = [E EXCEPT ![Song] = now - position] OBVIOUS
<1>10. /\ S2 \in [Nat -> Int] /\ E2 \in [Nat -> Int] /\ S2[Song + 1] = now
       /\ \A s \in Songs : S2[s] = S[s] /\ E2[s] = Latest(E, s) /\ S[s] \in Int /\ E[s] \in Int
       /\ \A s \in Songs \ {Song} : E2[s] = E[s]
  <2>1. Song + 1 \in Nat /\ \A s \in Songs : s \in Nat /\ s # Song + 1 BY <1>3, <1>6
  <2> QED BY <1>3, <2>1 DEF Latest
<1>11. (\A s \in Songs : Latest(E2, s)' = Latest(E, s)) /\ (\A s \in Songs' \ Songs : Latest(E2, s)' = now)
  <2>1. \A s \in Songs : s # Song' BY <1>5, <1>6
  <2>2. \A s \in Songs : Latest(E2, s)' = E2[s] BY <2>1 DEF Latest
  <2>3. now' - position' = now BY <1>2, <1>3
  <2>4. \A s \in Songs' \ Songs : Latest(E2, s)' = now
    <3>1. \A s \in Songs' \ Songs : s = Song' BY <1>5, <1>6
    <3> QED BY <2>3, <3>1 DEF Latest
  <2>5. \A s \in Songs : E2[s] = Latest(E, s) BY <1>10
  <2> QED BY <2>2, <2>4, <2>5
<1>12. \A s \in Songs, a \in Int : Within(S, E, s, a) => Within(S2, E2, s, a)'
  BY <1>10, <1>11 DEF Within
<1>13. \A r \in Songs : E2[r] <= now - position
  <2> TAKE r \in Songs
  <2>1. CASE r = Song BY <1>3, <1>10, <2>1 DEF Latest
  <2>2. CASE r # Song
    <3>1. Song \in Songs /\ r \in 1..(Song - 1) BY <1>3, <1>4, <2>2
    <3>2. E[r] <= S[Song] /\ S[Song] <= now - position
      BY <1>1, <3>1 DEF Story, Timeline, Latest
    <3>3. E[r] \in Int /\ S[Song] \in Int BY <1>10, <3>1
    <3> QED BY <1>3, <1>10, <2>2, <3>2, <3>3
  <2> QED BY <2>1, <2>2
<1>14. Timeline(S2, E2)'
  <2> SUFFICES ASSUME NEW s \in Songs'
               PROVE  /\ S2[s] <= Latest(E2, s)'
                      /\ drift'[s] <= Gap => Latest(E2, s)' <= S2[s] + drift'[s]
                      /\ \A r \in 1..(s - 1) :
                           E2[r] <= S2[s] /\ (s \notin early' => S2[s] - E2[r] > Gap + Jitter)
    BY DEF Timeline, Latest
  <2>1. CASE s \in Songs
    <3>1. /\ S[s] <= Latest(E, s)
          /\ drift[s] <= Gap => Latest(E, s) <= S[s] + drift[s]
          /\ \A r \in 1..(s - 1) :
               E[r] <= S[s] /\ (s \notin early => S[s] - E[r] > Gap + Jitter)
      BY <1>1, <2>1 DEF Story, Timeline
    <3>2. \A r \in 1..(s - 1) : E2[r] = E[r]
      <4>1. \A r \in 1..(s - 1) : r \in Songs \ {Song} BY <1>3, <1>4, <2>1
      <4> QED BY <1>10, <4>1
    <3>3. early \subseteq early' BY <1>2
    <3>4. /\ S2[s] = S[s] /\ Latest(E2, s)' = Latest(E, s) /\ drift'[s] = drift[s]
      BY <1>7, <1>10, <1>11, <2>1
    <3>5. \A r \in 1..(s - 1) : E2[r] <= S2[s] BY <3>1, <3>2, <3>4
    <3>6. \A r \in 1..(s - 1) : s \notin early' => S2[s] - E2[r] > Gap + Jitter
      BY <3>1, <3>2, <3>3, <3>4
    <3>7. S2[s] <= Latest(E2, s)' BY <3>1, <3>4
    <3>8. drift'[s] <= Gap => Latest(E2, s)' <= S2[s] + drift'[s] BY <3>1, <3>4
    <3> QED BY <3>5, <3>6, <3>7, <3>8
  <2>2. CASE s = Song + 1
    <3>1. S2[s] = now /\ Latest(E2, s)' = now /\ drift'[s] = 0
      BY <1>6, <1>7, <1>10, <1>11, <2>2
    <3>2. ASSUME NEW r \in 1..(s - 1) PROVE E2[r] <= now /\ (s \notin early' => now - E2[r] > Gap + Jitter)
      <4>1. r \in Songs BY <1>3, <1>4, <2>2
      <4>2. E2[r] <= now - position /\ E2[r] \in Int
        BY <1>10, <1>13, <4>1
      <4>3. E2[r] <= now BY <1>3, <4>2
      <4>4. ASSUME s \notin early' PROVE now - E2[r] > Gap + Jitter
        <5>1. ~(position <= Gap + Jitter) BY <1>2, <2>2, <4>4
        <5> QED BY <1>3, <4>2, <5>1
      <4> QED BY <4>3, <4>4
    <3>3. now <= now /\ now <= now + 0 BY <1>3
    <3> QED BY <3>1, <3>2, <3>3
  <2> QED BY <1>6, <2>1, <2>2
<1>15. \A s \in Songs : drift'[s] >= drift[s] BY <1>3, <1>7
<1>16. \A s \in Songs' \ Songs : counted'[s] = 0 BY <1>6, <1>8
<1>17. Song' \in Nat /\ Song <= Song' BY <1>3, <1>5
<1>18. early \subseteq early' BY <1>2
<1>19. report' = report /\ UNCHANGED <<mark, sighted, blind, astray, displaced, discord>> BY <1>2
<1>20. Types /\ SongCountedOnce /\ EverySongCounted BY DEF Inv
<1>21. \A s \in Songs : tracks'[s] = tracks[s] /\ counted'[s] = counted[s] /\ drift'[s] >= drift[s]
  BY <1>5, <1>8, <1>15
<1>22. S2 \in [Nat -> Int] /\ E2 \in [Nat -> Int] BY <1>10
<1> QED BY <1>1, <1>9, <1>12, <1>14, <1>16, <1>17, <1>18, <1>19, <1>20, <1>21, <1>22, LaterStep

LEMMA InvStep == Inv /\ [Next]_vars => Inv'
<1> SUFFICES ASSUME Inv, [Next]_vars PROVE Inv' OBVIOUS
<1>1. CASE UNCHANGED vars
  <2>1. UNCHANGED <<now, position, tracks, early, drift, discord, report, mark, counted, sighted,
                    blind, astray, displaced, Songs, Song>>
    BY <1>1 DEF vars, world, plays, Songs, Song
  <2>2. PICK S \in [Nat -> Int], E \in [Nat -> Int], A \in SUBSET Nat : A = astray /\ Story(S, E, A)
    BY DEF Inv
  <2>3. \A s, a : Within(S, E, s, a)' <=> Within(S, E, s, a) BY <2>1 DEF Within, Latest
  <2>4. Timeline(S, E)' BY <2>1, <2>2 DEF Story, Timeline, Latest
  <2>5. Carriers(S, E, A)' BY <2>1, <2>2, <2>3 DEF Story, Carriers, Sound
  <2>6. Marks(S, E, A)' /\ Last(S, E, A)' BY <2>1, <2>2, <2>3 DEF Story, Marks, Last
  <2>7. Types' BY <2>1 DEF Inv, Types, Clock
  <2>8. SongCountedOnce' /\ EverySongCounted'
    BY <2>1 DEF Inv, SongCountedOnce, Uninterrupted, EverySongCounted, Later
  <2> QED BY <2>1, <2>2, <2>4, <2>5, <2>6, <2>7, <2>8 DEF Inv, Story
<1> QED BY <1>1, SetExternalMusicStep, ClearExternalMusicStep, SyncLocalStep, RestartStep,
           TickStep, SeekStep, BeginStep DEF Next

\* A song is recorded as one play however often the player or Discord shows it,
\* with or without its times, until it stands still or is sought for more than Gap
\* allows, another song is recorded, the process loses its markers, or a report gives
\* it a start that is not its own, as one with a duration and no position does: for
\* songs of any length and number, and a position that is off by any Jitter up to Gap.
THEOREM NoSongCountsTwice == Spec => []SongCountedOnce
<1>1. Inv => SongCountedOnce BY DEF Inv
<1> QED BY <1>1, InvInit, InvStep, PTL DEF Spec

\* A song that was recorded with its start is counted, also when the track is played
\* again: unless a start of that track was not known or, by a report, not its own, or
\* the later of two songs of the track began early in the song before it.
THEOREM NoSongIsMissed == Spec => []EverySongCounted
<1>1. Inv => EverySongCounted BY DEF Inv
<1> QED BY <1>1, InvInit, InvStep, PTL DEF Spec
=============================================================================

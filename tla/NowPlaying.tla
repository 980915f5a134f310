------------------------------ MODULE NowPlaying ------------------------------
(***************************************************************************)
(* What a user is shown to be listening to, and what of it is counted as a   *)
(* play: the music in Discord's activities (spotify.go, youtubemusic.go,     *)
(* nowplaying.go), the report of an external player (external.go), how the   *)
(* two are merged, and the comparison with the last track in recordHistory.  *)
(*                                                                           *)
(* Time counts in units of which Gap is sameTrackReplayMinGapMs; it starts   *)
(* late enough for no song to start at 0.  The user's player plays songs,    *)
(* one after the other; it PUTs reports, good and bad, and may have Discord  *)
(* show the same song as an activity.  Requests come one after the other     *)
(* here: their overlaps are the subject of Presence and of History.          *)
(***************************************************************************)
EXTENDS Plays, Sequences, FiniteSetsExt

CONSTANTS Tracks,
          Sources,      \* the names reports give their source, "youtube_music" by default
          SpotifyTrack, \* a track that Spotify plays, as Discord shows it
          Length,       \* how long every song lasts
          TTL,          \* ExternalMusicTTL
          Jitter,       \* how far ahead the position in a report may be
          Stamps,       \* where else the timestamps in a report may start
          MaxTime,      \* bound: units of time that pass
          MaxSongs,     \* bound: songs the player plays
          MaxUpdates,   \* bound: Discord updates, DELETE requests and restarts
          MaxActivities \* bound: activities that Discord shows at a time

ASSUME NowPlayingAssumption ==
  /\ {Length, TTL} \subseteq Nat \ {0} /\ {MaxTime, MaxSongs, MaxUpdates} \subseteq Nat
  /\ MaxActivities \in 0..2
  /\ Jitter \in 0..Gap /\ Stamps \subseteq Int /\ SpotifyTrack \notin Tracks /\ None \notin Tracks \cup {SpotifyTrack}

VARIABLES
  now,
  position,  \* of the player in its song
  discord,   \* the activities in Presence.DiscordPresence
  report,    \* Presence.ExternalMusic, and its copy in Redis
  mark,      \* lastTrackID and lastTrackStart
  updates,
  tracks,    \* ghost: the track of each song
  early,     \* ghost: the songs that began early in the song before
  drift,     \* ghost: how long it has stood still; more than Gap after a seek
  counted,   \* ghost: how often it has been recorded as a play, up to twice
  sighted,   \* ghost: the songs that were recorded with their start
  blind,     \* ghost: the tracks that were recorded without
  astray,    \* ghost: the songs of which a report gave a start that is not theirs
  displaced  \* ghost: the songs after which another was recorded, or the process ended

world == <<now, position, tracks, early, drift>>
plays == <<mark, counted, sighted, blind, displaced>>
vars == <<world, discord, report, plays, astray, updates>>

Songs == 1..Len(tracks)
Song == Len(tracks)

NoTimes == [start |-> 0, end |-> 0]
NoMusic == [source |-> "none", track |-> None, times |-> NoTimes, song |-> 0]
NoReport == [source |-> "none", track |-> None, times |-> NoTimes, song |-> 0, at |-> 0]

Init ==
  /\ now = Length + 1 /\ position = 0
  /\ discord = <<>> /\ report = NoReport
  /\ mark = [track |-> None, start |-> 0] /\ updates = 0
  /\ tracks = <<>> /\ drift = <<>> /\ counted = <<>> /\ early = {}
  /\ sighted = {} /\ blind = {} /\ astray = {} /\ displaced = {}

-----------------------------------------------------------------------------
(* buildPretty. *)

Live(em) == em # NoReport /\ now - em.at < TTL

Of(acts, kind) == {i \in DOMAIN acts : acts[i].kind = kind}
Music(source, a) == [source |-> source, track |-> a.track, times |-> a.times, song |-> a.song]

\* The last Spotify activity and the first of YouTube Music.
Spotify(acts) ==
  LET is == Of(acts, "spotify") IN
  IF is = {} THEN NoMusic ELSE Music("spotify", acts[Max(is)])

Ytm(acts) ==
  LET is == Of(acts, "ytm") IN
  IF is = {} THEN NoMusic ELSE Music("youtube_music", acts[Min(is)])

BuildNowPlaying(sp, yt) == IF sp # NoMusic THEN sp ELSE yt

\* Without a presence there is no music, as without activities.
FromDiscord(acts) ==
  [spotify |-> Spotify(acts), ytm |-> Ytm(acts),
   nowPlaying |-> BuildNowPlaying(Spotify(acts), Ytm(acts))]

Overlay(pretty, em) ==
  LET yt == Music("youtube_music", em) IN
  [pretty EXCEPT !.ytm = yt,
                 !.nowPlaying = [BuildNowPlaying(pretty.spotify, yt) EXCEPT !.source = em.source]]

\* Mutant: a report is merged although Spotify is playing.
MergeOverSpotify(pretty, em) == IF Live(em) THEN Overlay(pretty, em) ELSE pretty

\* mergeExternalMusic.  A source that is not empty replaces the one of NowPlaying.
MergeExternalMusic(pretty, em) ==
  IF Live(em) /\ pretty.spotify = NoMusic THEN Overlay(pretty, em) ELSE pretty

Pretty(acts, em) == MergeExternalMusic(FromDiscord(acts), em)

-----------------------------------------------------------------------------
(* recordHistory, at the end of every sync. *)

\* Compares what is shown with the last track: a status or a track without an id
\* changes nothing.
Record(np) ==
  LET new == IsNewPlay(np.track, mark.track, np.times.start, mark.start) IN
  IF np.track = None THEN UNCHANGED plays
  ELSE /\ mark' = [track |-> np.track, start |-> np.times.start]
       /\ counted' = [s \in Songs |-> IF new /\ s = np.song THEN Min({counted[s] + 1, 2}) ELSE counted[s]]
       /\ sighted' = IF np.times = NoTimes THEN sighted ELSE sighted \cup ({np.song} \ {0})
       /\ blind' = IF np.times = NoTimes THEN blind \cup {np.track} ELSE blind
       /\ displaced' = displaced \cup {s \in Songs : s # np.song /\ counted[s] > 0}

\* applySync with another report.
SyncExternal(em) == report' = em /\ Record(Pretty(discord, em).nowPlaying)

-----------------------------------------------------------------------------
(* The requests. *)

\* Mutant: the position may lie past the end.
DeriveUnclamped(in) ==
  LET start == now - (IF in.progress > 0 THEN in.progress ELSE 0) IN
  [start |-> start, end |-> start + in.duration]

\* Mutant: a song starts when it is reported.
DeriveFromNow(in) == [start |-> now, end |-> now + in.duration]

\* The position gives the start.  0 stands for one that is missing or negative: the
\* song then starts now.
Derive(in) ==
  LET progress == Max({0, Min({in.progress, in.duration})})
      start == now - progress IN
  [start |-> start, end |-> start + in.duration]

\* Timestamps override the position: with a field missing or no time between them
\* there are no times at all, and otherwise they are taken as they are.
Times(in) ==
  CASE in.given = "both" /\ in.times.end > in.times.start -> in.times
    [] in.given = "none" /\ in.duration > 0 -> Derive(in)
    [] OTHER -> NoTimes

\* A report of the player's song: timestamps, from the start of the song or from
\* anywhere, that may be empty or lack a field; a position that is right or missing,
\* with or without the duration.
Inputs ==
  LET starts == {now - Min({position + j, Length}) : j \in 0..Jitter} \cup Stamps
      times == {[start |-> s, end |-> s + Length] : s \in starts}
                 \cup {[start |-> s, end |-> s] : s \in starts}
      positions == {position + j : j \in 0..Jitter} \cup {0} IN
  [given : {"both"}, times : times, progress : {0}, duration : {Length}]
    \cup [given : {"partial"}, times : {NoTimes}, progress : {position}, duration : {Length}]
    \cup [given : {"none"}, times : {NoTimes}, progress : {position}, duration : {0}]
    \cup [given : {"none"}, times : {NoTimes}, progress : positions, duration : {Length}]

\* The start that a report gives its song is another than the player has it.
Misleading(in) ==
  LET claimed == IF in.given = "both" THEN now - in.times.start
                                      ELSE Min({in.progress, in.duration}) IN
  Times(in) # NoTimes /\ claimed \notin position..Min({position + Jitter, Length})

Accepted(in, src) ==
  [source |-> src, track |-> tracks[Song], times |-> Times(in), song |-> Song, at |-> now]

\* PUT now-playing.  The id of the track may come with its track_url.
SetExternalMusic ==
  /\ Song > 0
  /\ \E in \in Inputs, src \in Sources :
       /\ SyncExternal(Accepted(in, src))
       /\ astray' = IF Misleading(in) THEN astray \cup {Song} ELSE astray
  /\ UNCHANGED <<world, discord, updates>>

\* DELETE now-playing.
ClearExternalMusic ==
  /\ updates < MaxUpdates /\ updates' = updates + 1
  /\ SyncExternal(NoReport)
  /\ UNCHANGED <<world, discord, astray>>

\* The activities Discord may show: the player's own, and what Spotify plays,
\* with or without a track id.
Activities ==
  LET Activity(kind, t, times, s) == [kind |-> kind, track |-> t, times |-> times, song |-> s]
      start == now - position IN
  {Activity("spotify", SpotifyTrack, [start |-> 1, end |-> 1 + Length], 0),
   Activity("spotify", None, NoTimes, 0)}
    \cup {Activity("ytm", t, [start |-> start, end |-> start + Length], Song) :
            t \in IF Song = 0 THEN {} ELSE {tracks[Song]}}

\* A Discord update, through SyncLocal.
SyncLocal ==
  /\ updates < MaxUpdates /\ updates' = updates + 1
  /\ \E n \in 0..MaxActivities : discord' \in [1..n -> Activities]
  /\ Record(Pretty(discord', report).nowPlaying)
  /\ UNCHANGED <<world, report, astray>>

\* The process starts anew: LookupOrStart loads the report from Redis, and Discord
\* has yet to tell of the user's activities.
Restart ==
  /\ updates < MaxUpdates /\ updates' = updates + 1
  /\ mark' = [track |-> None, start |-> 0] /\ discord' = <<>>
  /\ displaced' = displaced \cup {s \in Songs : counted[s] > 0}
  /\ UNCHANGED <<world, report, counted, sighted, blind, astray>>

-----------------------------------------------------------------------------
(* The player. *)

\* The song runs, or stands still because it is paused or over.  A report that is
\* not refreshed is not live any more, and nothing shows it again.
Tick ==
  /\ now < Length + 1 + MaxTime /\ now' = now + 1
  /\ \/ position < Length /\ position' = position + 1 /\ UNCHANGED drift
     \/ /\ drift' = [s \in Songs |-> IF s = Song THEN Min({drift[s] + 1, Gap + 1}) ELSE drift[s]]
        /\ UNCHANGED position
  /\ report' = IF report # NoReport /\ now + 1 - report.at < TTL THEN report ELSE NoReport
  /\ UNCHANGED <<discord, plays, astray, updates, tracks, early>>

Begin(t) ==
  /\ Song < MaxSongs
  /\ tracks' = Append(tracks, t)
  /\ early' = IF position <= Gap + Jitter THEN early \cup {Song + 1} ELSE early
  /\ drift' = Append(drift, 0) /\ counted' = Append(counted, 0)
  /\ position' = 0
  /\ UNCHANGED <<now, discord, report, mark, sighted, blind, astray, displaced, updates>>

\* A seek to the start is as good as standing still for long.
Seek ==
  /\ Song > 0 /\ position' = 0 /\ drift' = [drift EXCEPT ![Song] = Gap + 1]
  /\ UNCHANGED <<now, discord, report, plays, astray, updates, tracks, early>>

Next ==
  \/ SetExternalMusic \/ ClearExternalMusic \/ SyncLocal \/ Restart
  \/ Tick \/ Seek \/ \E t \in Tracks : Begin(t)

Spec == Init /\ [][Next]_vars

-----------------------------------------------------------------------------
(* Correctness. *)

\* Spotify on Discord is what a user is shown to listen to whenever it plays, and
\* now_playing is the song of the field it stems from, under no other name: only
\* a report that calls its own source "spotify" is shown so without it.
SourceMatchesSong ==
  LET p == Pretty(discord, report)
      np == p.nowPlaying IN
  /\ np = IF p.spotify # NoMusic THEN p.spotify ELSE [p.ytm EXCEPT !.source = np.source]
  /\ np.source = "spotify" => p.spotify # NoMusic \/ report.source = "spotify"

\* types.go names two sources of now_playing.
SourceIsKnown == Pretty(discord, report).nowPlaying.source \in {"none", "spotify", "youtube_music"}

\* The times of a report span the moment it was accepted, though the position they
\* come from may be past the end: unless a report gave the song a start that is not
\* its own, which nothing compares with the clock.
ReportSpansItsArrival ==
  LET t == report.times IN
  (t # NoTimes /\ report.song \notin astray) => t.start < t.end /\ t.start <= report.at /\ report.at <= t.end

\* A song that runs, or has not stood still or been sought for more than Gap allows,
\* with no other song recorded in between, and whose markers were not lost.
Uninterrupted(s) == drift[s] + Jitter <= Gap /\ s \notin displaced

\* A song is recorded as one play however often it is reported, by the player or
\* by Discord, with or without its times, after its report expired or was deleted:
\* unless it was interrupted, or a report gave it a start that is not its own, as
\* one with a duration and no position does.
SongCountedOnce == \A s \in Songs : (Uninterrupted(s) /\ s \notin astray) => counted[s] <= 1

\* history.go would have the same track counted again only on a genuine restart.
NoReplayWithoutRestart == \A s \in Songs : Uninterrupted(s) => counted[s] <= 1

Later(r, s) == IF r < s THEN s ELSE r

\* A song that was recorded with its start is counted, also when it is the same
\* track again: unless a start of that track was not known or not its own, or the
\* later of two songs of that track began early in the song before it.
EverySongCounted ==
  \A s \in Songs \cap sighted :
    \/ counted[s] >= 1 \/ tracks[s] \in blind \/ \E r \in astray : tracks[r] = tracks[s]
    \/ \E r \in Songs \ {s} : tracks[r] = tracks[s] /\ Later(r, s) \in early

=============================================================================

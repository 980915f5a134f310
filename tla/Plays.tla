--------------------------------- MODULE Plays ---------------------------------
(***************************************************************************)
(* When a report of a track is a new play (presence/history.go).             *)
(***************************************************************************)
EXTENDS Integers

CONSTANTS None, \* no track
          Gap   \* sameTrackReplayMinGapMs

ASSUME PlaysAssumption == Gap \in Nat

\* absInt64 of a difference.
Distance(a, b) == IF a < b THEN b - a ELSE a - b

\* Mutant: every report of another start is a replay.
IsNewPlayAnyMove(track, lastTrack, start, lastStart) ==
  track # None /\ (track # lastTrack \/ start # lastStart)

\* Mutant: only another track is a new play.
IsNewPlayByTrack(track, lastTrack, start, lastStart) ==
  track # None /\ track # lastTrack

\* isNewPlay: another track, or the same one from a start that moved by more than
\* Gap; 0 is a start that is not known.
IsNewPlay(track, lastTrack, start, lastStart) ==
  /\ track # None
  /\ \/ track # lastTrack
     \/ start # 0 /\ lastStart # 0 /\ Distance(start, lastStart) > Gap

=============================================================================

--------------------------- MODULE ReviewPlayback ---------------------------
(***************************************************************************)
(* The player of the review workspace and the exposure it measures: active *)
(* playback only, a stretch watched again counted apart, whatever the      *)
(* player has not reported yet kept in a sample.                           *)
(*                                                                         *)
(* No variables: every operator takes the player it reads. Time is in      *)
(* units; settings that never stop or count playback (blur, grayscale,     *)
(* sound) are left out.                                                    *)
(***************************************************************************)
EXTENDS Integers

CONSTANT Duration  \* length of the footage, in units

ASSUME PlaybackAssumption == Duration \in Nat \ {0}

Sample == [active : Nat, replay : Nat]

Nothing    == [active |-> 0, replay |-> 0]
Plus(s, t) == [active |-> s.active + t.active, replay |-> s.replay + t.replay]
Units(s)   == s.active + s.replay

Player == [playing  : BOOLEAN,      \* the Auditor's intent, not the media state
           offline  : BOOLEAN,
           position : 0..Duration,
           furthest : 0..Duration,  \* the furthest point watched
           pending  : Sample]       \* measured, not reported yet

\* The workspace has just been mounted.
Opened(offline) == [playing |-> FALSE, offline |-> offline, position |-> 0,
                    furthest |-> 0, pending |-> Nothing]

CanPlay(p, paused) == ~paused /\ ~p.offline

\* Mutant: an interruption only hides the footage.
LeftPlaying(p) == p

\* The effect on canPlay: an interruption clears the intent to play.
Interrupted(p) == [p EXCEPT !.playing = FALSE]

GoneOffline(p) == [Interrupted(p) EXCEPT !.offline = TRUE]
GoneOnline(p)  == [p EXCEPT !.offline = FALSE]

Sought(p, to) == [p EXCEPT !.position = to]

\* togglePlayback: a finished video starts again from the beginning.
Toggled(p) ==
    [p EXCEPT !.playing  = ~p.playing,
              !.position = IF ~p.playing /\ p.position = Duration THEN 0 ELSE @]

Least(a, b)    == IF a < b THEN a ELSE b
Greatest(a, b) == IF a > b THEN a ELSE b

\* syncMediaPosition: playback went from the position to a later one. What
\* lies before the furthest point is a replay. At the end playback stops.
Played(p, to) ==
    LET replay == Greatest(0, Least(to, p.furthest) - p.position)
    IN  [p EXCEPT !.position = to,
                  !.furthest = Greatest(p.furthest, to),
                  !.playing  = to # Duration,
                  !.pending  = Plus(@, [active |-> to - p.position - replay,
                                        replay |-> replay])]

\* One second of the clock that stands in for a video: never across the
\* furthest point, so a replay or not as a whole.
Ticked(p) ==
    LET kind == IF p.position < p.furthest THEN [active |-> 0, replay |-> 1]
                ELSE [active |-> 1, replay |-> 0]
    IN  [p EXCEPT !.position = @ + 1,
                  !.furthest = Greatest(@, p.position + 1),
                  !.playing  = p.position + 1 # Duration,
                  !.pending  = Plus(@, kind)]

Reported(p) == [p EXCEPT !.pending = Nothing]
=============================================================================

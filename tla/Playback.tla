------------------------------ MODULE Playback ------------------------------
(***************************************************************************)
(* What a walkthrough promises, whatever drives it (clicks, timers,        *)
(* polling): one item of the menu plays at a time, its steps are shown one *)
(* after the other, forwards or backwards, never beyond its ends, and an   *)
(* item is recorded as done only by leaving its last step forwards.  Items *)
(* that are done stay done.                                                *)
(***************************************************************************)
EXTENDS Naturals

CONSTANTS Items,    \* what can be played
          Length,   \* Length[i]: number of steps of item i
          None      \* no item

VARIABLES playing,  \* the item on screen, or None
          at,       \* the step on screen, 0 when nothing plays
          done      \* items recorded as completed

playback == <<playing, at, done>>

Init == playing = None /\ at = 0 /\ done \in SUBSET Items

\* An item starts at its first step; one that plays is left or started again.
Start(i) == playing' = i /\ at' = 0 /\ UNCHANGED done

Forward == /\ playing # None
           /\ at + 1 < Length[playing]
           /\ at' = at + 1
           /\ UNCHANGED <<playing, done>>

Back == at > 0 /\ at' = at - 1 /\ UNCHANGED <<playing, done>>

Finish == /\ playing # None
          /\ at + 1 = Length[playing]
          /\ playing' = None /\ at' = 0
          /\ done' = done \union {playing}

Leave == playing' = None /\ at' = 0 /\ UNCHANGED done

Next == (\E i \in Items : Start(i)) \/ Forward \/ Back \/ Finish \/ Leave

Spec == Init /\ [][Next]_playback

=============================================================================

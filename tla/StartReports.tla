---------------------------- MODULE StartReports ----------------------------
(***************************************************************************)
(* What a player promises a server that waits to be told that a track has  *)
(* started before it asks for the next one: tracks begin in the order they *)
(* were asked for, each is told of before another begins, so that none is  *)
(* forgotten, and what is heard is one track at a time, one that has begun,*)
(* and never goes back to an earlier one.                                  *)
(***************************************************************************)
EXTENDS Integers, Sequences

VARIABLES
  asked,   \* the last track the server asked for
  begun,   \* the tracks that have begun, in their order
  told,    \* the tracks the server was told of
  heard    \* the first and the last frame of what was heard last

vars == <<asked, begun, told, heard>>

Init == asked = 0 /\ begun = << >> /\ told = << >> /\ heard = << >>

Ask ==
  /\ asked' = asked + 1
  /\ UNCHANGED <<begun, told, heard>>

Begin(track) ==
  /\ told = begun
  /\ \A i \in 1..Len(begun) : begun[i] < track
  /\ begun' = Append(begun, track)
  /\ UNCHANGED <<asked, told, heard>>

Tell ==
  /\ told' = begun
  /\ UNCHANGED <<asked, begun, heard>>

Hear(i) ==
  /\ heard # << >> => heard[2] <= begun[i]
  /\ heard' = <<begun[i], begun[i]>>
  /\ UNCHANGED <<asked, begun, told>>

Next ==
  \/ Ask
  \/ \E track \in 1..asked : Begin(track)
  \/ Tell
  \/ \E i \in 1..Len(begun) : Hear(i)

Spec == Init /\ [][Next]_vars
=============================================================================

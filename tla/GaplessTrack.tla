---------------------------- MODULE GaplessTrack ----------------------------
(***************************************************************************)
(* What a decoder promises about one track: the frames it hands on are the *)
(* wanted frames of that track, in their order and none of them twice, and *)
(* when it says that the track is over all of them were handed on.  A      *)
(* stream whose header the decoder has spoilt (sound is FALSE) is promised *)
(* nothing.                                                                *)
(***************************************************************************)
EXTENDS Sequences, SequencesExt

VARIABLES
  wanted,   \* the frames of the track without the encoder's padding
  heard,    \* the frames handed on so far
  over,     \* the decoder has stopped by itself
  sound     \* the header was read as it was sent

vars == <<wanted, heard, over, sound>>

Init == heard = << >> /\ over = FALSE /\ sound = TRUE

(* A few more frames. *)
Play ==
  /\ sound' /\ ~over
  /\ IsPrefix(heard, heard') /\ IsPrefix(heard', wanted)
  /\ UNCHANGED <<wanted, over>>

(* The end, when all was handed on. *)
End ==
  /\ sound' /\ ~over /\ over'
  /\ heard = wanted
  /\ UNCHANGED <<wanted, heard>>

(* The next track. *)
Open ==
  /\ heard' = << >> /\ ~over' /\ sound'

Spoilt == ~sound'

Next == Play \/ End \/ Open \/ Spoilt

Spec == Init /\ [][Next]_vars
=============================================================================

------------------------- MODULE StreamBufferUnwrap -------------------------
(***************************************************************************)
(* The rest of _buf_unwrap: the data wraps, which the mp4 header parser    *)
(* (alac.c) meets when an atom straddles the end of streambuf.  The parser *)
(* asks for `cont` bytes in one run; `asked` remembers the request until   *)
(* the buffer changes again.  malloc fails for an impossible size and      *)
(* succeeds otherwise.                                                     *)
(***************************************************************************)
EXTENDS StreamBuffer

VARIABLES
  asked,     \* length of the last atom the parser wanted in one run, or 0
  crashed    \* a copy of negative length has killed the process

unwrapVars == <<mem, readp, writep, asked, crashed>>

(* size = by - (readp - writep), but size is a size_t *)
Overlap(cont) == Shortage(cont) - (readp - writep)

SpareRoom(cont) == Overlap(cont) < 0

(* The tail moves down by `by` and the first bytes follow it: size = 0, or *)
(* the bytes the tail overwrites were put aside in the scratch zone.       *)
UnwrapMoved(cont) ==
  LET by == Shortage(cont) IN
  /\ Overlap(cont) >= 0
  /\ Overlap(cont) > 0 => writep >= by + Overlap(cont)
  /\ mem' = [k \in Cells |->
               IF writep > by /\ k < writep - by THEN mem[k + by]
               ELSE IF k >= readp - by /\ k < BufSize - by THEN mem[k + by]
               ELSE IF k >= BufSize - by /\ k < BufSize - by + LesserOf(writep, by)
                      THEN mem[k - (BufSize - by)] ELSE mem[k]]
  /\ readp' = readp - by
  /\ writep' = IF writep > by THEN writep - by
                ELSE writep + BufSize - by
  /\ UNCHANGED crashed

(* size < 0 is a huge size_t: `size <= 0` is false, malloc fails and the   *)
(* two recursive calls meet the same fate down to requests that need       *)
(* nothing.                                                                *)
UnwrapSpareRoom(cont) ==
  /\ SpareRoom(cont)
  /\ UNCHANGED <<mem, readp, writep, crashed>>

(* The scratch zone does not help when the first `by` bytes reach into it: *)
(* len - by - size, the length of the last memmove, is negative.           *)
UnwrapMissingRoom(cont) ==
  /\ Overlap(cont) > 0
  /\ writep < Shortage(cont) + Overlap(cont)
  /\ crashed' = TRUE
  /\ UNCHANGED <<mem, readp, writep>>

UnwrapWrapped(cont) ==
  /\ cont > BufSize - readp
  /\ cont < BufSize
  /\ writep < readp
  /\ \/ UnwrapMoved(cont)
     \/ UnwrapSpareRoom(cont)
     \/ UnwrapMissingRoom(cont)

ParserInit == Init /\ asked = 0 /\ crashed = FALSE

ParserNext ==
  /\ ~crashed
  /\ \/ (Fill \/ Drain \/ Flush) /\ asked' = 0 /\ UNCHANGED crashed
     \/ \E cont \in 1..BufSize - 1 :
          /\ asked' = cont
          /\ \/ UnwrapLinear(cont) /\ UNCHANGED crashed
             \/ UnwrapWrapped(cont)

ParserSpec == ParserInit /\ [][ParserNext]_unwrapVars
-----------------------------------------------------------------------------
(* An atom that is in the buffer is in one run once _buf_unwrap was called *)
(* for it (alac.c:278-283), so the parser gets on with it.  The code       *)
(* achieves it for data that does not wrap, when the room is the shortage, *)
(* and with less room through the scratch zone; not with more room.        *)
AtomContiguous == asked > 0 /\ asked <= BufUsed => ContRead >= asked

(* Whenever _buf_unwrap does move the data, the bytes are the same ones in *)
(* the same order, and an atom that is in the buffer is in one run.        *)
Gathers(cont) ==
  /\ Contents' = Contents
  /\ cont <= BufUsed => ContRead' >= cont
UnwrapGathers ==
  [][\A cont \in 1..BufSize - 1 :
       UnwrapLinear(cont) \/ (UnwrapWrapped(cont) /\ ~SpareRoom(cont) /\ ~crashed')
         => Gathers(cont)]_unwrapVars

(* A pointer never rests on wrap (_buf_inc_writep, buffer.c:58): there the *)
(* stream thread is offered no room.  (It does: where the second part just *)
(* fits in front of wrap, writep is added to without being wrapped.)       *)
PointersInside == readp \in Cells /\ writep \in Cells
=============================================================================

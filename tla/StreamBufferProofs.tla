------------------------- MODULE StreamBufferProofs -------------------------
(***************************************************************************)
(* The circular buffer keeps its pointers on cells, accounts for its room  *)
(* and implements a first-in first-out queue, whatever its size and the    *)
(* bytes it carries.                                                       *)
(***************************************************************************)
EXTENDS StreamBufferUnwrap, Integers, TLAPS

(* What the provers are given for a leaf, in seconds. *)
USE SMTT(20), ZenonT(40)

USE DEF Cells

(* Draining and flushing move pointers only; storing writes behind writep, *)
(* and moving down puts what is in use at lower cells.                     *)
LEMMA TypedStep ==
  ASSUME TypeOK, [Next]_vars
  PROVE  TypeOK'
<1> USE BufferAssumption DEF TypeOK
<1>1. CASE Drain \/ Flush \/ UNCHANGED vars
  BY <1>1 DEF Drain, Flush, vars, IncPtr, BufUsed
<1>2. CASE Fill
  BY <1>2 DEF Fill, IncPtr, LesserOf, BufSpace, BufUsed, ContWrite
<1>3. CASE \E cont \in Cells : UnwrapLinear(cont)
  <2>1. PICK cont \in Cells : UnwrapLinear(cont)
    BY <1>3
  <2>2. QED
    BY <2>1 DEF UnwrapLinear, Shortage
<1>4. QED
  BY <1>1, <1>2, <1>3 DEF Next

(* The pointers and the bytes keep their types under every operation of    *)
(* buffer.c, wrapping included.                                            *)
THEOREM BufferTyping == Spec => []TypeOK
<1>1. Init => TypeOK
  BY BufferAssumption DEF Init, TypeOK
<1>2. QED
  BY <1>1, TypedStep, PTL DEF Spec

(* Neither side is ever denied a contiguous run while it has bytes or      *)
(* room: the stream thread and the codecs cannot stall on the wrap.        *)
THEOREM BufferRoom == Spec => []NoFalseStall
<1>1. TypeOK => NoFalseStall
  BY BufferAssumption
  DEF TypeOK, NoFalseStall, BufUsed, BufSpace, ContWrite, ContRead
<1>2. QED
  BY <1>1, BufferTyping, PTL

-----------------------------------------------------------------------------
(***************************************************************************)
(* The refinement.  The lemmas speak of any bytes m and positions r and w, *)
(* so that they serve for the state before a step and for the one after.   *)
(***************************************************************************)
UsedOf(r, w) == IF w >= r THEN w - r ELSE BufSize - (r - w)

ContentsOf(m, r, w) == [i \in 1..UsedOf(r, w) |-> m[IncPtr(r, i - 1)]]

(* There are never more bytes than usable cells. *)
LEMMA UsedBound ==
  ASSUME NEW r \in Cells, NEW w \in Cells
  PROVE  UsedOf(r, w) \in 0..BufSize - 1
BY BufferAssumption DEF UsedOf

(* The contents are a sequence of bytes, as many as are in use. *)
LEMMA ContentsSeq ==
  ASSUME NEW m \in [Cells -> Byte], NEW r \in Cells, NEW w \in Cells
  PROVE  /\ ContentsOf(m, r, w) \in Seq(Byte)
         /\ Len(ContentsOf(m, r, w)) = UsedOf(r, w)
         /\ \A i \in 1..UsedOf(r, w) :
              ContentsOf(m, r, w)[i] = m[IncPtr(r, i - 1)]
<1>1. \A i \in 1..UsedOf(r, w) : IncPtr(r, i - 1) \in Cells
  BY BufferAssumption DEF IncPtr, UsedOf
<1>2. ContentsOf(m, r, w) \in [1..UsedOf(r, w) -> Byte]
  BY <1>1 DEF ContentsOf
<1>3. UsedOf(r, w) \in Nat
  BY UsedBound
<1>4. \A i \in 1..UsedOf(r, w) : ContentsOf(m, r, w)[i] = m[IncPtr(r, i - 1)]
  BY DEF ContentsOf
<1>5. \A k \in Nat : \A c \in [1..k -> Byte] : c \in Seq(Byte) /\ Len(c) = k
  OBVIOUS
<1>6. QED
  BY <1>2, <1>3, <1>4, <1>5

(* Two sequences of the same length with the same elements are equal. *)
LEMMA SameElements ==
  ASSUME NEW s \in Seq(Byte), NEW t \in Seq(Byte), Len(s) = Len(t),
         \A i \in 1..Len(s) : s[i] = t[i]
  PROVE  s = t
OBVIOUS

(* Storing a run at writep and moving writep appends it to the contents.   *)
LEMMA FillAppends ==
  ASSUME TypeOK, TypeOK', Fill
  PROVE  Queue!Put
<1> USE BufferAssumption
<1>1. PICK n \in 1..LesserOf(BufSpace, ContWrite) :
        \E chunk \in [1..n -> Byte] :
          /\ mem' = [k \in Cells |-> IF k >= writep /\ k < writep + n
                                       THEN chunk[k - writep + 1] ELSE mem[k]]
          /\ writep' = IncPtr(writep, n)
          /\ readp' = readp
  BY DEF Fill
<1>2. PICK chunk \in [1..n -> Byte] :
        /\ mem' = [k \in Cells |-> IF k >= writep /\ k < writep + n
                                     THEN chunk[k - writep + 1] ELSE mem[k]]
        /\ writep' = IncPtr(writep, n)
        /\ readp' = readp
  BY <1>1
<1> DEFINE used == UsedOf(readp, writep)
<1>3. /\ n \in Nat \ {0}
      /\ n <= BufSize - 1 - used
      /\ n <= ContWrite
  BY DEF TypeOK, LesserOf, BufSpace, ContWrite, BufUsed, UsedOf
<1>4. UsedOf(readp', writep') = used + n
  BY <1>2, <1>3 DEF TypeOK, UsedOf, ContWrite, IncPtr
<1>5. ASSUME NEW i \in 1..used
      PROVE  mem'[IncPtr(readp, i - 1)] = mem[IncPtr(readp, i - 1)]
  <2>1. IncPtr(readp, i - 1) \in Cells
    BY DEF TypeOK, UsedOf, IncPtr
  <2>2. ~(IncPtr(readp, i - 1) >= writep /\ IncPtr(readp, i - 1) < writep + n)
    BY <1>3 DEF TypeOK, UsedOf, ContWrite, IncPtr
  <2>3. QED
    BY <1>2, <2>1, <2>2
<1>6. ASSUME NEW i \in 1..n
      PROVE  mem'[IncPtr(readp, used + i - 1)] = chunk[i]
  <2>1. IncPtr(readp, used + i - 1) = writep + i - 1
    BY <1>3 DEF TypeOK, UsedOf, ContWrite, IncPtr
  <2>2. writep + i - 1 \in Cells
    BY <1>3 DEF TypeOK, UsedOf, ContWrite
  <2>3. QED
    BY <1>2, <2>1, <2>2 DEF TypeOK
<1>7. chunk \in Seq(Byte) /\ Len(chunk) = n
  BY <1>3
<1>8. used \in Nat
  <2>1. used \in 0..BufSize - 1
    BY UsedBound DEF TypeOK
  <2>2. QED
    BY <2>1
<1> DEFINE before == ContentsOf(mem, readp, writep)
           after  == ContentsOf(mem', readp', writep')
<1>9. /\ before \in Seq(Byte) /\ Len(before) = used
      /\ \A i \in 1..used : before[i] = mem[IncPtr(readp, i - 1)]
  BY ContentsSeq DEF TypeOK
<1>10. /\ after \in Seq(Byte) /\ Len(after) = used + n
       /\ \A i \in 1..used + n : after[i] = mem'[IncPtr(readp, i - 1)]
  <2> HIDE DEF used, before
  <2>1. /\ ContentsOf(mem', readp', writep') \in Seq(Byte)
        /\ Len(ContentsOf(mem', readp', writep')) = UsedOf(readp', writep')
        /\ \A i \in 1..UsedOf(readp', writep') :
             ContentsOf(mem', readp', writep')[i] = mem'[IncPtr(readp', i - 1)]
    BY ContentsSeq DEF TypeOK
  <2>2. QED
    BY <2>1, <1>2, <1>4
<1>11. after = before \o chunk
  <2> HIDE DEF before, after, used
  <2>1. before \o chunk \in Seq(Byte) /\ Len(before \o chunk) = used + n
    BY <1>3, <1>7, <1>8, <1>9
  <2>2. ASSUME NEW i \in 1..used + n
        PROVE  after[i] = (before \o chunk)[i]
    <3>1. CASE i <= used
      <4>1. i \in 1..used
        BY <3>1, <1>3, <1>8
      <4>2. after[i] = mem[IncPtr(readp, i - 1)]
        BY <4>1, <1>5, <1>10
      <4>3. (before \o chunk)[i] = before[i]
        BY <4>1, <1>3, <1>7, <1>8, <1>9
      <4>4. QED
        BY <4>1, <4>2, <4>3, <1>9
    <3>2. CASE i > used
      <4>1. i - used \in 1..n /\ used + (i - used) - 1 = i - 1
        BY <3>2, <1>3, <1>8
      <4>2. mem'[IncPtr(readp, i - 1)] = chunk[i - used]
        BY <4>1, <1>6
      <4>3. (before \o chunk)[i] = chunk[i - used]
        BY <3>2, <1>3, <1>7, <1>8, <1>9
      <4>4. QED
        BY <4>2, <4>3, <1>10
    <3>3. i <= used \/ i > used
      BY <1>3, <1>8
    <3>4. QED
      BY <3>1, <3>2, <3>3
  <2>3. QED
    BY <2>1, <2>2, <1>10, SameElements
<1>12. n \in 1..BufSize - 1 - Len(before)
  <2> HIDE DEF before, used
  <2>1. QED
    BY <1>3, <1>8, <1>9
<1>13. Contents = before /\ Contents' = after
  BY DEF Contents, ContentsOf, BufUsed, UsedOf
<1>14. QED
  <2> HIDE DEF before, after, used
  <2>1. QED
    BY <1>11, <1>12, <1>13 DEF Queue!Put

(* Stepping readp over n bytes takes them off the front. *)
LEMMA DrainTakes ==
  ASSUME TypeOK, TypeOK', Drain
  PROVE  Queue!Take
<1> USE BufferAssumption
<1> DEFINE used == UsedOf(readp, writep)
           before == ContentsOf(mem, readp, writep)
           after  == ContentsOf(mem, readp', writep)
<1>1. PICK n \in 1..used : readp' = IncPtr(readp, n) /\ mem' = mem /\ writep' = writep
  BY DEF Drain, BufUsed, UsedOf
<1>2. used \in 0..BufSize - 1
  BY UsedBound DEF TypeOK
<1>3. UsedOf(readp', writep) = used - n
  BY <1>1 DEF TypeOK, UsedOf, IncPtr
<1>4. /\ before \in Seq(Byte) /\ Len(before) = used
      /\ \A i \in 1..used : before[i] = mem[IncPtr(readp, i - 1)]
  BY ContentsSeq DEF TypeOK
<1>5. /\ after \in Seq(Byte) /\ Len(after) = used - n
      /\ \A i \in 1..used - n : after[i] = mem[IncPtr(readp', i - 1)]
  <2>1. writep \in Cells /\ readp' \in Cells /\ mem \in [Cells -> Byte]
    BY DEF TypeOK
  <2> HIDE DEF used, before
  <2>2. /\ after \in Seq(Byte) /\ Len(after) = UsedOf(readp', writep)
        /\ \A i \in 1..UsedOf(readp', writep) : after[i] = mem[IncPtr(readp', i - 1)]
    BY <2>1, ContentsSeq
  <2> HIDE DEF after
  <2>3. QED
    BY <2>2, <1>3
<1>6. ASSUME NEW i \in 1..used - n
      PROVE  IncPtr(readp', i - 1) = IncPtr(readp, n + i - 1)
  BY <1>1, <1>2 DEF TypeOK, UsedOf, IncPtr
<1>7. after = SubSeq(before, n + 1, Len(before))
  <2> HIDE DEF before, after, used
  <2> DEFINE rest == SubSeq(before, n + 1, Len(before))
  <2>1. /\ rest \in Seq(Byte) /\ Len(rest) = used - n
        /\ \A i \in 1..used - n : rest[i] = before[n + i]
    BY <1>1, <1>2, <1>4
  <2>2. ASSUME NEW i \in 1..used - n
        PROVE  after[i] = rest[i]
    <3>1. n + i \in 1..used
      BY <1>1, <1>2
    <3>2. rest[i] = mem[IncPtr(readp, n + i - 1)]
      BY <2>1, <3>1, <1>4
    <3>3. QED
      BY <3>2, <1>5, <1>6
  <2> HIDE DEF rest
  <2>3. QED
    BY <2>1, <2>2, <1>5, SameElements DEF rest
<1>8. Contents = before /\ Contents' = after
  BY <1>1 DEF Contents, ContentsOf, BufUsed, UsedOf
<1>9. QED
  <2> HIDE DEF before, after, used
  <2>1. QED
    BY <1>1, <1>4, <1>7, <1>8 DEF Queue!Take

(* Both pointers back at the start of buf leave nothing. *)
LEMMA FlushClears ==
  ASSUME TypeOK, Flush
  PROVE  Queue!Clear
BY DEF Flush, Contents, BufUsed, Queue!Clear

(* What holds of the pointers even where _buf_unwrap leaves writep on wrap. *)
ParserTyped ==
  /\ mem \in [Cells -> Byte]
  /\ readp \in Cells
  /\ writep \in 0..BufSize

(* Moving the data down changes neither the bytes nor their order. *)
LEMMA UnwrapKeeps ==
  ASSUME ParserTyped, NEW cont \in Cells, UnwrapLinear(cont)
  PROVE  Contents' = Contents
<1> USE BufferAssumption
<1>1. /\ Shortage(cont) \in 1..readp
      /\ readp' = readp - Shortage(cont)
      /\ writep' = writep - Shortage(cont)
      /\ writep >= readp
  BY DEF UnwrapLinear, Shortage, ParserTyped
<1>2. BufUsed = writep - readp /\ BufUsed' = writep - readp
  BY <1>1 DEF BufUsed, ParserTyped
<1>3. ASSUME NEW i \in 1..writep - readp
      PROVE  mem'[IncPtr(readp', i - 1)] = mem[IncPtr(readp, i - 1)]
  <2>1. /\ IncPtr(readp', i - 1) = readp - Shortage(cont) + i - 1
        /\ IncPtr(readp, i - 1) = readp + i - 1
    BY <1>1 DEF IncPtr, ParserTyped
  <2>2. readp - Shortage(cont) + i - 1 \in Cells
    BY <1>1 DEF ParserTyped
  <2>3. mem'[readp - Shortage(cont) + i - 1] = mem[readp + i - 1]
    <3> DEFINE k == readp - Shortage(cont) + i - 1
    <3>1. /\ k \in Cells
          /\ k >= readp - Shortage(cont) /\ k < writep - Shortage(cont)
          /\ k + Shortage(cont) = readp + i - 1
      BY <2>2, <1>1 DEF ParserTyped
    <3> HIDE DEF k
    <3>2. mem'[k] = mem[k + Shortage(cont)]
      BY <3>1 DEF UnwrapLinear
    <3>3. QED
      BY <3>1, <3>2 DEF k
  <2>4. QED
    BY <2>1, <2>3
<1>4. QED
  BY <1>2, <1>3 DEF Contents

(* Every step of the circular buffer is a step of the bounded queue: no    *)
(* byte is lost, repeated or overtaken, for any size and any bytes.        *)
THEOREM BufferIsQueue == Spec => QueueSpec
<1>1. Init => Queue!Init
  BY BufferAssumption DEF Init, Queue!Init, Contents, BufUsed
<1>2. TypeOK /\ TypeOK' /\ [Next]_vars => [Queue!Next]_Contents
  <2> SUFFICES ASSUME TypeOK, TypeOK', [Next]_vars
               PROVE  [Queue!Next]_Contents
    OBVIOUS
  <2>1. CASE UNCHANGED vars \/ \E cont \in Cells : UnwrapLinear(cont)
    <3>1. CASE UNCHANGED vars
      BY <3>1 DEF vars, Contents, BufUsed
    <3>2. ASSUME NEW cont \in Cells, UnwrapLinear(cont) PROVE Contents' = Contents
      BY <3>2, UnwrapKeeps, BufferAssumption DEF TypeOK, ParserTyped
    <3>3. QED
      BY <2>1, <3>1, <3>2
  <2>2. CASE Fill \/ Drain \/ Flush
    BY <2>2, FillAppends, DrainTakes, FlushClears DEF Queue!Next
  <2>3. QED
    BY <2>1, <2>2 DEF Next
<1>3. QED
  BY <1>1, <1>2, BufferTyping, PTL DEF Spec, QueueSpec, Queue!Spec

-----------------------------------------------------------------------------
(* A cell of data that wraps keeps its byte when the tail moves down by    *)
(* the shortage and the first bytes follow it.                             *)
LEMMA MovedCell ==
  ASSUME ParserTyped, NEW cont \in Cells, UnwrapWrapped(cont), UnwrapMoved(cont),
         NEW i \in 1..BufUsed
  PROVE  mem'[IncPtr(readp', i - 1)] = mem[IncPtr(readp, i - 1)]
<1> USE BufferAssumption
<1> DEFINE by == Shortage(cont)
           k  == IncPtr(readp', i - 1)
<1>1. /\ by \in 1..readp - writep + BufSize /\ by < readp
      /\ readp' = readp - by /\ writep < readp
      /\ by >= readp - writep
      /\ i \in 1..BufSize - (readp - writep)
  BY DEF UnwrapWrapped, UnwrapMoved, Overlap, Shortage, BufUsed, ParserTyped
<1>2. \A c \in Cells : mem'[c] =
        IF writep > by /\ c < writep - by THEN mem[c + by]
        ELSE IF c >= readp - by /\ c < BufSize - by THEN mem[c + by]
        ELSE IF c >= BufSize - by /\ c < BufSize - by + LesserOf(writep, by)
               THEN mem[c - (BufSize - by)] ELSE mem[c]
  BY DEF UnwrapMoved
<1>3. by \in Int /\ readp \in Int /\ writep \in Int /\ BufSize \in Int /\ writep >= 0
      /\ readp < BufSize /\ i \in Int
  BY <1>1 DEF ParserTyped
<1> HIDE DEF by
<1>4. CASE readp + (i - 1) < BufSize
  <2>1. k = readp - by + (i - 1) /\ IncPtr(readp, i - 1) = readp + (i - 1)
    BY <1>1, <1>3, <1>4 DEF IncPtr
  <2>2. /\ k \in Cells /\ ~(writep > by /\ k < writep - by)
        /\ k >= readp - by /\ k < BufSize - by /\ k + by = readp + (i - 1)
    BY <1>1, <1>3, <1>4, <2>1
  <2> HIDE DEF k
  <2>3. mem'[k] = mem[k + by]
    BY <1>2, <2>2
  <2>4. QED
    BY <2>1, <2>2, <2>3 DEF k
<1>5. CASE readp + (i - 1) >= BufSize /\ readp - by + (i - 1) < BufSize
  <2>1. k = readp - by + (i - 1) /\ IncPtr(readp, i - 1) = readp + (i - 1) - BufSize
    BY <1>1, <1>3, <1>5 DEF IncPtr
  <2>2. /\ k \in Cells /\ ~(writep > by /\ k < writep - by)
        /\ ~(k < BufSize - by) /\ k >= BufSize - by
        /\ k < BufSize - by + LesserOf(writep, by)
        /\ k - (BufSize - by) = readp + (i - 1) - BufSize
    BY <1>1, <1>3, <1>5, <2>1 DEF LesserOf
  <2> HIDE DEF k
  <2>3. mem'[k] = mem[k - (BufSize - by)]
    BY <1>2, <2>2
  <2>4. QED
    BY <2>1, <2>2, <2>3 DEF k
<1>6. CASE readp - by + (i - 1) >= BufSize
  <2>1. /\ k = readp - by + (i - 1) - BufSize
        /\ IncPtr(readp, i - 1) = readp + (i - 1) - BufSize
    BY <1>1, <1>3, <1>6 DEF IncPtr
  <2>2. k \in Cells /\ writep > by /\ k < writep - by /\ k + by = readp + (i - 1) - BufSize
    BY <1>1, <1>3, <1>6, <2>1
  <2> HIDE DEF k
  <2>3. mem'[k] = mem[k + by]
    BY <1>2, <2>2
  <2>4. QED
    BY <2>1, <2>2, <2>3 DEF k
<1>7. QED
  BY <1>3, <1>4, <1>5, <1>6

(* Moving data that wraps loses nothing and leaves the atom in one run. *)
LEMMA MoveGathers ==
  ASSUME ParserTyped, NEW cont \in Cells, UnwrapWrapped(cont), UnwrapMoved(cont)
  PROVE  Gathers(cont)
<1> USE BufferAssumption
<1> DEFINE by == Shortage(cont)
<1>1. /\ by \in Int /\ by > 0 /\ by < readp /\ by = cont - (BufSize - readp)
      /\ readp' = readp - by /\ writep < readp /\ by >= readp - writep
      /\ writep' = IF writep > by THEN writep - by ELSE writep + BufSize - by
  BY DEF UnwrapWrapped, UnwrapMoved, Overlap, Shortage, ParserTyped
<1>2. BufUsed' = BufUsed
  BY <1>1 DEF BufUsed, ParserTyped
<1>3. cont <= BufUsed => ContRead' >= cont
  BY <1>1 DEF BufUsed, ContRead, ParserTyped
<1>4. Contents' = Contents
  BY <1>2, MovedCell DEF Contents
<1>5. QED
  BY <1>3, <1>4 DEF Gathers

(* Data that does not wrap stays in one run. *)
LEMMA LinearGathers ==
  ASSUME ParserTyped, NEW cont \in Cells, UnwrapLinear(cont)
  PROVE  Gathers(cont)
<1>1. Contents' = Contents
  BY UnwrapKeeps
<1>2. cont <= BufUsed => ContRead' >= cont
  BY BufferAssumption DEF UnwrapLinear, Shortage, BufUsed, ContRead, ParserTyped
<1>3. QED
  BY <1>1, <1>2 DEF Gathers

(* The pointers keep their types under the parser's requests too. *)
LEMMA ParserStep ==
  ASSUME ParserTyped, [ParserNext]_unwrapVars
  PROVE  ParserTyped'
<1> USE BufferAssumption
<1>1. CASE Fill
  <2>1. PICK n \in 1..LesserOf(BufSpace, ContWrite) : \E chunk \in [1..n -> Byte] :
          /\ mem' = [c \in Cells |-> IF c >= writep /\ c < writep + n
                                       THEN chunk[c - writep + 1] ELSE mem[c]]
          /\ writep' = IncPtr(writep, n) /\ readp' = readp
    BY <1>1 DEF Fill
  <2>2. PICK chunk \in [1..n -> Byte] :
          mem' = [c \in Cells |-> IF c >= writep /\ c < writep + n
                                     THEN chunk[c - writep + 1] ELSE mem[c]]
    BY <2>1
  <2>3. n \in Nat /\ n <= ContWrite
    BY <2>1 DEF LesserOf, BufSpace, BufUsed, ContWrite, ParserTyped
  <2>4. writep' \in 0..BufSize
    BY <2>1, <2>3 DEF IncPtr, ContWrite, ParserTyped
  <2>5. \A c \in Cells : c >= writep /\ c < writep + n => c - writep + 1 \in 1..n
    BY <2>3 DEF ParserTyped
  <2>6. mem' \in [Cells -> Byte]
    BY <2>2, <2>5 DEF ParserTyped
  <2>7. QED
    BY <2>1, <2>4, <2>6 DEF ParserTyped
<1>2. CASE Drain
  BY <1>2 DEF Drain, IncPtr, BufUsed, ParserTyped
<1>3. CASE Flush
  BY <1>3 DEF Flush, ParserTyped
<1>4. ASSUME NEW cont \in 1..BufSize - 1, UnwrapLinear(cont)
      PROVE  ParserTyped'
  <2>1. readp' \in Cells /\ writep' \in 0..BufSize
    BY <1>4 DEF UnwrapLinear, Shortage, ParserTyped
  <2>2. \A c \in Cells : c >= readp - Shortage(cont) /\ c < writep - Shortage(cont)
                          => c + Shortage(cont) \in Cells
    BY <1>4 DEF UnwrapLinear, Shortage, ParserTyped
  <2>3. mem' \in [Cells -> Byte]
    BY <1>4, <2>2 DEF UnwrapLinear, ParserTyped
  <2>4. QED
    BY <2>1, <2>3 DEF ParserTyped
<1>5. ASSUME NEW cont \in 1..BufSize - 1, UnwrapWrapped(cont)
      PROVE  ParserTyped'
  <2>1. CASE UnwrapMoved(cont)
    <3> DEFINE by == Shortage(cont)
    <3>1. /\ by \in Int /\ by > 0 /\ by < readp /\ by >= readp - writep /\ writep < readp
          /\ readp' = readp - by
          /\ writep' = IF writep > by THEN writep - by ELSE writep + BufSize - by
      BY <1>5, <2>1 DEF UnwrapWrapped, UnwrapMoved, Overlap, Shortage, ParserTyped
    <3>2. readp' \in Cells /\ writep' \in 0..BufSize
      BY <3>1 DEF ParserTyped
    <3>3. mem' = [c \in Cells |->
               IF writep > by /\ c < writep - by THEN mem[c + by]
               ELSE IF c >= readp - by /\ c < BufSize - by THEN mem[c + by]
               ELSE IF c >= BufSize - by /\ c < BufSize - by + LesserOf(writep, by)
                      THEN mem[c - (BufSize - by)] ELSE mem[c]]
      BY <2>1 DEF UnwrapMoved
    <3>4. readp \in Int /\ writep \in Int /\ readp < BufSize /\ writep >= 0
      BY DEF ParserTyped
    <3> HIDE DEF by
    <3>5. ASSUME NEW c \in Cells PROVE mem'[c] \in Byte
      <4>1. writep > by /\ c < writep - by => c + by \in Cells
        BY <3>1, <3>4
      <4>2. c >= readp - by /\ c < BufSize - by => c + by \in Cells
        BY <3>1, <3>4
      <4>3. c >= BufSize - by => c - (BufSize - by) \in Cells
        BY <3>1, <3>4
      <4>4. QED
        BY <3>3, <4>1, <4>2, <4>3 DEF ParserTyped
    <3>6. QED
      BY <3>2, <3>3, <3>5 DEF ParserTyped
  <2>2. CASE UnwrapSpareRoom(cont) \/ UnwrapMissingRoom(cont)
    BY <2>2 DEF UnwrapSpareRoom, UnwrapMissingRoom, ParserTyped
  <2>3. QED
    BY <1>5, <2>1, <2>2 DEF UnwrapWrapped
<1>6. CASE UNCHANGED unwrapVars
  BY <1>6 DEF unwrapVars, ParserTyped
<1>7. QED
  BY <1>1, <1>2, <1>3, <1>4, <1>5, <1>6 DEF ParserNext

(* Whenever _buf_unwrap moves the data the parser finds the same bytes in  *)
(* the same order, and its atom in one run if it is in the buffer, for any *)
(* size of the buffer and whatever came before.                            *)
THEOREM BufferGathers == ParserSpec => UnwrapGathers
<1>1. ParserInit => ParserTyped
  BY BufferAssumption DEF ParserInit, Init, ParserTyped
<1>2. ParserTyped /\ [ParserNext]_unwrapVars => ParserTyped'
  BY ParserStep
<1>3. ParserTyped /\ [ParserNext]_unwrapVars =>
        [\A cont \in 1..BufSize - 1 :
           UnwrapLinear(cont) \/ (UnwrapWrapped(cont) /\ ~SpareRoom(cont) /\ ~crashed')
             => Gathers(cont)]_unwrapVars
  <2> SUFFICES ASSUME ParserTyped, NEW cont \in 1..BufSize - 1,
                      UnwrapLinear(cont) \/ (UnwrapWrapped(cont) /\ ~SpareRoom(cont) /\ ~crashed')
               PROVE  Gathers(cont)
    OBVIOUS
  <2>1. cont \in Cells
    BY BufferAssumption
  <2>2. CASE UnwrapLinear(cont)
    BY <2>1, <2>2, LinearGathers
  <2>3. CASE UnwrapWrapped(cont) /\ ~SpareRoom(cont) /\ ~crashed'
    <3>1. UnwrapMoved(cont)
      BY <2>3 DEF UnwrapWrapped, UnwrapSpareRoom, UnwrapMissingRoom
    <3>2. QED
      BY <2>1, <2>3, <3>1, MoveGathers
  <2>4. QED
    BY <2>2, <2>3
<1>4. QED
  BY <1>1, <1>2, <1>3, PTL DEF ParserSpec, UnwrapGathers
=============================================================================

-------------------------- MODULE OutputFadesProofs --------------------------
(***************************************************************************)
(* Theorems about OutputFades, for outputbuf, blocks, fades and tracks of  *)
(* any length, and for any number of tracks and of orders of LMS.          *)
(***************************************************************************)
EXTENDS OutputFades, SequenceTheorems, TLAPS

(* What the provers are given for a leaf, in seconds. *)
USE SMTT(20), ZenonT(40)

Cells == 0..Size - 1

(* Places in the ring: a step forward or back, and the way from one place  *)
(* to another, wrap at most once.                                          *)
LEMMA Around ==
  ASSUME NEW a \in Cells, NEW i \in 0..Size
  PROVE  /\ Forward(a, i) = IF a + i < Size THEN a + i ELSE a + i - Size
         /\ Back(a, i) = IF i <= a THEN a - i ELSE a - i + Size
         /\ Forward(a, i) \in Cells
         /\ Back(a, i) \in Cells
<1> USE FadesAssumption DEF Cells, Forward, Back
<1>1. CASE a + i < Size
  BY <1>1
<1>2. CASE a + i >= Size
  BY <1>2
<1>3. CASE i <= a
  BY <1>3
<1>4. CASE i > a
  BY <1>4
<1>5. QED
  BY <1>1, <1>2, <1>3, <1>4

LEMMA Apart ==
  ASSUME NEW a \in Cells, NEW b \in Cells
  PROVE  /\ Distance(a, b) = IF b >= a THEN b - a ELSE b - a + Size
         /\ Distance(a, b) \in Cells
<1> USE FadesAssumption DEF Cells, Distance
<1>1. CASE b >= a
  BY <1>1
<1>2. CASE b < a
  BY <1>2
<1>3. QED
  BY <1>1, <1>2

LEMMA Nowhere ==
  ASSUME NEW a \in Cells
  PROVE  Forward(a, 0) = a
<1>1. 0 \in 0..Size
  BY FadesAssumption
<1>2. Forward(a, 0) = IF a + 0 < Size THEN a + 0 ELSE a + 0 - Size
  BY <1>1, Around
<1>3. QED
  BY <1>2, FadesAssumption DEF Cells

(* A step forward brings what lies ahead nearer by as much; steps add up.  *)
LEMMA Ahead ==
  ASSUME NEW a \in Cells, NEW n \in 0..Size
  PROVE  /\ \A b \in Cells : n <= Distance(a, b) =>
              Distance(Forward(a, n), b) = Distance(a, b) - n
         /\ \A b \in Cells : Distance(b, a) + n < Size =>
              Distance(b, Forward(a, n)) = Distance(b, a) + n
         /\ \A i \in 0..Size - n : Forward(Forward(a, n), i) = Forward(a, n + i)
<1> USE FadesAssumption DEF Cells
<1> DEFINE c == Forward(a, n)
<1>1. c \in Cells /\ c = IF a + n < Size THEN a + n ELSE a + n - Size
  BY Around
<1> HIDE DEF c
<1>2. ASSUME NEW b \in Cells, n <= Distance(a, b)
      PROVE  Distance(c, b) = Distance(a, b) - n
  <2>1. Distance(a, b) = IF b >= a THEN b - a ELSE b - a + Size
    BY <1>1, Apart
  <2>2. Distance(c, b) = IF b >= c THEN b - c ELSE b - c + Size
    BY <1>1, Apart
  <2>3. QED
    BY <1>1, <1>2, <2>1, <2>2
<1>3. ASSUME NEW b \in Cells, Distance(b, a) + n < Size
      PROVE  Distance(b, c) = Distance(b, a) + n
  <2>1. Distance(b, a) = IF a >= b THEN a - b ELSE a - b + Size
    BY <1>1, Apart
  <2>2. Distance(b, c) = IF c >= b THEN c - b ELSE c - b + Size
    BY <1>1, Apart
  <2>3. QED
    BY <1>1, <1>3, <2>1, <2>2
<1>4. ASSUME NEW i \in 0..Size - n
      PROVE  Forward(c, i) = Forward(a, n + i)
  <2>1. i \in 0..Size /\ n + i \in 0..Size
    BY <1>4
  <2>2. Forward(c, i) = IF c + i < Size THEN c + i ELSE c + i - Size
    BY <1>1, <2>1, Around
  <2>3. Forward(a, n + i) = IF a + (n + i) < Size THEN a + (n + i) ELSE a + (n + i) - Size
    BY <2>1, Around
  <2>4. QED
    BY <1>1, <2>1, <2>2, <2>3
<1>5. QED
  BY <1>2, <1>3, <1>4 DEF c

(* The place n cells back is n cells behind. *)
LEMMA Behind ==
  ASSUME NEW a \in Cells, NEW n \in Cells
  PROVE  /\ Distance(Back(a, n), a) = n
         /\ \A b \in Cells : n <= Distance(b, a) =>
              Distance(b, Back(a, n)) = Distance(b, a) - n
<1> USE FadesAssumption DEF Cells
<1> DEFINE c == Back(a, n)
<1>1. c \in Cells /\ c = IF n <= a THEN a - n ELSE a - n + Size
  BY Around
<1> HIDE DEF c
<1>2. Distance(c, a) = n
  BY <1>1, Apart
<1>3. ASSUME NEW b \in Cells, n <= Distance(b, a)
      PROVE  Distance(b, c) = Distance(b, a) - n
  <2>1. Distance(b, a) = IF a >= b THEN a - b ELSE a - b + Size
    BY <1>1, Apart
  <2>2. Distance(b, c) = IF c >= b THEN c - b ELSE c - b + Size
    BY <1>1, Apart
  <2>3. QED
    BY <1>1, <1>3, <2>1, <2>2
<1>4. QED
  BY <1>2, <1>3 DEF c
-----------------------------------------------------------------------------
(***************************************************************************)
(* Types.  HistInv: the frames due are numbered upwards, none beyond the   *)
(* last one decoded, and the codec never decodes more of a track than it   *)
(* has.  Once the player is broken nothing more is known, and nothing more *)
(* happens.                                                                *)
(***************************************************************************)
Hists ==
  [due : Seq(Nat), last : Nat, first : Nat,
   window : [dir : {"none", "UP", "DOWN", "CROSS"}, tail : Seq(Nat), head : Seq(Nat)],
   lost : BOOLEAN, passed : BOOLEAN, moved : BOOLEAN, broken : BOOLEAN]

Upwards(due, last) ==
  \A i \in 1..Len(due) :
    due[i] <= last /\ \A j \in 1..Len(due) : i < j => due[i] < due[j]

Left == IF source.phase \in {"asked", "decoding"} THEN MaxLen - source.frames ELSE 0

HistInv ==
  ~hist.broken =>
    /\ hist \in Hists
    /\ Upwards(hist.due, hist.last) /\ hist.first <= hist.last + 1
    /\ hist.last + Left <= source.track * MaxLen

(***************************************************************************)
(* The ring.  From readp on it holds the frames due, in their order.       *)
(***************************************************************************)
Holds(mem, r, due) == \A i \in 1..Len(due) : mem[Forward(r, i - 1)] = due[i]

RingInv == ~hist.broken => Holds(ring.mem, ring.r, hist.due)

(***************************************************************************)
(* The mark.  Unless it was moved for a crossfade or left behind by a      *)
(* jump of readp, it lies between readp and writep, right in front of the  *)
(* frames of the track that began last.                                    *)
(***************************************************************************)
MarkInv ==
  ~hist.broken /\ output.mark # None /\ ~hist.passed /\ ~hist.moved =>
    /\ Distance(ring.r, output.mark) <= Len(hist.due)
    /\ \A i \in 1..Len(hist.due) :
         hist.due[i] < hist.first <=> i <= Distance(ring.r, output.mark)

TypeInv == TypeOK /\ HistInv
StoreInv == TypeInv /\ RingInv /\ MarkInv

(* The piece written is the one that comes next in outputbuf. *)
PieceInv == ~hist.broken => heard.frames = heard.due

(***************************************************************************)
(* Fades.  Offset is the way from readp to the start of the fade, negative *)
(* once it is under way: what is to be faded, and for a crossfade what is  *)
(* to be mixed with it, are the frames that come at these distances.       *)
(***************************************************************************)
Upcoming(due, last, i) == IF i <= Len(due) THEN due[i] ELSE last + i - Len(due)

Offset == IF fade.state = "DUE" THEN Distance(ring.r, fade.from) ELSE 0 - Position
Region == IF hist.window.dir = "UP" THEN hist.window.head ELSE hist.window.tail

Comes(seq, offset, due, last) ==
  \A j \in 1..Len(seq) : offset + j >= 1 => seq[j] = Upcoming(due, last, offset + j)

InPlace ==
  /\ hist.window.dir = fade.dir /\ Len(Region) = Extent
  /\ Comes(Region, Offset, hist.due, hist.last)
  /\ fade.dir = "CROSS" =>
       /\ Len(hist.window.head) = Extent
       /\ Comes(hist.window.head, Offset + Extent, hist.due, hist.last)

FadeInv ==
  /\ ~hist.broken /\ fade.state = "INACTIVE" => hist.window = NoWindow
  /\ ~hist.broken /\ ~hist.lost /\ fade.state # "INACTIVE" => InPlace

LEMMA Numbers ==
  /\ Size \in Nat /\ Size > 1 /\ Block \in Nat /\ Block > 0 /\ FadeLen \in Nat
  /\ NTracks \in Nat /\ MaxLen \in Nat /\ MaxOrders \in Nat
  /\ Cells \subseteq 0..Size /\ Cells \subseteq Nat /\ 0 \in Cells
BY FadesAssumption DEF Cells

LEMMA Lesser ==
  ASSUME NEW a \in Nat, NEW b \in Nat
  PROVE  /\ LesserOf(a, b) \in Nat
         /\ LesserOf(a, b) <= a /\ LesserOf(a, b) <= b
         /\ LesserOf(a, b) = a \/ LesserOf(a, b) = b
BY DEF LesserOf

(* What is known of the ring while the player is not broken. *)
LEMMA RingFacts ==
  ASSUME TypeInv
  PROVE  /\ ring \in Rings /\ ring.r \in Cells /\ ring.w \in Cells
         /\ Used \in Cells
         /\ ContRead \in 0..Used /\ ring.r + ContRead <= Size
         /\ ~hist.broken =>
              /\ hist.due \in Seq(Nat) /\ Len(hist.due) = Used
              /\ hist.last \in Nat /\ hist.first \in Nat
<1>1. ring \in Rings /\ ring.r \in Cells /\ ring.w \in Cells
  BY DEF TypeInv, TypeOK, Rings, Cells
<1>2. Used \in Cells /\ Used = IF ring.w >= ring.r THEN ring.w - ring.r
                               ELSE ring.w - ring.r + Size
  BY <1>1, Apart DEF Used
<1>3. ContRead \in 0..Used /\ ring.r + ContRead <= Size
  BY <1>1, <1>2, Numbers DEF ContRead, Cells
<1>4. ~hist.broken => /\ hist.due \in Seq(Nat) /\ Len(hist.due) = Used
                      /\ hist.last \in Nat /\ hist.first \in Nat
  BY DEF TypeInv, TypeOK, HistInv, Hists
<1>5. QED
  BY <1>1, <1>2, <1>3, <1>4

(* Parts of a sequence. *)
LEMMA Parts ==
  ASSUME NEW S, NEW seq \in Seq(S), NEW n \in Nat
  PROVE  /\ Dropped(seq, n) \in Seq(S)
         /\ n <= Len(seq) => Len(Dropped(seq, n)) = Len(seq) - n
         /\ \A i \in 1..Len(seq) - n : Dropped(seq, n)[i] = seq[n + i]
         /\ n <= Len(seq) =>
              /\ LastN(seq, n) \in Seq(S) /\ Len(LastN(seq, n)) = n
              /\ \A i \in 1..n : LastN(seq, n)[i] = seq[Len(seq) - n + i]
<1>1. Len(seq) \in Nat /\ \A i \in 1..Len(seq) : seq[i] \in S
  OBVIOUS
<1>2. /\ SubSeq(seq, n + 1, Len(seq)) \in Seq(S)
      /\ Len(SubSeq(seq, n + 1, Len(seq))) = IF n + 1 <= Len(seq) THEN Len(seq) - (n + 1) + 1 ELSE 0
      /\ \A i \in 1..Len(seq) - (n + 1) + 1 : SubSeq(seq, n + 1, Len(seq))[i] = seq[n + 1 + i - 1]
  <2>1. \A i \in n + 1..Len(seq) : seq[i] \in S
    BY <1>1
  <2>2. n + 1 \in Int /\ Len(seq) \in Int
    BY <1>1
  <2>3. QED
    BY <2>1, <2>2, SubSeqProperties
<1>3. /\ Dropped(seq, n) \in Seq(S)
      /\ n <= Len(seq) => Len(Dropped(seq, n)) = Len(seq) - n
      /\ \A i \in 1..Len(seq) - n : Dropped(seq, n)[i] = seq[n + i]
  BY <1>1, <1>2 DEF Dropped
<1>4. ASSUME n <= Len(seq)
      PROVE  /\ LastN(seq, n) \in Seq(S) /\ Len(LastN(seq, n)) = n
             /\ \A i \in 1..n : LastN(seq, n)[i] = seq[Len(seq) - n + i]
  <2> DEFINE m == Len(seq) + 1 - n
  <2>1. m \in Int /\ m >= 1
    BY <1>1, <1>4
  <2>2. \A i \in m..Len(seq) : seq[i] \in S
    BY <1>1, <2>1
  <2>3. /\ SubSeq(seq, m, Len(seq)) \in Seq(S)
        /\ Len(SubSeq(seq, m, Len(seq))) = IF m <= Len(seq) THEN Len(seq) - m + 1 ELSE 0
        /\ \A i \in 1..Len(seq) - m + 1 : SubSeq(seq, m, Len(seq))[i] = seq[m + i - 1]
    BY <1>1, <2>1, <2>2, SubSeqProperties
  <2>4. QED
    BY <1>1, <1>4, <2>3 DEF LastN
<1>5. QED
  BY <1>3, <1>4

(* A run of frames up to a place ahead never gets past it, nor past the    *)
(* last cell of the ring.                                                  *)
LEMMA Reach ==
  ASSUME TypeInv
  PROVE  /\ \A n \in 0..ContRead, p \in Cells :
              UpTo(n, p) \in 0..n /\ (p # ring.r => UpTo(n, p) <= Distance(ring.r, p))
         /\ ToMark \in 0..ContRead
         /\ output.mark \notin {None, ring.r} => ToMark <= Distance(ring.r, output.mark)
         /\ \A n \in 0..ContRead : Piece(n) \in 0..n /\ Piece(n) \in 0..turn.size
<1>1. /\ ring.r \in Cells /\ ContRead \in Nat /\ ring.r + ContRead <= Size
  BY RingFacts, Numbers DEF Cells
<1>2. ASSUME NEW n \in 0..ContRead, NEW p \in Cells
      PROVE  UpTo(n, p) \in 0..n /\ (p # ring.r => UpTo(n, p) <= Distance(ring.r, p))
  <2>1. Distance(ring.r, p) = IF p >= ring.r THEN p - ring.r ELSE p - ring.r + Size
    BY <1>1, Apart
  <2>2. CASE p > ring.r
    <3>1. p - ring.r \in Nat /\ n \in Nat
      BY <1>1, <2>2, Numbers DEF Cells
    <3>2. UpTo(n, p) = LesserOf(n, p - ring.r)
      BY <2>2 DEF UpTo
    <3>3. UpTo(n, p) \in Nat /\ UpTo(n, p) <= n /\ UpTo(n, p) <= p - ring.r
      BY <3>1, <3>2, Lesser
    <3>4. Distance(ring.r, p) = p - ring.r
      BY <1>1, <2>1, <2>2, Numbers DEF Cells
    <3>5. QED
      BY <3>1, <3>3, <3>4
  <2>3. CASE ~(p > ring.r)
    <3>1. UpTo(n, p) = n
      BY <2>3 DEF UpTo
    <3>2. n \in Nat /\ n <= Size - ring.r /\ ring.r \in Nat /\ p \in Nat
      BY <1>1, Numbers DEF Cells
    <3>3. p # ring.r => Distance(ring.r, p) = p - ring.r + Size
      BY <1>1, <2>1, <2>3, <3>2
    <3>4. QED
      BY <3>1, <3>2, <3>3, Numbers
  <2>4. QED
    BY <2>2, <2>3
<1>3. output.mark = None \/ output.mark \in Cells
  BY Numbers DEF TypeInv, TypeOK, Outputs, Cells, None
<1>4. ContRead \in 0..ContRead
  BY <1>1
<1>5. /\ ToMark \in 0..ContRead
      /\ output.mark \notin {None, ring.r} => ToMark <= Distance(ring.r, output.mark)
  BY <1>2, <1>3, <1>4 DEF ToMark
<1>6. ASSUME NEW n \in 0..ContRead PROVE Piece(n) \in 0..n /\ Piece(n) \in 0..turn.size
  <2>1. turn.size \in Nat /\ n \in Nat
    BY <1>1, Numbers DEF TypeInv, TypeOK, Turns
  <2>2. QED
    BY <2>1, Lesser DEF Piece
<1>7. QED
  BY <1>2, <1>5, <1>6


-----------------------------------------------------------------------------
(***************************************************************************)
(* What the steps do to the ring.  Moves(k): readp goes over k frames,     *)
(* whether they are heard or not.  Writes(s, n): readp jumps over s frames *)
(* and the next n are handed to write_cb.                                  *)
(***************************************************************************)
Moves(k) ==
  /\ k \in 0..Used
  /\ ring' \in Rings /\ ring'.r = Forward(ring.r, k)
  /\ ring'.mem = ring.mem /\ ring'.w = ring.w
  /\ hist'.due = Dropped(hist.due, k) /\ hist'.last = hist.last
  /\ hist'.first = hist.first /\ hist'.moved = hist.moved
  /\ ~hist'.passed =>
       ~hist.passed /\ (output.mark = None \/ k <= Distance(ring.r, output.mark))
  /\ output'.mark = output.mark /\ source' = source

Writes(s, n) ==
  /\ s \in Cells /\ n \in 0..turn.size
  /\ ring' \in Rings /\ ring'.r = Forward(Forward(ring.r, s), n)
  /\ ring'.mem = ring.mem /\ ring'.w = ring.w
  /\ heard'.frames = [k \in 1..n |-> Cell(Forward(ring.r, s) + k - 1)]
  /\ heard'.due = SubSeq(hist.due, s + 1, LesserOf(s + n, Len(hist.due)))
  /\ turn' \in Turns /\ (turn'.pc = "loop" => turn'.size > 0)
  /\ output' = output /\ source' = source

LEMMA LoopTyped ==
  ASSUME NEW size \in 0..Block, NEW silence \in BOOLEAN, Loop(size, silence)
  PROVE  turn' \in Turns /\ (turn'.pc = "loop" => turn'.size > 0)
BY Numbers DEF Loop, Turns

LEMMA WrittenWrites ==
  ASSUME TypeInv, NEW s \in Cells, NEW n \in 0..turn.size, n <= Size, NEW gain, NEW mix,
         Written(n, s, gain, mix)
  PROVE  Writes(s, n) /\ heard'.gain = gain
<1>1. ring \in Rings /\ ring.r \in Cells /\ turn.size \in 0..Block
  BY RingFacts DEF TypeInv, TypeOK, Turns
<1>2. Forward(ring.r, s) \in Cells
  BY <1>1, Around, Numbers
<1>3. Forward(Forward(ring.r, s), n) \in Cells
  <2>1. n \in 0..Size
    BY <1>1, Numbers
  <2>2. QED
    BY <1>2, <2>1, Around
<1>4. /\ ring' = [ring EXCEPT !.r = Forward(Forward(ring.r, s), n)]
      /\ Loop(IF n = 0 THEN 0 ELSE turn.size - n, FALSE)
      /\ output' = output /\ source' = source
      /\ heard'.frames = [k \in 1..n |-> Cell(Forward(ring.r, s) + k - 1)]
      /\ heard'.due = SubSeq(hist.due, s + 1, LesserOf(s + n, Len(hist.due)))
      /\ heard'.gain = gain
  BY DEF Written
<1>5. /\ ring' \in Rings /\ ring'.r = Forward(Forward(ring.r, s), n)
      /\ ring'.mem = ring.mem /\ ring'.w = ring.w
  BY <1>1, <1>3, <1>4 DEF Rings, Cells
<1>6. turn' \in Turns /\ (turn'.pc = "loop" => turn'.size > 0)
  <2>1. (IF n = 0 THEN 0 ELSE turn.size - n) \in 0..Block
    BY <1>1, Numbers
  <2>2. QED
    BY <1>4, <2>1, LoopTyped
<1>7. QED
  BY <1>4, <1>5, <1>6 DEF Writes

(* The frames due next are those from readp on. *)
LEMMA HeldAhead ==
  ASSUME TypeInv, RingInv, ~hist.broken, NEW s \in Cells, NEW n \in Nat, s + n <= Used,
         Forward(ring.r, s) + n <= Size
  PROVE  /\ \A k \in 1..n : Cell(Forward(ring.r, s) + k - 1) = hist.due[s + k]
         /\ SubSeq(hist.due, s + 1, LesserOf(s + n, Len(hist.due)))
              = [k \in 1..n |-> hist.due[s + k]]
<1>1. /\ ring.r \in Cells /\ hist.due \in Seq(Nat) /\ Len(hist.due) = Used /\ Used \in Cells
      /\ s \in Nat
  BY RingFacts, Numbers
<1>2. Forward(ring.r, s) \in Cells
  BY <1>1, Around, Numbers
<1>3. ASSUME NEW k \in 1..n
      PROVE  Cell(Forward(ring.r, s) + k - 1) = hist.due[s + k]
  <2>1. s + k \in 1..Len(hist.due) /\ k - 1 \in 0..Size - s /\ s \in 0..Size /\ k - 1 \in 0..Size
    BY <1>1, <1>3, Numbers DEF Cells
  <2>2. hist.due[s + k] = ring.mem[Forward(ring.r, s + k - 1)]
    BY <2>1 DEF RingInv, Holds
  <2>3. Forward(ring.r, s + (k - 1)) = Forward(Forward(ring.r, s), k - 1)
    BY <1>1, <2>1, Ahead
  <2>4. Forward(ring.r, s) + (k - 1) < Size
    BY <1>1, <1>2, <1>3, Numbers DEF Cells
  <2>5. Forward(Forward(ring.r, s), k - 1) = Forward(ring.r, s) + (k - 1)
    BY <1>2, <2>1, <2>4, Around
  <2>6. /\ s + (k - 1) = s + k - 1
        /\ Forward(ring.r, s) + (k - 1) = Forward(ring.r, s) + k - 1
    BY <1>1, <1>2, Numbers
  <2>7. QED
    BY <2>2, <2>3, <2>4, <2>5, <2>6 DEF Cell
<1>4. LesserOf(s + n, Len(hist.due)) = s + n
  BY <1>1, Numbers DEF LesserOf, Cells
<1>5. SubSeq(hist.due, s + 1, s + n) = [k \in 1..n |-> hist.due[s + k]]
  <2>1. SubSeq(hist.due, s + 1, s + n) = [k \in 1..(s + n - (s + 1) + 1) |-> hist.due[s + 1 + k - 1]]
    BY <1>1
  <2>2. s + n - (s + 1) + 1 = n /\ \A k \in 1..n : s + 1 + k - 1 = s + k
    BY <1>1
  <2>3. QED
    BY <2>1, <2>2
<1>6. QED
  BY <1>3, <1>4, <1>5
-----------------------------------------------------------------------------
(***************************************************************************)
(* The store: what is due stays what the ring holds, whatever is done.     *)
(***************************************************************************)
LEMMA PieceMoves ==
  ASSUME TypeInv, ~hist.broken, output.mark # ring.r,
         NEW m \in 0..ToMark, NEW gain, NEW mix, Written(Piece(m), 0, gain, mix),
         hist'.due = Dropped(hist.due, Piece(m)), hist'.last = hist.last,
         hist'.first = hist.first, hist'.moved = hist.moved, hist'.passed = hist.passed
  PROVE  /\ Writes(0, Piece(m)) /\ Moves(0 + Piece(m)) /\ heard'.gain = gain
         /\ 0 + Piece(m) <= Used /\ Forward(ring.r, 0) + Piece(m) <= Size
<1> DEFINE n == Piece(m)
<1>1. /\ ring.r \in Cells /\ Used \in Cells /\ ContRead \in 0..Used
      /\ ring.r + ContRead <= Size /\ ring.r \in Nat /\ Used \in Nat
  BY RingFacts, Numbers
<1>2. ToMark \in 0..ContRead /\ m \in 0..ContRead
  BY <1>1, Reach
<1>3. n \in 0..m /\ n \in 0..turn.size
  BY <1>2, Reach
<1>4. n \in Nat /\ n <= Used /\ ring.r + n <= Size /\ n <= Size /\ n \in 0..Size
  BY <1>1, <1>2, <1>3, Numbers DEF Cells
<1>5. Forward(ring.r, 0) = ring.r
  BY <1>1, Nowhere
<1>6. 0 \in Cells /\ 0 + n = n
  BY <1>4, Numbers
<1>7. Writes(0, n) /\ heard'.gain = gain
  <2> HIDE DEF n
  <2>1. QED
    BY <1>3, <1>4, <1>6, WrittenWrites DEF n
<1>8. output.mark = None \/ n <= Distance(ring.r, output.mark)
  <2>1. CASE output.mark = None
    BY <2>1
  <2>2. CASE output.mark # None
    <3>1. ToMark <= Distance(ring.r, output.mark)
      BY <2>2, Reach
    <3>2. output.mark \in Cells
      BY <2>2, Numbers DEF TypeInv, TypeOK, Outputs, Cells, None
    <3>3. Distance(ring.r, output.mark) \in Nat
      BY <1>1, <3>2, Apart, Numbers
    <3>4. QED
      BY <1>1, <1>2, <1>3, <3>1, <3>3
  <2>3. QED
    BY <2>1, <2>2
<1>9. Moves(n)
  <2> HIDE DEF n
  <2>1. QED
    BY <1>1, <1>4, <1>5, <1>7, <1>8 DEF Moves, Writes, n
<1>10. QED
  BY <1>4, <1>5, <1>6, <1>7, <1>9

(* A move of readp leaves the frames that come after in place.             *)
LEMMA MovesKeep ==
  ASSUME StoreInv, ~hist.broken, NEW k, Moves(k)
  PROVE  /\ Used' = Len(hist'.due) /\ hist'.due \in Seq(Nat)
         /\ Upwards(hist'.due, hist'.last)
         /\ RingInv' /\ MarkInv'
<1>1. /\ ring.r \in Cells /\ ring.w \in Cells /\ hist.due \in Seq(Nat) /\ Len(hist.due) = Used
      /\ Used \in Cells /\ Used \in Nat /\ k \in 0..Used /\ k \in 0..Size /\ k \in Nat
      /\ hist.last \in Nat /\ hist.first \in Nat
  BY RingFacts, Numbers DEF StoreInv, Moves, Cells
<1>2. /\ ring'.r = Forward(ring.r, k) /\ ring'.mem = ring.mem /\ ring'.w = ring.w
      /\ hist'.due = Dropped(hist.due, k) /\ hist'.last = hist.last
  BY DEF Moves
<1>3. Used' = Used - k
  <2>1. k <= Distance(ring.r, ring.w)
    BY <1>1 DEF Used
  <2>2. Distance(Forward(ring.r, k), ring.w) = Distance(ring.r, ring.w) - k
    BY <1>1, <2>1, Ahead
  <2>3. QED
    BY <1>2, <2>2 DEF Used
<1>4. /\ hist'.due \in Seq(Nat) /\ Len(hist'.due) = Len(hist.due) - k
      /\ \A i \in 1..Len(hist.due) - k : hist'.due[i] = hist.due[k + i]
  <2>1. k <= Len(hist.due)
    BY <1>1
  <2>2. /\ Dropped(hist.due, k) \in Seq(Nat)
        /\ k <= Len(hist.due) => Len(Dropped(hist.due, k)) = Len(hist.due) - k
        /\ \A i \in 1..Len(hist.due) - k : Dropped(hist.due, k)[i] = hist.due[k + i]
    <3>1. k \in Nat /\ hist.due \in Seq(Nat)
      BY <1>1
    <3>2. QED
      BY <3>1, Parts
  <2>3. QED
    BY <1>2, <2>1, <2>2
<1>5. Upwards(hist'.due, hist'.last)
  <2>1. Upwards(hist.due, hist.last)
    BY DEF StoreInv, TypeInv, HistInv
  <2>2. \A i \in 1..Len(hist'.due) : k + i \in 1..Len(hist.due)
    BY <1>1, <1>4
  <2>3. ASSUME NEW i \in 1..Len(hist'.due)
        PROVE  hist'.due[i] <= hist'.last
    <3>1. hist'.due[i] = hist.due[k + i]
      BY <1>4, <2>3
    <3>2. QED
      BY <1>2, <2>1, <2>2, <3>1 DEF Upwards
  <2>4. ASSUME NEW i \in 1..Len(hist'.due), NEW j \in 1..Len(hist'.due), i < j
        PROVE  hist'.due[i] < hist'.due[j]
    <3>1. hist'.due[i] = hist.due[k + i] /\ hist'.due[j] = hist.due[k + j]
      BY <1>4, <2>4
    <3>2. k + i < k + j
      BY <1>1, <1>4, <2>4
    <3>3. QED
      BY <2>1, <2>2, <3>1, <3>2 DEF Upwards
  <2>5. QED
    BY <2>3, <2>4 DEF Upwards
<1>6. RingInv'
  <2>1. ASSUME NEW i \in 1..Len(hist'.due)
        PROVE  ring'.mem[Forward(ring'.r, i - 1)] = hist'.due[i]
    <3>1. k + i \in 1..Len(hist.due) /\ i - 1 \in 0..Size - k /\ k + (i - 1) = k + i - 1
      BY <1>1, <1>4, Numbers DEF Cells
    <3>2. Forward(Forward(ring.r, k), i - 1) = Forward(ring.r, k + (i - 1))
      BY <1>1, <3>1, Ahead
    <3>3. ring.mem[Forward(ring.r, k + i - 1)] = hist.due[k + i]
      <4>1. \A x \in 1..Len(hist.due) : ring.mem[Forward(ring.r, x - 1)] = hist.due[x]
        BY DEF StoreInv, RingInv, Holds
      <4>2. k \in Nat /\ i \in Nat
        BY <1>1, <1>4
      <4>3. QED
        BY <3>1, <4>1, <4>2
    <3>4. QED
      BY <1>2, <1>4, <2>1, <3>1, <3>2, <3>3
  <2>2. QED
    BY <2>1 DEF RingInv, Holds
<1>7. MarkInv'
  <2>1. SUFFICES ASSUME output'.mark # None, ~hist'.passed, ~hist'.moved
                 PROVE  /\ Distance(ring'.r, output'.mark) <= Len(hist'.due)
                        /\ \A i \in 1..Len(hist'.due) :
                             hist'.due[i] < hist'.first <=> i <= Distance(ring'.r, output'.mark)
    BY DEF MarkInv
  <2>2. /\ output.mark # None /\ ~hist.passed /\ ~hist.moved /\ output'.mark = output.mark
        /\ hist'.first = hist.first /\ k <= Distance(ring.r, output.mark)
    BY <2>1 DEF Moves
  <2>3. output.mark \in Cells
    BY <2>2, Numbers DEF StoreInv, TypeInv, TypeOK, Outputs, Cells, None
  <2> DEFINE d == Distance(ring.r, output.mark)
  <2>4. d \in Nat /\ Distance(ring'.r, output'.mark) = d - k
    <3>1. Distance(Forward(ring.r, k), output.mark) = d - k
      BY <1>1, <2>2, <2>3, Ahead
    <3>2. d \in Nat
      BY <1>1, <2>3, Apart, Numbers
    <3>3. QED
      BY <1>2, <2>2, <3>1, <3>2
  <2>5. /\ d <= Len(hist.due)
        /\ \A i \in 1..Len(hist.due) : hist.due[i] < hist.first <=> i <= d
    BY <2>2 DEF StoreInv, MarkInv
  <2> HIDE DEF d
  <2>6. ASSUME NEW i \in 1..Len(hist'.due)
        PROVE  hist'.due[i] < hist'.first <=> i <= d - k
    <3>1. k + i \in 1..Len(hist.due) /\ hist'.due[i] = hist.due[k + i]
      BY <1>1, <1>4, <2>6
    <3>2. hist.due[k + i] < hist.first <=> k + i <= d
      BY <2>5, <3>1
    <3>3. k + i <= d <=> i <= d - k
      BY <1>1, <1>4, <2>4
    <3>4. QED
      BY <2>2, <3>1, <3>2, <3>3
  <2>7. QED
    BY <1>1, <1>4, <2>4, <2>5, <2>6
<1>8. QED
  BY <1>1, <1>3, <1>4, <1>5, <1>6, <1>7

(* Each turn of the loop writes from readp on, after a jump or none.       *)
LEMMA TurnWrites ==
  ASSUME TypeInv, ~hist.broken, Turn
  PROVE  /\ fade' \in Fades
         /\ \E s \in Cells, n \in Nat :
              /\ Writes(s, n)
              /\ ~hist'.broken => /\ hist' \in Hists /\ Moves(s + n)
                                  /\ s + n <= Used /\ Forward(ring.r, s) + n <= Size
<1>1. /\ ring.r \in Cells /\ Used \in Cells /\ ContRead \in 0..Used /\ ring.r \in Nat
      /\ ring.r + ContRead <= Size /\ Used \in Nat /\ hist.due \in Seq(Nat)
      /\ Len(hist.due) = Used /\ hist.last \in Nat /\ hist.first \in Nat
  BY RingFacts, Numbers
<1>2. /\ hist \in Hists /\ fade \in Fades /\ fade.from \in Cells /\ fade.to \in Cells
  BY DEF TypeInv, HistInv, TypeOK, Fades, Cells
<1>3. Extent \in Cells /\ Position \in Cells
  BY <1>1, <1>2, Apart DEF Extent, Position
<1>4. output.mark # ring.r
  BY DEF Turn
<1>5. ToMark \in 0..ContRead /\ ToMark \in 0..ToMark
  BY <1>1, Reach
<1>6. \A p \in Cells : UpTo(ToMark, p) \in 0..ToMark
  BY <1>5, Reach
<1>7. ASSUME NEW n \in Nat
      PROVE  [hist EXCEPT !.due = Dropped(@, n)] \in Hists
  <2>1. Dropped(hist.due, n) \in Seq(Nat)
    BY <1>1, Parts
  <2>2. QED
    BY <1>2, <2>1 DEF Hists
<1>8. ASSUME NEW m \in 0..ToMark PROVE Piece(m) \in Nat
  BY <1>1, <1>5, <1>8, Reach
<1>9. NoWindow \in [dir : {"none", "UP", "DOWN", "CROSS"}, tail : Seq(Nat), head : Seq(Nat)]
  BY DEF NoWindow
<1> DEFINE Goal(m) == /\ Writes(0, Piece(m)) /\ hist' \in Hists /\ Moves(0 + Piece(m))
                      /\ 0 + Piece(m) <= Used /\ Forward(ring.r, 0) + Piece(m) <= Size
<1>10. CASE Plain
  <2> DEFINE m == IF fade.state = "DUE" THEN UpTo(ToMark, fade.from) ELSE ToMark
  <2>1. m \in 0..ToMark
    BY <1>2, <1>5, <1>6
  <2>2. Written(Piece(m), 0, Full, None) /\ hist' = Heard(Piece(m)) /\ fade' = fade
    BY <1>10 DEF Plain
  <2> HIDE DEF m
  <2>3. Piece(m) \in Nat
    BY <1>8, <2>1
  <2>4. /\ hist' \in Hists /\ hist'.due = Dropped(hist.due, Piece(m)) /\ hist'.last = hist.last
        /\ hist'.first = hist.first /\ hist'.moved = hist.moved /\ hist'.passed = hist.passed
    BY <1>2, <1>7, <2>2, <2>3 DEF Heard, Hists
  <2>5. Goal(m)
    BY <1>4, <2>1, <2>2, <2>4, PieceMoves
  <2>6. QED
    BY <1>2, <2>2, <2>3, <2>5, Numbers
<1>11. ASSUME Fading \/ Crossing \/ CrossFails
       PROVE  /\ fade' \in Fades
              /\ \E m \in 0..ToMark : Goal(m)
  <2> DEFINE m == UpTo(ToMark, fade.to)
  <2>1. m \in 0..ToMark
    BY <1>2, <1>6
  <2>2. \E gain, mix : Written(Piece(m), 0, gain, mix)
    <3>1. CASE Fading
      BY <3>1 DEF Fading
    <3>2. CASE Crossing
      BY <3>2 DEF Crossing
    <3>3. CASE CrossFails
      BY <3>3 DEF CrossFails
    <3>4. QED
      BY <1>11, <3>1, <3>2, <3>3
  <2>3. /\ \/ hist' = Heard(Piece(m))
           \/ hist' = [Heard(Piece(m)) EXCEPT !.window = NoWindow, !.lost = FALSE]
        /\ \E s \in {"ACTIVE", "INACTIVE"} : fade' = [fade EXCEPT !.state = s]
    BY <1>11 DEF Fading, Crossing, CrossFails, Inactive
  <2>4. fade' \in Fades
    BY <1>2, <2>3 DEF Fades
  <2> HIDE DEF m
  <2>5. Heard(Piece(m)) \in Hists
    BY <1>7, <1>8, <2>1 DEF Heard
  <2>6. /\ hist' \in Hists /\ hist'.due = Dropped(hist.due, Piece(m)) /\ hist'.last = hist.last
        /\ hist'.first = hist.first /\ hist'.moved = hist.moved /\ hist'.passed = hist.passed
    BY <1>2, <1>9, <2>3, <2>5 DEF Heard, Hists
  <2>7. Goal(m)
    BY <1>4, <2>1, <2>2, <2>6, PieceMoves
  <2>8. QED
    BY <2>1, <2>4, <2>7
<1>12. CASE TurnsUp
  <2> DEFINE to == Forward(ring.r, Extent)
             m  == UpTo(ToMark, to)
             up == [Faded("UP", << >>, Coming(Extent)) EXCEPT !.lost = hist.lost]
  <2>1. to \in Cells
    BY <1>1, <1>3, Around, Numbers
  <2>2. m \in 0..ToMark
    BY <1>6, <2>1
  <2>3. /\ Written(Piece(m), 0, [dir |-> "UP", at |-> 0, of |-> Extent], None)
        /\ hist' = [up EXCEPT !.due = Dropped(@, Piece(m))]
        /\ fade' = [fade EXCEPT !.state = "ACTIVE", !.dir = "UP", !.from = ring.r, !.to = to]
    BY <1>12 DEF TurnsUp
  <2>4. fade' \in Fades
    BY <1>1, <1>2, <2>1, <2>3 DEF Fades, Cells
  <2>5. Coming(Extent) \in Seq(Nat)
    <3>1. \A i \in 1..Extent : (IF i <= Len(hist.due) THEN hist.due[i]
                                ELSE hist.last + i - Len(hist.due)) \in Nat
      BY <1>1, <1>3, Numbers
    <3>2. Extent \in Nat
      BY <1>3, Numbers
    <3>3. QED
      BY <3>1, <3>2 DEF Coming
  <2>6. up = [hist EXCEPT !.window = [dir |-> "UP", tail |-> << >>, head |-> Coming(Extent)]]
    BY <1>2 DEF Faded, Hists
  <2> HIDE DEF m, to, up
  <2>7. << >> \in Seq(Nat)
    OBVIOUS
  <2>8. Piece(m) \in Nat /\ Dropped(hist.due, Piece(m)) \in Seq(Nat)
    BY <1>1, <1>8, <2>2, Parts
  <2>9. up \in Hists /\ up.due = hist.due /\ up.last = hist.last /\ up.first = hist.first
        /\ up.moved = hist.moved /\ up.passed = hist.passed
    BY <1>2, <2>5, <2>6, <2>7 DEF Hists
  <2>10. /\ hist' \in Hists /\ hist'.due = Dropped(hist.due, Piece(m)) /\ hist'.last = hist.last
        /\ hist'.first = hist.first /\ hist'.moved = hist.moved /\ hist'.passed = hist.passed
    BY <2>3, <2>8, <2>9 DEF Hists
  <2>11. Goal(m)
    BY <1>4, <2>2, <2>3, <2>10, PieceMoves
  <2>12. QED
    BY <1>8, <2>2, <2>4, <2>11, Numbers
<1>13. CASE FadeEnds
  <2> DEFINE s == IF fade.mode = "CROSS" /\ Used >= Extent THEN Extent ELSE 0
             n == Piece(ToMark)
             left == s > 0 /\ output.mark # None /\ Distance(ring.r, output.mark) < s + n
  <2>1. /\ Written(n, s, Full, None) /\ fade' = Inactive
        /\ hist' = [Heard(s + n) EXCEPT !.window = NoWindow, !.lost = FALSE,
             !.passed = @ \/ left,
             !.broken = s > 0 /\ (n > Used - s \/ Forward(ring.r, s) + n > Size)]
    BY <1>13 DEF FadeEnds, Skips
  <2>2. s \in Cells /\ s \in Nat /\ n \in Nat /\ n \in 0..turn.size /\ n \in 0..ToMark
    BY <1>3, <1>5, <1>8, Reach, Numbers
  <2>3. n <= Used /\ n <= Size
    BY <1>1, <1>5, <2>2, Numbers DEF Cells
  <2> HIDE DEF s, n
  <2>4. Writes(s, n)
    BY <2>1, <2>2, <2>3, WrittenWrites
  <2>5. fade' \in Fades
    BY <1>2, <2>1 DEF Inactive, Fades
  <2>6. ASSUME ~hist'.broken
        PROVE  /\ hist' \in Hists /\ Moves(s + n)
               /\ s + n <= Used /\ Forward(ring.r, s) + n <= Size
    <3> DEFINE b == s > 0 /\ (n > Used - s \/ Forward(ring.r, s) + n > Size)
               p == hist.passed \/ left
    <3>1. Heard(s + n) \in Hists
      BY <1>7, <2>2 DEF Heard
    <3>2. b \in BOOLEAN /\ p \in BOOLEAN /\ Heard(s + n).passed = hist.passed
      BY <1>2 DEF Hists, Heard
    <3> HIDE DEF b, p, left
    <3>3. /\ hist' \in Hists /\ hist'.due = Dropped(hist.due, s + n) /\ hist'.last = hist.last
          /\ hist'.first = hist.first /\ hist'.moved = hist.moved
          /\ hist'.passed = p /\ hist'.broken = b
      <4>1. hist' = [Heard(s + n) EXCEPT !.window = NoWindow, !.lost = FALSE,
                       !.passed = p, !.broken = b]
        BY <2>1, <3>2 DEF b, p
      <4>2. QED
        BY <1>2, <1>9, <3>1, <3>2, <4>1 DEF Hists, Heard
    <3>4. s > 0 => n <= Used - s /\ Forward(ring.r, s) + n <= Size
      <4>1. Forward(ring.r, s) \in Nat
        BY <1>1, <2>2, Around, Numbers
      <4>2. ~b
        BY <2>6, <3>3
      <4>3. QED
        BY <1>1, <2>2, <4>1, <4>2, Numbers DEF b
    <3>5. s = 0 => Forward(ring.r, s) = ring.r /\ ring.r + n <= Size
      <4>1. Forward(ring.r, 0) = ring.r
        BY <1>1, Nowhere
      <4>2. ring.r + n <= Size
        BY <1>1, <1>5, <2>2, Numbers DEF Cells
      <4>3. QED
        BY <4>1, <4>2
    <3>6. s + n <= Used /\ Forward(ring.r, s) + n <= Size /\ s + n \in 0..Used
      BY <1>1, <2>2, <2>3, <3>4, <3>5
    <3>7. p \/ (~hist.passed /\ (output.mark = None \/ s + n <= Distance(ring.r, output.mark)))
      <4>1. SUFFICES ASSUME ~p, output.mark # None
                     PROVE  s + n <= Distance(ring.r, output.mark)
        BY DEF p
      <4>2. ~left
        BY <4>1 DEF p
      <4>3. output.mark \in Cells
        BY <4>1, Numbers DEF TypeInv, TypeOK, Outputs, Cells, None
      <4>4. Distance(ring.r, output.mark) \in Nat
        BY <1>1, <4>3, Apart, Numbers
      <4>5. CASE s > 0
        BY <2>2, <4>1, <4>2, <4>4, <4>5 DEF left
      <4>6. CASE s = 0
        <5>1. ToMark <= Distance(ring.r, output.mark)
          BY <1>4, <4>1, Reach
        <5>2. QED
          BY <1>1, <1>5, <2>2, <4>4, <4>6, <5>1
      <4>7. QED
        BY <2>2, <4>5, <4>6
    <3>8. ring'.r = Forward(ring.r, s + n)
      <4>1. s \in 0..Size /\ n \in 0..Size - s
        BY <1>1, <2>2, <3>6, Numbers DEF Cells
      <4>2. QED
        BY <1>1, <2>4, <4>1, Ahead DEF Writes
    <3>9. Moves(s + n)
      BY <2>4, <3>3, <3>6, <3>7, <3>8 DEF Moves, Writes
    <3>10. QED
      BY <3>3, <3>6, <3>9
  <2>7. QED
    BY <2>2, <2>4, <2>5, <2>6
<1>14. QED
  <2>1. CASE Fading \/ Crossing \/ CrossFails
    BY <1>8, <1>11, <2>1, Numbers
  <2>2. QED
    BY <1>10, <1>12, <1>13, <2>1 DEF Turn

(* What is known of the others. *)
LEMMA OtherFacts ==
  ASSUME TypeInv, ~hist.broken
  PROVE  /\ output \in Outputs /\ fade \in Fades /\ source \in Sources /\ hist \in Hists
         /\ turn \in Turns /\ (turn.pc = "loop" => turn.size > 0)
         /\ output.mark \in Cells \cup {None}
         /\ fade.from \in Cells /\ fade.to \in Cells
         /\ source.track \in Nat /\ source.frames \in 0..MaxLen
         /\ Left \in 0..MaxLen /\ hist.last + Left <= source.track * MaxLen
         /\ source.track <= NTracks
         /\ Upwards(hist.due, hist.last) /\ hist.first <= hist.last + 1
<1>1. /\ output \in Outputs /\ fade \in Fades /\ source \in Sources /\ hist \in Hists
      /\ turn \in Turns /\ (turn.pc = "loop" => turn.size > 0)
      /\ hist.last + Left <= source.track * MaxLen
      /\ Upwards(hist.due, hist.last) /\ hist.first <= hist.last + 1
  BY DEF TypeInv, TypeOK, HistInv
<1>2. output.mark \in Cells \cup {None}
  BY <1>1, Numbers DEF Outputs, Cells, None
<1>3. fade.from \in Cells /\ fade.to \in Cells
  BY <1>1 DEF Fades, Cells
<1>4. source.track \in Nat /\ source.frames \in 0..MaxLen /\ source.track <= NTracks
  BY <1>1, Numbers DEF Sources
<1>5. Left \in 0..MaxLen
  BY <1>4, Numbers DEF Left
<1>6. QED
  BY <1>1, <1>2, <1>3, <1>4, <1>5

(* Nothing is read or written: the mark may be met. *)
LEMMA RestKeeps ==
  ASSUME StoreInv, ~hist.broken, ring' = ring, hist'.due = hist.due, hist'.last = hist.last,
         hist'.first = hist.first, hist'.passed = hist.passed, hist'.moved = hist.moved,
         output'.mark \in {None, output.mark}
  PROVE  /\ Used' = Len(hist'.due) /\ Upwards(hist'.due, hist'.last)
         /\ RingInv' /\ MarkInv'
<1>1. Used' = Len(hist'.due)
  BY RingFacts DEF StoreInv, Used
<1>2. Upwards(hist'.due, hist'.last)
  BY OtherFacts DEF StoreInv
<1>3. RingInv'
  <2>1. Holds(ring.mem, ring.r, hist.due)
    BY DEF StoreInv, RingInv
  <2>2. Holds(ring'.mem, ring'.r, hist'.due)
    BY <2>1
  <2>3. QED
    BY <2>2 DEF RingInv
<1>4. MarkInv'
  <2>1. CASE output'.mark = None
    BY <2>1 DEF MarkInv
  <2>2. CASE output'.mark = output.mark
    <3>1. MarkInv
      BY DEF StoreInv
    <3>2. QED
      BY <2>2, <3>1 DEF MarkInv
  <2>3. QED
    BY <2>1, <2>2
<1>5. QED
  BY <1>1, <1>2, <1>3, <1>4

LEMMA LeaveTyped ==
  ASSUME TypeInv, ~hist.broken, Leave
  PROVE  turn' \in Turns /\ turn'.pc = "look"
<1>1. turn \in Turns
  BY OtherFacts
<1>2. 0 \in 0..Block
  BY Numbers
<1>3. /\ turn'.pc = "look" /\ turn'.size = 0 /\ turn'.silence = turn.silence
      /\ turn' = [pc |-> turn'.pc, size |-> turn'.size, silence |-> turn'.silence]
  BY <1>1 DEF Leave, Turns
<1>4. turn.silence \in BOOLEAN
  BY <1>1 DEF Turns
<1>5. QED
  BY <1>2, <1>3, <1>4 DEF Turns

(* The steps that leave outputbuf and its history alone. *)
Rests ==
  /\ ring' = ring /\ hist' = hist /\ heard' = Nothing
  /\ output' \in Outputs /\ output'.mark \in {None, output.mark}
  /\ fade' \in Fades /\ source' \in Sources
  /\ turn' \in Turns /\ (turn'.pc = "loop" => turn'.size > 0)
  /\ hist'.last + Left' <= source'.track * MaxLen
  /\ fade'.state = fade.state /\ fade'.dir = fade.dir
  /\ fade'.from = fade.from /\ fade'.to = fade.to

LEMMA SpentSource ==
  ASSUME TypeInv, ~hist.broken, source.orders > 0, source' = Spent
  PROVE  source' \in Sources /\ hist.last + Left' <= source'.track * MaxLen
<1>1. source \in Sources /\ hist.last + Left <= source.track * MaxLen
  BY OtherFacts
<1>2. /\ source' \in Sources /\ source'.phase = source.phase
      /\ source'.frames = source.frames /\ source'.track = source.track
  BY <1>1, Numbers DEF Spent, Sources
<1>3. QED
  BY <1>1, <1>2 DEF Left

LEMMA AskRests ==
  ASSUME TypeInv, ~hist.broken, NEW mode \in {source.chosen, "NONE"}, Ask(mode)
  PROVE  Rests
<1>1. /\ output \in Outputs /\ fade \in Fades /\ source \in Sources
      /\ turn \in Turns /\ (turn.pc = "loop" => turn.size > 0)
      /\ source.track \in Nat /\ hist.last + Left <= source.track * MaxLen
  BY OtherFacts
<1>2. ring' = ring /\ hist' = hist /\ heard' = Nothing /\ turn' = turn
  BY DEF Ask
<1>3. /\ source' \in Sources /\ source'.phase = "asked" /\ source'.frames = 0
      /\ source'.track = source.track + 1
  <2>1. source.track + 1 \in 0..NTracks /\ 0 \in 0..MaxLen
    BY <1>1, Numbers DEF Ask
  <2>2. source' = [source EXCEPT !.track = source.track + 1, !.frames = 0, !.phase = "asked"]
    BY DEF Ask
  <2>3. QED
    BY <1>1, <2>1, <2>2 DEF Sources
<1>4. /\ output' \in Outputs /\ output'.mark = output.mark
  BY <1>1 DEF Ask, Outputs
<1>5. mode \in Modes \cup {"NONE"}
  BY <1>1 DEF Sources
<1>6. /\ fade' \in Fades /\ fade'.state = fade.state /\ fade'.dir = fade.dir
      /\ fade'.from = fade.from /\ fade'.to = fade.to
  BY <1>1, <1>5 DEF Ask, Fades
<1>7. hist.last + Left' <= source'.track * MaxLen
  <2>1. Left = 0 /\ Left' = MaxLen
    BY <1>3, Numbers DEF Ask, Left
  <2>2. (source.track + 1) * MaxLen = source.track * MaxLen + MaxLen
    BY <1>1, Numbers
  <2>3. source.track * MaxLen \in Nat /\ hist.last \in Nat
    BY <1>1, Numbers, RingFacts
  <2>4. QED
    BY <1>1, <1>3, <2>1, <2>2, <2>3, Numbers
<1>8. QED
  BY <1>1, <1>2, <1>3, <1>4, <1>6, <1>7 DEF Rests

LEMMA OrderRests ==
  ASSUME TypeInv, ~hist.broken,
         Unpause \/ \E n \in Intervals : SkipAhead(n) \/ Pause(n)
  PROVE  Rests
<1>1. /\ output \in Outputs /\ fade \in Fades
      /\ turn \in Turns /\ (turn.pc = "loop" => turn.size > 0)
  BY OtherFacts
<1>2. /\ ring' = ring /\ hist' = hist /\ heard' = Nothing /\ turn' = turn /\ fade' = fade
      /\ source' = Spent /\ source.orders > 0
  BY DEF Unpause, SkipAhead, Pause, Order
<1>3. source' \in Sources /\ hist.last + Left' <= source'.track * MaxLen
  BY <1>2, SpentSource
<1>4. output' \in Outputs /\ output'.mark = output.mark
  <2>1. CASE Unpause
    BY <1>1, <2>1 DEF Unpause, Outputs
  <2>2. ASSUME NEW n \in Intervals, SkipAhead(n) \/ Pause(n)
        PROVE  output' \in Outputs /\ output'.mark = output.mark
    <3>1. n \in {0} \cup UNION {0..i : i \in Intervals}
      BY FadesAssumption
    <3>2. CASE SkipAhead(n)
      BY <1>1, <3>1, <3>2 DEF SkipAhead, Outputs
    <3>3. CASE Pause(n)
      BY <1>1, <3>1, <3>3 DEF Pause, Outputs
    <3>4. QED
      BY <2>2, <3>2, <3>3
  <2>3. QED
    BY <2>1, <2>2
<1>5. QED
  BY <1>1, <1>2, <1>3, <1>4 DEF Rests

LEMMA CallRests ==
  ASSUME TypeInv, ~hist.broken, Frames \/ Silence \/ Silent \/ AtStart
  PROVE  Rests
<1>1. /\ output \in Outputs /\ fade \in Fades /\ source \in Sources
      /\ turn \in Turns /\ (turn.pc = "loop" => turn.size > 0)
      /\ hist.last + Left <= source.track * MaxLen
  BY OtherFacts
<1>2. /\ ring' = ring /\ hist' = hist /\ heard' = Nothing /\ fade' = fade /\ source' = source
  BY DEF Frames, Silence, Silent, AtStart
<1>3. LesserOf(Used, Block) \in 0..Block
  <2>1. Used \in Nat /\ Block \in Nat
    BY RingFacts, Numbers
  <2>2. QED
    BY <2>1, Lesser
<1>4. /\ turn' \in Turns /\ (turn'.pc = "loop" => turn'.size > 0)
      /\ output' \in Outputs /\ output'.mark \in {None, output.mark}
  <2>1. CASE Frames
    <3>1. Loop(LesserOf(Used, Block), FALSE) /\ output' = output
      BY <2>1 DEF Frames
    <3>2. QED
      BY <1>1, <1>3, <3>1, LoopTyped
  <2>2. CASE Silence /\ output.count = 0
    <3>1. Loop(LesserOf(Used, Block), FALSE) /\ output' = [output EXCEPT !.state = "RUNNING"]
      BY <2>2 DEF Silence
    <3>2. output' \in Outputs /\ output'.mark = output.mark
      BY <1>1, <3>1 DEF Outputs
    <3>3. QED
      BY <1>3, <3>1, <3>2, LoopTyped
  <2>3. CASE Silence /\ output.count # 0
    <3> DEFINE n == LesserOf(Block, output.count)
    <3>1. Loop(n, TRUE) /\ output' = [output EXCEPT !.count = @ - n]
      BY <2>3 DEF Silence
    <3>2. PICK i \in Intervals : output.count \in 0..i
      BY <1>1, <2>3 DEF Outputs
    <3>3. i \in Nat /\ output.count \in Nat
      BY <3>2, FadesAssumption
    <3>4. n \in 0..Block /\ n \in Nat /\ n <= output.count
      BY <3>3, Lesser, Numbers
    <3> HIDE DEF n
    <3>5. output.count - n \in 0..i
      BY <3>2, <3>3, <3>4
    <3>6. output.count - n \in {0} \cup UNION {0..j : j \in Intervals}
      BY <3>5
    <3>7. output' \in Outputs /\ output'.mark = output.mark
      BY <1>1, <3>1, <3>6 DEF Outputs
    <3>8. QED
      BY <3>1, <3>4, <3>7, LoopTyped
  <2>4. CASE Silent
    <3>1. output' = output /\ Leave
      BY <2>4 DEF Silent
    <3>2. QED
      BY <1>1, <3>1, LeaveTyped
  <2>5. CASE AtStart
    <3>1. output' = [output EXCEPT !.mark = None] /\ Leave
      BY <2>5 DEF AtStart
    <3>2. turn' \in Turns /\ turn'.pc = "look"
      BY <3>1, LeaveTyped
    <3>3. None \in None..Size - 1
      BY Numbers DEF None
    <3>4. output' \in Outputs /\ output'.mark = None
      BY <1>1, <3>1, <3>3 DEF Outputs
    <3>5. QED
      BY <3>2, <3>4
  <2>6. QED
    BY <2>1, <2>2, <2>3, <2>4, <2>5
<1>5. hist'.last + Left' <= source'.track * MaxLen
  BY <1>1, <1>2 DEF Left
<1>6. QED
  BY <1>1, <1>2, <1>4, <1>5 DEF Rests

LEMMA RestsKeep ==
  ASSUME StoreInv, ~hist.broken, Rests
  PROVE  StoreInv'
<1>1. TypeInv /\ hist \in Hists /\ ring \in Rings /\ hist.first <= hist.last + 1
  BY OtherFacts, RingFacts DEF StoreInv
<1>2. ring' = ring /\ hist' = hist /\ output'.mark \in {None, output.mark}
  BY DEF Rests
<1>3. Used' = Len(hist'.due) /\ Upwards(hist'.due, hist'.last) /\ RingInv' /\ MarkInv'
  BY <1>2, RestKeeps
<1>4. HistInv'
  BY <1>1, <1>2, <1>3 DEF Rests, HistInv
<1>5. TypeOK'
  BY <1>1, <1>2, <1>3 DEF Rests, TypeOK
<1>6. QED
  BY <1>3, <1>4, <1>5 DEF StoreInv, TypeInv

(* The way to a place leads there. *)
LEMMA Arrives ==
  ASSUME NEW a \in Cells, NEW b \in Cells
  PROVE  Forward(a, Distance(a, b)) = b /\ Distance(a, a) = 0
<1>1. Distance(a, b) = (IF b >= a THEN b - a ELSE b - a + Size) /\ Distance(a, b) \in Cells
  BY Apart
<1>2. Distance(a, b) \in 0..Size
  BY <1>1, Numbers
<1>3. Forward(a, Distance(a, b)) = IF a + Distance(a, b) < Size THEN a + Distance(a, b)
                                   ELSE a + Distance(a, b) - Size
  BY <1>2, Around
<1>4. Distance(a, a) = IF a >= a THEN a - a ELSE a - a + Size
  BY Apart
<1>5. QED
  BY <1>1, <1>3, <1>4, Numbers DEF Cells

LEMMA DecodeStep ==
  ASSUME StoreInv, ~hist.broken, Decode
  PROVE  StoreInv'
<1>1. /\ TypeInv /\ ring \in Rings /\ ring.r \in Cells /\ ring.w \in Cells /\ Used \in Cells
      /\ hist.due \in Seq(Nat) /\ Len(hist.due) = Used /\ hist.last \in Nat /\ hist.first \in Nat
      /\ Used \in Nat
  BY RingFacts, Numbers DEF StoreInv
<1>2. /\ output \in Outputs /\ fade \in Fades /\ source \in Sources /\ hist \in Hists
      /\ turn \in Turns /\ (turn.pc = "loop" => turn.size > 0)
      /\ source.track \in Nat /\ source.frames \in 0..MaxLen /\ source.track <= NTracks
      /\ Left \in 0..MaxLen /\ hist.last + Left <= source.track * MaxLen
      /\ Upwards(hist.due, hist.last) /\ hist.first <= hist.last + 1
      /\ output.mark \in Cells \cup {None}
  BY <1>1, OtherFacts
<1>3. /\ output' = output /\ fade' = fade /\ turn' = turn /\ Used < Size - 1
      /\ source.phase = "decoding" /\ source.frames < MaxLen
      /\ source' = [source EXCEPT !.frames = source.frames + 1]
      /\ ring' = [ring EXCEPT !.mem[ring.w] = hist.last + 1, !.w = Forward(ring.w, 1)]
      /\ hist' = [hist EXCEPT !.last = hist.last + 1, !.due = Append(hist.due, hist.last + 1)]
  BY DEF Decode
<1>4. source' \in Sources /\ hist.last + 1 + Left' <= source'.track * MaxLen /\ Left > 0
  <2>1. source.frames + 1 \in 0..MaxLen
    BY <1>2, <1>3, Numbers
  <2>2. /\ source' \in Sources /\ source'.track = source.track
        /\ source'.frames = source.frames + 1 /\ source'.phase = "decoding"
    BY <1>2, <1>3, <2>1 DEF Sources
  <2>3. Left = MaxLen - source.frames /\ Left' = MaxLen - (source.frames + 1)
    BY <1>3, <2>2 DEF Left
  <2> DEFINE total == source.track * MaxLen
  <2>4. total \in Nat /\ hist.last + Left <= total /\ source'.track * MaxLen = total
    BY <1>2, <2>2, Numbers
  <2> HIDE DEF total
  <2>5. Left > 0 /\ hist.last + 1 + Left' <= total
    <3>1. source.frames \in Nat /\ source.frames < MaxLen /\ MaxLen \in Nat /\ hist.last \in Nat
      BY <1>1, <1>2, <1>3, Numbers
    <3>2. QED
      BY <2>3, <2>4, <3>1
  <2>6. QED
    BY <2>2, <2>4, <2>5
<1>5. hist.last + 1 \in Serials
  <2>1. source.track * MaxLen <= NTracks * MaxLen /\ source.track * MaxLen \in Nat
        /\ NTracks * MaxLen \in Nat
    BY <1>2, Numbers
  <2>2. QED
    BY <1>1, <1>2, <1>4, <2>1, Numbers DEF Serials
<1>6. Forward(ring.w, 1) \in Cells
  <2>1. 1 \in 0..Size
    BY Numbers
  <2>2. QED
    BY <1>1, <2>1, Around
<1>7. /\ ring' \in Rings /\ ring'.r = ring.r /\ ring'.w = Forward(ring.w, 1)
      /\ ring'.mem = [ring.mem EXCEPT ![ring.w] = hist.last + 1]
  <2> DEFINE mem == [ring.mem EXCEPT ![ring.w] = hist.last + 1]
  <2>1. ring.mem \in [0..Size - 1 -> Serials]
    BY <1>1 DEF Rings
  <2>2. mem \in [0..Size - 1 -> Serials]
    BY <1>1, <1>5, <2>1 DEF Cells
  <2>3. ring' = [ring EXCEPT !.mem = mem, !.w = Forward(ring.w, 1)]
    BY <1>1, <1>3 DEF Rings
  <2> HIDE DEF mem
  <2>4. ring' \in Rings /\ ring'.r = ring.r /\ ring'.w = Forward(ring.w, 1) /\ ring'.mem = mem
    BY <1>1, <1>6, <2>2, <2>3 DEF Rings, Cells
  <2>5. QED
    BY <2>4 DEF mem
<1>8. /\ hist'.due \in Seq(Nat) /\ Len(hist'.due) = Len(hist.due) + 1
      /\ \A i \in 1..Len(hist.due) : hist'.due[i] = hist.due[i]
      /\ hist'.due[Len(hist.due) + 1] = hist.last + 1
      /\ hist' \in Hists /\ hist'.last = hist.last + 1 /\ hist'.first = hist.first
      /\ hist'.broken = hist.broken /\ hist'.passed = hist.passed /\ hist'.moved = hist.moved
  <2> DEFINE due == Append(hist.due, hist.last + 1)
  <2>1. /\ due \in Seq(Nat) /\ Len(due) = Len(hist.due) + 1
        /\ \A i \in 1..Len(hist.due) : due[i] = hist.due[i]
        /\ due[Len(hist.due) + 1] = hist.last + 1
    BY <1>1
  <2> HIDE DEF due
  <2>2. hist' = [hist EXCEPT !.last = hist.last + 1, !.due = due]
    BY <1>3 DEF due
  <2>3. /\ hist' \in Hists /\ hist'.due = due /\ hist'.last = hist.last + 1
        /\ hist'.first = hist.first
        /\ hist'.broken = hist.broken /\ hist'.passed = hist.passed /\ hist'.moved = hist.moved
    <3>1. hist.last + 1 \in Nat /\ due \in Seq(Nat) /\ hist \in Hists
      BY <1>1, <1>2, <2>1
    <3>2. QED
      BY <2>2, <3>1 DEF Hists
  <2>4. QED
    BY <2>1, <2>3
<1>9. Used' = Len(hist'.due)
  <2>1. Distance(ring.r, ring.w) + 1 < Size /\ 1 \in 0..Size
    BY <1>1, <1>3, Numbers DEF Used
  <2>2. Distance(ring.r, Forward(ring.w, 1)) = Distance(ring.r, ring.w) + 1
    BY <1>1, <2>1, Ahead
  <2>3. QED
    BY <1>1, <1>7, <1>8, <2>2 DEF Used
<1>10. Upwards(hist'.due, hist'.last)
  <2>1. \A i \in 1..Len(hist.due) : hist.due[i] <= hist.last /\ hist.due[i] \in Nat
    BY <1>1, <1>2 DEF Upwards
  <2>2. ASSUME NEW i \in 1..Len(hist'.due)
        PROVE  hist'.due[i] <= hist'.last
    <3>1. i \in 1..Len(hist.due) \/ i = Len(hist.due) + 1
      BY <1>1, <1>8
    <3>2. QED
      BY <1>1, <1>8, <2>1, <3>1
  <2>3. ASSUME NEW i \in 1..Len(hist'.due), NEW j \in 1..Len(hist'.due), i < j
        PROVE  hist'.due[i] < hist'.due[j]
    <3>1. i \in 1..Len(hist.due) /\ (j \in 1..Len(hist.due) \/ j = Len(hist.due) + 1)
      BY <1>1, <1>8, <2>3
    <3>2. CASE j \in 1..Len(hist.due)
      BY <1>2, <1>8, <2>3, <3>1, <3>2 DEF Upwards
    <3>3. CASE j = Len(hist.due) + 1
      BY <1>1, <1>8, <2>1, <3>1, <3>3
    <3>4. QED
      BY <3>1, <3>2, <3>3
  <2>4. QED
    BY <2>2, <2>3 DEF Upwards
<1>11. RingInv'
  <2>1. ring.mem \in [0..Size - 1 -> Serials]
    BY <1>1 DEF Rings
  <2>2. ASSUME NEW i \in 1..Len(hist'.due)
        PROVE  ring'.mem[Forward(ring'.r, i - 1)] = hist'.due[i]
    <3>1. CASE i = Len(hist.due) + 1
      <4>1. i - 1 = Distance(ring.r, ring.w)
        BY <1>1, <3>1 DEF Used
      <4>2. Forward(ring.r, i - 1) = ring.w
        BY <1>1, <4>1, Arrives
      <4>3. ring'.mem[ring.w] = hist.last + 1
        BY <1>1, <1>7, <2>1 DEF Cells
      <4>4. QED
        BY <1>7, <1>8, <3>1, <4>2, <4>3
    <3>2. CASE i \in 1..Len(hist.due)
      <4>1. i - 1 \in 0..Size /\ i - 1 < Used /\ i - 1 \in Nat
        BY <1>1, <3>2, Numbers DEF Cells
      <4>2. Distance(ring.r, ring.r) + (i - 1) < Size /\ Distance(ring.r, ring.r) = 0
        BY <1>1, <4>1, Arrives, Numbers DEF Cells
      <4>3. Distance(ring.r, Forward(ring.r, i - 1)) = i - 1
        <5>1. \A b \in Cells : Distance(b, ring.r) + (i - 1) < Size =>
                Distance(b, Forward(ring.r, i - 1)) = Distance(b, ring.r) + (i - 1)
          BY <1>1, <4>1, Ahead
        <5>2. Distance(ring.r, Forward(ring.r, i - 1)) = 0 + (i - 1)
          BY <1>1, <4>2, <5>1
        <5>3. QED
          BY <4>1, <5>2
      <4>4. Forward(ring.r, i - 1) # ring.w
        BY <1>1, <4>1, <4>3 DEF Used
      <4>5. ring.mem[Forward(ring.r, i - 1)] = hist.due[i]
        BY <3>2 DEF StoreInv, RingInv, Holds
      <4>6. Forward(ring.r, i - 1) \in 0..Size - 1
        BY <1>1, <4>1, Around DEF Cells
      <4>7. QED
        BY <1>7, <1>8, <2>1, <3>2, <4>4, <4>5, <4>6
    <3>3. QED
      BY <1>1, <1>8, <3>1, <3>2
  <2>3. QED
    BY <2>2 DEF RingInv, Holds
<1>12. MarkInv'
  <2>1. SUFFICES ASSUME output'.mark # None, ~hist'.passed, ~hist'.moved
                 PROVE  /\ Distance(ring'.r, output'.mark) <= Len(hist'.due)
                        /\ \A i \in 1..Len(hist'.due) :
                             hist'.due[i] < hist'.first <=> i <= Distance(ring'.r, output'.mark)
    BY DEF MarkInv
  <2> DEFINE d == Distance(ring.r, output.mark)
  <2>2. d \in Nat
    BY <1>1, <1>2, <1>3, <2>1, Apart, Numbers
  <2>3. Distance(ring'.r, output'.mark) = d
    BY <1>3, <1>7
  <2>4. d <= Len(hist.due) /\ \A i \in 1..Len(hist.due) : hist.due[i] < hist.first <=> i <= d
    BY <1>3, <1>8, <2>1 DEF StoreInv, MarkInv
  <2> HIDE DEF d
  <2>5. ASSUME NEW i \in 1..Len(hist'.due)
        PROVE  hist'.due[i] < hist'.first <=> i <= d
    <3>1. CASE i \in 1..Len(hist.due)
      BY <1>8, <2>4, <3>1
    <3>2. CASE i = Len(hist.due) + 1
      BY <1>1, <1>2, <1>8, <2>2, <2>4, <3>2
    <3>3. QED
      BY <1>1, <1>8, <3>1, <3>2
  <2>6. QED
    BY <1>1, <1>8, <2>2, <2>3, <2>4, <2>5
<1>13. hist'.first <= hist'.last + 1
  BY <1>1, <1>2, <1>8
<1>14. HistInv'
  BY <1>4, <1>8, <1>10, <1>13 DEF HistInv
<1>15. TypeOK'
  BY <1>2, <1>3, <1>4, <1>7, <1>9 DEF TypeOK
<1>16. QED
  BY <1>11, <1>12, <1>14, <1>15 DEF StoreInv, TypeInv

(* Fresh frames, and the lengths of fades, are numbers. *)
LEMMA FadeNumbers ==
  ASSUME TypeInv, ~hist.broken
  PROVE  /\ Duration \in Nat
         /\ LesserOf(Duration, Size - 1) \in Cells
         /\ LesserOf(Used, Duration) \in 0..Used
         /\ Least({Duration, Used, (Size * 9) \div 10}) \in 0..Used
         /\ \A n \in Nat : /\ Fresh(n) \in Seq(Nat) /\ Len(Fresh(n)) = n
                           /\ \A i \in 1..n : Fresh(n)[i] = hist.last + i
<1>1. Duration \in Nat
  BY Numbers DEF Duration
<1>2. Used \in Nat /\ hist.last \in Nat /\ Size - 1 \in Nat
  BY RingFacts, Numbers
<1>3. LesserOf(Duration, Size - 1) \in Cells
  <2>1. LesserOf(Duration, Size - 1) \in Nat /\ LesserOf(Duration, Size - 1) <= Size - 1
    BY <1>1, <1>2, Lesser
  <2>2. QED
    BY <2>1, Numbers DEF Cells
<1>4. LesserOf(Used, Duration) \in 0..Used
  <2>1. LesserOf(Used, Duration) \in Nat /\ LesserOf(Used, Duration) <= Used
    BY <1>1, <1>2, Lesser
  <2>2. QED
    BY <1>2, <2>1
<1>5. Least({Duration, Used, (Size * 9) \div 10}) \in 0..Used
  <2> DEFINE m == (Size * 9) \div 10
  <2>1. m \in Nat
    BY Numbers
  <2> HIDE DEF m
  <2>2. \E a \in {Duration, Used, m} : \A b \in {Duration, Used, m} : a <= b
    <3>1. CASE Duration <= Used /\ Duration <= m
      BY <1>1, <1>2, <2>1, <3>1
    <3>2. CASE Used <= Duration /\ Used <= m
      BY <1>1, <1>2, <2>1, <3>2
    <3>3. CASE m <= Duration /\ m <= Used
      BY <1>1, <1>2, <2>1, <3>3
    <3>4. QED
      BY <1>1, <1>2, <2>1, <3>1, <3>2, <3>3
  <2>3. /\ Least({Duration, Used, m}) \in {Duration, Used, m}
        /\ Least({Duration, Used, m}) <= Used
    BY <2>2 DEF Least
  <2>4. QED
    BY <1>1, <1>2, <2>1, <2>3 DEF m
<1>6. ASSUME NEW n \in Nat
      PROVE  /\ Fresh(n) \in Seq(Nat) /\ Len(Fresh(n)) = n
             /\ \A i \in 1..n : Fresh(n)[i] = hist.last + i
  <2>1. \A i \in 1..n : hist.last + i \in Nat
    BY <1>2
  <2>2. QED
    BY <2>1 DEF Fresh
<1>7. QED
  BY <1>1, <1>3, <1>4, <1>5, <1>6

(* A new stream: its start is where the next frame will be written, unless *)
(* a crossfade moves it.                                                   *)
LEMMA StartKeeps ==
  ASSUME StoreInv, ~hist.broken, ring' = ring, hist'.due = hist.due, hist'.last = hist.last,
         hist'.first = hist.last + 1, hist'.moved \/ output'.mark = ring.w
  PROVE  /\ Used' = Len(hist'.due) /\ Upwards(hist'.due, hist'.last)
         /\ RingInv' /\ MarkInv'
<1>1. /\ TypeInv /\ ring.r \in Cells /\ ring.w \in Cells
      /\ hist.due \in Seq(Nat) /\ Len(hist.due) = Used /\ hist.last \in Nat /\ Used \in Nat
  BY RingFacts, Numbers DEF StoreInv
<1>2. Used' = Len(hist'.due)
  BY <1>1 DEF Used
<1>3. Upwards(hist.due, hist.last)
  BY <1>1, OtherFacts
<1>4. RingInv'
  <2>1. Holds(ring.mem, ring.r, hist.due)
    BY DEF StoreInv, RingInv
  <2>2. Holds(ring'.mem, ring'.r, hist'.due)
    BY <2>1
  <2>3. QED
    BY <2>2 DEF RingInv
<1>5. MarkInv'
  <2>1. SUFFICES ASSUME output'.mark # None, ~hist'.moved
                 PROVE  /\ Distance(ring'.r, output'.mark) <= Len(hist'.due)
                        /\ \A i \in 1..Len(hist'.due) :
                             hist'.due[i] < hist'.first <=> i <= Distance(ring'.r, output'.mark)
    BY DEF MarkInv
  <2>2. Distance(ring'.r, output'.mark) = Used
    BY <2>1 DEF Used
  <2>3. \A i \in 1..Len(hist.due) : hist.due[i] <= hist.last /\ hist.due[i] \in Nat
    BY <1>1, <1>3 DEF Upwards
  <2>4. QED
    BY <1>1, <2>2, <2>3
<1>6. QED
  BY <1>2, <1>3, <1>4, <1>5

LEMMA MarkTyped ==
  ASSUME output \in Outputs, NEW p \in Cells, output' = [output EXCEPT !.mark = p]
  PROVE  output' \in Outputs /\ output'.mark = p
<1>1. p \in None..Size - 1
  BY FadesAssumption DEF Cells, None
<1>2. QED
  BY <1>1 DEF Outputs

LEMMA BeginStep ==
  ASSUME StoreInv, ~hist.broken, Begin
  PROVE  StoreInv'
<1>1. /\ TypeInv /\ ring \in Rings /\ ring.w \in Cells /\ Used \in Cells /\ Used \in Nat
      /\ hist.due \in Seq(Nat) /\ Len(hist.due) = Used /\ hist.last \in Nat
  BY RingFacts, Numbers DEF StoreInv
<1>2. /\ output \in Outputs /\ fade \in Fades /\ source \in Sources /\ hist \in Hists
      /\ turn \in Turns /\ (turn.pc = "loop" => turn.size > 0)
      /\ hist.last + Left <= source.track * MaxLen
  BY <1>1, OtherFacts
<1>3. /\ ring' = ring /\ turn' = turn /\ source.phase = "asked"
      /\ source' = [source EXCEPT !.phase = "decoding"]
      /\ FadeIn \/ CrossFade \/ NoFade
  BY DEF Begin
<1>4. source' \in Sources /\ hist.last + Left' <= source'.track * MaxLen
  <2>1. /\ source' \in Sources /\ source'.phase = "decoding" /\ source'.track = source.track
        /\ source'.frames = source.frames
    BY <1>2, <1>3 DEF Sources
  <2>2. QED
    BY <1>2, <1>3, <2>1 DEF Left
<1>5. << >> \in Seq(Nat) /\ hist.last + 1 \in Nat
  BY <1>1
<1>6. /\ fade' \in Fades /\ output' \in Outputs /\ hist' \in Hists
      /\ hist'.due = hist.due /\ hist'.last = hist.last /\ hist'.first = hist.last + 1
      /\ hist'.broken = hist.broken /\ (hist'.moved \/ output'.mark = ring.w)
  <2>1. CASE FadeIn
    <3> DEFINE n == LesserOf(Duration, Size - 1)
    <3>1. n \in Cells /\ n \in Nat /\ n \in 0..Size
      BY <1>1, FadeNumbers, Numbers
    <3>2. Fresh(n) \in Seq(Nat)
      BY <1>1, <3>1, FadeNumbers
    <3>3. Forward(ring.w, n) \in Cells
      BY <1>1, <3>1, Around
    <3>4. /\ fade' = Due("UP", ring.w, Forward(ring.w, n))
          /\ hist' = [Faded("UP", << >>, Fresh(n)) EXCEPT !.first = hist.last + 1,
                        !.passed = FALSE, !.moved = FALSE]
          /\ output' = [output EXCEPT !.mark = ring.w]
      BY <2>1 DEF FadeIn
    <3> HIDE DEF n
    <3>5. fade' \in Fades
      BY <1>1, <1>2, <3>3, <3>4 DEF Due, Fades, Cells
    <3>6. output' \in Outputs /\ output'.mark = ring.w
      BY <1>1, <1>2, <3>4, MarkTyped
    <3>7. /\ hist' \in Hists /\ hist'.due = hist.due /\ hist'.last = hist.last
          /\ hist'.first = hist.last + 1 /\ hist'.broken = hist.broken
      BY <1>2, <1>5, <3>2, <3>4 DEF Faded, Hists
    <3>8. QED
      BY <3>5, <3>6, <3>7
  <2>2. CASE CrossFade
    <3> DEFINE n == Least({Duration, Used, (Size * 9) \div 10})
               from == Back(ring.w, n)
    <3>1. n \in 0..Used /\ n \in Nat /\ n \in 0..Size
      BY <1>1, FadeNumbers, Numbers DEF Cells
    <3>2. Fresh(n) \in Seq(Nat)
      BY <1>1, <3>1, FadeNumbers
    <3>3. LastN(hist.due, n) \in Seq(Nat)
      BY <1>1, <3>1, Parts
    <3>4. from \in Cells
      BY <1>1, <3>1, Around
    <3>5. /\ fade' = Due("CROSS", from, ring.w)
          /\ hist' = [Faded("CROSS", LastN(hist.due, n), Fresh(n))
                        EXCEPT !.first = hist.last + 1, !.passed = FALSE, !.moved = TRUE]
          /\ output' = [output EXCEPT !.mark = from]
      BY <2>2 DEF CrossFade
    <3> HIDE DEF n, from
    <3>6. fade' \in Fades
      BY <1>1, <1>2, <3>4, <3>5 DEF Due, Fades, Cells
    <3>7. output' \in Outputs
      BY <1>2, <3>4, <3>5, MarkTyped
    <3>8. /\ hist' \in Hists /\ hist'.due = hist.due /\ hist'.last = hist.last
          /\ hist'.first = hist.last + 1 /\ hist'.broken = hist.broken /\ hist'.moved
      BY <1>2, <1>5, <3>2, <3>3, <3>5 DEF Faded, Hists
    <3>9. QED
      BY <3>6, <3>7, <3>8
  <2>3. CASE NoFade
    <3>1. /\ fade' = fade /\ output' = [output EXCEPT !.mark = ring.w]
          /\ hist' = [hist EXCEPT !.first = hist.last + 1, !.passed = FALSE, !.moved = FALSE]
      BY <2>3 DEF NoFade
    <3>2. output' \in Outputs /\ output'.mark = ring.w
      BY <1>1, <1>2, <3>1, MarkTyped
    <3>3. /\ hist' \in Hists /\ hist'.due = hist.due /\ hist'.last = hist.last
          /\ hist'.first = hist.last + 1 /\ hist'.broken = hist.broken
      BY <1>2, <1>5, <3>1 DEF Hists
    <3>4. QED
      BY <1>2, <3>1, <3>2, <3>3
  <2>4. QED
    BY <1>3, <2>1, <2>2, <2>3
<1>7. Used' = Len(hist'.due) /\ Upwards(hist'.due, hist'.last) /\ RingInv' /\ MarkInv'
  BY <1>3, <1>6, StartKeeps
<1>8. HistInv'
  BY <1>1, <1>4, <1>6, <1>7 DEF HistInv
<1>9. TypeOK'
  BY <1>1, <1>2, <1>3, <1>4, <1>6, <1>7 DEF TypeOK
<1>10. QED
  BY <1>7, <1>8, <1>9 DEF StoreInv, TypeInv

LEMMA CompleteStep ==
  ASSUME StoreInv, ~hist.broken, Complete
  PROVE  StoreInv'
<1>1. /\ TypeInv /\ ring \in Rings /\ ring.w \in Cells /\ Used \in Cells /\ Used \in Nat
      /\ hist.due \in Seq(Nat) /\ Len(hist.due) = Used /\ hist.last \in Nat /\ hist.first \in Nat
  BY RingFacts, Numbers DEF StoreInv
<1>2. /\ output \in Outputs /\ fade \in Fades /\ source \in Sources /\ hist \in Hists
      /\ turn \in Turns /\ (turn.pc = "loop" => turn.size > 0)
      /\ Left \in 0..MaxLen /\ hist.last + Left <= source.track * MaxLen
      /\ hist.first <= hist.last + 1 /\ source.track \in Nat
  BY <1>1, OtherFacts
<1>3. /\ ring' = ring /\ turn' = turn /\ output' = output
      /\ source' = [source EXCEPT !.phase = "complete"]
  BY DEF Complete
<1>4. source' \in Sources /\ hist.last + Left' <= source'.track * MaxLen
  <2>1. source' \in Sources /\ source'.phase = "complete" /\ source'.track = source.track
    BY <1>2, <1>3 DEF Sources
  <2>2. Left' = 0
    BY <2>1 DEF Left
  <2> DEFINE total == source.track * MaxLen
  <2>3. total \in Nat /\ hist.last + Left <= total
    BY <1>2, Numbers
  <2> HIDE DEF total
  <2>4. hist.last + 0 <= total
    <3>1. Left \in Nat
      BY <1>2, Numbers
    <3>2. QED
      BY <1>1, <2>3, <3>1
  <2>5. QED
    BY <2>1, <2>2, <2>4 DEF total
<1>5. /\ fade' \in Fades /\ hist' \in Hists
      /\ hist'.due = hist.due /\ hist'.last = hist.last /\ hist'.first = hist.first
      /\ hist'.broken = hist.broken /\ hist'.passed = hist.passed /\ hist'.moved = hist.moved
  <2>1. CASE fade.mode \in {"OUT", "INOUT"}
    <3> DEFINE n == LesserOf(Used, Duration)
    <3>1. n \in 0..Used /\ n \in Nat /\ n \in 0..Size
      BY <1>1, FadeNumbers, Numbers DEF Cells
    <3>2. LastN(hist.due, n) \in Seq(Nat) /\ << >> \in Seq(Nat)
      BY <1>1, <3>1, Parts
    <3>3. Back(ring.w, n) \in Cells
      BY <1>1, <3>1, Around
    <3>4. /\ fade' = Due("DOWN", Back(ring.w, n), ring.w)
          /\ hist' = Faded("DOWN", LastN(hist.due, n), << >>)
      BY <2>1 DEF Complete
    <3> HIDE DEF n
    <3>5. fade' \in Fades
      BY <1>1, <1>2, <3>3, <3>4 DEF Due, Fades, Cells
    <3>6. /\ hist' \in Hists
          /\ hist'.due = hist.due /\ hist'.last = hist.last /\ hist'.first = hist.first
          /\ hist'.broken = hist.broken /\ hist'.passed = hist.passed /\ hist'.moved = hist.moved
      BY <1>2, <3>2, <3>4 DEF Faded, Hists
    <3>7. QED
      BY <3>5, <3>6
  <2>2. CASE fade.mode \notin {"OUT", "INOUT"}
    BY <1>2, <2>2 DEF Complete
  <2>3. QED
    BY <2>1, <2>2
<1>6. Used' = Len(hist'.due) /\ Upwards(hist'.due, hist'.last) /\ RingInv' /\ MarkInv'
  BY <1>3, <1>5, RestKeeps
<1>7. HistInv'
  BY <1>2, <1>4, <1>5, <1>6 DEF HistInv
<1>8. TypeOK'
  BY <1>1, <1>2, <1>3, <1>4, <1>5, <1>6 DEF TypeOK
<1>9. QED
  BY <1>6, <1>7, <1>8 DEF StoreInv, TypeInv

(* An order that ends the codec's track. *)
LEMMA CutSource ==
  ASSUME TypeInv, ~hist.broken, source.orders > 0,
         source' = [Spent EXCEPT !.phase = "idle"]
  PROVE  source' \in Sources /\ hist.last + Left' <= source'.track * MaxLen
<1>1. /\ source \in Sources /\ Left \in 0..MaxLen /\ hist.last + Left <= source.track * MaxLen
      /\ source.track \in Nat /\ hist.last \in Nat
  BY OtherFacts, RingFacts
<1>2. source' \in Sources /\ source'.phase = "idle" /\ source'.track = source.track
  <2>1. source.orders - 1 \in 0..MaxOrders
    BY <1>1, Numbers DEF Sources
  <2>2. source' = [[source EXCEPT !.orders = source.orders - 1] EXCEPT !.phase = "idle"]
    BY DEF Spent
  <2>3. QED
    BY <1>1, <2>1, <2>2 DEF Sources
<1>3. Left' = 0
  BY <1>2 DEF Left
<1> DEFINE total == source.track * MaxLen
<1>4. total \in Nat /\ hist.last + Left <= total
  BY <1>1, Numbers
<1> HIDE DEF total
<1>5. hist.last + 0 <= total
  <2>1. Left \in Nat
    BY <1>1, Numbers
  <2>2. QED
    BY <1>1, <1>4, <2>1
<1>6. QED
  BY <1>2, <1>3, <1>5 DEF total

LEMMA FlushStep ==
  ASSUME StoreInv, ~hist.broken, Flush
  PROVE  StoreInv'
<1>1. /\ TypeInv /\ ring \in Rings /\ hist.last \in Nat /\ hist.first \in Nat
  BY RingFacts DEF StoreInv
<1>2. /\ output \in Outputs /\ fade \in Fades /\ source \in Sources /\ hist \in Hists
      /\ turn \in Turns /\ (turn.pc = "loop" => turn.size > 0)
      /\ Left \in 0..MaxLen /\ hist.last + Left <= source.track * MaxLen
      /\ hist.first <= hist.last + 1 /\ source.track \in Nat
  BY <1>1, OtherFacts
<1>3. /\ turn' = turn /\ source.orders > 0
      /\ source' = [Spent EXCEPT !.phase = "idle"]
      /\ ring' = [ring EXCEPT !.r = 0, !.w = 0]
      /\ output' = [output EXCEPT !.state = "STOPPED", !.mark = None]
      /\ fade' = [fade EXCEPT !.state = "INACTIVE"]
      /\ hist' = [hist EXCEPT !.due = << >>, !.window = NoWindow, !.lost = FALSE,
                    !.passed = FALSE]
  BY DEF Flush, Order
<1>4. source' \in Sources /\ hist.last + Left' <= source'.track * MaxLen
  BY <1>1, <1>2, <1>3, CutSource
<1>5. ring' \in Rings /\ ring'.r = 0 /\ ring'.w = 0
  <2>1. 0 \in 0..Size - 1
    BY Numbers DEF Cells
  <2>2. QED
    BY <1>1, <1>3, <2>1 DEF Rings
<1>6. /\ hist' \in Hists /\ hist'.due = << >> /\ hist'.last = hist.last
      /\ hist'.first = hist.first
  <2>1. /\ << >> \in Seq(Nat)
        /\ NoWindow \in [dir : {"none", "UP", "DOWN", "CROSS"}, tail : Seq(Nat), head : Seq(Nat)]
    BY DEF NoWindow
  <2>2. QED
    BY <1>2, <1>3, <2>1 DEF Hists
<1>7. output' \in Outputs /\ output'.mark = None
  <2>1. None \in None..Size - 1
    BY Numbers DEF None
  <2>2. QED
    BY <1>2, <1>3, <2>1 DEF Outputs
<1>8. fade' \in Fades
  BY <1>2, <1>3 DEF Fades
<1>9. Used' = 0 /\ Len(hist'.due) = 0
  BY <1>5, <1>6, Arrives, Numbers DEF Used
<1>10. Upwards(hist'.due, hist'.last) /\ RingInv'
  BY <1>9 DEF Upwards, RingInv, Holds
<1>11. MarkInv'
  BY <1>7 DEF MarkInv
<1>12. HistInv'
  BY <1>2, <1>4, <1>6, <1>10 DEF HistInv
<1>13. TypeOK'
  BY <1>2, <1>3, <1>4, <1>5, <1>7, <1>8, <1>9 DEF TypeOK
<1>14. QED
  BY <1>10, <1>11, <1>12, <1>13 DEF StoreInv, TypeInv

(* strm 'f' takes the frames of the track that has not begun: when its     *)
(* mark is where it should be, those are the ones from the mark on.        *)
LEMMA Cut ==
  ASSUME NEW due \in Seq(Nat), NEW first \in Nat, NEW d \in 0..Len(due),
         \A i \in 1..Len(due) : due[i] < first <=> i <= d
  PROVE  Before(due, first) = SubSeq(due, 1, d)
<1> DEFINE P(n) == \A i \in DOMAIN due : due[i] < first <=> i <= n
           m    == CHOOSE n \in 0..Len(due) : P(n)
<1>1. Len(due) \in Nat /\ DOMAIN due = 1..Len(due)
  OBVIOUS
<1>2. P(d)
  BY <1>1
<1>3. m \in 0..Len(due) /\ P(m)
  BY <1>2
<1> HIDE DEF m
<1>4. m = d
  <2>1. CASE m < d
    <3>1. m + 1 \in 1..Len(due) /\ m + 1 <= d /\ ~(m + 1 <= m)
      BY <1>1, <1>3, <2>1
    <3>2. QED
      BY <1>1, <1>2, <1>3, <3>1
  <2>2. CASE d < m
    <3>1. d + 1 \in 1..Len(due) /\ d + 1 <= m /\ ~(d + 1 <= d)
      BY <1>1, <1>3, <2>2
    <3>2. QED
      BY <1>1, <1>2, <1>3, <3>1
  <2>3. QED
    BY <1>1, <1>3, <2>1, <2>2
<1>5. QED
  BY <1>4 DEF m, Before

LEMMA FlushStreamingStep ==
  ASSUME StoreInv, ~hist.broken, FlushStreaming
  PROVE  StoreInv'
<1>1. /\ TypeInv /\ ring \in Rings /\ ring.r \in Cells /\ ring.w \in Cells
      /\ hist.due \in Seq(Nat) /\ Len(hist.due) = Used /\ Used \in Nat
      /\ hist.last \in Nat /\ hist.first \in Nat
  BY RingFacts, Numbers DEF StoreInv
<1>2. /\ output \in Outputs /\ fade \in Fades /\ source \in Sources /\ hist \in Hists
      /\ turn \in Turns /\ (turn.pc = "loop" => turn.size > 0)
      /\ hist.last + Left <= source.track * MaxLen
      /\ hist.first <= hist.last + 1 /\ output.mark \in Cells \cup {None}
      /\ Upwards(hist.due, hist.last)
  BY <1>1, OtherFacts
<1>3. /\ turn' = turn /\ fade' = fade /\ source.orders > 0
      /\ source' = [Spent EXCEPT !.phase = "idle"]
      /\ output' = [output EXCEPT !.mark = None]
  BY DEF FlushStreaming, Order
<1>4. source' \in Sources /\ hist.last + Left' <= source'.track * MaxLen
  BY <1>1, <1>2, <1>3, CutSource
<1>5. output' \in Outputs /\ output'.mark = None
  <2>1. None \in None..Size - 1
    BY Numbers DEF None
  <2>2. QED
    BY <1>2, <1>3, <2>1 DEF Outputs
<1>6. MarkInv'
  BY <1>5 DEF MarkInv
<1>7. CASE output.mark = None
  <2>1. ring' = ring /\ hist' = hist
    BY <1>7 DEF FlushStreaming
  <2>2. Used' = Len(hist'.due) /\ Upwards(hist'.due, hist'.last) /\ RingInv'
    BY <1>5, <2>1, RestKeeps
  <2>3. HistInv' /\ TypeOK'
    BY <1>1, <1>2, <1>3, <1>4, <1>5, <2>1, <2>2 DEF HistInv, TypeOK
  <2>4. QED
    BY <1>6, <2>2, <2>3 DEF StoreInv, TypeInv
<1>8. CASE output.mark # None
  <2> DEFINE d    == Distance(ring.r, output.mark)
             kept == Before(hist.due, hist.first)
             lost == hist.lost \/ (fade.state # "INACTIVE"
                       /\ \E x \in ToSet(hist.window.tail \o hist.window.head) : x >= hist.first)
  <2>1. /\ ring' = [ring EXCEPT !.w = output.mark]
        /\ hist' = [hist EXCEPT !.due = kept, !.lost = lost,
                      !.broken = hist.passed \/ hist.moved]
    BY <1>8 DEF FlushStreaming
  <2>2. lost \in BOOLEAN
    BY <1>2 DEF Hists
  <2>3. output.mark \in Cells
    BY <1>2, <1>8
  <2>4. ring' \in Rings /\ ring'.r = ring.r /\ ring'.w = output.mark /\ ring'.mem = ring.mem
    BY <1>1, <2>1, <2>3 DEF Rings, Cells
  <2> HIDE DEF lost, kept
  <2>5. /\ hist'.due = kept /\ hist'.last = hist.last /\ hist'.first = hist.first
        /\ hist'.broken = (hist.passed \/ hist.moved)
    BY <1>2, <2>1 DEF Hists
  <2>6. ASSUME ~hist'.broken
        PROVE  /\ Used' = Len(hist'.due) /\ Upwards(hist'.due, hist'.last)
               /\ Holds(ring'.mem, ring'.r, hist'.due) /\ hist' \in Hists
    <3>1. ~hist.passed /\ ~hist.moved
      BY <2>5, <2>6
    <3>2. d <= Len(hist.due) /\ \A i \in 1..Len(hist.due) : hist.due[i] < hist.first <=> i <= d
      BY <1>8, <3>1 DEF StoreInv, MarkInv
    <3>3. d \in Nat
      BY <1>1, <2>3, Apart, Numbers
    <3>4. Used' = d
      BY <2>4 DEF Used
    <3> HIDE DEF d
    <3>5. d \in 0..Len(hist.due)
      BY <1>1, <3>2, <3>3
    <3>6. kept = SubSeq(hist.due, 1, d)
      BY <1>1, <3>2, <3>5, Cut DEF kept
    <3>7. kept \in Seq(Nat) /\ Len(kept) = d /\ \A i \in 1..d : kept[i] = hist.due[i]
      BY <1>1, <3>5, <3>6
    <3>8. Upwards(hist'.due, hist'.last)
      <4>1. \A i \in 1..d : i \in 1..Len(hist.due)
        BY <1>1, <3>5
      <4>2. QED
        BY <1>2, <2>5, <3>7, <4>1 DEF Upwards
    <3>9. Holds(ring'.mem, ring'.r, hist'.due)
      <4>1. \A i \in 1..Len(hist.due) : ring.mem[Forward(ring.r, i - 1)] = hist.due[i]
        BY DEF StoreInv, RingInv, Holds
      <4>2. \A i \in 1..d : i \in 1..Len(hist.due)
        BY <1>1, <3>5
      <4>3. QED
        BY <2>4, <2>5, <3>7, <4>1, <4>2 DEF Holds
    <3>10. hist' \in Hists
      BY <1>2, <2>1, <2>2, <3>1, <3>7 DEF Hists
    <3>11. QED
      BY <2>5, <3>4, <3>7, <3>8, <3>9, <3>10
  <2>7. RingInv'
    BY <2>6 DEF RingInv
  <2>8. HistInv'
    BY <1>2, <1>4, <2>5, <2>6 DEF HistInv
  <2>9. TypeOK'
    BY <1>2, <1>3, <1>4, <1>5, <2>4, <2>6 DEF TypeOK
  <2>10. QED
    BY <1>6, <2>7, <2>8, <2>9 DEF StoreInv, TypeInv
<1>9. QED
  BY <1>7, <1>8

(* What is skipped is at most what is there. *)
LEMMA SkipMoves ==
  ASSUME TypeInv, ~hist.broken, Skip
  PROVE  LET n == LesserOf(Used, output.count)
         IN  /\ n \in Nat /\ Moves(n) /\ hist' \in Hists /\ hist'.broken = hist.broken
             /\ hist'.window = hist.window
             /\ hist'.lost = \/ hist.lost
                             \/ fade.state = "DUE" /\ Distance(ring.r, fade.from) < n
                             \/ fade.state = "ACTIVE" /\ Distance(fade.from, ring.r) + n >= Size
             /\ output' \in Outputs /\ fade' = fade
             /\ turn' \in Turns /\ (turn'.pc = "loop" => turn'.size > 0)
             /\ heard' = Nothing
<1> DEFINE n == LesserOf(Used, output.count)
           passed == hist.passed \/ (output.mark # None /\ Distance(ring.r, output.mark) < n)
           lost == \/ hist.lost
                   \/ fade.state = "DUE" /\ Distance(ring.r, fade.from) < n
                   \/ fade.state = "ACTIVE" /\ Distance(fade.from, ring.r) + n >= Size
<1>1. /\ ring \in Rings /\ ring.r \in Cells /\ ring.w \in Cells
      /\ hist.due \in Seq(Nat) /\ Len(hist.due) = Used /\ Used \in Nat /\ Used \in 0..Size
  BY RingFacts, Numbers
<1>2. output \in Outputs /\ hist \in Hists /\ output.mark \in Cells \cup {None}
  BY OtherFacts
<1>3. output.count \in Nat
  <2>1. \A i \in Intervals : 0..i \subseteq Nat
    BY FadesAssumption
  <2>2. QED
    BY <1>2, <2>1 DEF Outputs
<1>4. n \in 0..Used /\ n \in Nat /\ n \in 0..Size
  <2>1. n \in Nat /\ n <= Used
    BY <1>1, <1>3, Lesser
  <2>2. QED
    BY <1>1, <2>1, Numbers
<1>5. LesserOf(Used - n, Block) \in 0..Block
  <2>1. Used - n \in Nat /\ Block \in Nat
    BY <1>1, <1>4, Numbers
  <2> HIDE DEF n
  <2>2. QED
    BY <2>1, Lesser
<1>6. /\ ring' = [ring EXCEPT !.r = Forward(ring.r, n)]
      /\ Loop(LesserOf(Used - n, Block), FALSE)
      /\ hist' = [hist EXCEPT !.due = Dropped(hist.due, n), !.passed = passed, !.lost = lost]
      /\ output' = [output EXCEPT !.state = "RUNNING"]
      /\ fade' = fade /\ source' = source /\ heard' = Nothing
  BY <1>2 DEF Skip, Hists
<1>7. passed \in BOOLEAN /\ lost \in BOOLEAN
  BY <1>2 DEF Hists
<1>8. hist.passed \in BOOLEAN
  BY <1>2 DEF Hists
<1>9. ~passed => ~hist.passed /\ (output.mark = None \/ n <= Distance(ring.r, output.mark))
  <2>1. SUFFICES ASSUME ~passed, output.mark # None
                 PROVE  n <= Distance(ring.r, output.mark)
    OBVIOUS
  <2>2. Distance(ring.r, output.mark) \in Nat
    BY <1>1, <1>2, <2>1, Apart, Numbers
  <2> HIDE DEF n
  <2>3. QED
    BY <1>4, <2>1, <2>2
<1>10. Forward(ring.r, n) \in Cells
  BY <1>1, <1>4, Around
<1>11. Dropped(hist.due, n) \in Seq(Nat)
  BY <1>1, <1>4, Parts
<1> HIDE DEF n, passed, lost
<1>12. /\ ring' \in Rings /\ ring'.r = Forward(ring.r, n) /\ ring'.mem = ring.mem
       /\ ring'.w = ring.w
  BY <1>1, <1>6, <1>10 DEF Rings, Cells
<1>13. /\ hist' \in Hists /\ hist'.due = Dropped(hist.due, n) /\ hist'.passed = passed
       /\ hist'.lost = lost /\ hist'.last = hist.last /\ hist'.first = hist.first
       /\ hist'.moved = hist.moved /\ hist'.broken = hist.broken /\ hist'.window = hist.window
  BY <1>2, <1>6, <1>7, <1>11 DEF Hists
<1>14. output' \in Outputs /\ output'.mark = output.mark
  BY <1>2, <1>6 DEF Outputs
<1>15. turn' \in Turns /\ (turn'.pc = "loop" => turn'.size > 0)
  BY <1>5, <1>6, LoopTyped
<1>16. Moves(n)
  BY <1>4, <1>6, <1>9, <1>12, <1>13, <1>14 DEF Moves
<1>17. QED
  BY <1>4, <1>6, <1>13, <1>14, <1>15, <1>16 DEF n, lost

LEMMA SkipStep ==
  ASSUME StoreInv, ~hist.broken, Skip
  PROVE  StoreInv'
<1>1. TypeInv
  BY DEF StoreInv
<1>2. PICK n \in Nat :
        /\ Moves(n) /\ hist' \in Hists
        /\ output' \in Outputs /\ fade' = fade
        /\ turn' \in Turns /\ (turn'.pc = "loop" => turn'.size > 0)
  BY <1>1, SkipMoves
<1>3. Used' = Len(hist'.due) /\ Upwards(hist'.due, hist'.last) /\ RingInv' /\ MarkInv'
  BY <1>2, MovesKeep
<1>4. /\ fade \in Fades /\ source \in Sources
      /\ hist.last + Left <= source.track * MaxLen /\ hist.first <= hist.last + 1
  BY <1>1, OtherFacts
<1>5. source' = source /\ hist'.last = hist.last /\ hist'.first = hist.first /\ ring' \in Rings
  BY <1>2 DEF Moves
<1>6. HistInv'
  BY <1>2, <1>3, <1>4, <1>5 DEF HistInv, Left
<1>7. TypeOK'
  BY <1>2, <1>3, <1>4, <1>5 DEF TypeOK
<1>8. QED
  BY <1>3, <1>6, <1>7 DEF StoreInv, TypeInv

LEMMA TurnStep ==
  ASSUME StoreInv, ~hist.broken, Turn
  PROVE  StoreInv' /\ PieceInv'
<1>1. TypeInv /\ RingInv
  BY DEF StoreInv
<1>2. fade' \in Fades
  BY <1>1, TurnWrites
<1>3. PICK s \in Cells, n \in Nat :
        /\ Writes(s, n)
        /\ ~hist'.broken => /\ hist' \in Hists /\ Moves(s + n)
                            /\ s + n <= Used /\ Forward(ring.r, s) + n <= Size
  BY <1>1, TurnWrites
<1>4. /\ output \in Outputs /\ source \in Sources
      /\ hist.last + Left <= source.track * MaxLen /\ hist.first <= hist.last + 1
  BY <1>1, OtherFacts
<1>5. /\ output' = output /\ source' = source /\ ring' \in Rings
      /\ turn' \in Turns /\ (turn'.pc = "loop" => turn'.size > 0)
  BY <1>3 DEF Writes
<1>6. ~hist'.broken => /\ Used' = Len(hist'.due) /\ Upwards(hist'.due, hist'.last)
                       /\ RingInv' /\ MarkInv'
                       /\ hist'.last = hist.last /\ hist'.first = hist.first
  BY <1>3, MovesKeep DEF Moves
<1>7. RingInv' /\ MarkInv'
  BY <1>6 DEF RingInv, MarkInv
<1>8. HistInv'
  BY <1>3, <1>4, <1>5, <1>6 DEF HistInv, Left
<1>9. TypeOK'
  BY <1>2, <1>4, <1>5, <1>6 DEF TypeOK
<1>10. PieceInv'
  <2>1. SUFFICES ASSUME ~hist'.broken PROVE heard'.frames = heard'.due
    BY DEF PieceInv
  <2>2. s + n <= Used /\ Forward(ring.r, s) + n <= Size
    BY <1>3, <2>1
  <2>3. /\ \A k \in 1..n : Cell(Forward(ring.r, s) + k - 1) = hist.due[s + k]
        /\ SubSeq(hist.due, s + 1, LesserOf(s + n, Len(hist.due)))
             = [k \in 1..n |-> hist.due[s + k]]
    BY <1>1, <2>2, HeldAhead
  <2>4. /\ heard'.frames = [k \in 1..n |-> Cell(Forward(ring.r, s) + k - 1)]
        /\ heard'.due = SubSeq(hist.due, s + 1, LesserOf(s + n, Len(hist.due)))
    BY <1>3 DEF Writes
  <2>5. QED
    BY <2>3, <2>4
<1>11. QED
  BY <1>7, <1>8, <1>9, <1>10 DEF StoreInv, TypeInv

LEMMA StoreStart ==
  ASSUME Init
  PROVE  StoreInv /\ PieceInv
<1>1. /\ ring = [mem |-> [c \in 0..Size - 1 |-> 0], r |-> 0, w |-> 0]
      /\ output = [state |-> "STOPPED", count |-> 0, mark |-> None]
      /\ fade = [state |-> "INACTIVE", dir |-> "none", from |-> 0, to |-> 0, mode |-> "NONE"]
      /\ turn = [pc |-> "look", size |-> 0, silence |-> FALSE]
      /\ heard = Nothing
      /\ hist = [due |-> << >>, last |-> 0, first |-> 0, window |-> NoWindow,
                 lost |-> FALSE, passed |-> FALSE, moved |-> FALSE, broken |-> FALSE]
  BY DEF Init
<1>2. PICK mode \in Modes :
        source = [chosen |-> mode, track |-> 0, frames |-> 0, phase |-> "idle",
                  orders |-> MaxOrders]
  BY DEF Init
<1>3. ring \in Rings /\ ring.r = 0 /\ ring.w = 0
  <2>1. 0 \in Serials /\ 0 \in 0..Size - 1
    <3>1. NTracks * MaxLen \in Nat
      BY Numbers
    <3>2. QED
      BY <3>1, Numbers DEF Serials, Cells
  <2>2. [c \in 0..Size - 1 |-> 0] \in [0..Size - 1 -> Serials]
    BY <2>1
  <2>3. QED
    BY <1>1, <2>1, <2>2 DEF Rings
<1>4. output \in Outputs /\ output.mark = None
  <2>1. None \in None..Size - 1 /\ 0 \in {0} \cup UNION {0..n : n \in Intervals}
    BY Numbers DEF None
  <2>2. QED
    BY <1>1, <2>1 DEF Outputs
<1>5. fade \in Fades
  BY <1>1, Numbers DEF Fades, Cells
<1>6. turn \in Turns /\ turn.pc = "look"
  BY <1>1, Numbers DEF Turns
<1>7. source \in Sources /\ source.track = 0 /\ Left = 0
  BY <1>2, Numbers DEF Sources, Left
<1>8. hist \in Hists
  <2>1. << >> \in Seq(Nat)
    OBVIOUS
  <2>2. NoWindow \in [dir : {"none", "UP", "DOWN", "CROSS"}, tail : Seq(Nat), head : Seq(Nat)]
    BY <2>1 DEF NoWindow
  <2>3. QED
    BY <1>1, <2>1, <2>2 DEF Hists
<1>9. Used = 0 /\ Len(hist.due) = 0
  BY <1>1, <1>3, Arrives, Numbers DEF Used
<1>10. Upwards(hist.due, hist.last) /\ RingInv
  BY <1>9 DEF Upwards, RingInv, Holds
<1>11. MarkInv
  BY <1>4 DEF MarkInv
<1>12. HistInv
  <2>1. 0 * MaxLen = 0 /\ hist.first = 0 /\ hist.last = 0
    BY <1>1, Numbers
  <2>2. QED
    BY <1>7, <1>8, <1>10, <2>1 DEF HistInv
<1>13. TypeOK
  BY <1>3, <1>4, <1>5, <1>6, <1>7, <1>9 DEF TypeOK
<1>14. PieceInv
  BY <1>1 DEF PieceInv, Nothing
<1>15. QED
  BY <1>10, <1>11, <1>12, <1>13, <1>14 DEF StoreInv, TypeInv

LEMMA StoreNext ==
  ASSUME StoreInv, PieceInv, [Next]_vars
  PROVE  StoreInv' /\ PieceInv'
<1>1. CASE UNCHANGED vars
  BY <1>1 DEF vars, StoreInv, TypeInv, TypeOK, HistInv, RingInv, MarkInv, PieceInv, Used, Left
<1>2. ASSUME Next, ~hist.broken PROVE StoreInv' /\ PieceInv'
  <2>1. ASSUME Rests PROVE StoreInv' /\ PieceInv'
    BY <1>2, <2>1, RestsKeep DEF Rests, PieceInv, Nothing
  <2>2. TypeInv
    BY DEF StoreInv
  <2>3. CASE DecodeThread
    <3>1. heard' = Nothing
      BY <2>3 DEF DecodeThread, Begin, Decode, Complete
    <3>2. StoreInv'
      BY <1>2, <2>3, BeginStep, DecodeStep, CompleteStep DEF DecodeThread
    <3>3. QED
      BY <3>1, <3>2 DEF PieceInv, Nothing
  <2>4. CASE Frames \/ Silence \/ Silent \/ AtStart
    BY <1>2, <2>1, <2>2, <2>4, CallRests
  <2>5. CASE Skip
    <3>1. heard' = Nothing
      BY <2>5 DEF Skip
    <3>2. StoreInv'
      BY <1>2, <2>5, SkipStep
    <3>3. QED
      BY <3>1, <3>2 DEF PieceInv, Nothing
  <2>6. CASE Turn
    BY <1>2, <2>6, TurnStep
  <2>7. CASE \E mode \in {source.chosen, "NONE"} : Ask(mode)
    BY <1>2, <2>1, <2>2, <2>7, AskRests
  <2>8. CASE Unpause \/ \E n \in Intervals : SkipAhead(n) \/ Pause(n)
    BY <1>2, <2>1, <2>2, <2>8, OrderRests
  <2>9. CASE Flush \/ FlushStreaming
    <3>1. heard' = Nothing
      BY <2>9 DEF Flush, FlushStreaming, Order
    <3>2. StoreInv'
      BY <1>2, <2>9, FlushStep, FlushStreamingStep
    <3>3. QED
      BY <3>1, <3>2 DEF PieceInv, Nothing
  <2>10. QED
    BY <1>2, <2>3, <2>4, <2>5, <2>6, <2>7, <2>8, <2>9 DEF Next, OutputThread
<1>3. QED
  BY <1>1, <1>2 DEF Next

(* Type correctness.  Whatever LMS orders and whatever transitions follow  *)
(* each other (_output_frames, _checkfade, output_flush), outputbuf holds  *)
(* as many frames as are due, until the player is broken.                  *)
THEOREM FadesTyping == Spec => []TypeOK
<1>1. Init => StoreInv /\ PieceInv
  BY StoreStart
<1>2. StoreInv /\ PieceInv /\ [Next]_vars => (StoreInv /\ PieceInv)'
  BY StoreNext
<1>3. StoreInv => TypeOK
  BY DEF StoreInv, TypeInv
<1>4. QED
  BY <1>1, <1>2, <1>3, PTL DEF Spec
-----------------------------------------------------------------------------
(***************************************************************************)
(* Fades: what is to be faded stays at the same distance from readp as the *)
(* places the fade was given.                                              *)
(***************************************************************************)
LEMMA FadeFacts ==
  ASSUME TypeInv, ~hist.broken
  PROVE  /\ Extent \in Cells /\ Position \in Cells /\ Offset \in Int
         /\ Extent \in Nat /\ Position \in Nat
         /\ Region \in Seq(Nat) /\ hist.window.head \in Seq(Nat) /\ hist.window.tail \in Seq(Nat)
<1>1. /\ ring.r \in Cells /\ fade.from \in Cells /\ fade.to \in Cells /\ hist \in Hists
  BY RingFacts, OtherFacts
<1>2. Extent \in Cells /\ Position \in Cells /\ Distance(ring.r, fade.from) \in Cells
  BY <1>1, Apart DEF Extent, Position
<1>3. Extent \in Nat /\ Position \in Nat /\ Distance(ring.r, fade.from) \in Nat
  BY <1>2, Numbers
<1>4. Offset \in Int
  BY <1>3 DEF Offset
<1>5. Region \in Seq(Nat) /\ hist.window.head \in Seq(Nat) /\ hist.window.tail \in Seq(Nat)
  BY <1>1 DEF Hists, Region
<1>6. QED
  BY <1>2, <1>3, <1>4, <1>5

LEMMA ComesNearer ==
  ASSUME NEW due \in Seq(Nat), NEW last \in Nat, NEW k \in 0..Len(due), NEW offset \in Int,
         NEW seq \in Seq(Nat), Comes(seq, offset, due, last)
  PROVE  Comes(seq, offset - k, Dropped(due, k), last)
<1>1. /\ Len(due) \in Nat /\ k \in Nat /\ k <= Len(due) /\ Len(seq) \in Nat
  OBVIOUS
<1>2. /\ Len(Dropped(due, k)) = Len(due) - k
      /\ \A i \in 1..Len(due) - k : Dropped(due, k)[i] = due[k + i]
  BY <1>1, Parts
<1>3. ASSUME NEW j \in 1..Len(seq), offset - k + j >= 1
      PROVE  seq[j] = Upcoming(Dropped(due, k), last, offset - k + j)
  <2> DEFINE i == offset - k + j
  <2>1. i \in Int /\ i >= 1 /\ offset + j = k + i /\ offset + j >= 1
    BY <1>1, <1>3
  <2>2. seq[j] = Upcoming(due, last, k + i)
    BY <1>3, <2>1 DEF Comes
  <2> HIDE DEF i
  <2>3. CASE i <= Len(due) - k
    <3>1. i \in 1..Len(due) - k /\ k + i <= Len(due)
      BY <1>1, <2>1, <2>3
    <3>2. seq[j] = due[k + i]
      BY <2>2, <3>1 DEF Upcoming
    <3>3. Upcoming(Dropped(due, k), last, i) = Dropped(due, k)[i]
      BY <1>2, <2>3 DEF Upcoming
    <3>4. QED
      BY <1>2, <3>1, <3>2, <3>3 DEF i
  <2>4. CASE ~(i <= Len(due) - k)
    <3>1. ~(k + i <= Len(due))
      BY <1>1, <2>1, <2>4
    <3>2. seq[j] = last + (k + i) - Len(due)
      BY <2>2, <3>1 DEF Upcoming
    <3>3. Upcoming(Dropped(due, k), last, i) = last + i - (Len(due) - k)
      BY <1>2, <2>4 DEF Upcoming
    <3>4. QED
      BY <1>1, <2>1, <3>2, <3>3 DEF i
  <2>5. QED
    BY <2>3, <2>4
<1>4. QED
  BY <1>3 DEF Comes

LEMMA ComesDecoded ==
  ASSUME NEW due \in Seq(Nat), NEW last \in Nat, NEW offset \in Int,
         NEW seq \in Seq(Nat), Comes(seq, offset, due, last)
  PROVE  Comes(seq, offset, Append(due, last + 1), last + 1)
<1> DEFINE more == Append(due, last + 1)
<1>1. Len(due) \in Nat /\ Len(seq) \in Nat
  OBVIOUS
<1>2. /\ Len(more) = Len(due) + 1 /\ more[Len(due) + 1] = last + 1
      /\ \A i \in 1..Len(due) : more[i] = due[i]
  BY <1>1
<1> HIDE DEF more
<1>3. ASSUME NEW j \in 1..Len(seq), offset + j >= 1
      PROVE  seq[j] = Upcoming(more, last + 1, offset + j)
  <2> DEFINE i == offset + j
  <2>1. i \in Int /\ i >= 1
    BY <1>1, <1>3
  <2>2. seq[j] = Upcoming(due, last, i)
    BY <1>3 DEF Comes
  <2> HIDE DEF i
  <2>3. CASE i <= Len(due)
    <3>1. i \in 1..Len(due) /\ i <= Len(due) + 1
      BY <1>1, <2>1, <2>3
    <3>2. seq[j] = due[i] /\ Upcoming(more, last + 1, i) = more[i]
      BY <1>2, <2>2, <3>1 DEF Upcoming
    <3>3. QED
      BY <1>2, <3>1, <3>2 DEF i
  <2>4. CASE i = Len(due) + 1
    <3>1. seq[j] = last + i - Len(due) /\ Upcoming(more, last + 1, i) = more[i]
      BY <1>1, <1>2, <2>2, <2>4 DEF Upcoming
    <3>2. QED
      BY <1>1, <1>2, <2>4, <3>1 DEF i
  <2>5. CASE i > Len(due) + 1
    <3>1. ~(i <= Len(due)) /\ ~(i <= Len(due) + 1)
      BY <1>1, <2>1, <2>5
    <3>2. /\ seq[j] = last + i - Len(due)
          /\ Upcoming(more, last + 1, i) = last + 1 + i - (Len(due) + 1)
      BY <1>2, <2>2, <3>1 DEF Upcoming
    <3>3. QED
      BY <1>1, <2>1, <3>2 DEF i
  <2>6. QED
    BY <1>1, <2>1, <2>3, <2>4, <2>5
<1>4. QED
  BY <1>3 DEF Comes, more

(* The frames at the end of those due, and those not decoded yet. *)
LEMMA ComesLast ==
  ASSUME NEW due \in Seq(Nat), NEW last \in Nat, NEW n \in 0..Len(due)
  PROVE  Comes(LastN(due, n), Len(due) - n, due, last)
<1>1. /\ Len(due) \in Nat /\ n \in Nat /\ n <= Len(due)
  OBVIOUS
<1>2. /\ Len(LastN(due, n)) = n
      /\ \A i \in 1..n : LastN(due, n)[i] = due[Len(due) - n + i]
  BY <1>1, Parts
<1>3. \A j \in 1..n : Upcoming(due, last, Len(due) - n + j) = due[Len(due) - n + j]
  BY <1>1 DEF Upcoming
<1>4. QED
  BY <1>2, <1>3 DEF Comes

LEMMA ComesFresh ==
  ASSUME TypeInv, ~hist.broken, NEW n \in Nat
  PROVE  Comes(Fresh(n), Len(hist.due), hist.due, hist.last)
<1>1. Len(Fresh(n)) = n /\ \A i \in 1..n : Fresh(n)[i] = hist.last + i
  BY FadeNumbers
<1>2. Len(hist.due) \in Nat /\ hist.last \in Nat
  BY RingFacts
<1>3. \A j \in 1..n : Upcoming(hist.due, hist.last, Len(hist.due) + j) = hist.last + j
  BY <1>2 DEF Upcoming
<1>4. QED
  BY <1>1, <1>3 DEF Comes

(* A fade that is met or under way began Position frames ago. *)
LEMMA Underway ==
  ASSUME TypeInv, ~hist.broken,
         fade.state = "ACTIVE" \/ (fade.state = "DUE" /\ fade.from = ring.r)
  PROVE  Offset = 0 - Position
<1>1. CASE fade.state = "ACTIVE"
  BY <1>1 DEF Offset
<1>2. CASE fade.state = "DUE" /\ fade.from = ring.r
  <2>1. ring.r \in Cells
    BY RingFacts
  <2>2. Position = 0 /\ Distance(ring.r, fade.from) = 0
    BY <1>2, <2>1, Arrives DEF Position
  <2>3. Offset = 0
    BY <1>2, <2>2 DEF Offset
  <2>4. QED
    BY <2>2, <2>3
<1>3. QED
  BY <1>1, <1>2

(* readp comes nearer to the fade, or gets further into it, by k frames. *)
LEMMA Nearer ==
  ASSUME TypeInv, ~hist.broken, NEW k, Moves(k), hist'.window = hist.window,
         fade'.dir = fade.dir, fade'.from = fade.from, fade'.to = fade.to, InPlace,
         \/ /\ fade.state = "DUE" /\ fade'.state = "DUE"
            /\ k <= Distance(ring.r, fade.from)
         \/ /\ fade.state = "ACTIVE" \/ (fade.state = "DUE" /\ fade.from = ring.r)
            /\ fade'.state = "ACTIVE" /\ Position + k < Size
  PROVE  InPlace'
<1>1. /\ ring.r \in Cells /\ fade.from \in Cells /\ hist.due \in Seq(Nat) /\ hist.last \in Nat
      /\ Used \in Cells /\ Len(hist.due) = Used
  BY RingFacts, OtherFacts
<1>2. /\ Extent \in Nat /\ Position \in Nat /\ Offset \in Int
      /\ Region \in Seq(Nat) /\ hist.window.head \in Seq(Nat)
  BY FadeFacts
<1>3. /\ k \in 0..Used /\ ring'.r = Forward(ring.r, k)
      /\ hist'.due = Dropped(hist.due, k) /\ hist'.last = hist.last
  BY DEF Moves
<1>4. k \in 0..Len(hist.due) /\ k \in 0..Size /\ k \in Nat
  BY <1>1, <1>3, Numbers DEF Cells
<1>5. Extent' = Extent /\ Region' = Region
  BY DEF Extent, Region
<1>6. Offset' = Offset - k
  <2>1. CASE /\ fade.state = "DUE" /\ fade'.state = "DUE"
             /\ k <= Distance(ring.r, fade.from)
    <3>1. Distance(Forward(ring.r, k), fade.from) = Distance(ring.r, fade.from) - k
      BY <1>1, <1>4, <2>1, Ahead
    <3>2. QED
      BY <1>3, <2>1, <3>1 DEF Offset
  <2>2. CASE /\ fade.state = "ACTIVE" \/ (fade.state = "DUE" /\ fade.from = ring.r)
             /\ fade'.state = "ACTIVE" /\ Position + k < Size
    <3>1. Distance(fade.from, Forward(ring.r, k)) = Distance(fade.from, ring.r) + k
      BY <1>1, <1>4, <2>2, Ahead DEF Position
    <3>2. Position' = Position + k
      BY <1>3, <3>1 DEF Position
    <3>3. Offset = 0 - Position
      BY <2>2, Underway
    <3>4. Offset' = 0 - (Position + k)
      BY <2>2, <3>2 DEF Offset
    <3>5. QED
      BY <1>2, <1>4, <3>3, <3>4
  <2>3. QED
    BY <2>1, <2>2
<1>7. Comes(Region, Offset - k, Dropped(hist.due, k), hist.last)
  BY <1>1, <1>2, <1>4, ComesNearer DEF InPlace
<1>8. ASSUME fade.dir = "CROSS"
      PROVE  /\ Len(hist.window.head) = Extent
             /\ Comes(hist.window.head, Offset - k + Extent, Dropped(hist.due, k), hist.last)
  <2>1. /\ Len(hist.window.head) = Extent
        /\ Comes(hist.window.head, Offset + Extent, hist.due, hist.last)
    BY <1>8 DEF InPlace
  <2>2. Offset + Extent \in Int /\ Offset + Extent - k = Offset - k + Extent
    BY <1>2, <1>4
  <2>3. Comes(hist.window.head, Offset + Extent - k, Dropped(hist.due, k), hist.last)
    BY <1>1, <1>2, <1>4, <2>1, <2>2, ComesNearer
  <2>4. QED
    BY <2>1, <2>2, <2>3
<1>9. QED
  BY <1>3, <1>5, <1>6, <1>7, <1>8 DEF InPlace

LEMMA FadeSame ==
  ASSUME FadeInv, ring'.r = ring.r, hist'.due = hist.due, hist'.last = hist.last,
         hist'.window = hist.window, hist'.lost = hist.lost, hist'.broken = hist.broken,
         fade'.state = fade.state, fade'.dir = fade.dir,
         fade'.from = fade.from, fade'.to = fade.to
  PROVE  FadeInv'
<1>1. Region' = Region /\ Extent' = Extent /\ Position' = Position /\ Offset' = Offset
  BY DEF Region, Extent, Position, Offset
<1>2. InPlace => InPlace'
  BY <1>1 DEF InPlace
<1>3. QED
  BY <1>2 DEF FadeInv

(* A fade that is set up finds its frames where it puts it. *)
LEMMA FadeSet ==
  ASSUME TypeInv, ~hist.broken, ring' = ring, hist'.due = hist.due, hist'.last = hist.last,
         hist'.broken = hist.broken, fade'.state = "DUE",
         \/ \E n \in Cells :
              /\ fade'.dir = "UP" /\ fade'.from = ring.w /\ fade'.to = Forward(ring.w, n)
              /\ hist'.window = [dir |-> "UP", tail |-> << >>, head |-> Fresh(n)]
         \/ \E n \in 0..Used :
              /\ fade'.dir = "CROSS" /\ fade'.from = Back(ring.w, n) /\ fade'.to = ring.w
              /\ hist'.window = [dir |-> "CROSS", tail |-> LastN(hist.due, n), head |-> Fresh(n)]
         \/ \E n \in 0..Used :
              /\ fade'.dir = "DOWN" /\ fade'.from = Back(ring.w, n) /\ fade'.to = ring.w
              /\ hist'.window = [dir |-> "DOWN", tail |-> LastN(hist.due, n), head |-> << >>]
  PROVE  FadeInv'
<1>1. /\ ring.r \in Cells /\ ring.w \in Cells /\ Used \in Cells /\ hist.due \in Seq(Nat)
      /\ Len(hist.due) = Used /\ hist.last \in Nat /\ Used \in Nat /\ Used = Distance(ring.r, ring.w)
  BY RingFacts, Numbers DEF Used
<1>2. Offset' = Distance(ring.r, fade'.from) /\ Extent' = Distance(fade'.from, fade'.to)
  BY DEF Offset, Extent
<1>3. ASSUME NEW n \in Cells, fade'.dir = "UP", fade'.from = ring.w,
             fade'.to = Forward(ring.w, n),
             hist'.window = [dir |-> "UP", tail |-> << >>, head |-> Fresh(n)]
      PROVE  InPlace'
  <2>1. n \in 0..Size /\ n \in Nat /\ n < Size
    BY Numbers DEF Cells
  <2>2. Distance(ring.w, ring.w) = 0
    BY <1>1, Arrives
  <2>3. Distance(ring.w, Forward(ring.w, n)) = 0 + n
    <3>1. \A b \in Cells : Distance(b, ring.w) + n < Size =>
            Distance(b, Forward(ring.w, n)) = Distance(b, ring.w) + n
      BY <1>1, <2>1, Ahead
    <3>2. 0 + n < Size
      BY <2>1
    <3>3. QED
      BY <1>1, <2>2, <3>1, <3>2
  <2>4. Extent' = n /\ Offset' = Len(hist.due)
    BY <1>1, <1>2, <1>3, <2>1, <2>3
  <2>5. Region' = Fresh(n)
    BY <1>3 DEF Region
  <2>6. Len(Fresh(n)) = n /\ Comes(Fresh(n), Len(hist.due), hist.due, hist.last)
    BY <2>1, FadeNumbers, ComesFresh
  <2>7. hist'.window.dir = fade'.dir /\ fade'.dir # "CROSS"
    BY <1>3
  <2>8. QED
    BY <2>4, <2>5, <2>6, <2>7 DEF InPlace
<1>4. ASSUME NEW n \in 0..Used, fade'.from = Back(ring.w, n), fade'.to = ring.w
      PROVE  /\ Extent' = n /\ Offset' = Len(hist.due) - n
             /\ Len(LastN(hist.due, n)) = n
             /\ Comes(LastN(hist.due, n), Len(hist.due) - n, hist.due, hist.last)
  <2>1. n \in Cells /\ n \in Nat /\ n <= Distance(ring.r, ring.w) /\ n \in 0..Len(hist.due)
        /\ n <= Len(hist.due)
    BY <1>1, Numbers DEF Cells
  <2>2. Distance(Back(ring.w, n), ring.w) = n
    BY <1>1, <2>1, Behind
  <2>3. Distance(ring.r, Back(ring.w, n)) = Distance(ring.r, ring.w) - n
    BY <1>1, <2>1, Behind
  <2>4. Len(LastN(hist.due, n)) = n
    BY <1>1, <2>1, Parts
  <2>5. Comes(LastN(hist.due, n), Len(hist.due) - n, hist.due, hist.last)
    BY <1>1, <2>1, ComesLast
  <2>6. QED
    BY <1>1, <1>2, <1>4, <2>2, <2>3, <2>4, <2>5
<1>5. ASSUME NEW n \in 0..Used, fade'.dir = "CROSS", fade'.from = Back(ring.w, n),
             fade'.to = ring.w,
             hist'.window = [dir |-> "CROSS", tail |-> LastN(hist.due, n), head |-> Fresh(n)]
      PROVE  InPlace'
  <2>1. /\ Extent' = n /\ Offset' = Len(hist.due) - n
        /\ Len(LastN(hist.due, n)) = n
        /\ Comes(LastN(hist.due, n), Len(hist.due) - n, hist.due, hist.last)
    BY <1>4, <1>5
  <2>2. n \in Nat /\ Len(hist.due) - n + n = Len(hist.due)
    BY <1>1
  <2>3. Len(Fresh(n)) = n /\ Comes(Fresh(n), Len(hist.due), hist.due, hist.last)
    BY <2>2, FadeNumbers, ComesFresh
  <2>4. Region' = LastN(hist.due, n) /\ hist'.window.head = Fresh(n)
        /\ hist'.window.dir = fade'.dir
    BY <1>5 DEF Region
  <2>5. QED
    BY <2>1, <2>2, <2>3, <2>4 DEF InPlace
<1>6. ASSUME NEW n \in 0..Used, fade'.dir = "DOWN", fade'.from = Back(ring.w, n),
             fade'.to = ring.w,
             hist'.window = [dir |-> "DOWN", tail |-> LastN(hist.due, n), head |-> << >>]
      PROVE  InPlace'
  <2>1. /\ Extent' = n /\ Offset' = Len(hist.due) - n
        /\ Len(LastN(hist.due, n)) = n
        /\ Comes(LastN(hist.due, n), Len(hist.due) - n, hist.due, hist.last)
    BY <1>4, <1>6
  <2>2. Region' = LastN(hist.due, n) /\ hist'.window.dir = fade'.dir /\ fade'.dir # "CROSS"
    BY <1>6 DEF Region
  <2>3. QED
    BY <2>1, <2>2 DEF InPlace
<1>7. InPlace'
  BY <1>3, <1>5, <1>6
<1>8. QED
  BY <1>7 DEF FadeInv

LEMMA BeginFades ==
  ASSUME TypeInv, FadeInv, ~hist.broken, Begin
  PROVE  FadeInv'
<1>1. /\ ring' = ring /\ (FadeIn \/ CrossFade \/ NoFade)
  BY DEF Begin
<1>2. hist \in Hists /\ fade \in Fades
  BY OtherFacts
<1>3. CASE FadeIn
  <2> DEFINE n == LesserOf(Duration, Size - 1)
  <2>1. n \in Cells
    BY FadeNumbers
  <2>2. /\ fade' = Due("UP", ring.w, Forward(ring.w, n))
        /\ hist' = [Faded("UP", << >>, Fresh(n)) EXCEPT !.first = hist.last + 1,
                      !.passed = FALSE, !.moved = FALSE]
    BY <1>3 DEF FadeIn
  <2> HIDE DEF n
  <2>3. /\ fade'.state = "DUE" /\ fade'.dir = "UP" /\ fade'.from = ring.w
        /\ fade'.to = Forward(ring.w, n)
    BY <1>2, <2>2 DEF Due, Fades
  <2>4. /\ hist'.due = hist.due /\ hist'.last = hist.last /\ hist'.broken = hist.broken
        /\ hist'.window = [dir |-> "UP", tail |-> << >>, head |-> Fresh(n)]
    BY <1>2, <2>2 DEF Faded, Hists
  <2>5. QED
    BY <1>1, <2>1, <2>3, <2>4, FadeSet
<1>4. CASE CrossFade
  <2> DEFINE n == Least({Duration, Used, (Size * 9) \div 10})
  <2>1. n \in 0..Used
    BY FadeNumbers
  <2>2. /\ fade' = Due("CROSS", Back(ring.w, n), ring.w)
        /\ hist' = [Faded("CROSS", LastN(hist.due, n), Fresh(n))
                      EXCEPT !.first = hist.last + 1, !.passed = FALSE, !.moved = TRUE]
    BY <1>4 DEF CrossFade
  <2> HIDE DEF n
  <2>3. /\ fade'.state = "DUE" /\ fade'.dir = "CROSS" /\ fade'.from = Back(ring.w, n)
        /\ fade'.to = ring.w
    BY <1>2, <2>2 DEF Due, Fades
  <2>4. /\ hist'.due = hist.due /\ hist'.last = hist.last /\ hist'.broken = hist.broken
        /\ hist'.window = [dir |-> "CROSS", tail |-> LastN(hist.due, n), head |-> Fresh(n)]
    BY <1>2, <2>2 DEF Faded, Hists
  <2>5. QED
    BY <1>1, <2>1, <2>3, <2>4, FadeSet
<1>5. CASE NoFade
  <2>1. /\ fade' = fade /\ hist'.due = hist.due /\ hist'.last = hist.last
        /\ hist'.window = hist.window /\ hist'.lost = hist.lost /\ hist'.broken = hist.broken
    BY <1>2, <1>5 DEF NoFade, Hists
  <2>2. QED
    BY <1>1, <2>1, FadeSame
<1>6. QED
  BY <1>1, <1>3, <1>4, <1>5

LEMMA CompleteFades ==
  ASSUME TypeInv, FadeInv, ~hist.broken, Complete
  PROVE  FadeInv'
<1>1. ring' = ring /\ hist \in Hists /\ fade \in Fades
  BY OtherFacts DEF Complete
<1>2. CASE fade.mode \in {"OUT", "INOUT"}
  <2> DEFINE n == LesserOf(Used, Duration)
  <2>1. n \in 0..Used
    BY FadeNumbers
  <2>2. /\ fade' = Due("DOWN", Back(ring.w, n), ring.w)
        /\ hist' = Faded("DOWN", LastN(hist.due, n), << >>)
    BY <1>2 DEF Complete
  <2> HIDE DEF n
  <2>3. /\ fade'.state = "DUE" /\ fade'.dir = "DOWN" /\ fade'.from = Back(ring.w, n)
        /\ fade'.to = ring.w
    BY <1>1, <2>2 DEF Due, Fades
  <2>4. /\ hist'.due = hist.due /\ hist'.last = hist.last /\ hist'.broken = hist.broken
        /\ hist'.window = [dir |-> "DOWN", tail |-> LastN(hist.due, n), head |-> << >>]
    BY <1>1, <2>2 DEF Faded, Hists
  <2>5. QED
    BY <1>1, <2>1, <2>3, <2>4, FadeSet
<1>3. CASE fade.mode \notin {"OUT", "INOUT"}
  <2>1. fade' = fade /\ hist' = hist
    BY <1>3 DEF Complete
  <2>2. QED
    BY <1>1, <2>1, FadeSame
<1>4. QED
  BY <1>2, <1>3

LEMMA DecodeFades ==
  ASSUME TypeInv, FadeInv, ~hist.broken, Decode
  PROVE  FadeInv'
<1>1. /\ hist \in Hists /\ ring \in Rings /\ hist.due \in Seq(Nat) /\ hist.last \in Nat
  BY OtherFacts, RingFacts
<1>2. /\ Extent \in Nat /\ Offset \in Int /\ Region \in Seq(Nat) /\ hist.window.head \in Seq(Nat)
  BY FadeFacts
<1>3. /\ fade' = fade /\ ring'.r = ring.r
      /\ hist'.due = Append(hist.due, hist.last + 1) /\ hist'.last = hist.last + 1
      /\ hist'.window = hist.window /\ hist'.lost = hist.lost /\ hist'.broken = hist.broken
  BY <1>1 DEF Decode, Hists, Rings
<1>4. Region' = Region /\ Extent' = Extent /\ Offset' = Offset
  BY <1>3 DEF Region, Extent, Offset, Position
<1>5. ASSUME InPlace PROVE InPlace'
  <2>1. Comes(Region, Offset, hist'.due, hist'.last)
    BY <1>1, <1>2, <1>3, <1>5, ComesDecoded DEF InPlace
  <2>2. fade.dir = "CROSS" => Comes(hist.window.head, Offset + Extent, hist'.due, hist'.last)
    <3>1. Offset + Extent \in Int
      BY <1>2
    <3>2. QED
      BY <1>1, <1>2, <1>3, <1>5, <3>1, ComesDecoded DEF InPlace
  <2>3. QED
    BY <1>3, <1>4, <1>5, <2>1, <2>2 DEF InPlace
<1>6. QED
  BY <1>3, <1>5 DEF FadeInv

LEMMA SkipFades ==
  ASSUME TypeInv, FadeInv, ~hist.broken, Skip
  PROVE  FadeInv'
<1> DEFINE n == LesserOf(Used, output.count)
<1>1. /\ n \in Nat /\ Moves(n) /\ hist'.broken = hist.broken
      /\ hist'.window = hist.window /\ fade' = fade
      /\ hist'.lost = \/ hist.lost
                      \/ fade.state = "DUE" /\ Distance(ring.r, fade.from) < n
                      \/ fade.state = "ACTIVE" /\ Distance(fade.from, ring.r) + n >= Size
  BY SkipMoves
<1> HIDE DEF n
<1>2. /\ ring.r \in Cells /\ fade.from \in Cells /\ fade \in Fades
  BY RingFacts, OtherFacts
<1>3. ASSUME fade'.state # "INACTIVE", ~hist'.lost
      PROVE  InPlace'
  <2>1. fade.state \in {"DUE", "ACTIVE"}
    BY <1>1, <1>2, <1>3 DEF Fades
  <2>2. InPlace
    BY <1>1, <1>3 DEF FadeInv
  <2>3. CASE fade.state = "DUE"
    <3>1. Distance(ring.r, fade.from) \in Nat
      BY <1>2, Apart, Numbers
    <3>2. n <= Distance(ring.r, fade.from)
      BY <1>1, <1>3, <2>3, <3>1
    <3>3. QED
      BY <1>1, <2>2, <2>3, <3>2, Nearer
  <2>4. CASE fade.state = "ACTIVE"
    <3>1. Position \in Nat
      BY FadeFacts
    <3>2. Position + n < Size
      BY <1>1, <1>3, <2>4, <3>1, Numbers DEF Position
    <3>3. QED
      BY <1>1, <2>2, <2>4, <3>2, Nearer
  <2>5. QED
    BY <2>1, <2>3, <2>4
<1>4. fade'.state = "INACTIVE" => hist'.window = NoWindow
  BY <1>1 DEF FadeInv
<1>5. QED
  BY <1>3, <1>4 DEF FadeInv

LEMMA FlushFades ==
  ASSUME TypeInv, ~hist.broken, Flush
  PROVE  FadeInv'
<1>1. hist \in Hists /\ fade \in Fades
  BY OtherFacts
<1>2. fade'.state = "INACTIVE" /\ hist'.window = NoWindow
  BY <1>1 DEF Flush, Fades, Hists
<1>3. QED
  BY <1>2 DEF FadeInv

(* What is cut off takes nothing from a fade that is all before the cut. *)
LEMMA ComesCut ==
  ASSUME NEW due \in Seq(Nat), NEW last \in Nat, NEW first \in Nat, first <= last + 1,
         NEW d \in 0..Len(due), \A i \in 1..Len(due) : due[i] < first <=> i <= d,
         NEW seq \in Seq(Nat), \A j \in 1..Len(seq) : seq[j] < first,
         NEW offset \in Int, Comes(seq, offset, due, last)
  PROVE  Comes(seq, offset, SubSeq(due, 1, d), last)
<1> DEFINE kept == SubSeq(due, 1, d)
<1>1. Len(due) \in Nat /\ Len(seq) \in Nat /\ d \in Nat /\ d <= Len(due)
  OBVIOUS
<1>2. Len(kept) = d /\ \A i \in 1..d : kept[i] = due[i]
  BY <1>1
<1> HIDE DEF kept
<1>3. ASSUME NEW j \in 1..Len(seq), offset + j >= 1
      PROVE  seq[j] = Upcoming(kept, last, offset + j)
  <2> DEFINE i == offset + j
  <2>1. i \in Int /\ i >= 1
    BY <1>1, <1>3
  <2>2. seq[j] = Upcoming(due, last, i) /\ seq[j] < first
    BY <1>3 DEF Comes
  <2> HIDE DEF i
  <2>3. CASE i <= Len(due)
    <3>1. i \in 1..Len(due) /\ seq[j] = due[i]
      BY <1>1, <2>1, <2>2, <2>3 DEF Upcoming
    <3>2. i <= d
      BY <2>2, <3>1
    <3>3. i \in 1..d /\ Upcoming(kept, last, i) = kept[i]
      BY <1>1, <1>2, <2>1, <3>2 DEF Upcoming
    <3>4. QED
      BY <1>2, <3>1, <3>3 DEF i
  <2>4. CASE ~(i <= Len(due))
    <3>1. seq[j] = last + i - Len(due)
      BY <2>2, <2>4 DEF Upcoming
    <3>2. FALSE
      BY <1>1, <2>1, <2>2, <2>4, <3>1
    <3>3. QED
      BY <3>2
  <2>5. QED
    BY <2>3, <2>4
<1>4. QED
  BY <1>3 DEF Comes, kept

LEMMA AllBefore ==
  ASSUME NEW a \in Seq(Nat), NEW b \in Seq(Nat), NEW first \in Nat,
         ~\E x \in ToSet(a \o b) : x >= first
  PROVE  /\ \A j \in 1..Len(a) : a[j] < first
         /\ \A j \in 1..Len(b) : b[j] < first
<1> DEFINE all == a \o b
<1>1. Len(a) \in Nat /\ Len(b) \in Nat
  OBVIOUS
<1>2. all \in Seq(Nat) /\ Len(all) = Len(a) + Len(b)
  OBVIOUS
<1>3. \A j \in 1..Len(a) : all[j] = a[j]
  BY <1>1
<1>4. \A j \in 1..Len(b) : all[Len(a) + j] = b[j]
  BY <1>1
<1>5. \A x \in ToSet(all) : ~(x >= first)
  OBVIOUS
<1> HIDE DEF all
<1>6. DOMAIN all = 1..Len(all) /\ \A j \in 1..Len(all) : all[j] \in Nat
  BY <1>2
<1>7. \A j \in DOMAIN all : all[j] \in ToSet(all)
  BY DEF ToSet
<1>8. \A j \in 1..Len(all) : all[j] < first
  BY <1>5, <1>6, <1>7
<1>9. /\ \A j \in 1..Len(a) : j \in 1..Len(all)
      /\ \A j \in 1..Len(b) : Len(a) + j \in 1..Len(all)
  BY <1>1, <1>2
<1>10. QED
  BY <1>3, <1>4, <1>8, <1>9

LEMMA FlushStreamingFades ==
  ASSUME StoreInv, FadeInv, ~hist.broken, FlushStreaming
  PROVE  FadeInv'
<1>1. /\ TypeInv /\ ring \in Rings /\ ring.r \in Cells /\ hist.due \in Seq(Nat)
      /\ hist.last \in Nat /\ hist.first \in Nat /\ Len(hist.due) = Used
  BY RingFacts DEF StoreInv
<1>2. /\ hist \in Hists /\ output.mark \in Cells \cup {None} /\ hist.first <= hist.last + 1
  BY <1>1, OtherFacts
<1>3. /\ Extent \in Nat /\ Offset \in Int /\ Region \in Seq(Nat)
      /\ hist.window.head \in Seq(Nat) /\ hist.window.tail \in Seq(Nat)
  BY <1>1, FadeFacts
<1>4. fade' = fade
  BY DEF FlushStreaming
<1>5. CASE output.mark = None
  <2>1. ring' = ring /\ hist' = hist
    BY <1>5 DEF FlushStreaming
  <2>2. QED
    BY <1>4, <2>1, FadeSame
<1>6. CASE output.mark # None
  <2> DEFINE d    == Distance(ring.r, output.mark)
             kept == Before(hist.due, hist.first)
             all  == hist.window.tail \o hist.window.head
             cut  == fade.state # "INACTIVE" /\ \E x \in ToSet(all) : x >= hist.first
             lost == hist.lost \/ cut
  <2>1. /\ ring' = [ring EXCEPT !.w = output.mark]
        /\ hist' = [hist EXCEPT !.due = kept, !.lost = lost,
                      !.broken = hist.passed \/ hist.moved]
    BY <1>6 DEF FlushStreaming
  <2> HIDE DEF lost, kept
  <2>2. /\ hist'.due = kept /\ hist'.last = hist.last /\ hist'.lost = lost
        /\ hist'.window = hist.window /\ hist'.broken = (hist.passed \/ hist.moved)
        /\ ring'.r = ring.r
    BY <1>1, <1>2, <2>1 DEF Hists, Rings
  <2>3. ASSUME ~hist'.broken, ~hist'.lost, fade.state # "INACTIVE"
        PROVE  InPlace'
    <3>1. ~hist.passed /\ ~hist.moved /\ ~lost /\ ~hist.lost /\ ~cut
      BY <2>2, <2>3 DEF lost
    <3>2. InPlace
      BY <2>3, <3>1 DEF FadeInv
    <3>3. d <= Len(hist.due) /\ \A i \in 1..Len(hist.due) : hist.due[i] < hist.first <=> i <= d
      BY <1>6, <3>1 DEF StoreInv, MarkInv
    <3>4. d \in Nat
      BY <1>1, <1>2, <1>6, Apart, Numbers
    <3>5. /\ \A j \in 1..Len(hist.window.tail) : hist.window.tail[j] < hist.first
          /\ \A j \in 1..Len(hist.window.head) : hist.window.head[j] < hist.first
      BY <1>1, <1>3, <2>3, <3>1, AllBefore DEF cut, all
    <3> HIDE DEF d
    <3>6. d \in 0..Len(hist.due)
      BY <1>1, <3>3, <3>4
    <3>7. kept = SubSeq(hist.due, 1, d)
      BY <1>1, <3>3, <3>6, Cut DEF kept
    <3>8. \A j \in 1..Len(Region) : Region[j] < hist.first
      BY <3>5 DEF Region
    <3>9. Comes(Region, Offset, kept, hist.last)
      <4>1. Comes(Region, Offset, hist.due, hist.last)
        BY <3>2 DEF InPlace
      <4>2. QED
        BY <1>1, <1>2, <1>3, <3>3, <3>6, <3>7, <3>8, <4>1, ComesCut
    <3>10. ASSUME fade.dir = "CROSS"
           PROVE  Comes(hist.window.head, Offset + Extent, kept, hist.last)
      <4>1. Comes(hist.window.head, Offset + Extent, hist.due, hist.last)
        BY <3>2, <3>10 DEF InPlace
      <4>2. Offset + Extent \in Int
        BY <1>3
      <4>3. QED
        BY <1>1, <1>2, <1>3, <3>3, <3>5, <3>6, <3>7, <4>1, <4>2, ComesCut
    <3>11. Region' = Region /\ Extent' = Extent /\ Offset' = Offset
      BY <1>4, <2>2 DEF Region, Extent, Offset, Position
    <3>12. QED
      BY <1>4, <2>2, <3>2, <3>9, <3>10, <3>11 DEF InPlace
  <2>4. fade'.state = "INACTIVE" => hist'.window = NoWindow
    BY <1>4, <2>2 DEF FadeInv
  <2>5. QED
    BY <1>4, <2>3, <2>4 DEF FadeInv
<1>7. QED
  BY <1>5, <1>6

(* The way left to the end of a fade. *)
LEMMA Remains ==
  ASSUME NEW a \in Cells, NEW b \in Cells, NEW c \in Cells,
         Distance(a, c) < Distance(a, b)
  PROVE  c # b /\ Distance(c, b) = Distance(a, b) - Distance(a, c)
<1>1. Distance(a, b) = IF b >= a THEN b - a ELSE b - a + Size
  BY Apart
<1>2. Distance(a, c) = IF c >= a THEN c - a ELSE c - a + Size
  BY Apart
<1>3. Distance(c, b) = IF b >= c THEN b - c ELSE b - c + Size
  BY Apart
<1>4. QED
  BY <1>1, <1>2, <1>3, Numbers DEF Cells

(* As far into the new track as into the old end: one fade length ahead.   *)
LEMMA Across ==
  ASSUME NEW f \in Cells, NEW a \in Cells, NEW b \in Cells, NEW i \in Nat,
         Distance(f, a) + i < Distance(f, b), Distance(f, b) + i <= Size
  PROVE  LET q == b + Distance(f, a) + i
         IN  Forward(a, Distance(f, b) + i) = IF q < Size THEN q ELSE q - Size
<1>1. Distance(f, b) = (IF b >= f THEN b - f ELSE b - f + Size) /\ Distance(f, b) \in Nat
  BY Apart, Numbers
<1>2. Distance(f, a) = (IF a >= f THEN a - f ELSE a - f + Size) /\ Distance(f, a) \in Nat
  BY Apart, Numbers
<1> DEFINE n == Distance(f, b) + i
<1>3. n \in 0..Size
  BY <1>1, Numbers
<1>4. Forward(a, n) = IF a + n < Size THEN a + n ELSE a + n - Size
  BY <1>3, Around
<1>5. a \in Nat /\ b \in Nat /\ f \in Nat /\ a < Size /\ b < Size /\ f < Size
  BY Numbers DEF Cells
<1>6. QED
  BY <1>1, <1>2, <1>4, <1>5, Numbers

(* Part of a sequence, frame by frame. *)
LEMMA AtPart ==
  ASSUME NEW seq \in Seq(Nat), NEW j \in Nat, NEW n \in Nat, j + n <= Len(seq)
  PROVE  At(seq, j, n) = [k \in 1..n |-> seq[j + k]]
<1>1. Len(seq) \in Nat
  OBVIOUS
<1>2. LesserOf(j + n, Len(seq)) = j + n
  BY <1>1 DEF LesserOf
<1>3. SubSeq(seq, j + 1, j + n) = [k \in 1..(j + n - (j + 1) + 1) |-> seq[j + 1 + k - 1]]
  BY <1>1
<1>4. j + n - (j + 1) + 1 = n /\ \A k \in 1..n : j + 1 + k - 1 = j + k
  OBVIOUS
<1>5. QED
  BY <1>2, <1>3, <1>4 DEF At

(* What is written without a jump is what is due next. *)
LEMMA PieceHeard ==
  ASSUME StoreInv, ~hist.broken, output.mark # ring.r,
         NEW m \in 0..ToMark, NEW gain, NEW mix, Written(Piece(m), 0, gain, mix),
         hist'.due = Dropped(hist.due, Piece(m)), hist'.last = hist.last,
         hist'.first = hist.first, hist'.moved = hist.moved, hist'.passed = hist.passed
  PROVE  /\ Piece(m) \in Nat /\ Piece(m) <= m /\ Piece(m) <= turn.size
         /\ Moves(Piece(m)) /\ heard'.gain = gain
         /\ Piece(m) <= Len(hist.due)
         /\ heard'.frames = [k \in 1..Piece(m) |-> hist.due[k]]
         /\ Len(heard'.frames) = Piece(m)
<1> DEFINE n == Piece(m)
<1>1. /\ TypeInv /\ RingInv /\ ring.r \in Cells /\ ContRead \in Nat /\ Len(hist.due) = Used
      /\ turn.size \in Nat
  BY RingFacts, Numbers DEF StoreInv, TypeInv, TypeOK, Turns
<1>2. m \in 0..ContRead
  BY <1>1, Reach
<1>3. n \in 0..m /\ n \in 0..turn.size
  BY <1>1, <1>2, Reach
<1>4. /\ Writes(0, n) /\ Moves(0 + n) /\ heard'.gain = gain
      /\ 0 + n <= Used /\ Forward(ring.r, 0) + n <= Size
  BY <1>1, PieceMoves
<1>5. n \in Nat /\ n <= m /\ n <= turn.size /\ 0 + n = n /\ 0 \in Cells
  BY <1>1, <1>2, <1>3, Numbers
<1>6. \A k \in 1..n : Cell(Forward(ring.r, 0) + k - 1) = hist.due[0 + k]
  BY <1>1, <1>4, <1>5, HeldAhead
<1>7. heard'.frames = [k \in 1..n |-> Cell(Forward(ring.r, 0) + k - 1)]
  BY <1>4 DEF Writes
<1> HIDE DEF n
<1>8. heard'.frames = [k \in 1..n |-> hist.due[k]]
  BY <1>5, <1>6, <1>7
<1>9. Len(heard'.frames) = n
  BY <1>5, <1>8
<1>10. Moves(n) /\ n <= Len(hist.due)
  BY <1>1, <1>4, <1>5
<1>11. QED
  BY <1>4, <1>5, <1>8, <1>9, <1>10 DEF n

LEMMA PlainInPlace ==
  ASSUME heard'.gain = Full, ToSet(heard'.frames) \cap ToSet(Region') = {}
  PROVE  FadesInPlace'
BY DEF FadesInPlace, Region

LEMMA PartInPlace ==
  ASSUME NEW j \in 0..Len(Region'), heard'.gain # Full, heard'.gain.dir = hist'.window.dir,
         heard'.frames = At(Region', j, Len(heard'.frames)), heard'.gain.of = Len(Region'),
         heard'.gain.at = IF hist'.window.dir = "DOWN" THEN Len(Region') - j ELSE j,
         hist'.window.dir = "CROSS" =>
           \A k \in 1..Len(heard'.frames) : heard'.with[k] \in {hist'.window.head[j + k], 0}
  PROVE  FadesInPlace'
BY DEF FadesInPlace, Region

(* The next piece of a fade that is met or under way. *)
LEMMA FadedPiece ==
  ASSUME StoreInv, FadeInv, ~hist.broken, ~hist.lost, output.mark # ring.r,
         Active, Position < Extent, NEW gain, NEW mix,
         Written(Piece(UpTo(ToMark, fade.to)), 0, gain, mix),
         hist' = Heard(Piece(UpTo(ToMark, fade.to))),
         fade' = [fade EXCEPT !.state = "ACTIVE"]
  PROVE  /\ InPlace' /\ InPlace /\ Offset = 0 - Position
         /\ Region' = Region /\ hist'.window = hist.window
         /\ Position \in 0..Len(Region) /\ Len(Region) = Extent
         /\ heard'.frames = At(Region, Position, Len(heard'.frames))
         /\ Len(heard'.frames) \in Nat /\ Len(heard'.frames) <= turn.size
         /\ Len(heard'.frames) = Piece(UpTo(ToMark, fade.to))
         /\ Position + Len(heard'.frames) <= Extent
         /\ heard'.gain = gain
<1> DEFINE m == UpTo(ToMark, fade.to)
           n == Piece(m)
<1>1. /\ TypeInv /\ ring.r \in Cells /\ hist.due \in Seq(Nat) /\ Used \in Nat /\ ContRead \in Nat
      /\ Len(hist.due) = Used
  BY RingFacts, Numbers DEF StoreInv
<1>2. fade \in Fades /\ hist \in Hists /\ fade.from \in Cells /\ fade.to \in Cells
  BY <1>1, OtherFacts
<1>3. Extent \in Nat /\ Position \in Nat /\ Region \in Seq(Nat) /\ Extent \in Cells
  BY <1>1, FadeFacts
<1>4. ToMark \in 0..ContRead /\ m \in 0..ToMark
      /\ (fade.to # ring.r => m <= Distance(ring.r, fade.to))
  BY <1>1, <1>2, Reach
<1>5. fade.to # ring.r /\ Distance(ring.r, fade.to) = Extent - Position
  BY <1>1, <1>2, Remains DEF Extent, Position
<1>6. m \in Nat /\ m <= Extent - Position
  BY <1>1, <1>4, <1>5
<1> HIDE DEF m
<1>7. /\ hist'.due = Dropped(hist.due, n) /\ hist'.last = hist.last
      /\ hist'.first = hist.first /\ hist'.moved = hist.moved /\ hist'.passed = hist.passed
      /\ hist'.window = hist.window
  BY <1>2 DEF Heard, Hists, m
<1>8. /\ n \in Nat /\ n <= m /\ n <= turn.size /\ Moves(n) /\ heard'.gain = gain
      /\ n <= Len(hist.due)
      /\ heard'.frames = [k \in 1..n |-> hist.due[k]] /\ Len(heard'.frames) = n
  BY <1>4, <1>7, PieceHeard DEF m
<1> HIDE DEF n
<1>9. fade.state = "ACTIVE" \/ (fade.state = "DUE" /\ fade.from = ring.r)
  BY DEF Active, Met
<1>10. InPlace
  BY <1>9 DEF FadeInv
<1>11. Offset = 0 - Position
  BY <1>1, <1>9, Underway
<1>12. /\ fade'.state = "ACTIVE" /\ fade'.dir = fade.dir /\ fade'.from = fade.from
       /\ fade'.to = fade.to
  BY <1>2 DEF Fades
<1>13. Position + n < Size /\ Position + n <= Extent
  BY <1>3, <1>6, <1>8, Numbers DEF Cells
<1>14. InPlace'
  BY <1>1, <1>7, <1>8, <1>9, <1>10, <1>12, <1>13, Nearer
<1>15. Len(Region) = Extent /\ Region' = Region
  BY <1>7, <1>10 DEF InPlace, Region
<1>16. heard'.frames = At(Region, Position, n)
  <2>1. At(Region, Position, n) = [k \in 1..n |-> Region[Position + k]]
    BY <1>3, <1>8, <1>13, <1>15, AtPart
  <2>2. ASSUME NEW k \in 1..n
        PROVE  Region[Position + k] = hist.due[k]
    <3>1. /\ Position + k \in 1..Len(Region) /\ Offset + (Position + k) >= 1
          /\ Offset + (Position + k) = k /\ k <= Len(hist.due)
      BY <1>1, <1>3, <1>8, <1>11, <1>13, <1>15
    <3>2. Region[Position + k] = Upcoming(hist.due, hist.last, Offset + (Position + k))
      BY <1>10, <3>1 DEF InPlace, Comes
    <3>3. QED
      BY <3>1, <3>2 DEF Upcoming
  <2>3. QED
    BY <1>8, <2>1, <2>2
<1>17. QED
  BY <1>3, <1>7, <1>8, <1>10, <1>11, <1>13, <1>14, <1>15, <1>16 DEF n, m

LEMMA FadingFades ==
  ASSUME StoreInv, FadeInv, ~hist.broken, output.mark # ring.r, Fading
  PROVE  FadeInv' /\ FadesInPlace'
<1> DEFINE n  == Piece(UpTo(ToMark, fade.to))
           at == IF fade.dir = "DOWN" THEN Extent - Position ELSE Position
           gain == [dir |-> fade.dir, at |-> at, of |-> Extent]
<1>1. /\ Active /\ Position < Extent /\ fade.dir \in {"UP", "DOWN"}
      /\ Written(n, 0, gain, None) /\ hist' = Heard(n)
      /\ fade' = [fade EXCEPT !.state = "ACTIVE"]
  BY DEF Fading
<1>2. TypeInv /\ fade \in Fades /\ hist \in Hists
  BY OtherFacts DEF StoreInv
<1>3. hist'.lost = hist.lost /\ fade'.state = "ACTIVE"
  BY <1>1, <1>2 DEF Heard, Hists, Fades
<1>4. CASE hist.lost
  BY <1>3, <1>4 DEF FadeInv, FadesInPlace
<1>5. CASE ~hist.lost
  <2>1. /\ InPlace' /\ InPlace
        /\ Region' = Region /\ hist'.window = hist.window
        /\ Position \in 0..Len(Region) /\ Len(Region) = Extent
        /\ heard'.frames = At(Region, Position, Len(heard'.frames))
        /\ heard'.gain = gain
    BY <1>1, <1>5, FadedPiece
  <2>2. FadeInv'
    BY <1>3, <2>1 DEF FadeInv
  <2>3. hist'.window.dir = fade.dir
    BY <2>1 DEF InPlace
  <2>4. /\ heard'.gain.dir = fade.dir /\ heard'.gain.of = Extent /\ heard'.gain.at = at
        /\ heard'.gain # Full
    BY <1>1, <2>1 DEF Full
  <2> HIDE DEF gain
  <2>5. FadesInPlace'
    BY <1>1, <2>1, <2>3, <2>4, PartInPlace
  <2>6. QED
    BY <2>2, <2>5
<1>6. QED
  BY <1>4, <1>5

LEMMA CrossingFades ==
  ASSUME StoreInv, FadeInv, ~hist.broken, output.mark # ring.r, Crossing
  PROVE  FadeInv' /\ FadesInPlace'
<1> DEFINE n == Piece(UpTo(ToMark, fade.to))
           gain == [dir |-> "CROSS", at |-> Position, of |-> Extent]
           mix == fade.to + Position
<1>1. /\ Active /\ Position < Extent /\ fade.dir = "CROSS" /\ Enough
      /\ Written(n, 0, gain, mix) /\ hist' = Heard(n)
      /\ fade' = [fade EXCEPT !.state = "ACTIVE"]
  BY DEF Crossing
<1>2. TypeInv /\ fade \in Fades /\ hist \in Hists /\ fade.from \in Cells /\ fade.to \in Cells
  BY OtherFacts DEF StoreInv
<1>3. hist'.lost = hist.lost /\ fade'.state = "ACTIVE"
  BY <1>1, <1>2 DEF Heard, Hists, Fades
<1>4. CASE hist.lost
  BY <1>3, <1>4 DEF FadeInv, FadesInPlace
<1>5. CASE ~hist.lost
  <2>1. /\ InPlace' /\ InPlace /\ Offset = 0 - Position
        /\ Region' = Region /\ hist'.window = hist.window
        /\ Position \in 0..Len(Region) /\ Len(Region) = Extent
        /\ heard'.frames = At(Region, Position, Len(heard'.frames))
        /\ Len(heard'.frames) \in Nat /\ Len(heard'.frames) <= turn.size
        /\ Len(heard'.frames) = n
        /\ Position + Len(heard'.frames) <= Extent
        /\ heard'.gain = gain
    BY <1>1, <1>5, FadedPiece
  <2>2. FadeInv'
    BY <1>3, <2>1 DEF FadeInv
  <2>3. hist'.window.dir = fade.dir /\ Len(hist.window.head) = Extent
        /\ Comes(hist.window.head, Offset + Extent, hist.due, hist.last)
    BY <1>1, <2>1 DEF InPlace
  <2>4. /\ heard'.gain.dir = "CROSS" /\ heard'.gain.of = Extent /\ heard'.gain.at = Position
        /\ heard'.gain # Full
    BY <2>1 DEF Full
  <2>5. /\ ring \in Rings /\ ring.r \in Cells /\ hist.due \in Seq(Nat) /\ Used \in Nat /\ Used < Size
        /\ Len(hist.due) = Used /\ turn.size \in Nat
    BY <1>2, RingFacts, Numbers DEF Cells, TypeInv, TypeOK, Turns
  <2>6. Extent \in Nat /\ Position \in Nat /\ fade.to \in Nat /\ fade.to < Size /\ Extent < Size
    BY <1>2, FadeFacts, Numbers DEF Cells
  <2>7. heard'.with = [k \in 1..n |-> Mixed(mix + k - 1)]
    <3>1. mix # None
      BY <2>6 DEF None
    <3>2. QED
      BY <1>1, <3>1 DEF Written
  <2> HIDE DEF n, gain
  <2>8. ASSUME NEW k \in 1..n
        PROVE  heard'.with[k] \in {hist.window.head[Position + k], 0}
    <3> DEFINE i == k - 1
               q == fade.to + Position + i
    <3>1. /\ i \in Nat /\ k = i + 1 /\ Position + i < Extent /\ Extent + i <= Size
          /\ Extent + k <= Used /\ Position + k \in 1..Extent
      <4>1. n \in Nat /\ n <= turn.size /\ Position + n <= Extent
        BY <2>1
      <4>2. k \in Nat /\ k >= 1 /\ k <= n
        BY <2>8, <4>1
      <4>3. Used > Extent + turn.size
        BY <1>1 DEF Enough
      <4>4. QED
        BY <2>5, <2>6, <4>1, <4>2, <4>3, Numbers
    <3>2. Offset + Extent + (Position + k) = Extent + k /\ Extent + k >= 1
          /\ Extent + k \in 1..Len(hist.due) /\ Extent + k - 1 = Extent + i
      BY <2>1, <2>5, <2>6, <3>1
    <3>3. hist.window.head[Position + k] = Upcoming(hist.due, hist.last, Extent + k)
      BY <2>3, <3>1, <3>2 DEF Comes
    <3>4. hist.window.head[Position + k] = hist.due[Extent + k]
      BY <3>2, <3>3 DEF Upcoming
    <3>5. hist.due[Extent + k] = ring.mem[Forward(ring.r, Extent + k - 1)]
      <4>1. \A x \in 1..Len(hist.due) : ring.mem[Forward(ring.r, x - 1)] = hist.due[x]
        BY DEF StoreInv, RingInv, Holds
      <4>2. k \in Nat
        BY <3>1
      <4>3. QED
        BY <2>6, <3>2, <4>1, <4>2
    <3>6. Forward(ring.r, Extent + i) = IF q < Size THEN q ELSE q - Size
      <4>1. Distance(fade.from, ring.r) = Position /\ Distance(fade.from, fade.to) = Extent
        BY DEF Position, Extent
      <4>2. QED
        BY <1>2, <2>5, <3>1, <4>1, Across
    <3>7. heard'.with[k] = Mixed(mix + k - 1) /\ mix + k - 1 = q /\ q \in Nat
      BY <2>6, <2>7, <2>8, <3>1
    <3> HIDE DEF q, i, mix
    <3>8. CASE q < Size
      <4>1. Mixed(q) = ring.mem[q]
        BY <2>5, <3>7, <3>8, Numbers DEF Mixed, Cell
      <4>2. QED
        BY <3>2, <3>4, <3>5, <3>6, <3>7, <3>8, <4>1
    <3>9. CASE q = Size
      <4>1. Mixed(q) = 0
        BY <3>9, Numbers DEF Mixed, Cell
      <4>2. QED
        BY <3>7, <4>1
    <3>10. CASE q > Size
      <4>1. ~(q <= Size) /\ ~(q < Size)
        BY <3>7, <3>10, Numbers
      <4>2. Mixed(q) = ring.mem[q - Size]
        BY <4>1 DEF Mixed
      <4>3. QED
        BY <3>2, <3>4, <3>5, <3>6, <3>7, <4>1, <4>2
    <3>11. QED
      BY <3>7, <3>8, <3>9, <3>10, Numbers
  <2>9. FadesInPlace'
    BY <1>1, <2>1, <2>3, <2>4, <2>8, PartInPlace
  <2>10. QED
    BY <2>2, <2>9
<1>6. QED
  BY <1>4, <1>5

(* Frames that come before a fade are not among those to be faded. *)
LEMMA NotYet ==
  ASSUME NEW due \in Seq(Nat), NEW last \in Nat, Upwards(due, last), NEW n \in 0..Len(due),
         NEW offset \in Nat, n <= offset, NEW seq \in Seq(Nat), Comes(seq, offset, due, last)
  PROVE  ToSet([k \in 1..n |-> due[k]]) \cap ToSet(seq) = {}
<1> DEFINE now == [k \in 1..n |-> due[k]]
<1>1. Len(due) \in Nat /\ n \in Nat /\ n <= Len(due) /\ DOMAIN seq = 1..Len(seq) /\ DOMAIN now = 1..n
      /\ Len(seq) \in Nat
  OBVIOUS
<1>2. \A k \in 1..n : now[k] = due[k]
  OBVIOUS
<1> HIDE DEF now
<1>3. ASSUME NEW k \in 1..n, NEW j \in 1..Len(seq)
      PROVE  now[k] # seq[j]
  <2> DEFINE i == offset + j
  <2>1. i \in Nat /\ i >= 1 /\ k < i /\ k \in 1..Len(due)
    BY <1>1
  <2>2. seq[j] = Upcoming(due, last, i)
    BY <2>1 DEF Comes
  <2> HIDE DEF i
  <2>3. now[k] = due[k] /\ due[k] \in Nat /\ due[k] <= last
    BY <1>2, <2>1 DEF Upwards
  <2>4. CASE i <= Len(due)
    <3>1. i \in 1..Len(due) /\ seq[j] = due[i]
      BY <1>1, <2>1, <2>2, <2>4 DEF Upcoming
    <3>2. due[k] < due[i] /\ due[i] \in Nat
      BY <2>1, <3>1 DEF Upwards
    <3>3. QED
      BY <2>3, <3>1, <3>2
  <2>5. CASE ~(i <= Len(due))
    <3>1. seq[j] = last + i - Len(due)
      BY <2>2, <2>5 DEF Upcoming
    <3>2. QED
      BY <1>1, <2>1, <2>3, <2>5, <3>1
  <2>6. QED
    BY <2>4, <2>5
<1>4. ToSet(now) = {now[k] : k \in 1..n} /\ ToSet(seq) = {seq[j] : j \in 1..Len(seq)}
  BY <1>1 DEF ToSet
<1>5. QED
  BY <1>3, <1>4 DEF now

LEMMA PlainFades ==
  ASSUME StoreInv, FadeInv, ~hist.broken, output.mark # ring.r, Plain
  PROVE  FadeInv' /\ FadesInPlace'
<1> DEFINE m == IF fade.state = "DUE" THEN UpTo(ToMark, fade.from) ELSE ToMark
           n == Piece(m)
<1>1. /\ TypeInv /\ ring.r \in Cells /\ ContRead \in Nat /\ hist.due \in Seq(Nat)
      /\ hist.last \in Nat
  BY RingFacts, Numbers DEF StoreInv
<1>2. /\ fade \in Fades /\ hist \in Hists /\ fade.from \in Cells
      /\ Upwards(hist.due, hist.last)
  BY <1>1, OtherFacts
<1>3. /\ ~Active /\ Written(n, 0, Full, None) /\ hist' = Heard(n) /\ fade' = fade
  BY DEF Plain
<1>4. ToMark \in 0..ContRead /\ UpTo(ToMark, fade.from) \in 0..ToMark
      /\ (fade.from # ring.r => UpTo(ToMark, fade.from) <= Distance(ring.r, fade.from))
  BY <1>1, <1>2, Reach
<1>5. m \in 0..ToMark /\ m \in Nat
  BY <1>1, <1>4
<1>6. /\ hist'.due = Dropped(hist.due, n) /\ hist'.last = hist.last
      /\ hist'.first = hist.first /\ hist'.moved = hist.moved /\ hist'.passed = hist.passed
      /\ hist'.window = hist.window /\ hist'.lost = hist.lost
  BY <1>2, <1>3 DEF Heard, Hists
<1>7. fade.state = "DUE" => fade.from # ring.r /\ m <= Distance(ring.r, fade.from)
  BY <1>3, <1>4 DEF Active, Met
<1> HIDE DEF m
<1>8. /\ n \in Nat /\ n <= m /\ Moves(n) /\ heard'.gain = Full
      /\ n <= Len(hist.due) /\ heard'.frames = [k \in 1..n |-> hist.due[k]]
  BY <1>3, <1>5, <1>6, PieceHeard
<1> HIDE DEF n
<1>9. Region' = Region
  BY <1>6 DEF Region
<1>10. CASE fade.state # "DUE"
  <2>1. fade.state = "INACTIVE"
    BY <1>2, <1>3, <1>10 DEF Fades, Active
  <2>2. hist.window = NoWindow
    BY <2>1 DEF FadeInv
  <2>3. FadeInv'
    BY <1>3, <1>6, <2>1, <2>2 DEF FadeInv
  <2>4. Region = << >>
    BY <2>2 DEF Region, NoWindow
  <2>5. ToSet(Region) = {}
    BY <2>4 DEF ToSet
  <2>6. FadesInPlace'
    BY <1>8, <1>9, <2>5, PlainInPlace
  <2>7. QED
    BY <2>3, <2>6
<1>11. CASE fade.state = "DUE" /\ hist.lost
  BY <1>3, <1>6, <1>11 DEF FadeInv, FadesInPlace
<1>12. CASE fade.state = "DUE" /\ ~hist.lost
  <2>1. InPlace
    BY <1>12 DEF FadeInv
  <2>2. Distance(ring.r, fade.from) \in Nat /\ Offset = Distance(ring.r, fade.from)
    BY <1>1, <1>2, <1>12, Apart, Numbers DEF Offset
  <2>3. n <= Distance(ring.r, fade.from)
    BY <1>5, <1>7, <1>8, <1>12, <2>2
  <2>4. InPlace'
    BY <1>1, <1>3, <1>6, <1>8, <1>12, <2>1, <2>3, Nearer
  <2>5. FadeInv'
    BY <1>3, <1>12, <2>4 DEF FadeInv
  <2>6. Region \in Seq(Nat)
    BY <1>1, FadeFacts
  <2>7. Comes(Region, Offset, hist.due, hist.last)
    BY <2>1 DEF InPlace
  <2>8. n \in 0..Len(hist.due)
    BY <1>1, <1>8
  <2>9. ToSet(heard'.frames) \cap ToSet(Region) = {}
    BY <1>1, <1>2, <1>8, <2>2, <2>3, <2>6, <2>7, <2>8, NotYet
  <2>10. FadesInPlace'
    BY <1>8, <1>9, <2>9, PlainInPlace
  <2>11. QED
    BY <2>5, <2>10
<1>13. QED
  BY <1>10, <1>11, <1>12

LEMMA TurnsUpFades ==
  ASSUME StoreInv, FadeInv, ~hist.broken, output.mark # ring.r, TurnsUp
  PROVE  FadeInv' /\ FadesInPlace'
<1> DEFINE to == Forward(ring.r, Extent)
           m  == UpTo(ToMark, to)
           n  == Piece(m)
           gain == [dir |-> "UP", at |-> 0, of |-> Extent]
           window == [dir |-> "UP", tail |-> << >>, head |-> Coming(Extent)]
           up == [Faded("UP", << >>, Coming(Extent)) EXCEPT !.lost = hist.lost]
<1>1. /\ TypeInv /\ ring.r \in Cells /\ hist.due \in Seq(Nat) /\ ContRead \in Nat
      /\ hist.last \in Nat /\ Used \in Nat /\ Used < Size /\ Len(hist.due) = Used
  BY RingFacts, Numbers DEF StoreInv, Cells
<1>2. fade \in Fades /\ hist \in Hists
  BY <1>1, OtherFacts
<1>3. Extent \in Nat /\ Extent \in Cells /\ Extent < Size /\ Extent \in 0..Size
  BY <1>1, FadeFacts, Numbers DEF Cells
<1>4. to \in Cells
  BY <1>1, <1>3, Around
<1>5. /\ ToMark \in 0..ContRead /\ m \in 0..ToMark
      /\ (to # ring.r => m <= Distance(ring.r, to))
  BY <1>1, <1>4, Reach
<1>6. /\ Written(n, 0, gain, None) /\ hist' = [up EXCEPT !.due = Dropped(hist.due, n)]
      /\ fade' = [fade EXCEPT !.state = "ACTIVE", !.dir = "UP", !.from = ring.r, !.to = to]
  <2>1. up.due = hist.due
    BY <1>2 DEF Faded, Hists
  <2>2. QED
    BY <2>1 DEF TurnsUp
<1>7. /\ hist'.due = Dropped(hist.due, n) /\ hist'.last = hist.last
      /\ hist'.first = hist.first /\ hist'.moved = hist.moved /\ hist'.passed = hist.passed
      /\ hist'.window = window /\ hist'.lost = hist.lost
  BY <1>2, <1>6 DEF Faded, Hists
<1>8. /\ fade'.state = "ACTIVE" /\ fade'.dir = "UP" /\ fade'.from = ring.r /\ fade'.to = to
  BY <1>2, <1>6 DEF Fades
<1> HIDE DEF m
<1>9. /\ n \in Nat /\ n <= m /\ Moves(n) /\ heard'.gain = gain
      /\ n <= Len(hist.due) /\ heard'.frames = [k \in 1..n |-> hist.due[k]]
      /\ Len(heard'.frames) = n
  BY <1>5, <1>6, <1>7, PieceHeard
<1> HIDE DEF n
<1>10. Distance(ring.r, ring.r) = 0 /\ Distance(ring.r, to) = 0 + Extent
  <2>1. Distance(ring.r, ring.r) = 0
    BY <1>1, Arrives
  <2>2. \A b \in Cells : Distance(b, ring.r) + Extent < Size =>
          Distance(b, Forward(ring.r, Extent)) = Distance(b, ring.r) + Extent
    BY <1>1, <1>3, Ahead
  <2>3. 0 + Extent < Size
    BY <1>3
  <2>4. QED
    BY <1>1, <2>1, <2>2, <2>3
<1>11. Extent' = Extent
  BY <1>3, <1>8, <1>10 DEF Extent
<1>12. Region' = Coming(Extent)
  BY <1>7 DEF Region
<1>13. /\ Coming(Extent) \in Seq(Nat) /\ Len(Coming(Extent)) = Extent
       /\ \A j \in 1..Extent : Coming(Extent)[j] = Upcoming(hist.due, hist.last, j)
  <2>1. \A i \in 1..Extent : (IF i <= Len(hist.due) THEN hist.due[i]
                              ELSE hist.last + i - Len(hist.due)) \in Nat
    BY <1>1, <1>3
  <2>2. QED
    BY <1>3, <2>1 DEF Coming, Upcoming
<1> HIDE DEF to, window, up
<1>14. FadeInv'
  <2>1. Position' = n
    <3>1. n \in 0..Size /\ 0 + n < Size /\ ring'.r = Forward(ring.r, n)
      BY <1>1, <1>9, Numbers DEF Moves
    <3>2. \A b \in Cells : Distance(b, ring.r) + n < Size =>
            Distance(b, Forward(ring.r, n)) = Distance(b, ring.r) + n
      BY <1>1, <3>1, Ahead
    <3>3. Distance(ring.r, Forward(ring.r, n)) = 0 + n
      BY <1>1, <1>10, <3>1, <3>2
    <3>4. QED
      BY <1>8, <1>9, <3>1, <3>3 DEF Position
  <2>2. Offset' = 0 - n
    BY <1>8, <2>1 DEF Offset
  <2>3. Comes(Coming(Extent), 0, hist.due, hist.last)
    <3>1. ASSUME NEW j \in 1..Len(Coming(Extent)), 0 + j >= 1
          PROVE  Coming(Extent)[j] = Upcoming(hist.due, hist.last, 0 + j)
      <4>1. j \in 1..Extent /\ 0 + j = j
        BY <1>3, <1>13
      <4>2. QED
        BY <1>13, <4>1
    <3>2. QED
      BY <3>1 DEF Comes
  <2>4. Comes(Coming(Extent), 0 - n, Dropped(hist.due, n), hist.last)
    <3>1. n \in 0..Len(hist.due) /\ 0 \in Int
      BY <1>1, <1>9
    <3>2. QED
      BY <1>1, <1>13, <2>3, <3>1, ComesNearer
  <2>5. hist'.window.dir = fade'.dir /\ fade'.dir # "CROSS"
    BY <1>7, <1>8 DEF window
  <2>6. InPlace'
    BY <1>7, <1>11, <1>12, <1>13, <2>2, <2>4, <2>5 DEF InPlace
  <2>7. QED
    BY <1>8, <2>6 DEF FadeInv
<1>15. FadesInPlace'
  <2>1. CASE Extent = 0
    BY <1>9, <2>1 DEF FadesInPlace, Undefined, Full
  <2>2. CASE Extent # 0
    <3>1. to # ring.r
      BY <1>3, <1>10, <2>2
    <3>2. n <= Extent /\ 0 + n <= Extent
      <4>1. m <= Extent /\ m \in Nat
        BY <1>1, <1>3, <1>5, <1>10, <3>1 DEF to
      <4>2. QED
        BY <1>3, <1>9, <4>1
    <3>3. At(Coming(Extent), 0, n) = [k \in 1..n |-> Coming(Extent)[0 + k]]
      <4>1. 0 \in Nat /\ n \in Nat /\ 0 + n <= Len(Coming(Extent)) /\ Coming(Extent) \in Seq(Nat)
        BY <1>9, <1>13, <3>2
      <4>2. QED
        BY <4>1, AtPart
    <3>4. \A k \in 1..n : 0 + k = k /\ k \in 1..Extent /\ k <= Len(hist.due)
      BY <1>1, <1>3, <1>9, <3>2
    <3>5. \A k \in 1..n : Coming(Extent)[0 + k] = hist.due[k]
      BY <1>13, <3>4 DEF Upcoming
    <3>6. heard'.frames = At(Region', 0, Len(heard'.frames))
      BY <1>9, <1>12, <3>3, <3>5
    <3>7. /\ heard'.gain # Full /\ heard'.gain.dir = hist'.window.dir
          /\ heard'.gain.of = Len(Region') /\ heard'.gain.at = 0
          /\ hist'.window.dir \notin {"DOWN", "CROSS"}
      BY <1>7, <1>9, <1>12, <1>13 DEF Full, window
    <3>8. 0 \in 0..Len(Region')
      BY <1>3, <1>12, <1>13
    <3>9. QED
      BY <3>6, <3>7, <3>8, PartInPlace
  <2>3. QED
    BY <2>1, <2>2
<1>16. QED
  BY <1>14, <1>15

LEMMA EndFades ==
  ASSUME StoreInv, FadeInv, ~hist.broken, CrossFails \/ FadeEnds
  PROVE  FadeInv' /\ FadesInPlace'
<1>1. fade \in Fades /\ hist \in Hists
  BY OtherFacts DEF StoreInv
<1>2. fade'.state = "INACTIVE"
  BY <1>1 DEF CrossFails, FadeEnds, Inactive, Fades
<1>3. hist'.window = NoWindow /\ heard'.gain = Full
  <2>1. CASE CrossFails
    <3>1. hist'.window = NoWindow
      BY <1>1, <2>1 DEF CrossFails, Heard, Hists
    <3>2. heard'.gain = Full
      BY <2>1 DEF CrossFails, Written
    <3>3. QED
      BY <3>1, <3>2
  <2>2. CASE FadeEnds
    <3>1. hist'.window = NoWindow
      BY <1>1, <2>2 DEF FadeEnds, Heard, Hists
    <3>2. heard'.gain = Full
      BY <2>2 DEF FadeEnds, Written
    <3>3. QED
      BY <3>1, <3>2
  <2>3. QED
    BY <2>1, <2>2
<1>4. Region' = << >>
  BY <1>3 DEF Region, NoWindow
<1>5. ToSet(Region') = {}
  BY <1>4 DEF ToSet
<1>6. FadesInPlace'
  BY <1>3, <1>5, PlainInPlace
<1>7. QED
  BY <1>2, <1>3, <1>6 DEF FadeInv

LEMMA FadeNext ==
  ASSUME StoreInv, FadeInv, FadesInPlace, [Next]_vars
  PROVE  FadeInv' /\ FadesInPlace'
<1>1. TypeInv
  BY DEF StoreInv
<1>2. CASE UNCHANGED vars
  BY <1>2 DEF vars, FadeInv, FadesInPlace, InPlace, Region, Extent, Position, Offset
<1>3. ASSUME Next, ~hist.broken PROVE FadeInv' /\ FadesInPlace'
  <2>1. ASSUME heard' = Nothing PROVE FadesInPlace'
    BY <2>1 DEF FadesInPlace, Nothing
  <2>2. ASSUME Rests PROVE FadeInv' /\ FadesInPlace'
    BY <2>1, <2>2, FadeSame DEF Rests
  <2>3. CASE DecodeThread
    <3>1. heard' = Nothing
      BY <2>3 DEF DecodeThread, Begin, Decode, Complete
    <3>2. FadeInv'
      BY <1>1, <1>3, <2>3, BeginFades, DecodeFades, CompleteFades DEF DecodeThread
    <3>3. QED
      BY <2>1, <3>1, <3>2
  <2>4. CASE Frames \/ Silence \/ Silent \/ AtStart
    BY <1>1, <1>3, <2>2, <2>4, CallRests
  <2>5. CASE Skip
    <3>1. heard' = Nothing
      BY <2>5 DEF Skip
    <3>2. FadeInv'
      BY <1>1, <1>3, <2>5, SkipFades
    <3>3. QED
      BY <2>1, <3>1, <3>2
  <2>6. CASE Turn
    <3>1. /\ output.mark # ring.r
          /\ Plain \/ Fading \/ TurnsUp \/ Crossing \/ CrossFails \/ FadeEnds
      BY <2>6 DEF Turn
    <3>2. QED
      BY <1>3, <3>1, PlainFades, FadingFades, TurnsUpFades, CrossingFades, EndFades
  <2>7. CASE \E mode \in {source.chosen, "NONE"} : Ask(mode)
    BY <1>1, <1>3, <2>2, <2>7, AskRests
  <2>8. CASE Unpause \/ \E n \in Intervals : SkipAhead(n) \/ Pause(n)
    BY <1>1, <1>3, <2>2, <2>8, OrderRests
  <2>9. CASE Flush \/ FlushStreaming
    <3>1. heard' = Nothing
      BY <2>9 DEF Flush, FlushStreaming, Order
    <3>2. FadeInv'
      BY <1>1, <1>3, <2>9, FlushFades, FlushStreamingFades
    <3>3. QED
      BY <2>1, <3>1, <3>2
  <2>10. QED
    BY <1>3, <2>3, <2>4, <2>5, <2>6, <2>7, <2>8, <2>9 DEF Next, OutputThread
<1>4. QED
  BY <1>2, <1>3 DEF Next

(* A piece is faded if and only if its frames are among those the fade was *)
(* set up for, with the gain of their place in it, and a crossfade mixes   *)
(* the frames as far into the new track: _checkfade's pointers and the     *)
(* comparisons of _output_frames find the right frames, however the ring   *)
(* wraps and whatever was decoded, written or cut in between.              *)
THEOREM FadesFound == Spec => []FadesInPlace
<1>1. Init => StoreInv /\ PieceInv /\ FadeInv /\ FadesInPlace
  <2>1. SUFFICES ASSUME Init PROVE FadeInv /\ FadesInPlace
    BY StoreStart
  <2>2. /\ fade.state = "INACTIVE" /\ hist.window = NoWindow /\ heard = Nothing
    BY <2>1 DEF Init
  <2>3. FadeInv
    BY <2>2 DEF FadeInv
  <2>4. FadesInPlace
    BY <2>2 DEF FadesInPlace, Nothing
  <2>5. QED
    BY <2>3, <2>4
<1>2. StoreInv /\ PieceInv /\ FadeInv /\ FadesInPlace /\ [Next]_vars
        => (StoreInv /\ PieceInv /\ FadeInv /\ FadesInPlace)'
  BY StoreNext, FadeNext
<1>3. QED
  BY <1>1, <1>2, PTL DEF Spec
-----------------------------------------------------------------------------
(***************************************************************************)
(* The account.  What is owed is what outputbuf holds, but for what the    *)
(* crossfade under way has mixed in: as many frames as it has gone over,   *)
(* up to its length ahead of readp.                                        *)
(***************************************************************************)
Open(due, places) == {due[i] : i \in (1..Len(due)) \ places}

MixedPlaces == IF Mixing THEN Extent - Position + 1..Extent ELSE {}

OwedInv ==
  ~hist.broken =>
    /\ owed \in [frames : SUBSET Nat, cut : BOOLEAN]
    /\ ~owed.cut => /\ owed.frames = Open(hist.due, MixedPlaces)
                    /\ Mixing => Extent <= Len(hist.due)

(* What is taken out of the account by name is taken out by place. *)
LEMMA OpenLess ==
  ASSUME NEW due \in Seq(Nat), NEW last \in Nat, Upwards(due, last), NEW places,
         NEW taken \in SUBSET (1..Len(due))
  PROVE  Open(due, places) \ {due[i] : i \in taken} = Open(due, places \cup taken)
<1>1. Len(due) \in Nat /\ \A i \in 1..Len(due) : due[i] \in Nat
  OBVIOUS
<1>2. ASSUME NEW i \in 1..Len(due), NEW j \in 1..Len(due), due[i] = due[j]
      PROVE  i = j
  <2>1. i < j => due[i] < due[j]
    BY DEF Upwards
  <2>2. j < i => due[j] < due[i]
    BY DEF Upwards
  <2>3. due[i] \in Nat /\ due[j] \in Nat /\ i \in Nat /\ j \in Nat
    BY <1>1
  <2>4. QED
    BY <1>2, <2>1, <2>2, <2>3
<1> DEFINE gone == {due[i] : i \in taken}
<1>3. ASSUME NEW i \in 1..Len(due)
      PROVE  due[i] \in gone <=> i \in taken
  <2>1. due[i] \in gone => \E j \in taken : due[i] = due[j]
    OBVIOUS
  <2>2. \A j \in taken : j \in 1..Len(due)
    OBVIOUS
  <2>3. QED
    BY <1>2, <2>1, <2>2
<1> HIDE DEF gone
<1>4. ASSUME NEW x
      PROVE  x \in Open(due, places) /\ x \notin gone <=> x \in Open(due, places \cup taken)
  <2>1. x \in Open(due, places) <=> \E i \in 1..Len(due) : i \notin places /\ x = due[i]
    BY DEF Open
  <2>2. x \in Open(due, places \cup taken)
          <=> \E i \in 1..Len(due) : i \notin places /\ i \notin taken /\ x = due[i]
    BY DEF Open
  <2>3. QED
    BY <1>3, <2>1, <2>2
<1>5. QED
  BY <1>4 DEF gone

(* What is heard from readp on is what is owed at the places after it. *)
LEMMA OpenAhead ==
  ASSUME NEW due \in Seq(Nat), NEW m \in 0..Len(due), NEW places, NEW after,
         \A i \in 1..m : i \in places,
         \A i \in 1..Len(due) - m : i \in after <=> m + i \in places
  PROVE  Open(due, places) = Open(Dropped(due, m), after)
<1> DEFINE left == Dropped(due, m)
<1>1. Len(due) \in Nat /\ m \in Nat /\ m <= Len(due)
  OBVIOUS
<1>2. Len(left) = Len(due) - m /\ \A i \in 1..Len(due) - m : left[i] = due[m + i]
  BY <1>1, Parts
<1> HIDE DEF left
<1>3. ASSUME NEW i \in (1..Len(due)) \ places
      PROVE  \E j \in (1..Len(left)) \ after : due[i] = left[j]
  <2> DEFINE j == i - m
  <2>1. ~(i \in 1..m) /\ i \in 1..Len(due)
    BY <1>3
  <2>2. j \in 1..Len(due) - m /\ m + j = i
    BY <1>1, <2>1
  <2> HIDE DEF j
  <2>3. j \notin after /\ left[j] = due[i]
    BY <1>2, <1>3, <2>2
  <2>4. QED
    BY <1>2, <2>2, <2>3
<1>4. ASSUME NEW j \in (1..Len(left)) \ after
      PROVE  \E i \in (1..Len(due)) \ places : left[j] = due[i]
  <2>1. j \in 1..Len(due) - m /\ m + j \in 1..Len(due)
    BY <1>1, <1>2, <1>4
  <2>2. m + j \notin places /\ left[j] = due[m + j]
    BY <1>2, <1>4, <2>1
  <2>3. QED
    BY <2>1, <2>2
<1>5. Open(due, places) \subseteq Open(left, after)
  BY <1>3 DEF Open
<1>6. Open(left, after) \subseteq Open(due, places)
  BY <1>4 DEF Open
<1>7. QED
  BY <1>5, <1>6 DEF left

(* The n frames of a piece come s frames after readp.  Those between are   *)
(* among the places taken out, those of the piece are not; after it the    *)
(* places count from where readp is then.                                  *)
Run(frames, due, s, n) ==
  /\ s \in Nat /\ n \in Nat /\ s + n <= Len(due)
  /\ DOMAIN frames = 1..n /\ \A k \in 1..n : frames[k] = due[s + k]

Past(due, s, n, places, after) ==
  /\ \A i \in 1..s : i \in places
  /\ \A k \in 1..n : s + k \notin places
  /\ \A i \in 1..Len(due) - (s + n) : i \in after <=> s + n + i \in places

(* Frames that follow each other in outputbuf, the first of those owed,    *)
(* are next in line.                                                       *)
LEMMA OpenNext ==
  ASSUME NEW due \in Seq(Nat), NEW last \in Nat, Upwards(due, last), NEW s, NEW n,
         NEW now, Run(now, due, s, n), NEW places, NEW after, Past(due, s, n, places, after)
  PROVE  NextInLine(now, Open(due, places))
<1>1. /\ Len(due) \in Nat /\ DOMAIN now = 1..n /\ \A k \in 1..n : now[k] = due[s + k]
      /\ s \in Nat /\ n \in Nat /\ s + n <= Len(due)
  BY DEF Run
<1>2. ASSUME NEW k \in 1..n
      PROVE  /\ now[k] \in Open(due, places)
             /\ \A x \in Open(due, places) : x < now[k] => \E i \in 1..k - 1 : now[i] = x
  <2>1. s + k \in 1..Len(due) /\ k \in Nat
    BY <1>1
  <2>2. now[k] \in Open(due, places)
    BY <1>1, <2>1 DEF Open, Past
  <2>3. ASSUME NEW j \in (1..Len(due)) \ places, due[j] < now[k]
        PROVE  \E i \in 1..k - 1 : now[i] = due[j]
    <3> DEFINE i == j - s
    <3>1. j \in 1..Len(due) /\ due[j] < due[s + k]
      BY <1>1, <2>3
    <3>2. due[j] \in Nat /\ due[s + k] \in Nat
      BY <2>1, <3>1
    <3>3. j < s + k
      <4>1. s + k < j => due[s + k] < due[j]
        BY <2>1, <3>1 DEF Upwards
      <4>2. j # s + k
        BY <3>1, <3>2
      <4>3. j \in Nat /\ s + k \in Nat
        BY <1>1, <2>1, <3>1
      <4>4. QED
        BY <3>1, <3>2, <4>1, <4>2, <4>3
    <3>4. ~(j \in 1..s)
      BY <2>3 DEF Past
    <3>5. i \in 1..k - 1 /\ i \in 1..n /\ s + i = j
      BY <1>1, <2>1, <3>1, <3>3, <3>4
    <3>6. now[i] = due[s + i]
      BY <1>1, <3>5
    <3> HIDE DEF i
    <3>7. QED
      BY <3>5, <3>6
  <2>4. QED
    BY <2>2, <2>3 DEF Open
<1>3. QED
  BY <1>1, <1>2 DEF NextInLine

(* What is owed after a piece lies ahead of it. *)
LEMMA OpenRest ==
  ASSUME NEW due \in Seq(Nat), NEW last \in Nat, Upwards(due, last), NEW s, NEW n,
         NEW now, Run(now, due, s, n), NEW places, NEW after, Past(due, s, n, places, after)
  PROVE  Open(due, places) \ ToSet(now) = Open(Dropped(due, s + n), after)
<1> DEFINE taken == s + 1..s + n
<1>1. /\ Len(due) \in Nat /\ DOMAIN now = 1..n /\ \A k \in 1..n : now[k] = due[s + k]
      /\ s \in Nat /\ n \in Nat /\ s + n <= Len(due)
  BY DEF Run
<1>2. taken \in SUBSET (1..Len(due)) /\ s + n \in 0..Len(due)
  BY <1>1
<1>3. ToSet(now) = {due[i] : i \in taken}
  <2>1. ToSet(now) = {now[k] : k \in 1..n}
    BY <1>1 DEF ToSet
  <2>2. ASSUME NEW i \in taken
        PROVE  \E k \in 1..n : due[i] = now[k]
    <3>1. i - s \in 1..n /\ s + (i - s) = i
      BY <1>1
    <3>2. now[i - s] = due[i]
      BY <1>1, <3>1
    <3>3. QED
      BY <3>1, <3>2
  <2>3. ASSUME NEW k \in 1..n
        PROVE  \E i \in taken : now[k] = due[i]
    <3>1. s + k \in taken
      BY <1>1
    <3>2. QED
      BY <1>1, <3>1
  <2> HIDE DEF taken
  <2>4. QED
    BY <2>1, <2>2, <2>3
<1>4. /\ \A i \in 1..s + n : i \in places \cup taken
      /\ \A i \in 1..Len(due) - (s + n) : i \in after <=> s + n + i \in places \cup taken
  <2>1. \A i \in 1..s + n : i \in 1..s \/ i \in taken
    BY <1>1
  <2>2. \A i \in 1..Len(due) - (s + n) : s + n + i \notin taken
    BY <1>1
  <2> HIDE DEF taken
  <2>3. QED
    BY <2>1, <2>2 DEF Past
<1> HIDE DEF taken
<1>5. Open(due, places) \ ToSet(now) = Open(due, places \cup taken)
  BY <1>2, <1>3, OpenLess
<1>6. Open(due, places \cup taken) = Open(Dropped(due, s + n), after)
  BY <1>2, <1>4, OpenAhead
<1>7. QED
  BY <1>5, <1>6

(* All of a sequence is open when no place is taken out. *)
LEMMA OpenAll ==
  ASSUME NEW due \in Seq(Nat)
  PROVE  /\ ToSet(due) = Open(due, {}) /\ ToSet(due) \in SUBSET Nat
         /\ \A n \in 0..Len(due) : /\ SubSeq(due, 1, n) = [k \in 1..n |-> due[0 + k]]
                                   /\ 0 + n = n
<1>1. DOMAIN due = 1..Len(due) /\ Len(due) \in Nat /\ \A i \in 1..Len(due) : due[i] \in Nat
  OBVIOUS
<1>2. ToSet(due) = {due[i] : i \in 1..Len(due)}
  BY <1>1 DEF ToSet
<1>3. ASSUME NEW n \in 0..Len(due)
      PROVE  SubSeq(due, 1, n) = [k \in 1..n |-> due[0 + k]] /\ 0 + n = n
  <2>1. SubSeq(due, 1, n) = [k \in 1..(n - 1 + 1) |-> due[1 + k - 1]]
    BY <1>1
  <2>2. n - 1 + 1 = n /\ \A k \in 1..n : 1 + k - 1 = 0 + k
    BY <1>1
  <2>3. QED
    BY <1>1, <2>1, <2>2
<1>4. QED
  BY <1>1, <1>2, <1>3 DEF Open

(* What is known of the account while the player is not broken. *)
LEMMA OwedFacts ==
  ASSUME StoreInv, OwedInv, ~hist.broken
  PROVE  /\ TypeInv /\ hist.due \in Seq(Nat) /\ Len(hist.due) = Used /\ Used \in Nat
         /\ Upwards(hist.due, hist.last) /\ hist \in Hists /\ fade \in Fades
         /\ hist.last \in Nat /\ hist.first \in Nat /\ Extent \in Nat /\ Position \in Nat
         /\ owed \in [frames : SUBSET Nat, cut : BOOLEAN]
         /\ owed.frames \in SUBSET Nat /\ owed.cut \in BOOLEAN
         /\ ~owed.cut => owed.frames = Open(hist.due, MixedPlaces)
         /\ ~Mixing => MixedPlaces = {}
<1>1. TypeInv /\ hist.due \in Seq(Nat) /\ Len(hist.due) = Used /\ Used \in Nat
      /\ hist.last \in Nat /\ hist.first \in Nat
  BY RingFacts, Numbers DEF StoreInv
<1>2. Upwards(hist.due, hist.last) /\ hist \in Hists /\ fade \in Fades
  BY <1>1, OtherFacts
<1>3. Extent \in Nat /\ Position \in Nat
  BY <1>1, FadeFacts
<1>4. QED
  BY <1>1, <1>2, <1>3 DEF OwedInv, MixedPlaces

LEMMA OwedStart ==
  ASSUME Init
  PROVE  OwedInv
<1>1. hist.due = << >> /\ owed = [frames |-> {}, cut |-> FALSE] /\ fade.state = "INACTIVE"
  BY DEF Init
<1>2. Len(hist.due) = 0
  BY <1>1
<1>3. Open(hist.due, MixedPlaces) = {}
  BY <1>2 DEF Open
<1>4. QED
  BY <1>1, <1>3 DEF OwedInv, Mixing

(* Nothing is given: there is nothing to be in order. *)
LEMMA NothingGiven ==
  ASSUME heard' = Nothing
  PROVE  InOrder
BY DEF InOrder, Nothing, NextInLine

(* readp, what is due and the fade stay. *)
LEMMA OwedSame ==
  ASSUME OwedInv, owed' = owed, ring'.r = ring.r, hist'.due = hist.due,
         hist'.broken = hist.broken, fade'.state = fade.state, fade'.dir = fade.dir,
         fade'.from = fade.from, fade'.to = fade.to
  PROVE  OwedInv'
<1>1. Mixing' = Mixing /\ Extent' = Extent /\ Position' = Position
  BY DEF Mixing, Extent, Position
<1>2. MixedPlaces' = MixedPlaces
  BY <1>1 DEF MixedPlaces
<1>3. QED
  BY <1>1, <1>2 DEF OwedInv

(* No crossfade is under way: all that outputbuf holds is owed. *)
LEMMA OwedPlainly ==
  ASSUME ~Mixing', owed' \in [frames : SUBSET Nat, cut : BOOLEAN],
         ~hist'.broken /\ ~owed'.cut => owed'.frames = Open(hist'.due, {})
  PROVE  OwedInv'
BY DEF OwedInv, MixedPlaces

(* A fade takes the place of another, or the fade ends. *)
LEMMA ResumedOpen ==
  ASSUME StoreInv, OwedInv, ~hist.broken
  PROVE  /\ Resumed \in [frames : SUBSET Nat, cut : BOOLEAN]
         /\ ~Resumed.cut => Resumed.frames = Open(hist.due, {})
<1>1. /\ owed \in [frames : SUBSET Nat, cut : BOOLEAN]
      /\ ~owed.cut /\ ~Mixing => owed.frames = Open(hist.due, {})
      /\ hist.due \in Seq(Nat)
  BY OwedFacts
<1>2. ToSet(hist.due) = Open(hist.due, {}) /\ ToSet(hist.due) \in SUBSET Nat
  BY <1>1, OpenAll
<1>3. QED
  BY <1>1, <1>2 DEF Resumed

LEMMA BeginOwed ==
  ASSUME StoreInv, OwedInv, ~hist.broken, Begin
  PROVE  OwedInv'
<1>1. /\ hist \in Hists /\ fade \in Fades /\ ring' = ring
      /\ FadeIn \/ CrossFade \/ NoFade
  BY OwedFacts DEF Begin
<1>2. CASE FadeIn \/ CrossFade
  <2>1. fade'.state = "DUE" /\ owed' = Resumed
    BY <1>1, <1>2 DEF FadeIn, CrossFade, Due, Fades
  <2>2. hist'.due = hist.due
    BY <1>1, <1>2 DEF FadeIn, CrossFade, Faded, Hists
  <2>3. ~Mixing'
    BY <2>1 DEF Mixing
  <2>4. QED
    BY <2>1, <2>2, <2>3, ResumedOpen, OwedPlainly
<1>3. CASE NoFade
  <2>1. fade' = fade /\ owed' = owed /\ hist'.due = hist.due /\ hist'.broken = hist.broken
    BY <1>1, <1>3 DEF NoFade, Hists
  <2>2. QED
    BY <1>1, <2>1, OwedSame
<1>4. QED
  BY <1>1, <1>2, <1>3

LEMMA CompleteOwed ==
  ASSUME StoreInv, OwedInv, ~hist.broken, Complete
  PROVE  OwedInv'
<1>1. hist \in Hists /\ fade \in Fades /\ ring' = ring
  BY OwedFacts DEF Complete
<1>2. CASE fade.mode \in {"OUT", "INOUT"}
  <2>1. fade'.state = "DUE" /\ owed' = Resumed
    BY <1>1, <1>2 DEF Complete, Due, Fades
  <2>2. hist'.due = hist.due
    BY <1>1, <1>2 DEF Complete, Faded, Hists
  <2>3. ~Mixing'
    BY <2>1 DEF Mixing
  <2>4. QED
    BY <2>1, <2>2, <2>3, ResumedOpen, OwedPlainly
<1>3. CASE fade.mode \notin {"OUT", "INOUT"}
  <2>1. fade' = fade /\ owed' = owed /\ hist' = hist
    BY <1>3 DEF Complete
  <2>2. QED
    BY <1>1, <2>1, OwedSame
<1>4. QED
  BY <1>2, <1>3

(* A frame decoded comes behind all that is mixed in. *)
LEMMA DecodeOwed ==
  ASSUME StoreInv, OwedInv, ~hist.broken, Decode
  PROVE  OwedInv'
<1> DEFINE new == hist.last + 1
           all == Append(hist.due, new)
           size == Len(hist.due)
<1>1. /\ hist.due \in Seq(Nat) /\ hist \in Hists /\ hist.last \in Nat
      /\ owed \in [frames : SUBSET Nat, cut : BOOLEAN] /\ owed.frames \in SUBSET Nat
      /\ Extent \in Nat /\ Position \in Nat
      /\ ring \in Rings
  BY OwedFacts, RingFacts DEF TypeInv
<1>2. /\ owed' = [owed EXCEPT !.frames = @ \cup {new}] /\ fade' = fade
      /\ hist'.due = all /\ hist'.broken = hist.broken /\ ring'.r = ring.r
  BY <1>1 DEF Decode, Hists, Rings
<1>3. owed' \in [frames : SUBSET Nat, cut : BOOLEAN] /\ owed'.cut = owed.cut
      /\ owed'.frames = owed.frames \cup {new}
  BY <1>1, <1>2
<1>4. /\ size \in Nat /\ Len(all) = size + 1 /\ all[size + 1] = new
      /\ \A i \in 1..size : all[i] = hist.due[i]
  BY <1>1
<1> HIDE DEF new, all, size
<1>5. Mixing' = Mixing /\ MixedPlaces' = MixedPlaces /\ Extent' = Extent
  BY <1>2 DEF Mixing, MixedPlaces, Extent, Position
<1>6. ASSUME ~owed.cut
      PROVE  /\ owed.frames \cup {new} = Open(all, MixedPlaces)
             /\ Mixing => Extent <= Len(all)
  <2>1. owed.frames = Open(hist.due, MixedPlaces) /\ (Mixing => Extent <= size)
    BY <1>6 DEF OwedInv, size
  <2>2. size + 1 \notin MixedPlaces
    BY <1>1, <1>4, <2>1 DEF MixedPlaces
  <2>3. 1..size + 1 = 1..size \cup {size + 1}
    BY <1>4
  <2>4. (1..size + 1) \ MixedPlaces = ((1..size) \ MixedPlaces) \cup {size + 1}
    BY <2>2, <2>3
  <2>5. Open(all, MixedPlaces) = {all[i] : i \in ((1..size) \ MixedPlaces) \cup {size + 1}}
    BY <1>4, <2>4 DEF Open
  <2>6. Open(hist.due, MixedPlaces) = {hist.due[i] : i \in (1..size) \ MixedPlaces}
    BY DEF Open, size
  <2>7. QED
    BY <1>1, <1>4, <2>1, <2>5, <2>6
<1>7. QED
  BY <1>2, <1>3, <1>5, <1>6 DEF OwedInv

(* What is skipped is owed no longer; a crossfade skipped into is cut. *)
LEMMA SkipOwed ==
  ASSUME StoreInv, OwedInv, ~hist.broken, Skip
  PROVE  OwedInv'
<1> DEFINE n == LesserOf(Used, output.count)
           gone == ToSet(SubSeq(hist.due, 1, n))
<1>1. /\ TypeInv /\ hist.due \in Seq(Nat) /\ Upwards(hist.due, hist.last)
      /\ owed \in [frames : SUBSET Nat, cut : BOOLEAN] /\ owed.frames \in SUBSET Nat
      /\ owed.cut \in BOOLEAN
      /\ Len(hist.due) = Used /\ Used \in Nat /\ hist.last \in Nat
      /\ ~owed.cut => owed.frames = Open(hist.due, MixedPlaces)
      /\ ~Mixing => MixedPlaces = {}
  BY OwedFacts
<1>2. n \in Nat /\ Moves(n) /\ hist'.broken = hist.broken /\ fade' = fade
  BY <1>1, SkipMoves
<1>3. owed' = [frames |-> owed.frames \ gone, cut |-> owed.cut \/ (Mixing /\ n > 0)]
  BY DEF Skip
<1>4. n \in 0..Len(hist.due) /\ hist'.due = Dropped(hist.due, n) /\ ring'.r = Forward(ring.r, n)
  BY <1>1, <1>2 DEF Moves
<1>5. SubSeq(hist.due, 1, n) = [k \in 1..n |-> hist.due[0 + k]] /\ 0 + n = n
  BY <1>1, <1>4, OpenAll
<1>6. owed' \in [frames : SUBSET Nat, cut : BOOLEAN]
  BY <1>1, <1>3 DEF Mixing
<1> HIDE DEF n
<1>7. CASE ~Mixing
  <2>1. ~owed.cut => owed.frames \ gone = Open(Dropped(hist.due, n), {})
    <3>1. SUFFICES ASSUME ~owed.cut PROVE Open(hist.due, {}) \ gone = Open(Dropped(hist.due, n), {})
      BY <1>1, <1>7
    <3> DEFINE frames == SubSeq(hist.due, 1, n)
    <3>2. Run(frames, hist.due, 0, n) /\ Past(hist.due, 0, n, {}, {})
      BY <1>1, <1>2, <1>4, <1>5 DEF Run, Past
    <3> HIDE DEF frames
    <3>3. Open(hist.due, {}) \ ToSet(frames) = Open(Dropped(hist.due, 0 + n), {})
      BY <1>1, <3>2, OpenRest
    <3>4. QED
      BY <1>5, <3>3 DEF frames
  <2>2. ~Mixing'
    BY <1>2, <1>7 DEF Mixing
  <2>3. QED
    BY <1>3, <1>4, <1>6, <2>1, <2>2, OwedPlainly
<1>8. CASE Mixing /\ n > 0
  BY <1>3, <1>6, <1>8 DEF OwedInv
<1>9. CASE Mixing /\ n = 0
  <2>1. gone = {}
    BY <1>5, <1>9 DEF ToSet
  <2>2. Dropped(hist.due, 0) = hist.due
    BY <1>1 DEF Dropped
  <2>3. Forward(ring.r, 0) = ring.r
    BY <1>1, RingFacts, Nowhere
  <2>4. owed' = owed
    BY <1>1, <1>3, <1>9, <2>1
  <2>5. QED
    BY <1>2, <1>4, <1>9, <2>2, <2>3, <2>4, OwedSame
<1>10. QED
  BY <1>2, <1>7, <1>8, <1>9

LEMMA FlushOwed ==
  ASSUME StoreInv, OwedInv, ~hist.broken, Flush
  PROVE  OwedInv'
<1>1. hist \in Hists /\ fade \in Fades
  BY OwedFacts
<1>2. /\ fade'.state = "INACTIVE" /\ hist'.due = << >>
      /\ owed' = [frames |-> {}, cut |-> FALSE]
  BY <1>1 DEF Flush, Fades, Hists
<1>3. Len(hist'.due) = 0
  BY <1>2
<1>4. Open(hist'.due, {}) = {}
  BY <1>3 DEF Open
<1>5. ~Mixing'
  BY <1>2 DEF Mixing
<1>6. QED
  BY <1>2, <1>4, <1>5, OwedPlainly

(* What strm f cuts is owed no longer: the frames of the track that has    *)
(* not begun, and no other.                                                *)
LEMMA FlushStreamingOwed ==
  ASSUME StoreInv, OwedInv, ~hist.broken, FlushStreaming
  PROVE  OwedInv'
<1>1. /\ hist.due \in Seq(Nat) /\ hist \in Hists /\ ring \in Rings /\ ring.r \in Cells
      /\ owed \in [frames : SUBSET Nat, cut : BOOLEAN] /\ owed.frames \in SUBSET Nat
      /\ owed.cut \in BOOLEAN /\ hist.first \in Nat /\ output.mark \in Cells \cup {None}
      /\ ~owed.cut => owed.frames = Open(hist.due, MixedPlaces)
      /\ ~Mixing => MixedPlaces = {}
  BY OwedFacts, RingFacts, OtherFacts
<1>2. fade' = fade
  BY DEF FlushStreaming
<1>3. CASE output.mark = None
  <2>1. ring' = ring /\ hist' = hist /\ owed' = owed
    BY <1>3 DEF FlushStreaming
  <2>2. QED
    BY <1>2, <2>1, OwedSame
<1>4. CASE output.mark # None
  <2> DEFINE kept == Before(hist.due, hist.first)
             rest == {x \in owed.frames : x < hist.first}
             d    == Distance(ring.r, output.mark)
  <2>1. owed' = [frames |-> rest, cut |-> owed.cut \/ Mixing]
    BY <1>4 DEF FlushStreaming
  <2>2. hist'.due = kept /\ hist'.broken = (hist.passed \/ hist.moved)
    BY <1>1, <1>4 DEF FlushStreaming, Hists
  <2>3. owed' \in [frames : SUBSET Nat, cut : BOOLEAN]
    BY <1>1, <2>1 DEF Mixing
  <2>4. CASE Mixing
    BY <2>1, <2>3, <2>4 DEF OwedInv
  <2>5. CASE ~Mixing
    <3>1. ~Mixing'
      BY <1>2, <2>5 DEF Mixing
    <3>2. ASSUME ~hist'.broken, ~owed'.cut
          PROVE  rest = Open(kept, {})
      <4>1. owed.frames = Open(hist.due, {})
        BY <1>1, <2>1, <2>5, <3>2
      <4>2. d <= Len(hist.due) /\ \A i \in 1..Len(hist.due) : hist.due[i] < hist.first <=> i <= d
        BY <1>4, <2>2, <3>2 DEF StoreInv, MarkInv
      <4>3. d \in Nat
        BY <1>1, <1>4, Apart, Numbers
      <4> HIDE DEF d
      <4>4. d \in 0..Len(hist.due)
        BY <1>1, <4>2, <4>3
      <4>5. kept = SubSeq(hist.due, 1, d)
        BY <1>1, <4>2, <4>4, Cut
      <4>6. Len(kept) = d /\ \A i \in 1..d : kept[i] = hist.due[i]
        BY <1>1, <4>4, <4>5
      <4>7. \A i \in 1..d : i \in 1..Len(hist.due)
        BY <1>1, <4>4
      <4> HIDE DEF kept
      <4>8. ASSUME NEW x
            PROVE  /\ x \in Open(hist.due, {}) <=> \E i \in 1..Len(hist.due) : x = hist.due[i]
                   /\ x \in Open(kept, {}) <=> \E i \in 1..d : x = hist.due[i]
        BY <4>6 DEF Open
      <4>9. \A i \in 1..Len(hist.due) : i <= d <=> i \in 1..d
        BY <1>1, <4>4
      <4>10. ASSUME NEW x
             PROVE  x \in Open(hist.due, {}) /\ x < hist.first <=> x \in Open(kept, {})
        BY <4>2, <4>7, <4>8, <4>9
      <4>11. QED
        BY <4>1, <4>10
    <3>3. QED
      BY <2>1, <2>2, <2>3, <3>1, <3>2, OwedPlainly
  <2>6. QED
    BY <2>4, <2>5
<1>5. QED
  BY <1>3, <1>4

(* What a turn of the loop gives to write_cb is next in line. *)
InLine == owed.cut \/ Spoilt \/ NextInLine(heard'.frames, owed.frames)

(* A piece written without a jump, when no crossfade is left under way. *)
LEMMA PieceGiven ==
  ASSUME StoreInv, ~hist.broken, output.mark # ring.r,
         NEW m \in 0..ToMark, NEW gain, NEW mix, Written(Piece(m), 0, gain, mix),
         hist'.due = Dropped(hist.due, Piece(m)), hist'.last = hist.last,
         hist'.first = hist.first, hist'.moved = hist.moved, hist'.passed = hist.passed,
         NEW base \in [frames : SUBSET Nat, cut : BOOLEAN],
         ~base.cut => base.frames = Open(hist.due, {}),
         owed' = [base EXCEPT !.frames = @ \ Given], ~Mixing'
  PROVE  OwedInv' /\ (base.cut \/ NextInLine(heard'.frames, base.frames))
<1> DEFINE n == Piece(m)
<1>1. /\ n \in Nat /\ n <= Len(hist.due)
      /\ heard'.frames = [k \in 1..n |-> hist.due[k]]
  BY PieceHeard
<1>2. hist.due \in Seq(Nat) /\ Upwards(hist.due, hist.last) /\ hist.last \in Nat
  BY RingFacts, OtherFacts DEF StoreInv
<1>3. hist'.due = Dropped(hist.due, n)
  OBVIOUS
<1> HIDE DEF n
<1>4. /\ owed' \in [frames : SUBSET Nat, cut : BOOLEAN] /\ owed'.cut = base.cut
      /\ owed'.frames = base.frames \ ToSet(heard'.frames)
  BY DEF Given
<1>5. Run(heard'.frames, hist.due, 0, n) /\ Past(hist.due, 0, n, {}, {}) /\ 0 + n = n
  BY <1>1 DEF Run, Past
<1>6. ASSUME ~base.cut
      PROVE  /\ NextInLine(heard'.frames, base.frames)
             /\ owed'.frames = Open(hist'.due, {})
  <2>1. NextInLine(heard'.frames, Open(hist.due, {}))
    BY <1>2, <1>5, OpenNext
  <2>2. Open(hist.due, {}) \ ToSet(heard'.frames) = Open(Dropped(hist.due, 0 + n), {})
    BY <1>2, <1>5, OpenRest
  <2>3. QED
    BY <1>3, <1>4, <1>5, <1>6, <2>1, <2>2
<1>7. OwedInv'
  BY <1>4, <1>6, OwedPlainly
<1>8. QED
  BY <1>6, <1>7

LEMMA PlainOwed ==
  ASSUME StoreInv, OwedInv, ~hist.broken, output.mark # ring.r, Plain
  PROVE  OwedInv' /\ InLine
<1> DEFINE m == IF fade.state = "DUE" THEN UpTo(ToMark, fade.from) ELSE ToMark
<1>1. /\ TypeInv /\ hist \in Hists /\ ContRead \in Nat
      /\ owed \in [frames : SUBSET Nat, cut : BOOLEAN]
      /\ ~owed.cut => owed.frames = Open(hist.due, MixedPlaces)
      /\ ~Mixing => MixedPlaces = {}
      /\ fade.from \in Cells
  BY OwedFacts, OtherFacts, RingFacts, Numbers
<1>2. /\ ~Active /\ Written(Piece(m), 0, Full, None) /\ hist' = Heard(Piece(m)) /\ fade' = fade
      /\ owed' = [owed EXCEPT !.frames = @ \ Given]
  BY DEF Plain
<1>3. m \in 0..ToMark
  <2>1. ToMark \in 0..ContRead /\ UpTo(ToMark, fade.from) \in 0..ToMark
    BY <1>1, Reach
  <2>2. QED
    BY <1>1, <2>1
<1> HIDE DEF m
<1>4. /\ hist'.due = Dropped(hist.due, Piece(m)) /\ hist'.last = hist.last
      /\ hist'.first = hist.first /\ hist'.moved = hist.moved /\ hist'.passed = hist.passed
  BY <1>1, <1>2 DEF Heard, Hists
<1>5. ~Mixing /\ ~Mixing'
  BY <1>2 DEF Active, Mixing
<1>6. OwedInv' /\ (owed.cut \/ NextInLine(heard'.frames, owed.frames))
  BY <1>1, <1>2, <1>3, <1>4, <1>5, PieceGiven
<1>7. QED
  BY <1>6 DEF InLine

LEMMA FadingOwed ==
  ASSUME StoreInv, OwedInv, ~hist.broken, output.mark # ring.r, Fading
  PROVE  OwedInv' /\ InLine
<1> DEFINE m  == UpTo(ToMark, fade.to)
           at == IF fade.dir = "DOWN" THEN Extent - Position ELSE Position
<1>1. /\ TypeInv /\ hist \in Hists /\ ContRead \in Nat /\ fade \in Fades
      /\ owed \in [frames : SUBSET Nat, cut : BOOLEAN]
      /\ ~owed.cut => owed.frames = Open(hist.due, MixedPlaces)
      /\ ~Mixing => MixedPlaces = {}
      /\ fade.to \in Cells
  BY OwedFacts, OtherFacts, RingFacts, Numbers
<1>2. /\ fade.dir \in {"UP", "DOWN"} /\ fade' = [fade EXCEPT !.state = "ACTIVE"]
      /\ Written(Piece(m), 0, [dir |-> fade.dir, at |-> at, of |-> Extent], None)
      /\ hist' = Heard(Piece(m))
      /\ owed' = [owed EXCEPT !.frames = @ \ Given]
  BY DEF Fading
<1>3. m \in 0..ToMark
  BY <1>1, Reach
<1> HIDE DEF m
<1>4. /\ hist'.due = Dropped(hist.due, Piece(m)) /\ hist'.last = hist.last
      /\ hist'.first = hist.first /\ hist'.moved = hist.moved /\ hist'.passed = hist.passed
  BY <1>1, <1>2 DEF Heard, Hists
<1>5. ~Mixing /\ ~Mixing'
  BY <1>1, <1>2 DEF Mixing, Fades
<1>6. OwedInv' /\ (owed.cut \/ NextInLine(heard'.frames, owed.frames))
  BY <1>1, <1>2, <1>3, <1>4, <1>5, PieceGiven
<1>7. QED
  BY <1>6 DEF InLine

LEMMA TurnsUpOwed ==
  ASSUME StoreInv, OwedInv, ~hist.broken, output.mark # ring.r, TurnsUp
  PROVE  OwedInv' /\ InLine
<1> DEFINE to == Forward(ring.r, Extent)
           m  == UpTo(ToMark, to)
           up == [Faded("UP", << >>, Coming(Extent)) EXCEPT !.lost = hist.lost]
<1>1. /\ TypeInv /\ hist \in Hists /\ ContRead \in Nat /\ fade \in Fades
      /\ owed \in [frames : SUBSET Nat, cut : BOOLEAN]
      /\ ~owed.cut => owed.frames = Open(hist.due, MixedPlaces)
      /\ ~Mixing => MixedPlaces = {}
      /\ ring.r \in Cells /\ Extent \in Cells
  BY OwedFacts, FadeFacts, RingFacts, Numbers
<1>2. to \in Cells
  BY <1>1, Around, Numbers
<1>3. /\ Turned /\ Written(Piece(m), 0, [dir |-> "UP", at |-> 0, of |-> Extent], None)
      /\ hist' = [up EXCEPT !.due = Dropped(@, Piece(m))]
      /\ fade' = [fade EXCEPT !.state = "ACTIVE", !.dir = "UP", !.from = ring.r, !.to = to]
      /\ owed' = [owed EXCEPT !.frames = @ \ Given]
  BY DEF TurnsUp
<1>4. m \in 0..ToMark
  BY <1>1, <1>2, Reach
<1> HIDE DEF m, to
<1>5. /\ hist'.due = Dropped(hist.due, Piece(m)) /\ hist'.last = hist.last
      /\ hist'.first = hist.first /\ hist'.moved = hist.moved /\ hist'.passed = hist.passed
  BY <1>1, <1>3 DEF Faded, Hists
<1>6. ~Mixing /\ ~Mixing'
  BY <1>1, <1>3 DEF Mixing, Turned, Fades
<1> HIDE DEF up
<1>7. OwedInv' /\ (owed.cut \/ NextInLine(heard'.frames, owed.frames))
  BY <1>1, <1>3, <1>4, <1>5, <1>6, PieceGiven
<1>8. QED
  BY <1>7 DEF InLine

(* A piece of a crossfade stays short of what was mixed in already. *)
LEMMA CrossPiece ==
  ASSUME StoreInv, OwedInv, ~hist.broken, output.mark # ring.r, Active, Position < Extent,
         NEW gain, NEW mix, Written(Piece(UpTo(ToMark, fade.to)), 0, gain, mix),
         hist'.due = Dropped(hist.due, Piece(UpTo(ToMark, fade.to))), hist'.last = hist.last,
         hist'.first = hist.first, hist'.moved = hist.moved, hist'.passed = hist.passed
  PROVE  LET n == Piece(UpTo(ToMark, fade.to))
         IN  /\ UpTo(ToMark, fade.to) \in 0..ToMark
             /\ n \in Nat /\ Position + n <= Extent /\ n <= turn.size
             /\ ring'.r = Forward(ring.r, n)
             /\ Run(heard'.frames, hist.due, 0, n) /\ \A k \in 1..n : 0 + k \notin MixedPlaces
             /\ owed.cut \/ NextInLine(heard'.frames, owed.frames)
<1> DEFINE m == UpTo(ToMark, fade.to)
           n == Piece(m)
<1>1. /\ TypeInv /\ hist.due \in Seq(Nat) /\ ContRead \in Nat /\ Upwards(hist.due, hist.last)
      /\ fade.from \in Cells /\ fade.to \in Cells /\ ring.r \in Cells
      /\ Extent \in Nat /\ Position \in Nat /\ hist.last \in Nat
      /\ ~owed.cut => owed.frames = Open(hist.due, MixedPlaces)
  BY OwedFacts, OtherFacts, RingFacts, Numbers
<1>2. m \in 0..ToMark /\ ToMark \in 0..ContRead
      /\ (fade.to # ring.r => m <= Distance(ring.r, fade.to))
  BY <1>1, Reach
<1>3. fade.to # ring.r /\ Distance(ring.r, fade.to) = Extent - Position
  BY <1>1, Remains DEF Extent, Position
<1>4. m \in Nat /\ m <= Extent - Position
  BY <1>1, <1>2, <1>3
<1> HIDE DEF m
<1>5. /\ n \in Nat /\ n <= m /\ n <= turn.size /\ Moves(n) /\ n <= Len(hist.due)
      /\ heard'.frames = [k \in 1..n |-> hist.due[k]]
  BY <1>2, PieceHeard DEF m
<1>6. ring'.r = Forward(ring.r, n)
  BY <1>5 DEF Moves
<1> HIDE DEF n
<1>7. Position + n <= Extent
  BY <1>1, <1>4, <1>5
<1>8. Run(heard'.frames, hist.due, 0, n)
  BY <1>5 DEF Run
<1>9. \A k \in 1..n : 0 + k \notin MixedPlaces
  BY <1>1, <1>5, <1>7 DEF MixedPlaces
<1>10. owed.cut \/ NextInLine(heard'.frames, owed.frames)
  <2> DEFINE after == {i \in 1..Len(hist.due) : 0 + n + i \in MixedPlaces}
  <2>1. \A i \in 1..Len(hist.due) - (0 + n) : i \in 1..Len(hist.due)
    BY <1>1, <1>5
  <2>2. Past(hist.due, 0, n, MixedPlaces, after)
    BY <1>9, <2>1 DEF Past
  <2> HIDE DEF after
  <2>3. NextInLine(heard'.frames, Open(hist.due, MixedPlaces))
    BY <1>1, <1>8, <2>2, OpenNext
  <2>4. QED
    BY <1>1, <2>3
<1>11. QED
  BY <1>2, <1>5, <1>6, <1>7, <1>8, <1>9, <1>10 DEF m, n

LEMMA CrossFailsOwed ==
  ASSUME StoreInv, OwedInv, ~hist.broken, output.mark # ring.r, CrossFails
  PROVE  OwedInv' /\ InLine
<1> DEFINE m == UpTo(ToMark, fade.to)
<1>1. /\ hist \in Hists /\ fade \in Fades
      /\ Resumed \in [frames : SUBSET Nat, cut : BOOLEAN]
      /\ ~Resumed.cut => Resumed.frames = Open(hist.due, {})
  BY OwedFacts, ResumedOpen
<1>2. /\ Active /\ Position < Extent /\ Written(Piece(m), 0, Full, None) /\ fade' = Inactive
      /\ hist' = [Heard(Piece(m)) EXCEPT !.window = NoWindow, !.lost = FALSE]
      /\ owed' = [Resumed EXCEPT !.frames = @ \ Given]
  BY DEF CrossFails
<1>3. /\ hist'.due = Dropped(hist.due, Piece(m)) /\ hist'.last = hist.last
      /\ hist'.first = hist.first /\ hist'.moved = hist.moved /\ hist'.passed = hist.passed
  BY <1>1, <1>2 DEF Heard, Hists
<1>4. ~Mixing'
  BY <1>1, <1>2 DEF Mixing, Inactive, Fades
<1>5. m \in 0..ToMark /\ (owed.cut \/ NextInLine(heard'.frames, owed.frames))
  BY <1>2, <1>3, CrossPiece
<1> HIDE DEF m
<1>6. OwedInv'
  BY <1>1, <1>2, <1>3, <1>4, <1>5, PieceGiven
<1>7. QED
  BY <1>5, <1>6 DEF InLine

(* What a crossfade mixes in is what lies its length ahead of readp. *)
LEMMA CellAhead ==
  ASSUME StoreInv, OwedInv, ~hist.broken, NEW i \in Nat, NEW p \in Nat, p = Position + i,
         p < Extent, NEW x \in Nat, x = Extent + i + 1, x <= Len(hist.due)
  PROVE  ring.mem[Forward(fade.to, p)] = hist.due[x]
<1>1. /\ Extent \in Nat /\ Position \in Nat /\ Len(hist.due) = Used /\ TypeInv
      /\ hist.due \in Seq(Nat)
  BY OwedFacts
<1>2. fade.from \in Cells /\ fade.to \in Cells /\ ring.r \in Cells /\ Used \in Cells
  BY <1>1, OtherFacts, RingFacts
<1>3. fade.to \in Nat /\ fade.to < Size /\ Used < Size /\ Size \in Nat
  BY <1>2, Numbers DEF Cells
<1>4. /\ Distance(fade.from, ring.r) = Position /\ Distance(fade.from, fade.to) = Extent
      /\ Position + i < Extent /\ Extent + i <= Size
  BY <1>1, <1>3 DEF Position, Extent
<1>5. Forward(ring.r, Extent + i)
        = IF fade.to + Position + i < Size THEN fade.to + Position + i
          ELSE fade.to + Position + i - Size
  <2>1. Distance(fade.from, ring.r) + i < Distance(fade.from, fade.to)
        /\ Distance(fade.from, fade.to) + i <= Size
    BY <1>4
  <2>2. LET q == fade.to + Distance(fade.from, ring.r) + i
        IN  Forward(ring.r, Distance(fade.from, fade.to) + i) = IF q < Size THEN q ELSE q - Size
    BY <1>2, <2>1, Across
  <2>3. QED
    BY <1>1, <1>3, <1>4, <2>2
<1>6. fade.to + Position + i = fade.to + p /\ p \in 0..Size
  BY <1>1, <1>3, <1>4
<1>7. Forward(fade.to, p) = IF fade.to + p < Size THEN fade.to + p ELSE fade.to + p - Size
  BY <1>2, <1>6, Around
<1>8. Forward(ring.r, Extent + i) = Forward(fade.to, p)
  BY <1>1, <1>3, <1>5, <1>6, <1>7
<1>9. x \in 1..Len(hist.due) /\ x - 1 = Extent + i
  BY <1>1, <1>3
<1>10. ring.mem[Forward(ring.r, x - 1)] = hist.due[x]
  BY <1>9 DEF StoreInv, RingInv, Holds
<1>11. QED
  BY <1>8, <1>9, <1>10

LEMMA MixedAhead ==
  ASSUME StoreInv, OwedInv, ~hist.broken, NEW n \in Nat, Position + n <= Extent,
         Extent + n <= Len(hist.due)
  PROVE  MixedIn(n) = {hist.due[i] : i \in Extent + 1..Extent + n}
<1> DEFINE ahead(k) == ring.mem[Forward(fade.to, Position + k - 1)]
<1>1. /\ Extent \in Nat /\ Position \in Nat /\ Len(hist.due) \in Nat
  BY OwedFacts
<1>2. ASSUME NEW k \in 1..n
      PROVE  ahead(k) = hist.due[Extent + k]
  <2>1. /\ k - 1 \in Nat /\ Position + k - 1 \in Nat /\ Position + k - 1 = Position + (k - 1)
        /\ Position + k - 1 < Extent /\ Extent + k \in Nat /\ Extent + k = Extent + (k - 1) + 1
        /\ Extent + k <= Len(hist.due)
    BY <1>1
  <2>2. QED
    BY <2>1, CellAhead
<1>3. MixedIn(n) = {ahead(k) : k \in 1..n}
  BY DEF MixedIn
<1> HIDE DEF ahead
<1>4. \A i \in Extent + 1..Extent + n : \E k \in 1..n : i = Extent + k
  <2>1. ASSUME NEW i \in Extent + 1..Extent + n
        PROVE  i - Extent \in 1..n /\ i = Extent + (i - Extent)
    BY <1>1
  <2>2. QED
    BY <2>1
<1>5. \A k \in 1..n : Extent + k \in Extent + 1..Extent + n
  BY <1>1
<1>6. QED
  BY <1>2, <1>3, <1>4, <1>5

LEMMA CrossingOwed ==
  ASSUME StoreInv, OwedInv, ~hist.broken, output.mark # ring.r, Crossing
  PROVE  OwedInv' /\ InLine
<1> DEFINE n     == Piece(UpTo(ToMark, fade.to))
           taken == Extent + 1..Extent + n
           mixed == Extent - Position + 1..Extent
           after == Extent - (Position + n) + 1..Extent
<1>1. /\ TypeInv /\ hist \in Hists /\ hist.due \in Seq(Nat) /\ Len(hist.due) = Used /\ Used \in Nat
      /\ Upwards(hist.due, hist.last) /\ hist.last \in Nat /\ fade \in Fades
      /\ owed \in [frames : SUBSET Nat, cut : BOOLEAN] /\ owed.frames \in SUBSET Nat
      /\ ~owed.cut => owed.frames = Open(hist.due, MixedPlaces)
      /\ Extent \in Nat /\ Position \in Nat /\ Extent < Size
      /\ fade.from \in Cells /\ ring.r \in Cells /\ turn.size \in Nat
  <2>1. /\ TypeInv /\ hist \in Hists /\ hist.due \in Seq(Nat) /\ Len(hist.due) = Used /\ Used \in Nat
        /\ Upwards(hist.due, hist.last) /\ hist.last \in Nat /\ fade \in Fades
        /\ owed \in [frames : SUBSET Nat, cut : BOOLEAN] /\ owed.frames \in SUBSET Nat
        /\ ~owed.cut => owed.frames = Open(hist.due, MixedPlaces)
        /\ Extent \in Nat /\ Position \in Nat
    BY OwedFacts
  <2>2. Extent < Size /\ Extent \in Cells
    BY <2>1, FadeFacts, Numbers DEF Cells
  <2>3. fade.from \in Cells /\ ring.r \in Cells
    BY <2>1, OtherFacts, RingFacts
  <2>4. turn.size \in Nat
    BY <2>1, FadesAssumption DEF TypeInv, TypeOK, Turns
  <2>5. QED
    BY <2>1, <2>2, <2>3, <2>4
<1>2. /\ Active /\ Position < Extent /\ fade.dir = "CROSS" /\ Enough
      /\ Written(n, 0, [dir |-> "CROSS", at |-> Position, of |-> Extent], fade.to + Position)
      /\ hist' = Heard(n) /\ fade' = [fade EXCEPT !.state = "ACTIVE"]
      /\ owed' = [owed EXCEPT !.frames = @ \ (Given \cup MixedIn(n))]
  BY DEF Crossing
<1>3. /\ hist'.due = Dropped(hist.due, n) /\ hist'.last = hist.last /\ hist'.broken = hist.broken
      /\ hist'.first = hist.first /\ hist'.moved = hist.moved /\ hist'.passed = hist.passed
  BY <1>1, <1>2 DEF Heard, Hists
<1>4. /\ n \in Nat /\ Position + n <= Extent /\ n <= turn.size
      /\ ring'.r = Forward(ring.r, n)
      /\ Run(heard'.frames, hist.due, 0, n) /\ \A k \in 1..n : 0 + k \notin MixedPlaces
      /\ owed.cut \/ NextInLine(heard'.frames, owed.frames)
  BY <1>2, <1>3, CrossPiece
<1> HIDE DEF n
<1>5. Extent + n <= Len(hist.due) /\ Len(Dropped(hist.due, n)) = Len(hist.due) - n
      /\ 0 + n = n
  <2>1. Used > Extent + turn.size
    <3>1. Enough
      BY <1>2
    <3>2. QED
      BY <3>1 DEF Enough
  <2>2. n <= Len(hist.due)
    BY <1>1, <1>4, <2>1
  <2>3. Len(Dropped(hist.due, n)) = Len(hist.due) - n
    BY <1>1, <1>4, <2>2, Parts
  <2>4. QED
    BY <1>1, <1>4, <2>1, <2>3
<1>6. /\ owed' \in [frames : SUBSET Nat, cut : BOOLEAN] /\ owed'.cut = owed.cut
      /\ owed'.frames = (owed.frames \ MixedIn(n)) \ ToSet(heard'.frames)
  BY <1>1, <1>2 DEF Given
<1>7. Mixing' /\ Extent' = Extent /\ Position' = Position + n
  <2>1. /\ fade'.state = "ACTIVE" /\ fade'.dir = fade.dir /\ fade'.from = fade.from
        /\ fade'.to = fade.to
    BY <1>1, <1>2 DEF Fades
  <2>2. n \in 0..Size /\ Distance(fade.from, ring.r) + n < Size
    BY <1>1, <1>4, Numbers DEF Position
  <2>3. Distance(fade.from, Forward(ring.r, n)) = Distance(fade.from, ring.r) + n
    BY <1>1, <2>2, Ahead
  <2>4. QED
    BY <1>2, <1>4, <2>1, <2>3 DEF Mixing, Extent, Position
<1>8. MixedPlaces' = after
  BY <1>7 DEF MixedPlaces
<1>9. MixedPlaces = mixed
  <2>1. CASE Mixing
    BY <2>1 DEF MixedPlaces
  <2>2. CASE ~Mixing
    <3>1. fade.from = ring.r
      BY <1>2, <2>2 DEF Active, Met, Mixing
    <3>2. Position = 0
      BY <1>1, <3>1, Arrives DEF Position
    <3>3. mixed = {}
      BY <1>1, <3>2
    <3>4. QED
      BY <2>2, <3>3 DEF MixedPlaces
  <2>3. QED
    BY <2>1, <2>2
<1>10. ASSUME ~owed.cut
       PROVE  owed'.frames = Open(hist'.due, MixedPlaces')
  <2>1. taken \in SUBSET (1..Len(hist.due))
    BY <1>1, <1>4, <1>5
  <2>2. MixedIn(n) = {hist.due[i] : i \in taken}
    BY <1>4, <1>5, MixedAhead
  <2>3. Past(hist.due, 0, n, mixed \cup taken, after)
    <3>1. \A k \in 1..n : 0 + k \notin mixed \cup taken
      BY <1>1, <1>4
    <3>2. \A i \in 1..Len(hist.due) - (0 + n) : i \in after <=> 0 + n + i \in mixed \cup taken
      BY <1>1, <1>4, <1>5
    <3>3. QED
      BY <3>1, <3>2 DEF Past
  <2> HIDE DEF taken, mixed, after
  <2>4. Open(hist.due, mixed) \ MixedIn(n) = Open(hist.due, mixed \cup taken)
    <3>1. Open(hist.due, mixed) \ {hist.due[i] : i \in taken} = Open(hist.due, mixed \cup taken)
      BY <1>1, <2>1, OpenLess
    <3>2. QED
      BY <2>2, <3>1
  <2>5. Open(hist.due, mixed \cup taken) \ ToSet(heard'.frames) = Open(Dropped(hist.due, 0 + n), after)
    BY <1>1, <1>4, <2>3, OpenRest
  <2>6. QED
    BY <1>1, <1>3, <1>5, <1>6, <1>8, <1>9, <1>10, <2>4, <2>5
<1>11. OwedInv'
  <2>1. Extent' <= Len(hist'.due)
    BY <1>1, <1>3, <1>4, <1>5, <1>7
  <2>2. QED
    BY <1>6, <1>10, <2>1 DEF OwedInv
<1>12. QED
  BY <1>4, <1>11 DEF InLine

(* What is given at the end of a fade comes after what is skipped. *)
EndPiece(s, n) == s = (IF Skips THEN Extent ELSE 0) /\ n = Piece(ToMark)

LEMMA EndGives ==
  ASSUME StoreInv, ~hist.broken, output.mark # ring.r, FadeEnds, NEW s, NEW n, EndPiece(s, n)
  PROVE  /\ fade'.state = "INACTIVE" /\ s \in 0..Len(hist.due) /\ n \in Nat
         /\ ~hist'.broken => /\ Run(heard'.frames, hist.due, s, n)
                             /\ hist'.due = Dropped(hist.due, s + n)
<1>1. /\ TypeInv /\ RingInv /\ hist \in Hists /\ fade \in Fades /\ hist.due \in Seq(Nat)
      /\ Len(hist.due) = Used /\ Used \in Nat /\ Used \in Cells /\ ContRead \in 0..Used
      /\ ring.r \in Cells /\ ring.r + ContRead <= Size
  BY RingFacts, OtherFacts, Numbers DEF StoreInv
<1>2. Extent \in Cells /\ Extent \in Nat
  BY <1>1, FadeFacts
<1>3. s \in 0..Used /\ s \in Cells /\ s \in Nat
  BY <1>1, <1>2, Numbers DEF Skips, EndPiece
<1>4. n \in 0..ToMark /\ n \in 0..turn.size /\ ToMark \in 0..ContRead
  <2>1. ToMark \in 0..ContRead
    BY <1>1, Reach
  <2>2. ToMark \in 0..ToMark
    BY <1>1, <2>1
  <2>3. QED
    BY <1>1, <2>1, <2>2, Reach DEF EndPiece
<1>5. n \in Nat /\ n <= Used /\ n <= Size /\ ring.r + n <= Size
  BY <1>1, <1>4, Numbers DEF Cells
<1> DEFINE b == s > 0 /\ (n > Used - s \/ Forward(ring.r, s) + n > Size)
<1>6. /\ Written(n, s, Full, None) /\ fade' = Inactive
      /\ hist'.due = Dropped(hist.due, s + n) /\ hist'.broken = b
  BY <1>1 DEF FadeEnds, Heard, Hists, EndPiece
<1> HIDE DEF b
<1>7. fade'.state = "INACTIVE"
  BY <1>1, <1>6 DEF Inactive, Fades
<1>8. ASSUME ~hist'.broken
      PROVE  Run(heard'.frames, hist.due, s, n)
  <2>1. s + n <= Used /\ Forward(ring.r, s) + n <= Size
    <3>1. Forward(ring.r, s) \in Nat /\ Forward(ring.r, 0) = ring.r /\ Size \in Nat
      <4>1. s \in 0..Size
        BY <1>3, Numbers DEF Cells
      <4>2. Forward(ring.r, s) \in Cells /\ Forward(ring.r, 0) = ring.r
        BY <1>1, <4>1, Around, Nowhere
      <4>3. QED
        BY <4>2, Numbers
    <3>2. CASE s > 0
      <4>1. ~b
        BY <1>6, <1>8
      <4>2. QED
        BY <1>1, <1>3, <1>5, <3>1, <3>2, <4>1 DEF b
    <3>3. CASE s = 0
      BY <1>1, <1>5, <3>1, <3>3
    <3>4. QED
      BY <1>3, <3>2, <3>3
  <2>2. Writes(s, n)
    BY <1>1, <1>3, <1>4, <1>5, <1>6, WrittenWrites
  <2>3. \A k \in 1..n : Cell(Forward(ring.r, s) + k - 1) = hist.due[s + k]
    BY <1>1, <1>3, <1>5, <2>1, HeldAhead
  <2>4. heard'.frames = [k \in 1..n |-> Cell(Forward(ring.r, s) + k - 1)]
    BY <2>2 DEF Writes
  <2>5. QED
    BY <1>1, <1>3, <1>5, <2>1, <2>3, <2>4 DEF Run
<1>9. QED
  BY <1>1, <1>3, <1>5, <1>6, <1>7, <1>8

(* A crossfade that ends skips as much as it has mixed in, or is spoilt. *)
LEMMA EndOwed ==
  ASSUME StoreInv, OwedInv, ~hist.broken, output.mark # ring.r, FadeEnds
  PROVE  OwedInv' /\ (hist'.broken \/ InLine)
<1> DEFINE s == IF Skips THEN Extent ELSE 0
           n == Piece(ToMark)
<1>1. /\ TypeInv /\ hist.due \in Seq(Nat) /\ Upwards(hist.due, hist.last) /\ hist.last \in Nat
      /\ Len(hist.due) \in Nat /\ owed.frames \in SUBSET Nat
      /\ ~owed.cut => owed.frames = Open(hist.due, MixedPlaces)
      /\ ~Mixing => MixedPlaces = {}
      /\ Extent \in Nat /\ Position \in Nat
  BY OwedFacts
<1>2. fade.from \in Cells /\ ring.r \in Cells
  BY <1>1, OtherFacts, RingFacts
<1>3. /\ Over
      /\ owed' = [frames |-> (IF Spoilt THEN ToSet(Dropped(hist.due, s)) ELSE owed.frames) \ Given,
                  cut |-> FALSE]
  BY DEF FadeEnds
<1>4. s \in Nat /\ EndPiece(s, n)
  BY <1>1 DEF EndPiece
<1> HIDE DEF s, n
<1>5. /\ fade'.state = "INACTIVE" /\ s \in 0..Len(hist.due) /\ n \in Nat
      /\ ~hist'.broken => /\ Run(heard'.frames, hist.due, s, n)
                          /\ hist'.due = Dropped(hist.due, s + n)
  BY <1>4, EndGives
<1>6. ~Mixing'
  BY <1>5 DEF Mixing
<1> DEFINE left == Dropped(hist.due, s)
<1>7. left \in Seq(Nat)
  BY <1>1, <1>4, Parts
<1>8. ToSet(left) = Open(left, {}) /\ ToSet(left) \in SUBSET Nat
  BY <1>7, OpenAll
<1>9. /\ owed' \in [frames : SUBSET Nat, cut : BOOLEAN]
      /\ owed'.frames = (IF Spoilt THEN ToSet(left) ELSE owed.frames) \ ToSet(heard'.frames)
  BY <1>1, <1>3, <1>8 DEF Given
<1>10. ASSUME ~hist'.broken, Spoilt
       PROVE  owed'.frames = Open(hist'.due, {})
  <2> DEFINE before == 1..s
  <2>1. Open(hist.due, before) = Open(left, {})
    <3>1. \A i \in 1..Len(hist.due) - s : i \in {} <=> s + i \in before
      BY <1>4
    <3>2. QED
      BY <1>1, <1>5, <3>1, OpenAhead
  <2>2. Past(hist.due, s, n, before, {})
    BY <1>1, <1>4, <1>5 DEF Past
  <2> HIDE DEF before
  <2>3. Open(hist.due, before) \ ToSet(heard'.frames) = Open(Dropped(hist.due, s + n), {})
    BY <1>1, <1>5, <1>10, <2>2, OpenRest
  <2>4. QED
    BY <1>5, <1>8, <1>9, <1>10, <2>1, <2>3
<1>11. ASSUME ~hist'.broken, ~Spoilt
       PROVE  /\ owed'.frames = Open(hist'.due, {})
              /\ NextInLine(heard'.frames, owed.frames)
  <2>1. ~owed.cut /\ (fade.dir = "CROSS" <=> Skips)
    BY <1>3, <1>11 DEF Spoilt
  <2>2. Past(hist.due, s, n, MixedPlaces, {})
    <3>1. CASE Mixing
      <4>1. s = Extent /\ Position >= Extent
        BY <1>3, <1>4, <2>1, <3>1 DEF Mixing, Over, EndPiece
      <4>2. MixedPlaces = Extent - Position + 1..Extent
        BY <3>1 DEF MixedPlaces
      <4>3. QED
        BY <1>1, <1>5, <4>1, <4>2 DEF Past
    <3>2. CASE ~Mixing
      <4>1. s = 0
        <5>1. CASE Skips
          <6>1. fade.from = ring.r
            BY <1>3, <2>1, <3>2, <5>1 DEF Mixing, Over, Active, Met
          <6>2. Position = 0
            BY <1>2, <6>1, Arrives DEF Position
          <6>3. QED
            BY <1>1, <1>3, <1>4, <6>2 DEF Over, EndPiece
        <5>2. QED
          BY <1>4, <5>1 DEF EndPiece
      <4>2. QED
        BY <1>1, <1>5, <3>2, <4>1 DEF Past
    <3>3. QED
      BY <3>1, <3>2
  <2>3. NextInLine(heard'.frames, Open(hist.due, MixedPlaces))
    BY <1>1, <1>5, <1>11, <2>2, OpenNext
  <2>4. Open(hist.due, MixedPlaces) \ ToSet(heard'.frames) = Open(Dropped(hist.due, s + n), {})
    BY <1>1, <1>5, <1>11, <2>2, OpenRest
  <2>5. QED
    BY <1>1, <1>5, <1>9, <1>11, <2>1, <2>3, <2>4
<1>12. OwedInv'
  BY <1>6, <1>9, <1>10, <1>11, OwedPlainly
<1>13. QED
  <2>1. CASE hist'.broken
    BY <1>12, <2>1
  <2>2. CASE ~hist'.broken
    BY <1>11, <1>12, <2>2 DEF InLine
  <2>3. QED
    BY <2>1, <2>2

LEMMA TurnOwed ==
  ASSUME StoreInv, OwedInv, ~hist.broken, Turn
  PROVE  OwedInv' /\ (hist'.broken \/ InLine)
<1>1. output.mark # ring.r
  BY DEF Turn
<1>2. CASE Plain
  BY <1>1, <1>2, PlainOwed
<1>3. CASE Fading
  BY <1>1, <1>3, FadingOwed
<1>4. CASE TurnsUp
  BY <1>1, <1>4, TurnsUpOwed
<1>5. CASE Crossing
  BY <1>1, <1>5, CrossingOwed
<1>6. CASE CrossFails
  BY <1>1, <1>6, CrossFailsOwed
<1>7. CASE FadeEnds
  BY <1>1, <1>7, EndOwed
<1>8. QED
  BY <1>2, <1>3, <1>4, <1>5, <1>6, <1>7 DEF Turn

LEMMA OwedNext ==
  ASSUME StoreInv, PieceInv, OwedInv, Next
  PROVE  OwedInv' /\ InOrder
<1>1. ~hist.broken /\ TypeInv
  BY DEF Next, StoreInv
<1>2. ASSUME Rests, owed' = owed
      PROVE  OwedInv' /\ InOrder
  <2>1. heard' = Nothing
    BY <1>2 DEF Rests
  <2>2. OwedInv'
    BY <1>2, OwedSame DEF Rests
  <2>3. QED
    BY <2>1, <2>2, NothingGiven
<1>3. CASE DecodeThread
  <2>1. heard' = Nothing
    BY <1>3 DEF DecodeThread, Begin, Decode, Complete
  <2>2. OwedInv'
    BY <1>1, <1>3, BeginOwed, DecodeOwed, CompleteOwed DEF DecodeThread
  <2>3. QED
    BY <2>1, <2>2, NothingGiven
<1>4. CASE Frames \/ Silence \/ Silent \/ AtStart
  <2>1. owed' = owed
    BY <1>4 DEF Frames, Silence, Silent, AtStart
  <2>2. QED
    BY <1>1, <1>2, <1>4, <2>1, CallRests
<1>5. CASE Skip
  <2>1. heard' = Nothing
    BY <1>5 DEF Skip
  <2>2. QED
    BY <1>1, <1>5, <2>1, SkipOwed, NothingGiven
<1>6. CASE Turn
  <2>1. PieceInv'
    BY <1>1, <1>6, TurnStep
  <2>2. OwedInv' /\ (hist'.broken \/ InLine)
    BY <1>1, <1>6, TurnOwed
  <2>3. QED
    BY <2>1, <2>2 DEF PieceInv, InLine, InOrder
<1>7. CASE \E mode \in {source.chosen, "NONE"} : Ask(mode)
  <2>1. owed' = owed
    BY <1>7 DEF Ask
  <2>2. QED
    BY <1>1, <1>2, <1>7, <2>1, AskRests
<1>8. CASE Unpause \/ \E n \in Intervals : SkipAhead(n) \/ Pause(n)
  <2>1. owed' = owed
    BY <1>8 DEF Unpause, SkipAhead, Pause
  <2>2. QED
    BY <1>1, <1>2, <1>8, <2>1, OrderRests
<1>9. CASE Flush \/ FlushStreaming
  <2>1. heard' = Nothing
    BY <1>9 DEF Flush, FlushStreaming, Order
  <2>2. OwedInv'
    BY <1>1, <1>9, FlushOwed, FlushStreamingOwed
  <2>3. QED
    BY <2>1, <2>2, NothingGiven
<1>10. QED
  BY <1>3, <1>4, <1>5, <1>6, <1>7, <1>8, <1>9 DEF Next, OutputThread

LEMMA OwedStutter ==
  ASSUME OwedInv, UNCHANGED vars
  PROVE  OwedInv'
BY DEF vars, OwedInv, MixedPlaces, Mixing, Extent, Position

(* What write_cb is given is the first that is owed still: no frame        *)
(* decoded is lost or heard twice by the marks that _output_frames finds   *)
(* left behind, by a wrap, a fade, a pause, strm a or a flush, and a       *)
(* crossfade skips as much of the new track as it has mixed in             *)
(* (output.c:138-146, 185-197), unless it was skipped or flushed into or   *)
(* ended in another mode.                                                  *)
THEOREM FadesInOrder == Spec => HeardInOrder
<1>1. Init => StoreInv /\ PieceInv /\ OwedInv
  BY StoreStart, OwedStart
<1>2. StoreInv /\ PieceInv /\ OwedInv /\ [Next]_vars => (StoreInv /\ PieceInv /\ OwedInv)'
  BY StoreNext, OwedNext, OwedStutter
<1>3. StoreInv /\ PieceInv /\ OwedInv /\ [Next]_vars => [InOrder]_vars
  BY OwedNext
<1>4. QED
  BY <1>1, <1>2, <1>3, PTL DEF Spec, HeardInOrder
=============================================================================

-------------------------- MODULE Mp4DecoderProofs --------------------------
(***************************************************************************)
(* Proofs about Mp4Decoder, for all files, sizes of streambuf and numbers  *)
(* of tracks: types and tables first, then, for files whose header tells   *)
(* where their samples are (Proper), that the decoders stay on them.       *)
(***************************************************************************)
EXTENDS Mp4Decoder, SequenceTheorems, NaturalsInduction, WellFoundedInduction, TLAPS

(* What the provers are given for a leaf, in seconds. *)
USE SMTT(20), ZenonT(40)

-----------------------------------------------------------------------------
(* Recursion.                                                              *)

(* A set of numbers that holds 0, and with each number the next, is all. *)
LEMMA Induct ==
  ASSUME NEW S, S \subseteq Nat, 0 \in S, \A n \in S : n + 1 \in S
  PROVE  S = Nat
<1> DEFINE R == {p \in Nat \X Nat : p[1] < p[2]}
           Rest == Nat \ S
<1>1. IsWellFoundedOn(R, Nat)
  BY NatLessThanWellFounded DEF OpToRel
<1>2. SUFFICES ASSUME Rest # {} PROVE FALSE
  OBVIOUS
<1>3. PICK x \in Rest : \A y \in Rest : <<y, x>> \notin R
  BY <1>1, <1>2, WFMin
<1>4. x \in Nat /\ x # 0
  OBVIOUS
<1>5. x - 1 \in Nat /\ x - 1 < x
  BY <1>4
<1>6. <<x - 1, x>> \in R
  BY <1>4, <1>5
<1>7. x - 1 \in S
  BY <1>3, <1>5, <1>6
<1>8. (x - 1) + 1 \in S
  BY <1>7
<1>9. QED
  BY <1>8, <1>4

Follows(f, a, n, g) == f[0] = a /\ \A c \in 1..n : f[c] = g[c][f[c - 1]]

(* A definition that goes from each number to the next has a solution. *)
LEMMA Recurrence ==
  ASSUME NEW D, NEW a \in D, NEW n \in Nat, NEW g \in [1..n -> [D -> D]]
  PROVE  \E f \in [0..n -> D] : Follows(f, a, n, g)
<1> DEFINE Solves(f, m) == f[0] = a /\ \A c \in 1..m : f[c] = g[c][f[c - 1]]
           Solved(m) == m <= n => \E f \in [0..m -> D] : Solves(f, m)
           S == {m \in Nat : Solved(m)}
<1>1. Solved(0)
  <2> DEFINE e == [c \in 0..0 |-> a]
  <2>1. e \in [0..0 -> D] /\ Solves(e, 0)
    OBVIOUS
  <2>2. QED
    BY <2>1
<1>2. ASSUME NEW m \in Nat, Solved(m)
      PROVE  Solved(m + 1)
  <2> HAVE m + 1 <= n
  <2>1. PICK f \in [0..m -> D] : Solves(f, m)
    <3>1. m <= n
      OBVIOUS
    <3> HIDE DEF Solves
    <3>2. QED
      BY <3>1, <1>2, Zenon
  <2> DEFINE y == g[m + 1][f[m]]
             more == [c \in 0..(m + 1) |-> IF c = m + 1 THEN y ELSE f[c]]
  <2>2. f[m] \in D /\ m + 1 \in 1..n
    OBVIOUS
  <2>3. y \in D
    BY <2>2
  <2>4. more \in [0..(m + 1) -> D]
    <3> HIDE DEF y
    <3>1. \A c \in 0..(m + 1) : c # m + 1 => c \in 0..m
      OBVIOUS
    <3>2. \A c \in 0..(m + 1) : (IF c = m + 1 THEN y ELSE f[c]) \in D
      BY <3>1, <2>3
    <3>3. QED
      BY <3>2
  <2>5. more[0] = a
    BY <2>1
  <2>6. ASSUME NEW c \in 1..(m + 1)
        PROVE  more[c] = g[c][more[c - 1]]
    <3>1. CASE c = m + 1
      <4>1. more[c] = y /\ more[c - 1] = f[m]
        BY <3>1
      <4>2. QED
        BY <4>1, <3>1
    <3>2. CASE c # m + 1
      <4>1. c \in 1..m /\ more[c] = f[c] /\ more[c - 1] = f[c - 1]
        BY <3>2
      <4>2. QED
        BY <4>1, <2>1
    <3>3. QED
      BY <3>1, <3>2
  <2>7. QED
    BY <2>4, <2>5, <2>6
<1>3. S = Nat
  <2> HIDE DEF Solved
  <2>1. S \subseteq Nat /\ 0 \in S /\ \A m \in S : m + 1 \in S
    BY <1>1, <1>2
  <2>2. QED
    BY <2>1, Induct
<1>4. PICK f \in [0..n -> D] : Solves(f, n)
  <2>1. n \in S /\ n <= n
    <3> HIDE DEF Solved
    <3> QED
      BY <1>3
  <2> HIDE DEF Solves
  <2>2. QED
    BY <2>1
<1>5. QED
  BY <1>4 DEF Follows

(* What goes from each value of a sequence to the next holds of all. *)
LEMMA Along ==
  ASSUME NEW D, NEW n \in Nat, NEW f, f[0] \in D,
         \A c \in 1..n : f[c - 1] \in D => f[c] \in D
  PROVE  \A c \in 0..n : f[c] \in D
<1> DEFINE S == {m \in Nat : m <= n => f[m] \in D}
<1>1. S \subseteq Nat /\ 0 \in S
  OBVIOUS
<1>2. ASSUME NEW m \in Nat, m \in S PROVE m + 1 \in S
  <2>1. CASE m + 1 <= n
    <3>1. f[m] \in D /\ m + 1 \in 1..n /\ (m + 1) - 1 = m
      BY <1>2, <2>1
    <3>2. QED
      BY <3>1
  <2>2. QED
    BY <2>1
<1>3. S = Nat
  <2> HIDE DEF S
  <2>1. \A m \in S : m + 1 \in S
    BY <1>1, <1>2
  <2>2. QED
    BY <1>1, <2>1, Induct
<1>4. QED
  BY <1>3

(* The numbers of samples come from the table of runs. *)
LEMMA FirstNumber ==
  ASSUME NEW runs \in Seq(Run), NEW i \in Nat \ {0}
  PROVE  FirstSample(runs, i) \in Nat
<1> DEFINE run(c) == {k \in DOMAIN runs : runs[k].first <= c
                   /\ \A m \in DOMAIN runs : runs[m].first <= c => m <= k}
           count(c, x) == IF c = 1 \/ run(c - 1) = {} THEN 0
                          ELSE x + runs[CHOOSE k \in run(c - 1) : TRUE].samples
           body(f, c) == IF c = 1 \/ run(c - 1) = {} THEN 0
                         ELSE f[c - 1] + runs[CHOOSE k \in run(c - 1) : TRUE].samples
           g == [c \in 1..i |-> [x \in Nat |-> count(c, x)]]
           first == CHOOSE f : f = [c \in 1..i |-> body(f, c)]
<1>1. FirstSample(runs, i) = first[i]
  BY DEF FirstSample
<1>2. ASSUME NEW c, run(c) # {}
      PROVE  runs[CHOOSE k \in run(c) : TRUE].samples \in Nat
  <2> DEFINE at == CHOOSE k \in run(c) : TRUE
  <2>1. at \in run(c)
    BY <1>2
  <2>2. at \in 1..Len(runs)
    BY <2>1
  <2> HIDE DEF at
  <2>3. runs[at] \in Run
    BY <2>2, ElementOfSeq
  <2>4. runs[at].samples \in Nat
    BY <2>3 DEF Run
  <2>5. QED
    BY <2>4 DEF at
<1>3. g \in [1..i -> [Nat -> Nat]]
  <2>1. ASSUME NEW c \in 1..i, NEW x \in Nat
        PROVE  count(c, x) \in Nat
    <3> HIDE DEF run
    <3> QED
      BY <1>2
  <2> HIDE DEF count
  <2>2. QED
    BY <2>1
<1>4. PICK all \in [0..i -> Nat] : \A c \in 1..i : all[c] = g[c][all[c - 1]]
  <2> DEFINE D == Nat
             a == 0
  <2>1. a \in D /\ i \in Nat /\ g \in [1..i -> [D -> D]]
    BY <1>3
  <2> HIDE DEF g, D, a
  <2>2. \E f \in [0..i -> D] : Follows(f, a, i, g)
    BY <2>1, Recurrence
  <2>3. QED
    BY <2>2 DEF D, Follows
<1> DEFINE some == [c \in 1..i |-> all[c]]
<1>5. some = [c \in 1..i |-> body(some, c)]
  <2>1. ASSUME NEW c \in 1..i
        PROVE  some[c] = body(some, c)
    <3>1. c # 1 => some[c - 1] = all[c - 1]
      OBVIOUS
    <3>2. all[c - 1] \in Nat
      OBVIOUS
    <3>3. g[c][all[c - 1]] = count(c, all[c - 1])
      <4> HIDE DEF count
      <4> QED
        BY <3>2
    <3>4. count(c, all[c - 1]) = body(some, c)
      <4> HIDE DEF run, some
      <4> QED
        BY <3>1
    <3>5. some[c] = all[c]
      OBVIOUS
    <3> HIDE DEF g, some, body, count
    <3>6. QED
      BY <3>3, <3>4, <3>5, <1>4
  <2>2. some = [c \in 1..i |-> some[c]]
    OBVIOUS
  <2> HIDE DEF some, body
  <2>3. QED
    BY <2>1, <2>2
<1>6. first = [c \in 1..i |-> body(first, c)]
  <2> HIDE DEF body
  <2>1. \E z : z = [c \in 1..i |-> body(z, c)]
    BY <1>5
  <2>2. QED
    BY <2>1, Zenon
<1>7. \A c \in 1..i : first[c] = body(first, c)
  <2> HIDE DEF body, first
  <2> QED
    BY <1>6
<1> HIDE DEF first
<1>8. first[1] \in Nat
  BY <1>7
<1>9. ASSUME NEW c \in 2..i, first[c - 1] \in Nat
      PROVE  first[c] \in Nat
  <2>1. c \in 1..i /\ c # 1
    OBVIOUS
  <2>2. first[c] = body(first, c)
    BY <1>7, <2>1
  <2>3. CASE run(c - 1) = {}
    BY <2>2, <2>3
  <2>4. CASE run(c - 1) # {}
    <3>1. runs[CHOOSE k \in run(c - 1) : TRUE].samples \in Nat
      BY <1>2, <2>4
    <3> HIDE DEF run
    <3>2. first[c] = first[c - 1] + runs[CHOOSE k \in run(c - 1) : TRUE].samples
      BY <2>1, <2>2, <2>4
    <3>3. QED
      BY <1>9, <3>1, <3>2
  <2>5. QED
    BY <2>3, <2>4
<1> DEFINE shifted == [c \in 0..(i - 1) |-> first[c + 1]]
<1>10. \A c \in 0..(i - 1) : shifted[c] \in Nat
  <2>1. shifted[0] \in Nat
    BY <1>8
  <2>2. ASSUME NEW c \in 1..(i - 1), shifted[c - 1] \in Nat
        PROVE  shifted[c] \in Nat
    <3>1. c + 1 \in 2..i /\ (c + 1) - 1 = c /\ shifted[c - 1] = first[c]
      OBVIOUS
    <3>2. first[c + 1] \in Nat
      BY <1>9, <2>2, <3>1
    <3>3. QED
      BY <3>2
  <2>3. i - 1 \in Nat
    OBVIOUS
  <2> HIDE DEF shifted
  <2>4. QED
    BY <2>1, <2>2, <2>3, Along
<1>11. first[i] = shifted[i - 1] /\ i - 1 \in 0..(i - 1)
  OBVIOUS
<1>12. QED
  BY <1>1, <1>10, <1>11

-----------------------------------------------------------------------------
(* Types.                                                                  *)

(* Tables end with a zero. *)
TablesOK(x) ==
  /\ x.chunks # NoTable => Len(x.chunks) >= 2 /\ x.chunks[Len(x.chunks)].offset = 0
  /\ x.table # NoTable => Len(x.table) >= 1 /\ x.table[Len(x.table)] = 0

(* A call in the header works on what has arrived, and while frames are    *)
(* decoded the counters are inside their tables.                           *)
CallInv ==
  /\ TablesOK(h)
  /\ dec.pc # "idle" => dec.state = "running"
  /\ dec.pc = "header" => dec.new /\ dec.bytes <= Used
  /\ dec.pc = "frame" => ~dec.new
  /\ ~dec.new => /\ h.chunks # NoTable => h.nextchunk \in 1..Len(h.chunks) - 1
                 /\ h.table # NoTable => h.block \in 0..Len(h.table) - 1

TypeInv == TypeOK /\ CallInv

(* The constants. *)
LEMMA Numbers ==
  /\ BufSize \in Nat /\ BufSize >= 2 /\ MinRead \in Nat /\ WrapLen \in Nat
  /\ PerSample \in Nat /\ PerSample >= 1 /\ Word \in Nat /\ Word >= 1
  /\ MaxTurns \in Nat /\ MaxTurns >= 1
BY Mp4Assumption

LEMMA Remainder ==
  ASSUME NEW n \in Int
  PROVE  n % Word \in 0..Word - 1
BY Numbers

(* Reading a box leaves a handle, with tables that end. *)
LEMMA ReadTyped ==
  ASSUME NEW codec, NEW x \in Handle, TablesOK(x), NEW b, BoxOK(b)
  PROVE  Read(codec, x, b) \in Handle /\ TablesOK(Read(codec, x, b))
<1> DEFINE y == Read(codec, x, b)
<1>1. CASE b.type = "moov"
  <2>1. y = [x EXCEPT !.trak = 0, !.play = 0]
    BY <1>1 DEF Read, ConfigBox
  <2>2. \A m, n \in Nat : [x EXCEPT !.trak = m, !.play = n] \in Handle
    BY DEF Handle
  <2>3. y \in Handle /\ y.chunks = x.chunks /\ y.table = x.table
    <3>1. y \in Handle
      <4>1. [x EXCEPT !.trak = 0, !.play = 0] \in Handle
        BY <2>2
      <4> HIDE DEF y
      <4>2. QED
        BY <2>1, <4>1
    <3>2. y.chunks = x.chunks
      BY <2>1 DEF Handle
    <3>3. y.table = x.table
      BY <2>1 DEF Handle
    <3>4. QED
      BY <3>1, <3>2, <3>3
  <2>4. QED
    BY <2>3 DEF TablesOK
<1>2. CASE b.type = "trak"
  <2>1. y = [x EXCEPT !.trak = @ + 1]
    BY <1>2 DEF Read, ConfigBox
  <2>2. x.trak + 1 \in Nat
    BY DEF Handle
  <2>3. QED
    BY <2>1, <2>2 DEF Handle, TablesOK
<1>3. CASE b.type \notin {"moov", "trak"} /\ b.type = ConfigBox(codec)
  <2>1. y = ReadConfig(codec, x, b)
    BY <1>3 DEF Read, ConfigBox
  <2>2. b.playable \in BOOLEAN
    BY <1>3 DEF ConfigBox, BoxOK
  <2>3. QED
    BY <2>1, <2>2 DEF ReadConfig, Handle, TablesOK
<1>4. CASE b.type = "stsz"
  <2>1. y = x \/ y = ReadSizes(x, b)
    BY <1>4 DEF Read, ConfigBox
  <2>2. b.default \in Nat /\ b.sizes \in Seq(Nat)
    BY <1>4 DEF BoxOK
  <2>3. Append(b.sizes, 0) \in Seq(Nat) /\ Len(Append(b.sizes, 0)) = Len(b.sizes) + 1
        /\ Append(b.sizes, 0)[Len(b.sizes) + 1] = 0
    BY <2>2
  <2>4. ReadSizes(x, b) \in Handle /\ TablesOK(ReadSizes(x, b))
    <3>1. CASE b.default > 0
      BY <3>1, <2>2 DEF ReadSizes, Handle, TablesOK
    <3> DEFINE table == Append(b.sizes, 0)
    <3>2. CASE ~(b.default > 0)
      <4>1. ReadSizes(x, b) = [x EXCEPT !.default = 0, !.table = table]
        BY <3>2 DEF ReadSizes
      <4>2. table \in Seq(Nat) /\ Len(table) >= 1 /\ table[Len(table)] = 0
        BY <2>2, <2>3
      <4> HIDE DEF table
      <4>3. ReadSizes(x, b) \in Handle
        <5>1. \A m \in Nat : [x EXCEPT !.default = m, !.table = table] \in Handle
          BY <4>2 DEF Handle
        <5>2. QED
          BY <4>1, <5>1
      <4>4. ReadSizes(x, b).chunks = x.chunks /\ ReadSizes(x, b).table = table
        BY <4>1 DEF Handle
      <4>5. QED
        BY <4>2, <4>3, <4>4 DEF TablesOK
    <3>3. QED
      BY <3>1, <3>2
  <2>5. QED
    BY <2>1, <2>4
<1>5. CASE b.type = "stts"
  <2>1. y = ReadTimes(x, b)
    BY <1>5 DEF Read, ConfigBox
  <2>2. b.frames \in Nat
    BY <1>5 DEF BoxOK
  <2>3. x.stts + b.frames \in Nat
    <3>1. x.stts \in Nat
      BY DEF Handle
    <3>2. QED
      BY <2>2, <3>1
  <2>4. QED
    BY <2>1, <2>3 DEF ReadTimes, Handle, TablesOK
<1>6. CASE b.type = "stsc"
  <2>1. y = StashChunkRuns(x, b)
    BY <1>6 DEF Read, ConfigBox
  <2>2. b.runs \in Seq(Run)
    BY <1>6 DEF BoxOK
  <2>3. QED
    BY <2>1, <2>2 DEF StashChunkRuns, Handle, TablesOK
<1>7. CASE b.type = "stco"
  <2>1. y = ReadChunks(x, b)
    BY <1>7 DEF Read, ConfigBox
  <2>2. b.offsets \in Seq(Nat) /\ b.offsets # << >>
    BY <1>7 DEF BoxOK
  <2>3. x.stsc \in Seq(Run)
    BY DEF Handle
  <2> DEFINE chunk(i) == [offset |-> b.offsets[i], sample |-> FirstSample(x.stsc, i)]
             front == [i \in 1..Len(b.offsets) |-> chunk(i)]
             last == <<[offset |-> 0, sample |-> 0]>>
             Chunk == [offset : Nat, sample : Nat]
  <2>4. front \in Seq(Chunk) /\ Len(front) = Len(b.offsets) /\ Len(front) \in Nat /\ Len(front) >= 1
    <3>1. ASSUME NEW i \in 1..Len(b.offsets) PROVE chunk(i) \in Chunk
      <4>1. b.offsets[i] \in Nat
        BY <2>2
      <4>2. FirstSample(x.stsc, i) \in Nat
        BY <2>3, FirstNumber
      <4>3. QED
        BY <4>1, <4>2
    <3> HIDE DEF chunk, Chunk
    <3>2. Len(b.offsets) \in Nat /\ Len(b.offsets) >= 1
      BY <2>2
    <3>3. QED
      BY <3>1, <3>2
  <2>5. last \in Seq(Chunk) /\ Len(last) = 1 /\ last[1].offset = 0
    OBVIOUS
  <2> HIDE DEF front, last
  <2>6. /\ front \o last \in Seq(Chunk)
        /\ Len(front \o last) = Len(front) + 1
        /\ (front \o last)[Len(front) + 1] = last[1]
    <3> HIDE DEF Chunk
    <3>1. Len(front) + 1 \in 1..Len(front) + Len(last) /\ ~(Len(front) + 1 <= Len(front))
          /\ (Len(front) + 1) - Len(front) = 1
      BY <2>4, <2>5
    <3>2. QED
      BY <2>4, <2>5, <3>1, ConcatProperties
  <2>7. y = x \/ y = [x EXCEPT !.chunks = front \o last, !.stsc = NoTable]
    BY <2>1 DEF ReadChunks, front, last
  <2> DEFINE chunks == front \o last
  <2>8. chunks \in Seq(Chunk) /\ Len(chunks) >= 2 /\ chunks[Len(chunks)].offset = 0
    BY <2>4, <2>5, <2>6
  <2>9. NoTable \in Seq(Run)
    BY DEF NoTable
  <2> HIDE DEF chunks
  <2>10. CASE y = [x EXCEPT !.chunks = chunks, !.stsc = NoTable]
    BY <2>8, <2>9, <2>10 DEF Handle, TablesOK
  <2>11. QED
    BY <2>7, <2>10 DEF chunks
<1>8. CASE b.type = "----"
  <2>1. y = ReadGapless(x, b)
    BY <1>8 DEF Read, ConfigBox
  <2>2. b.start \in 0..Word - 1 /\ b.end \in Nat /\ b.frames \in 0..Word - 1
    BY <1>8 DEF BoxOK
  <2>3. (x.stts - (b.start + b.end)) % Word \in 0..Word - 1
    <3>1. x.stts \in Int /\ b.start \in Int /\ b.end \in Int
      <4>1. x.stts \in Nat
        BY DEF Handle
      <4>2. QED
        BY <2>2, <4>1, Numbers
    <3>2. x.stts - (b.start + b.end) \in Int
      BY <3>1
    <3>3. QED
      BY <3>2, Remainder
  <2> DEFINE some == IF x.stts > 0 /\ x.stts < b.start + b.end + b.frames
                     THEN (x.stts - (b.start + b.end)) % Word ELSE b.frames
  <2>4. some \in 0..Word - 1
    BY <2>2, <2>3
  <2>5. y = [x EXCEPT !.skip = b.start, !.samples = some]
    BY <2>1 DEF ReadGapless
  <2> HIDE DEF some
  <2>6. QED
    BY <2>2, <2>4, <2>5 DEF Handle, TablesOK
<1>9. CASE /\ b.type \notin {"moov", "trak", "stsz", "stts", "stsc", "stco", "----"}
           /\ b.type # ConfigBox(codec)
  BY <1>9 DEF Read
<1>10. QED
  BY <1>1, <1>2, <1>3, <1>4, <1>5, <1>6, <1>7, <1>8, <1>9

LEMMA Lesser ==
  ASSUME NEW a \in Nat, NEW b \in Nat
  PROVE  /\ LesserOf(a, b) \in Nat /\ LesserOf(a, b) <= a /\ LesserOf(a, b) <= b
         /\ LesserOf(a, b) = a \/ LesserOf(a, b) = b
BY DEF LesserOf

LEMMA Buffered ==
  ASSUME TypeOK
  PROVE  /\ rd \in Nat /\ arrived \in Nat /\ Used \in Nat /\ Used <= arrived
         /\ Cont \in Nat /\ Cont <= Used /\ Cont <= BufSize
         /\ FileOK(file) /\ file.cut \in Nat
<1>0. FileOK(file)
  BY Mp4Assumption DEF TypeOK
<1>1. file.cut \in Nat /\ rd \in Nat /\ arrived \in Nat /\ Used \in Nat /\ Used <= arrived
  <2>1. file.cut \in Nat
    BY <1>0 DEF FileOK
  <2>2. QED
    BY <2>1 DEF TypeOK, Used
<1>2. BufSize - ring \in Nat /\ BufSize - ring <= BufSize
  BY Numbers DEF TypeOK
<1>3. Cont \in Nat /\ Cont <= Used /\ Cont <= BufSize
  <2> DEFINE x == BufSize - ring
  <2>1. x \in Nat /\ x <= BufSize
    BY <1>2
  <2> HIDE DEF x
  <2>2. LesserOf(Used, x) \in Nat /\ LesserOf(Used, x) <= Used /\ LesserOf(Used, x) <= x
    BY <1>1, <2>1, Lesser
  <2>3. LesserOf(Used, x) <= BufSize
    BY <2>1, <2>2, <1>1, Numbers
  <2>4. QED
    BY <2>2, <2>3 DEF Cont, x
<1>4. QED
  BY <1>0, <1>1, <1>3

(* readp moves on over what has arrived. *)
LEMMA Advances ==
  ASSUME TypeOK, NEW n \in Nat, n <= Used, NEW x \in Handle, x.pos = rd,
         Advance(n, x), arrived' = arrived
  PROVE  /\ rd' \in 0..arrived' /\ Used' = Used - n /\ Used' < BufSize
         /\ ring' \in 0..BufSize - 1
         /\ h' \in Handle /\ h'.pos = rd'
         /\ h' = [x EXCEPT !.pos = rd']
<1>1. rd' = rd + n /\ ring' = (ring + n) % BufSize
  BY DEF Advance
<1>2. rd' \in 0..arrived' /\ Used' = Used - n /\ Used' < BufSize
  <2>1. rd \in Nat /\ arrived \in Nat /\ arrived - rd < BufSize /\ n <= arrived - rd /\ BufSize \in Nat
    BY Buffered, Numbers DEF Used, TypeOK
  <2>2. arrived' - rd' = (arrived - rd) - n /\ rd' \in 0..arrived'
    BY <1>1, <2>1
  <2>3. (arrived - rd) - n < BufSize
    BY <2>1
  <2>4. QED
    BY <2>2, <2>3 DEF Used
<1>3. ring' \in 0..BufSize - 1
  BY <1>1, Numbers DEF TypeOK
<1>4. h' = [x EXCEPT !.pos = rd']
  BY <1>1 DEF Advance
<1>5. h' \in Handle /\ h'.pos = rd'
  <2>1. rd' \in Nat
    BY <1>1, Buffered
  <2>2. QED
    BY <1>4, <2>1 DEF Handle
<1>6. QED
  BY <1>2, <1>3, <1>4, <1>5

LEMMA Opens ==
  ASSUME NEW m \in Nat, NEW n \in Nat
  PROVE  Opened(m, n) \in Handle /\ TablesOK(Opened(m, n)) /\ Opened(m, n).pos = 0
<1>1. 0 \in Nat /\ 0 \in 0..Word - 1 /\ NoTable \in Seq(Run)
      /\ NoTable \in Seq([offset : Nat, sample : Nat]) /\ NoTable \in Seq(Nat)
  BY Numbers DEF NoTable
<1>2. QED
  BY <1>1 DEF Opened, Handle, TablesOK

LEMMA NewTyped ==
  ASSUME NEW codec, NEW x \in NewHandles(codec)
  PROVE  x \in Handle /\ TablesOK(x) /\ x.pos = 0
<1>1. x = Opened(0, 0) \/ x = Opened(0, 1)
  BY DEF NewHandles
<1>2. 0 \in Nat /\ 1 \in Nat
  OBVIOUS
<1>3. QED
  BY <1>1, <1>2, Opens

LEMMA FreshCall == Fresh \in Calls
BY Numbers DEF Fresh, Calls

LEMMA InitTyped == Init => TypeInv
<1> SUFFICES ASSUME Init PROVE TypeInv
  OBVIOUS
<1>1. h \in Handle /\ TablesOK(h) /\ h.pos = 0
  BY NewTyped DEF Init
<1>2. file.cut \in Nat /\ file \in Files
  BY Mp4Assumption DEF Init, FileOK
<1>3. turn \in 1..MaxTurns /\ arrived \in 0..file.cut /\ rd \in 0..arrived
      /\ Used < BufSize /\ ring \in 0..BufSize - 1
  BY <1>2, Numbers DEF Init, Used
<1>4. dec \in Calls /\ dec.pc = "idle" /\ dec.new
  BY FreshCall DEF Init, Fresh
<1>5. closed \in BOOLEAN /\ out \in Seq(Nat) /\ damage \subseteq {"missed", "early", "mangled"}
      /\ h.pos = rd
  <2>1. closed = FALSE /\ out = << >> /\ damage = {} /\ rd = 0
    BY DEF Init
  <2>2. << >> \in Seq(Nat)
    OBVIOUS
  <2>3. QED
    BY <1>1, <2>1, <2>2
<1>6. TypeOK
  BY <1>1, <1>2, <1>3, <1>4, <1>5 DEF TypeOK
<1>7. CallInv
  BY <1>1, <1>4 DEF CallInv
<1>8. QED
  BY <1>6, <1>7 DEF TypeInv

(* The stream thread. *)
LEMMA StreamTyped == ASSUME TypeInv, Feed \/ Close PROVE TypeInv'
<1>1. CASE Feed
  <2>1. PICK n \in 1..LesserOf(BufSize - 1 - Used, file.cut - arrived) : arrived' = arrived + n
    BY <1>1 DEF Feed
  <2>2. /\ n \in Nat /\ n <= BufSize - 1 - Used /\ n <= file.cut - arrived
    <3>1. BufSize - 1 - Used \in Int /\ file.cut - arrived \in Int
      BY Buffered, Numbers DEF TypeInv
    <3>2. QED
      BY <3>1 DEF LesserOf
  <2>3. UNCHANGED <<file, closed, rd, ring, dec, h, out, turn, damage>> /\ dec.pc = "idle"
    BY <1>1 DEF Feed
  <2>4. arrived' \in 0..file.cut /\ rd \in 0..arrived' /\ Used' < BufSize
    BY <2>1, <2>2, <2>3, Buffered, Numbers DEF TypeInv, TypeOK, Used
  <2>5. TypeOK'
    BY <2>3, <2>4 DEF TypeInv, TypeOK
  <2>6. CallInv'
    BY <2>3 DEF TypeInv, CallInv
  <2>7. QED
    BY <2>5, <2>6 DEF TypeInv
<1>2. CASE Close
  BY <1>2 DEF Close, TypeInv, TypeOK, CallInv, Used
<1>3. QED
  BY <1>1, <1>2

(* A step that leaves the buffer, and the handle, as they are. *)
Unmoved == UNCHANGED <<file, arrived, closed, rd, ring, h, out, turn>>

LEMMA ReturnsTyped ==
  ASSUME TypeInv, NEW state \in {"running", "complete", "error", "crash"}, Returns(state)
  PROVE  dec' \in Calls /\ dec'.pc = "idle" /\ dec'.state = state /\ dec'.new = dec.new
BY DEF TypeInv, TypeOK, Calls, Returns

LEMMA UnmovedTyped ==
  ASSUME TypeInv, Unmoved, NEW state \in {"running", "complete", "error", "crash"},
         Returns(state), damage' \subseteq {"missed", "early", "mangled"}
  PROVE  TypeInv'
<1>1. dec' \in Calls /\ dec'.pc = "idle" /\ dec'.new = dec.new
  BY ReturnsTyped
<1>2. TypeOK'
  BY <1>1 DEF Unmoved, TypeInv, TypeOK, Used
<1>3. CallInv'
  BY <1>1 DEF Unmoved, TypeInv, CallInv, TablesOK
<1>4. QED
  BY <1>2, <1>3 DEF TypeInv

(* A step that moves readp. *)
LEMMA MovedTyped ==
  ASSUME TypeInv, NEW n \in Nat, n <= Used, NEW x \in Handle, x.pos = rd, TablesOK(x),
         Advance(n, x), UNCHANGED <<file, arrived, closed, turn>>,
         dec' \in Calls, out' \in Seq(Nat), damage' \subseteq {"missed", "early", "mangled"},
         dec'.pc # "idle" => dec'.state = "running",
         dec'.pc = "header" => dec'.new /\ dec'.bytes <= Used - n,
         dec'.pc = "frame" => ~dec'.new,
         ~dec'.new => /\ x.chunks # NoTable => x.nextchunk \in 1..Len(x.chunks) - 1
                      /\ x.table # NoTable => x.block \in 0..Len(x.table) - 1
  PROVE  TypeInv'
<1>1. /\ rd' \in 0..arrived' /\ Used' = Used - n /\ Used' < BufSize
      /\ ring' \in 0..BufSize - 1
      /\ h' \in Handle /\ h'.pos = rd'
      /\ h' = [x EXCEPT !.pos = rd']
  BY Advances DEF TypeInv
<1>2. h'.chunks = x.chunks /\ h'.table = x.table /\ h'.nextchunk = x.nextchunk /\ h'.block = x.block
  BY <1>1 DEF Handle
<1>3. TypeOK'
  BY <1>1 DEF TypeInv, TypeOK
<1>4. CallInv'
  BY <1>1, <1>2 DEF CallInv, TablesOK
<1>5. QED
  BY <1>3, <1>4 DEF TypeInv

-----------------------------------------------------------------------------
(* The header.                                                             *)

(* A box says nothing about places. *)
LEMMA ReadKeeps ==
  ASSUME NEW codec, NEW x \in Handle, NEW b
  PROVE  /\ Read(codec, x, b).pos = x.pos /\ Read(codec, x, b).consume = x.consume
         /\ Read(codec, x, b).empty = x.empty
BY DEF Read, ReadConfig, ReadSizes, ReadTimes, StashChunkRuns, ReadChunks, ReadGapless, Handle,
   ConfigBox

LEMMA ParsedTyped ==
  ASSUME TypeInv, NEW i \in DOMAIN file.boxes
  PROVE  /\ BoxOK(file.boxes[i])
         /\ Parsed(file.boxes[i]) \in Handle /\ TablesOK(Parsed(file.boxes[i]))
         /\ Parsed(file.boxes[i]).pos = rd
<1>1. BoxOK(file.boxes[i])
  BY Buffered DEF TypeInv, FileOK
<1>2. h \in Handle /\ TablesOK(h) /\ h.pos = rd
  BY DEF TypeInv, TypeOK, CallInv
<1>3. QED
  BY <1>1, <1>2, ReadTyped, ReadKeeps DEF Parsed

LEMMA OwnTyped ==
  ASSUME NEW b, BoxOK(b)
  PROVE  Own(b) \in Nat /\ Own(b) >= 1
BY DEF Own, BoxOK, HDR

LEMMA ConsumeBoxTyped ==
  ASSUME TypeInv, NEW i \in DOMAIN file.boxes, ConsumeBox(i)
  PROVE  TypeInv'
<1> DEFINE b == file.boxes[i]
           n == Own(b)
           x == Parsed(b)
<1>1. BoxOK(b) /\ x \in Handle /\ TablesOK(x) /\ x.pos = rd /\ n \in Nat
  BY ParsedTyped, OwnTyped
<1>2. /\ Advance(n, x) /\ UNCHANGED <<file, arrived, closed, out, turn>>
      /\ n <= dec.bytes /\ dec' = [dec EXCEPT !.bytes = @ - n]
      /\ damage' = damage \cup Missed(b)
      /\ dec.pc = "header"
  BY DEF ConsumeBox, Reading
<1> HIDE DEF n, x
<1>3. /\ dec.bytes \in 0..BufSize /\ dec.bytes <= Used /\ dec.new /\ dec.state = "running"
      /\ dec \in Calls
  BY <1>2 DEF TypeInv, TypeOK, CallInv, Calls
<1>4. dec.bytes - n \in 0..BufSize /\ n <= Used /\ dec.bytes - n <= Used - n
  BY <1>1, <1>2, <1>3, Buffered, Numbers DEF TypeInv
<1>5. /\ dec' \in Calls /\ dec'.new /\ dec'.state = "running" /\ dec'.pc = "header"
      /\ dec'.bytes = dec.bytes - n
  BY <1>2, <1>3, <1>4 DEF Calls
<1>6. damage' \subseteq {"missed", "early", "mangled"} /\ out' \in Seq(Nat)
  BY <1>2 DEF Missed, TypeInv, TypeOK
<1>7. QED
  BY <1>1, <1>2, <1>4, <1>5, <1>6, MovedTyped

LEMMA ConsumePartTyped ==
  ASSUME TypeInv, NEW i \in DOMAIN file.boxes, ConsumePart(i)
  PROVE  TypeInv'
<1> DEFINE b == file.boxes[i]
           n == dec.bytes
           y == Parsed(b)
           rest == Own(b) - dec.bytes
           x == [y EXCEPT !.consume = rest]
<1>1. BoxOK(b) /\ y \in Handle /\ TablesOK(y) /\ y.pos = rd /\ Own(b) \in Nat
  BY ParsedTyped, OwnTyped
<1>2. /\ Advance(n, x) /\ UNCHANGED <<file, arrived, closed, out, turn>>
      /\ dec.bytes < Own(b) /\ Returns("running")
      /\ damage' = damage \cup Missed(b)
      /\ dec.pc = "header"
  BY DEF ConsumePart, Reading
<1>3. /\ dec.bytes \in 0..BufSize /\ dec.bytes <= Used /\ dec.new
  BY <1>2 DEF TypeInv, TypeOK, CallInv, Calls
<1>4. n \in Nat /\ n <= Used /\ rest \in Nat
  BY <1>1, <1>2, <1>3, Numbers
<1> HIDE DEF y, rest
<1>5. x \in Handle /\ TablesOK(x) /\ x.pos = rd
  BY <1>1, <1>4 DEF Handle, TablesOK
<1>6. dec' \in Calls /\ dec'.new /\ dec'.pc = "idle"
  BY <1>2, <1>3, ReturnsTyped
<1>7. damage' \subseteq {"missed", "early", "mangled"} /\ out' \in Seq(Nat)
  BY <1>2 DEF Missed, TypeInv, TypeOK
<1> HIDE DEF x, n
<1>8. QED
  BY <1>2, <1>4, <1>5, <1>6, <1>7, MovedTyped

LEMMA MediaTyped ==
  ASSUME TypeInv, NEW i \in DOMAIN file.boxes, MediaFound(i)
  PROVE  TypeInv'
<1> DEFINE far == IF h.chunks # NoTable THEN h.chunks[1].offset - (h.pos + HDR) ELSE 0
           there == far <= dec.bytes - HDR
           started == [h EXCEPT !.sample = 1, !.nextchunk = 1, !.block = 0]
           n == IF far > 0 /\ there THEN HDR + far ELSE HDR
           rest == IF far > 0 THEN far ELSE 0
           x == IF far > 0 /\ there THEN started ELSE [started EXCEPT !.consume = rest]
<1>1. /\ Advance(n, x) /\ UNCHANGED <<file, arrived, closed, out, turn>>
      /\ dec' = [dec EXCEPT !.new = FALSE, !.pc = "frame"]
      /\ damage' \subseteq damage \cup {"early"}
      /\ dec.pc = "header" /\ dec.bytes >= HDR
  BY DEF MediaFound, Reading
<1>2. h \in Handle /\ TablesOK(h) /\ h.pos = rd
  BY DEF TypeInv, TypeOK, CallInv
<1>3. far \in Int
  <2>1. CASE h.chunks # NoTable
    <3>1. h.chunks \in Seq([offset : Nat, sample : Nat]) /\ 1 \in 1..Len(h.chunks)
      BY <1>2, <2>1 DEF Handle, TablesOK
    <3>2. h.chunks[1] \in [offset : Nat, sample : Nat]
      BY <3>1, ElementOfSeq
    <3>3. h.pos \in Nat
      BY <1>2 DEF Handle
    <3>4. QED
      BY <2>1, <3>2, <3>3 DEF HDR
  <2>2. QED
    BY <2>1
<1> HIDE DEF far
<1>4. /\ dec.bytes \in 0..BufSize /\ dec.bytes <= Used /\ dec.state = "running" /\ dec \in Calls
  BY <1>1 DEF TypeInv, TypeOK, CallInv, Calls
<1>5. n \in Nat /\ n <= Used /\ rest \in Nat
  BY <1>1, <1>3, <1>4, Buffered, Numbers DEF HDR, TypeInv
<1>6. started \in Handle
  <2>1. \A a, c, d \in Nat : [h EXCEPT !.sample = a, !.nextchunk = c, !.block = d] \in Handle
    BY <1>2 DEF Handle
  <2>2. QED
    BY <2>1
<1>7. /\ started.pos = rd /\ started.chunks = h.chunks /\ started.table = h.table
      /\ started.nextchunk = 1 /\ started.block = 0
  BY <1>2 DEF Handle
<1> HIDE DEF started, rest
<1>8. x \in Handle
  BY <1>5, <1>6 DEF Handle
<1>9. /\ x.pos = rd /\ x.chunks = h.chunks /\ x.table = h.table
      /\ x.nextchunk = 1 /\ x.block = 0
  BY <1>6, <1>7 DEF Handle
<1> HIDE DEF x, n
<1>10. /\ TablesOK(x)
       /\ x.chunks # NoTable => x.nextchunk \in 1..Len(x.chunks) - 1
       /\ x.table # NoTable => x.block \in 0..Len(x.table) - 1
  <2>1. h.chunks \in Seq([offset : Nat, sample : Nat]) /\ h.table \in Seq(Nat)
    BY <1>2 DEF Handle
  <2>2. Len(h.chunks) \in Nat /\ Len(h.table) \in Nat
    BY <2>1
  <2>3. QED
    BY <1>2, <1>9, <2>2 DEF TablesOK
<1>11. dec' \in Calls /\ ~dec'.new /\ dec'.pc = "frame" /\ dec'.state = "running"
  BY <1>1, <1>4 DEF Calls
<1>12. damage' \subseteq {"missed", "early", "mangled"} /\ out' \in Seq(Nat)
  BY <1>1 DEF TypeInv, TypeOK
<1>13. QED
  BY <1>1, <1>5, <1>8, <1>9, <1>10, <1>11, <1>12, MovedTyped

LEMMA HeaderTyped == ASSUME TypeInv, ReadHeader PROVE TypeInv'
<1>1. CASE HeaderEnds
  BY <1>1, UnmovedTyped DEF HeaderEnds, Unmoved, TypeInv, TypeOK
<1>2. ASSUME NEW i \in DOMAIN file.boxes, Box(i) PROVE TypeInv'
  <2>1. CASE NotPlayable(i)
    <3>1. /\ Advance(HDR, h) /\ Returns("error") /\ dec.pc = "header" /\ dec.bytes >= HDR
          /\ UNCHANGED <<file, arrived, closed, out, turn, damage>>
      BY <2>1 DEF NotPlayable, Reading
    <3>2. h \in Handle /\ TablesOK(h) /\ h.pos = rd /\ dec.new /\ out' \in Seq(Nat)
          /\ damage' \subseteq {"missed", "early", "mangled"}
      BY <3>1 DEF TypeInv, TypeOK, CallInv
    <3>3. HDR \in Nat /\ HDR <= Used
      BY <3>1, Buffered, Numbers DEF TypeInv, TypeOK, CallInv, Calls, HDR
    <3>4. dec' \in Calls /\ dec'.new /\ dec'.pc = "idle"
      BY <3>1, <3>2, ReturnsTyped
    <3>5. QED
      BY <3>1, <3>2, <3>3, <3>4, MovedTyped
  <2>2. CASE Linearize(i) \/ TooLarge(i) \/ Wait(i)
    BY <2>2, UnmovedTyped DEF Linearize, TooLarge, Wait, Unmoved, TypeInv, TypeOK
  <2>3. CASE Unwrap(i)
    <3> DEFINE len == file.boxes[i].len
               by == len - (BufSize - ring)
    <3>1. /\ ring' = ring \/ (by > 0 /\ ring' = ring - by)
          /\ damage' \subseteq damage \cup {"mangled"}
          /\ Returns("running") /\ len < BufSize
          /\ UNCHANGED <<file, arrived, closed, rd, h, out, turn>>
      BY <2>3 DEF Unwrap
    <3>2. len \in Nat /\ len >= 1
      BY ParsedTyped DEF BoxOK
    <3>3. ring \in 0..BufSize - 1
      BY DEF TypeInv, TypeOK
    <3>4. ring' \in 0..BufSize - 1
      BY <3>1, <3>2, <3>3, Numbers
    <3>5. dec' \in Calls /\ dec'.pc = "idle" /\ dec'.new = dec.new
      BY <3>1, ReturnsTyped
    <3>6. TypeOK'
      BY <3>1, <3>4, <3>5 DEF TypeInv, TypeOK, Used
    <3>7. CallInv'
      BY <3>1, <3>5 DEF TypeInv, CallInv, TablesOK
    <3>8. QED
      BY <3>6, <3>7 DEF TypeInv
  <2>4. QED
    BY <1>2, <2>1, <2>2, <2>3, ConsumeBoxTyped, ConsumePartTyped, MediaTyped DEF Box
<1>3. QED
  BY <1>1, <1>2 DEF ReadHeader

-----------------------------------------------------------------------------
(* The samples.                                                            *)

SameTables(x, y) ==
  /\ x.pos = y.pos /\ x.chunks = y.chunks /\ x.table = y.table
  /\ x.nextchunk = y.nextchunk

(* Trimming leaves frames, and counts that stay below Word. *)
LEMMA TrimTyped ==
  ASSUME TypeInv, NEW frames \in Seq(Nat)
  PROVE  /\ Trimmed(frames) \in Seq(Nat)
         /\ AfterTrim(frames) \in Handle /\ SameTables(AfterTrim(frames), h)
         /\ AfterTrim(frames).block = h.block
<1>1. h \in Handle /\ Len(frames) \in Nat /\ h.skip \in 0..Word - 1 /\ h.samples \in 0..Word - 1
      /\ h.empty \in BOOLEAN
  BY DEF TypeInv, TypeOK, Handle
<1>2. SkipLeft(frames) \in 0..Word - 1
  <2>1. h.skip - Len(frames) \in Int
    BY <1>1, Numbers
  <2>2. (h.skip - Len(frames)) % Word \in 0..Word - 1
    BY <2>1, Remainder
  <2>3. QED
    BY <1>1, <2>2 DEF SkipLeft
<1> DEFINE left == SkipLeft(frames)
           off == LesserOf(Len(frames), left)
           rest == SubSeq(frames, off + 1, Len(frames))
           kept == LesserOf(Len(rest), h.samples)
<1>3. left \in Nat /\ off \in Nat /\ off <= Len(frames) /\ off <= left
  BY <1>1, <1>2, Lesser, Numbers
<1> HIDE DEF left, off
<1>4. rest \in Seq(Nat) /\ Len(rest) \in Nat
  <2>1. \A i \in off + 1..Len(frames) : i \in 1..Len(frames)
    BY <1>3, <1>1
  <2>2. \A i \in off + 1..Len(frames) : frames[i] \in Nat
    BY <2>1, ElementOfSeq
  <2>3. rest \in Seq(Nat)
    BY <1>3, <1>1, <2>2, SubSeqProperties
  <2>4. QED
    BY <2>3
<1> HIDE DEF rest
<1>5. kept \in Nat /\ kept <= Len(rest)
  <2>1. h.samples \in Nat
    BY <1>1, Numbers
  <2>2. QED
    BY <1>4, <2>1, Lesser
<1> HIDE DEF kept
<1>6. SubSeq(rest, 1, kept) \in Seq(Nat)
  <2>1. \A i \in 1..kept : i \in 1..Len(rest)
    BY <1>4, <1>5
  <2>2. \A i \in 1..kept : rest[i] \in Nat
    BY <2>1, <1>4, ElementOfSeq
  <2>3. QED
    BY <1>4, <1>5, <2>2, SubSeqProperties
<1>7. Trimmed(frames) = IF h.samples > 0 THEN SubSeq(rest, 1, kept) ELSE rest
  BY DEF Trimmed, rest, kept, off, left
<1>8. Trimmed(frames) \in Seq(Nat)
  BY <1>4, <1>6, <1>7
<1> DEFINE t == LesserOf(h.samples, Len(Trimmed(frames)))
           e == IF h.skip > 0 THEN FALSE ELSE h.empty
<1>9. AfterTrim(frames) = [h EXCEPT !.empty = e, !.skip = left - off, !.samples = h.samples - t]
  BY DEF AfterTrim, left, off
<1>10. t \in Nat /\ t <= h.samples
  <2>1. Len(Trimmed(frames)) \in Nat
    BY <1>8
  <2>2. h.samples \in Nat
    BY <1>1
  <2>3. QED
    BY <2>1, <2>2, Lesser
<1>11. h.samples - t \in 0..Word - 1 /\ left - off \in 0..Word - 1 /\ e \in BOOLEAN
  <2>1. left \in 0..Word - 1
    BY <1>2 DEF left
  <2> HIDE DEF t
  <2>2. h.samples - t \in 0..Word - 1 /\ left - off \in 0..Word - 1
    BY <1>1, <1>3, <1>10, <2>1, Numbers
  <2>3. e \in BOOLEAN
    BY <1>1
  <2>4. QED
    BY <2>2, <2>3
<1> HIDE DEF t, e
<1>12. AfterTrim(frames) \in Handle
  BY <1>1, <1>9, <1>11 DEF Handle
<1>13. SameTables(AfterTrim(frames), h) /\ AfterTrim(frames).block = h.block
  BY <1>1, <1>9 DEF Handle, SameTables
<1>14. QED
  BY <1>8, <1>12, <1>13

(* The samples of a file lie apart: one at most starts at a place. *)
LEMMA OneHere ==
  ASSUME TypeOK, NEW j \in DOMAIN file.at, NEW k \in DOMAIN file.at, file.at[j] = file.at[k]
  PROVE  j = k
<1>1. /\ file.at \in Seq(Nat) /\ file.sizes \in Seq(Nat \ {0}) /\ Len(file.at) = Len(file.sizes)
      /\ \A a, b \in DOMAIN file.at : a < b => file.at[a] + file.sizes[a] <= file.at[b]
  BY Buffered DEF FileOK
<1>2. /\ j \in 1..Len(file.at) /\ k \in 1..Len(file.at)
      /\ j \in 1..Len(file.sizes) /\ k \in 1..Len(file.sizes)
  <2>1. \A s \in Seq(Nat) : DOMAIN s = 1..Len(s)
    OBVIOUS
  <2>2. DOMAIN file.at = 1..Len(file.at)
    BY <1>1, <2>1
  <2>3. QED
    BY <1>1, <2>2
<1>3. file.at[j] \in Nat /\ file.at[k] \in Nat /\ file.sizes[j] \in Nat \ {0} /\ file.sizes[k] \in Nat \ {0}
  <2> DEFINE at == file.at
             sizes == file.sizes
  <2>1. at \in Seq(Nat) /\ sizes \in Seq(Nat \ {0}) /\ j \in 1..Len(at) /\ k \in 1..Len(at)
        /\ j \in 1..Len(sizes) /\ k \in 1..Len(sizes)
    BY <1>1, <1>2
  <2> HIDE DEF at, sizes
  <2>2. at[j] \in Nat /\ at[k] \in Nat
    BY <2>1, ElementOfSeq
  <2>3. sizes[j] \in Nat \ {0} /\ sizes[k] \in Nat \ {0}
    BY <2>1, ElementOfSeq
  <2>4. QED
    BY <2>2, <2>3 DEF at, sizes
<1>4. ~(j < k) /\ ~(k < j)
  <2>1. j < k => file.at[j] + file.sizes[j] <= file.at[k]
    BY <1>1
  <2>2. k < j => file.at[k] + file.sizes[k] <= file.at[j]
    BY <1>1
  <2> DEFINE p == file.at[j]
             q == file.sizes[j]
             s == file.sizes[k]
  <2>3. p = file.at[k] /\ p \in Nat /\ q \in Nat /\ s \in Nat /\ q > 0 /\ s > 0
    BY <1>3
  <2>4. (j < k => p + q <= p) /\ (k < j => p + s <= p)
    BY <2>1, <2>2, <2>3
  <2> HIDE DEF p, q, s
  <2>5. QED
    BY <2>3, <2>4
<1>5. QED
  BY <1>2, <1>4

(* The decoder takes no more than it is given, and makes frames of it. *)
LEMMA DecodesTyped ==
  ASSUME TypeInv, NEW avail \in Nat, NEW d \in Decodes(avail)
  PROVE  /\ d.consumed \in Nat /\ d.consumed <= avail
         /\ d.frames \in Seq(Nat)
         /\ d.frames # << >> => avail > 0
<1> DEFINE here == {k \in DOMAIN file.at : file.at[k] = rd}
<1>1. CASE h.config /\ \E k \in here : file.sizes[k] <= avail
  <2>1. PICK k \in here : file.sizes[k] <= avail
    BY <1>1
  <2>2. PICK j \in here : d = [consumed |-> file.sizes[j], frames |-> FramesOf(j)]
    BY <1>1 DEF Decodes
  <2>3. j = k
    BY <2>1, <2>2, OneHere DEF TypeInv
  <2>4. k \in 1..Len(file.at) /\ k \in Nat /\ k >= 1
    <3>1. file.at \in Seq(Nat)
      BY Buffered DEF FileOK, TypeInv
    <3>2. QED
      BY <2>1, <3>1
  <2>5. file.sizes[k] \in Nat \ {0}
    <3>1. file.sizes \in Seq(Nat \ {0}) /\ Len(file.at) = Len(file.sizes)
      BY Buffered DEF FileOK, TypeInv
    <3>2. QED
      BY <2>4, <3>1, ElementOfSeq
  <2>6. FramesOf(k) \in Seq(Nat)
    <3> DEFINE before == (k - 1) * PerSample
    <3>1. before \in Nat
      BY <2>4, Numbers
    <3> HIDE DEF before
    <3>2. \A i \in 1..PerSample : before + i \in Nat
      BY <3>1, Numbers
    <3>3. [i \in 1..PerSample |-> before + i] \in Seq(Nat)
      BY <3>2, Numbers
    <3>4. << >> \in Seq(Nat)
      OBVIOUS
    <3>5. QED
      BY <3>3, <3>4 DEF FramesOf, before
  <2>7. QED
    BY <2>1, <2>2, <2>3, <2>5, <2>6
<1>2. CASE ~(h.config /\ \E k \in here : file.sizes[k] <= avail)
  <2>1. \/ \E n \in 0..LesserOf(avail, 1) : d = Error(n)
        \/ avail > 0 /\ d = [consumed |-> 1, frames |-> Noise]
    BY <1>2 DEF Decodes
  <2>2. CASE \E n \in 0..LesserOf(avail, 1) : d = Error(n)
    BY <2>2 DEF Error, LesserOf
  <2>3. CASE avail > 0 /\ d = [consumed |-> 1, frames |-> Noise]
    BY <2>3 DEF Noise
  <2>4. QED
    BY <2>1, <2>2, <2>3
<1>3. QED
  BY <1>1, <1>2

(* A step that leaves readp and sets the handle. *)
LEMMA StayTyped ==
  ASSUME TypeInv, NEW x \in Handle, x.pos = rd, TablesOK(x), Stay(x),
         UNCHANGED <<file, arrived, closed, turn, damage>>, out' \in Seq(Nat),
         dec' \in Calls, dec'.pc = "idle",
         /\ x.chunks # NoTable => x.nextchunk \in 1..Len(x.chunks) - 1
         /\ x.table # NoTable => x.block \in 0..Len(x.table) - 1
  PROVE  TypeInv'
<1>1. h' = x /\ UNCHANGED <<rd, ring>>
  BY DEF Stay
<1>2. TypeOK'
  BY <1>1 DEF TypeInv, TypeOK, Used
<1>3. CallInv'
  BY <1>1 DEF CallInv, TablesOK
<1>4. QED
  BY <1>2, <1>3 DEF TypeInv

(* After the header there is an entry behind that of the next chunk, the   *)
(* last of all if it is 0.                                                 *)
LEMMA NextEntry ==
  ASSUME TypeInv, dec.pc = "frame", h.chunks # NoTable
  PROVE  /\ h.nextchunk \in Nat /\ h.nextchunk + 1 \in 1..Len(h.chunks)
         /\ Len(h.chunks) \in Nat
         /\ h.chunks[h.nextchunk + 1].offset \in Nat
         /\ h.chunks[h.nextchunk + 1].offset > 0 => h.nextchunk + 1 \in 1..Len(h.chunks) - 1
         /\ ChunkGap \in Int
<1>1. h.chunks \in Seq([offset : Nat, sample : Nat]) /\ h.pos \in Nat
  BY DEF TypeInv, TypeOK, Handle
<1>2. /\ h.nextchunk \in 1..Len(h.chunks) - 1
      /\ h.chunks[Len(h.chunks)].offset = 0
  BY DEF TypeInv, CallInv, TablesOK
<1> DEFINE chunks == h.chunks
           m == h.nextchunk + 1
<1>3. Len(chunks) \in Nat
  BY <1>1
<1>4. h.nextchunk \in Nat /\ m \in 1..Len(chunks) /\ (m # Len(chunks) => m \in 1..Len(chunks) - 1)
  <2> DEFINE l == Len(chunks)
  <2>1. l \in Nat /\ h.nextchunk \in 1..l - 1
    BY <1>2, <1>3
  <2> HIDE DEF l
  <2>2. h.nextchunk \in Nat /\ m \in 1..l /\ (m # l => m \in 1..l - 1)
    BY <2>1
  <2>3. QED
    BY <2>2 DEF l
<1> HIDE DEF m
<1>5. chunks[m] \in [offset : Nat, sample : Nat]
  BY <1>1, <1>4, ElementOfSeq
<1>6. chunks[m].offset \in Nat
  BY <1>5
<1>7. ChunkGap \in Int
  BY <1>1, <1>6 DEF ChunkGap, m
<1>8. QED
  BY <1>2, <1>3, <1>4, <1>6, <1>7 DEF m

(* The steps that decode a sample. *)
Sampled(x) ==
  \/ Stay(x) \/ Stay(Counted(x))
  \/ ChunkEnds /\ ChunkGap > 0 /\ NextChunk(x)
  \/ \E n \in Nat : n <= Used /\ Advance(n, Counted(x))

LEMMA CountedTyped ==
  ASSUME NEW x \in Handle
  PROVE  /\ Counted(x) \in Handle /\ SameTables(Counted(x), x)
         /\ Counted(x).block = x.block
<1>1. x.sample + 1 \in Nat
  BY DEF Handle
<1>2. QED
  BY <1>1 DEF Counted, Handle, SameTables

LEMMA SampledTyped ==
  ASSUME TypeInv, dec.pc = "frame", NEW x \in Handle, SameTables(x, h),
         x.table # NoTable => x.block \in 0..Len(x.table) - 1,
         Sampled(x), UNCHANGED <<file, arrived, closed, turn, damage>>,
         NEW state \in {"running", "complete", "error", "crash"}, Returns(state),
         out' \in Seq(Nat)
  PROVE  TypeInv'
<1>1. dec' \in Calls /\ dec'.pc = "idle"
  BY ReturnsTyped
<1>2. /\ TablesOK(h) /\ h.pos = rd /\ h \in Handle
      /\ h.chunks # NoTable => h.nextchunk \in 1..Len(h.chunks) - 1
      /\ damage \subseteq {"missed", "early", "mangled"}
  BY DEF TypeInv, CallInv, TypeOK
<1> DEFINE Fits(y) == /\ y \in Handle /\ y.pos = rd /\ TablesOK(y)
                      /\ y.chunks # NoTable => y.nextchunk \in 1..Len(y.chunks) - 1
                      /\ y.table # NoTable => y.block \in 0..Len(y.table) - 1
<1>3. Fits(x) /\ Fits(Counted(x))
  BY <1>2, CountedTyped DEF SameTables, TablesOK
<1>4. CASE Stay(x) \/ Stay(Counted(x))
  BY <1>1, <1>3, <1>4, StayTyped
<1>5. CASE \E n \in Nat : n <= Used /\ Advance(n, Counted(x))
  <2>1. PICK n \in Nat : n <= Used /\ Advance(n, Counted(x))
    BY <1>5
  <2>2. QED
    BY <1>1, <1>2, <1>3, <2>1, MovedTyped
<1>6. CASE ChunkEnds /\ ChunkGap > 0 /\ NextChunk(x)
  <2> DEFINE c == Counted(x)
             m == h.nextchunk + 1
             next == [c EXCEPT !.nextchunk = @ + 1]
             late == [next EXCEPT !.consume = ChunkGap]
  <2>1. h.chunks # NoTable /\ h.chunks[m].offset > 0
    BY <1>6 DEF ChunkEnds, AnotherChunk
  <2>2. h.nextchunk \in Nat
    BY <2>1, NextEntry
  <2>3. m \in 1..Len(h.chunks) - 1
    BY <2>1, NextEntry
  <2>4. ChunkGap \in Nat
    <3>1. ChunkGap \in Int
      BY <2>1, NextEntry
    <3>2. QED
      BY <3>1, <1>6
  <2>5. c \in Handle /\ SameTables(c, h) /\ c.block = x.block
    BY CountedTyped DEF SameTables
  <2>6. next \in Handle /\ next.nextchunk = m
    <3>1. c.nextchunk = h.nextchunk
      BY <2>5 DEF SameTables
    <3>2. m \in Nat
      BY <2>2
    <3>3. next = [c EXCEPT !.nextchunk = m]
      BY <3>1
    <3> HIDE DEF c, m, next
    <3>4. QED
      BY <2>5, <3>2, <3>3 DEF Handle
  <2>7. next.pos = rd /\ next.chunks = h.chunks /\ next.table = x.table /\ next.block = x.block
    <3>1. next.pos = c.pos /\ next.chunks = c.chunks /\ next.table = c.table /\ next.block = c.block
      BY <2>5 DEF Handle
    <3>2. QED
      BY <3>1, <2>5, <1>2 DEF SameTables
  <2> HIDE DEF c, m, next
  <2>8. Fits(next)
    BY <1>2, <1>3, <2>3, <2>6, <2>7 DEF TablesOK
  <2>9. Fits(late)
    BY <2>8, <2>4 DEF Handle, TablesOK
  <2> HIDE DEF late
  <2>10. CASE ChunkGap <= Used
    <3>1. Advance(ChunkGap, next)
      BY <1>6, <2>10 DEF NextChunk, next, c
    <3>2. QED
      BY <1>1, <1>2, <2>4, <2>8, <2>10, <3>1, MovedTyped
  <2>11. CASE ~(ChunkGap <= Used)
    <3>1. Stay(late)
      BY <1>6, <2>11 DEF NextChunk, next, c, late
    <3>2. QED
      BY <1>1, <2>9, <3>1, StayTyped
  <2>12. QED
    BY <2>10, <2>11
<1>7. QED
  BY <1>4, <1>5, <1>6 DEF Sampled

LEMMA Joined ==
  ASSUME TypeInv, NEW more \in Seq(Nat)
  PROVE  out \in Seq(Nat) /\ out \o more \in Seq(Nat)
<1>1. out \in Seq(Nat)
  BY DEF TypeInv, TypeOK
<1>2. QED
  BY <1>1, ConcatProperties

LEMMA AacFrameTyped == ASSUME TypeInv, AacFrame PROVE TypeInv'
<1>1. PICK d \in Decodes(Offered) :
        LET backwards == ChunkEnds /\ ChunkGap <= 0
            stuck == ~ChunkEnds /\ d.consumed = 0
            handle == IF backwards \/ stuck THEN h
                      ELSE IF d.frames = << >> THEN [h EXCEPT !.empty = TRUE]
                      ELSE AfterTrim(d.frames)
        IN
        /\ IF backwards THEN Stay(Counted(handle))
           ELSE IF ChunkEnds THEN NextChunk(handle)
           ELSE Advance(d.consumed, Counted(handle))
        /\ Returns(IF backwards \/ stuck THEN "error" ELSE "running")
        /\ out' = IF backwards \/ stuck THEN out ELSE out \o Trimmed(d.frames)
  BY DEF AacFrame
<1> DEFINE backwards == ChunkEnds /\ ChunkGap <= 0
           stuck == ~ChunkEnds /\ d.consumed = 0
           handle == IF backwards \/ stuck THEN h
                     ELSE IF d.frames = << >> THEN [h EXCEPT !.empty = TRUE]
                     ELSE AfterTrim(d.frames)
           state == IF backwards \/ stuck THEN "error" ELSE "running"
<1>2. dec.pc = "frame" /\ UNCHANGED <<file, arrived, closed, turn, damage>>
  BY DEF AacFrame
<1>3. Offered \in Nat /\ Offered <= Used
  <2>1. Used \in Nat /\ Cont \in Nat /\ Cont <= Used /\ WrapLen \in Nat
    BY Buffered, Numbers DEF TypeInv
  <2>2. LesserOf(Used, WrapLen) \in Nat /\ LesserOf(Used, WrapLen) <= Used
    BY <2>1, Lesser
  <2>3. QED
    BY <2>1, <2>2 DEF Offered
<1>4. d.consumed \in Nat /\ d.consumed <= Used /\ d.frames \in Seq(Nat)
  <2>1. d.consumed \in Nat /\ d.consumed <= Offered /\ d.frames \in Seq(Nat)
    BY <1>3, DecodesTyped
  <2>2. Used \in Nat
    BY Buffered DEF TypeInv
  <2>3. QED
    BY <1>3, <2>1, <2>2
<1>5. h \in Handle /\ (h.table # NoTable => h.block \in 0..Len(h.table) - 1)
  BY <1>2 DEF TypeInv, TypeOK, CallInv
<1>6. /\ handle \in Handle /\ SameTables(handle, h) /\ handle.block = h.block
  <2>1. [h EXCEPT !.empty = TRUE] \in Handle /\ SameTables([h EXCEPT !.empty = TRUE], h)
        /\ [h EXCEPT !.empty = TRUE].block = h.block
    BY <1>5 DEF Handle, SameTables
  <2>2. SameTables(h, h)
    BY DEF SameTables
  <2>3. QED
    BY <1>4, <1>5, <2>1, <2>2, TrimTyped
<1>7. out' \in Seq(Nat)
  BY <1>1, <1>4, TrimTyped, Joined
<1>8. state \in {"running", "complete", "error", "crash"} /\ Returns(state)
  BY <1>1
<1>9. IF backwards THEN Stay(Counted(handle))
      ELSE IF ChunkEnds THEN NextChunk(handle)
      ELSE Advance(d.consumed, Counted(handle))
  BY <1>1
<1>10. ChunkEnds /\ ~backwards => ChunkGap > 0
  <2>1. SUFFICES ASSUME ChunkEnds, ~backwards PROVE ChunkGap > 0
    OBVIOUS
  <2>2. h.chunks # NoTable
    BY <2>1 DEF ChunkEnds, AnotherChunk
  <2>3. ChunkGap \in Int
    BY <1>2, <2>2, NextEntry
  <2>4. QED
    BY <2>1, <2>3
<1> HIDE DEF handle, state
<1>11. Sampled(handle)
  BY <1>4, <1>9, <1>10 DEF Sampled
<1>12. handle.table # NoTable => handle.block \in 0..Len(handle.table) - 1
  BY <1>5, <1>6 DEF SameTables
<1>13. QED
  BY <1>2, <1>6, <1>7, <1>8, <1>11, <1>12, SampledTyped

(* The size of the next block, and the end of the table. *)
LEMMA BlockSizeTyped ==
  ASSUME TypeInv, dec.pc = "frame", h.default > 0 \/ h.table # NoTable
  PROVE  /\ BlockSize \in Nat
         /\ BlockSize > 0 /\ BlockSize # h.default /\ h.table # NoTable
              => h.block + 1 \in 0..Len(h.table) - 1
<1>1. h.default \in Nat /\ h.table \in Seq(Nat)
  BY DEF TypeInv, TypeOK, Handle
<1>2. CASE h.default > 0
  BY <1>1, <1>2 DEF BlockSize
<1>3. CASE ~(h.default > 0)
  <2> DEFINE table == h.table
             l == Len(table)
             m == h.block + 1
  <2>1. h.table # NoTable /\ h.block \in 0..l - 1 /\ table[l] = 0 /\ BlockSize = table[m]
    BY <1>3 DEF TypeInv, CallInv, TablesOK, BlockSize
  <2>2. l \in Nat
    BY <1>1
  <2>3. m \in 1..l /\ (m # l => m \in 0..l - 1)
    <3> HIDE DEF l
    <3> QED
      BY <2>1, <2>2
  <2> HIDE DEF m
  <2>4. table[m] \in Nat
    BY <1>1, <2>3, ElementOfSeq
  <2>5. QED
    BY <2>1, <2>3, <2>4 DEF m
<1>4. QED
  BY <1>2, <1>3

LEMMA AlacFrameTyped == ASSUME TypeInv, AlacFrame PROVE TypeInv'
<1>1. /\ dec.pc = "frame" /\ (h.default > 0 \/ h.table # NoTable)
      /\ Used >= BlockSize
      /\ UNCHANGED <<file, arrived, closed, turn, damage>>
  BY DEF AlacFrame, Sized
<1>2. PICK d \in Decodes(BlockSize) :
        LET failed == d.frames = << >>
            backwards == ~failed /\ ChunkEnds /\ ChunkGap <= 0
            next == [AfterTrim(d.frames) EXCEPT
                       !.block = IF BlockSize # h.default THEN @ + 1 ELSE @]
        IN
        /\ IF failed \/ backwards THEN Stay(h)
           ELSE IF ChunkEnds THEN NextChunk(next)
           ELSE Advance(BlockSize, Counted(next))
        /\ Returns(IF failed \/ backwards THEN "error" ELSE "running")
        /\ out' = IF failed \/ backwards THEN out ELSE out \o Trimmed(d.frames)
  BY DEF AlacFrame
<1> DEFINE failed == d.frames = << >>
           backwards == ~failed /\ ChunkEnds /\ ChunkGap <= 0
           y == AfterTrim(d.frames)
           next == [y EXCEPT !.block = IF BlockSize # h.default THEN @ + 1 ELSE @]
           state == IF failed \/ backwards THEN "error" ELSE "running"
<1>3. BlockSize \in Nat
  BY <1>1, BlockSizeTyped
<1>4. d.frames \in Seq(Nat) /\ (~failed => BlockSize > 0)
  BY <1>3, DecodesTyped
<1>5. h \in Handle /\ (h.table # NoTable => h.block \in 0..Len(h.table) - 1)
  BY <1>1 DEF TypeInv, TypeOK, CallInv
<1>6. y \in Handle /\ SameTables(y, h) /\ y.block = h.block
  BY <1>4, TrimTyped
<1>7. state \in {"running", "complete", "error", "crash"} /\ Returns(state)
  BY <1>2
<1>8. out' \in Seq(Nat)
  BY <1>2, <1>4, TrimTyped, Joined
<1>9. CASE failed \/ backwards
  <2>1. Sampled(h) /\ SameTables(h, h)
    BY <1>2, <1>9 DEF Sampled, SameTables
  <2> HIDE DEF state
  <2>2. QED
    BY <1>1, <1>5, <1>7, <1>8, <2>1, SampledTyped
<1>10. CASE ~(failed \/ backwards)
  <2> DEFINE m == IF BlockSize # h.default THEN y.block + 1 ELSE y.block
  <2>1. m \in Nat /\ (h.table # NoTable => m \in 0..Len(h.table) - 1)
    <3>1. CASE BlockSize # h.default
      <4>1. h.block + 1 \in Nat
        BY <1>5 DEF Handle
      <4>2. QED
        BY <3>1, <4>1, <1>1, <1>4, <1>6, <1>10, BlockSizeTyped
    <3>2. CASE BlockSize = h.default
      <4>1. h.block \in Nat
        BY <1>5 DEF Handle
      <4>2. QED
        BY <3>2, <4>1, <1>5, <1>6
    <3>3. QED
      BY <3>1, <3>2
  <2>2. next = [y EXCEPT !.block = m]
    OBVIOUS
  <2> HIDE DEF m, y, next
  <2>3. next \in Handle
    BY <1>6, <2>1, <2>2 DEF Handle
  <2>4. SameTables(next, h) /\ next.table = h.table /\ next.block = m
    <3>1. /\ next.pos = y.pos /\ next.chunks = y.chunks /\ next.table = y.table
          /\ next.nextchunk = y.nextchunk /\ next.block = m
      BY <1>6, <2>2 DEF Handle
    <3>2. QED
      BY <1>6, <3>1 DEF SameTables
  <2>5. ChunkEnds => ChunkGap > 0
    <3>1. SUFFICES ASSUME ChunkEnds PROVE ChunkGap > 0
      OBVIOUS
    <3>2. h.chunks # NoTable
      BY <3>1 DEF ChunkEnds, AnotherChunk
    <3>3. ChunkGap \in Int
      BY <1>1, <3>2, NextEntry
    <3>4. QED
      BY <3>1, <3>3, <1>10
  <2>6. IF ChunkEnds THEN NextChunk(next) ELSE Advance(BlockSize, Counted(next))
    BY <1>2, <1>10 DEF next, y
  <2>7. Sampled(next)
    <3>1. BlockSize <= Used
      BY <1>1, <1>3, Buffered DEF TypeInv
    <3>2. QED
      BY <1>3, <2>5, <2>6, <3>1 DEF Sampled
  <2> HIDE DEF state
  <2>8. QED
    BY <1>1, <1>7, <1>8, <2>1, <2>3, <2>4, <2>7, SampledTyped
<1>11. QED
  BY <1>9, <1>10

LEMMA FrameTyped == ASSUME TypeInv, Frame PROVE TypeInv'
<1>1. CASE AlacWait \/ AlacComplete \/ NoSizes
  <2>1. /\ Unmoved /\ damage' = damage
        /\ \E state \in {"running", "complete", "error", "crash"} : Returns(state)
    BY <1>1 DEF AlacWait, AlacComplete, NoSizes, Unmoved
  <2>2. damage' \subseteq {"missed", "early", "mangled"}
    BY <2>1 DEF TypeInv, TypeOK
  <2>3. QED
    BY <2>1, <2>2, UnmovedTyped
<1>2. QED
  BY <1>1, AacFrameTyped, AlacFrameTyped DEF Frame

-----------------------------------------------------------------------------
(* The calls.                                                              *)

LEMMA ConsumeTyped == ASSUME TypeInv, Consume PROVE TypeInv'
<1> DEFINE most == IF file.codec = "aac" THEN Cont ELSE Used
           n == LesserOf(h.consume, most)
           rest == h.consume - n
           x == [h EXCEPT !.consume = rest]
<1>1. /\ Advance(n, x) /\ Returns("running") /\ dec.pc = "idle"
      /\ UNCHANGED <<file, arrived, closed, out, turn, damage>>
  BY DEF Consume, Called
<1>2. /\ h \in Handle /\ h.consume \in Nat /\ TablesOK(h) /\ h.pos = rd
      /\ out' \in Seq(Nat) /\ damage' \subseteq {"missed", "early", "mangled"}
      /\ ~dec.new => /\ h.chunks # NoTable => h.nextchunk \in 1..Len(h.chunks) - 1
                     /\ h.table # NoTable => h.block \in 0..Len(h.table) - 1
  BY <1>1 DEF TypeInv, TypeOK, CallInv, Handle
<1>3. most \in Nat /\ most <= Used /\ Used \in Nat
  BY Buffered DEF TypeInv
<1> HIDE DEF most
<1>4. n \in Nat /\ n <= Used /\ rest \in Nat
  <2>1. n \in Nat /\ n <= h.consume /\ n <= most
    BY <1>2, <1>3, Lesser
  <2> HIDE DEF n
  <2>2. QED
    BY <1>2, <1>3, <2>1
<1> HIDE DEF n, rest
<1>5. x \in Handle
  BY <1>2, <1>4 DEF Handle
<1>6. /\ x.pos = h.pos /\ x.chunks = h.chunks /\ x.table = h.table
      /\ x.nextchunk = h.nextchunk /\ x.block = h.block
  BY <1>2 DEF Handle
<1> HIDE DEF x
<1>7. dec' \in Calls /\ dec'.pc = "idle" /\ dec'.new = dec.new
  BY <1>1, ReturnsTyped
<1>8. TablesOK(x) /\ x.pos = rd
  BY <1>2, <1>6 DEF TablesOK
<1>9. ~dec'.new => /\ x.chunks # NoTable => x.nextchunk \in 1..Len(x.chunks) - 1
                   /\ x.table # NoTable => x.block \in 0..Len(x.table) - 1
  BY <1>2, <1>6, <1>7
<1>10. QED
  BY <1>1, <1>2, <1>4, <1>5, <1>7, <1>8, <1>9, MovedTyped

LEMMA BeginsTyped == ASSUME TypeInv, DecodeBegins PROVE TypeInv'
<1>1. /\ UNCHANGED <<file, arrived, closed, rd, ring, h, out, turn, damage>>
      /\ dec.state = "running" /\ dec \in Calls
      /\ dec' = [dec EXCEPT !.pc = IF dec.new THEN "header" ELSE "frame", !.bytes = Cont]
  BY DEF DecodeBegins, Called, TypeInv, TypeOK
<1>2. Cont \in 0..BufSize /\ Cont <= Used
  BY Buffered, Numbers DEF TypeInv
<1> DEFINE c == Cont
           p == IF dec.new THEN "header" ELSE "frame"
<1>3. p \in {"idle", "header", "frame"} /\ c \in 0..BufSize /\ dec' = [dec EXCEPT !.pc = p, !.bytes = c]
  BY <1>1, <1>2
<1> HIDE DEF p, c
<1>4. /\ dec' \in Calls /\ dec'.pc = p /\ dec'.bytes = c /\ dec'.new = dec.new
      /\ dec'.state = "running"
  BY <1>1, <1>3 DEF Calls
<1>5. TypeOK'
  BY <1>1, <1>4 DEF TypeInv, TypeOK, Used
<1>6. CallInv'
  <2>1. Used' = Used
    BY <1>1 DEF Used
  <2>2. c <= Used /\ (p = "header" => dec.new) /\ (p = "frame" => ~dec.new)
    BY <1>2 DEF c, p
  <2>3. QED
    BY <1>1, <1>4, <2>1, <2>2 DEF TypeInv, CallInv, TablesOK
<1>7. QED
  BY <1>5, <1>6 DEF TypeInv

LEMMA ReopenTyped == ASSUME TypeInv, Reopen PROVE TypeInv'
<1>1. /\ file' \in Files /\ arrived' = 0 /\ closed' = FALSE /\ rd' = 0 /\ ring' = 0
      /\ dec' = Fresh /\ out' = << >> /\ turn' = turn + 1 /\ damage' = {} /\ turn < MaxTurns
  BY DEF Reopen
<1>2. h' \in Handle /\ TablesOK(h') /\ h'.pos = 0
  <2>1. h' = Opened(h.trak, h.play) \/ \E codec : h' \in NewHandles(codec)
    BY DEF Reopen
  <2>2. h.trak \in Nat /\ h.play \in Nat
    BY DEF TypeInv, TypeOK, Handle
  <2>3. QED
    BY <2>1, <2>2, Opens, NewTyped
<1>3. dec' \in Calls /\ dec'.pc = "idle" /\ dec'.new
  BY <1>1, FreshCall DEF Fresh
<1>4. file'.cut \in Nat
  BY <1>1, Mp4Assumption DEF FileOK
<1>5. turn' \in 1..MaxTurns
  BY <1>1, Numbers DEF TypeInv, TypeOK
<1>6. TypeOK'
  <2>1. /\ arrived' \in 0..file'.cut /\ rd' \in 0..arrived' /\ Used' < BufSize
        /\ ring' \in 0..BufSize - 1
    BY <1>1, <1>4, Numbers DEF Used
  <2>2. << >> \in Seq(Nat)
    OBVIOUS
  <2>3. closed' \in BOOLEAN /\ out' \in Seq(Nat) /\ damage' \subseteq {"missed", "early", "mangled"}
        /\ h'.pos = rd'
    BY <1>1, <1>2, <2>2
  <2>4. QED
    BY <1>1, <1>2, <1>3, <1>5, <2>1, <2>3 DEF TypeOK
<1>7. CallInv'
  BY <1>2, <1>3 DEF CallInv, TablesOK
<1>8. QED
  BY <1>6, <1>7 DEF TypeInv

LEMMA StepTyped == ASSUME TypeInv, [Next]_vars PROVE TypeInv'
<1>1. CASE AacComplete
  <2>1. Unmoved /\ Returns("complete") /\ damage' \subseteq {"missed", "early", "mangled"}
    BY <1>1 DEF AacComplete, Unmoved, TypeInv, TypeOK
  <2>2. QED
    BY <2>1, UnmovedTyped
<1>2. CASE UNCHANGED vars
  BY <1>2 DEF vars, TypeInv, TypeOK, CallInv, TablesOK, Used
<1>3. QED
  BY <1>1, <1>2, StreamTyped, HeaderTyped, FrameTyped, ConsumeTyped, BeginsTyped, ReopenTyped
     DEF Next, Decode

(* Whatever file comes, cut off wherever, and however it arrives: readp    *)
(* never passes writep, pos counts to readp's place, what is buffered fits *)
(* and the handle is as typed (faad.c, alac.c: _buf_inc_readp, and the     *)
(* counters pos and consume).                                              *)
THEOREM Mp4Typing == Spec => []TypeOK
<1>1. Init => TypeInv
  BY InitTyped
<1>2. TypeInv /\ [Next]_vars => TypeInv'
  BY StepTyped
<1>3. TypeInv => TypeOK
  BY DEF TypeInv
<1>4. QED
  BY <1>1, <1>2, <1>3, PTL DEF Spec

(* While a track is decoded the numbers of the next chunk and of the next  *)
(* block are inside their tables, whose last entry, a zero, is never       *)
(* passed (faad.c:425, alac.c:358, 391).                                   *)
TablesRead ==
  dec.pc = "frame" =>
    /\ h.chunks # NoTable => h.nextchunk + 1 \in DOMAIN h.chunks
    /\ h.table # NoTable => h.block + 1 \in DOMAIN h.table

THEOREM InsideTables == Spec => []TablesRead
<1>1. Init => TypeInv
  BY InitTyped
<1>2. TypeInv /\ [Next]_vars => TypeInv'
  BY StepTyped
<1>3. TypeInv => TablesRead
  <2>1. SUFFICES ASSUME TypeInv, dec.pc = "frame"
                 PROVE  /\ h.chunks # NoTable => h.nextchunk + 1 \in DOMAIN h.chunks
                        /\ h.table # NoTable => h.block + 1 \in DOMAIN h.table
    BY DEF TablesRead
  <2>2. h.chunks \in Seq([offset : Nat, sample : Nat]) /\ h.table \in Seq(Nat)
    BY <2>1 DEF TypeInv, TypeOK, Handle
  <2>3. DOMAIN h.chunks = 1..Len(h.chunks) /\ DOMAIN h.table = 1..Len(h.table)
    BY <2>2
  <2>4. h.chunks # NoTable => h.nextchunk + 1 \in DOMAIN h.chunks
    BY <2>1, <2>3, NextEntry
  <2>5. h.table # NoTable => h.block + 1 \in DOMAIN h.table
    <3> DEFINE l == Len(h.table)
    <3>1. l \in Nat /\ (h.table # NoTable => h.block \in 0..l - 1)
      BY <2>1, <2>2 DEF TypeInv, CallInv
    <3> HIDE DEF l
    <3>2. h.table # NoTable => h.block + 1 \in 1..l
      BY <3>1
    <3>3. QED
      BY <2>3, <3>2 DEF l
  <2>6. QED
    BY <2>4, <2>5
<1>4. QED
  BY <1>1, <1>2, <1>3, PTL DEF Spec

-----------------------------------------------------------------------------
(* The boxes of the header.                                                *)

LEMMA BoxesTyped ==
  ASSUME NEW f, FileOK(f)
  PROVE  /\ Len(f.boxes) \in Nat /\ DOMAIN f.boxes = 1..Len(f.boxes)
         /\ \A i \in 1..Len(f.boxes) : BoxOK(f.boxes[i]) /\ Own(f.boxes[i]) \in Nat
                                       /\ Own(f.boxes[i]) >= 1
BY OwnTyped DEF FileOK

(* Each box starts where the one before it ends. *)
LEMMA BoxSteps ==
  ASSUME NEW f, FileOK(f)
  PROVE  /\ BoxAt(f, 1) = 0
         /\ \A i \in 1..Len(f.boxes) : BoxAt(f, i + 1) = BoxAt(f, i) + Own(f.boxes[i])
<1> DEFINE n == Len(f.boxes)
           own(c) == Own(f.boxes[c])
           body(z, j) == IF j = 0 THEN 0 ELSE z[j - 1] + own(j)
           g == [c \in 1..n |-> [x \in Nat |-> x + own(c)]]
           upTo == CHOOSE z : z = [j \in 0..n |-> body(z, j)]
<1>1. \A i : BoxAt(f, i) = upTo[i - 1]
  BY DEF BoxAt
<1>2. n \in Nat /\ \A c \in 1..n : own(c) \in Nat
  BY BoxesTyped
<1>3. g \in [1..n -> [Nat -> Nat]]
  <2> HIDE DEF own, n
  <2> QED
    BY <1>2
<1>4. PICK all \in [0..n -> Nat] : all[0] = 0 /\ \A c \in 1..n : all[c] = g[c][all[c - 1]]
  <2> DEFINE D == Nat
             a == 0
  <2>1. a \in D /\ n \in Nat /\ g \in [1..n -> [D -> D]]
    BY <1>2, <1>3
  <2> HIDE DEF g, D, a, n
  <2>2. \E z \in [0..n -> D] : Follows(z, a, n, g)
    BY <2>1, Recurrence
  <2>3. QED
    BY <2>2 DEF D, Follows, a
<1> HIDE DEF own, n
<1>5. all = [j \in 0..n |-> body(all, j)]
  <2>1. ASSUME NEW j \in 0..n PROVE all[j] = body(all, j)
    <3>1. CASE j = 0
      BY <3>1, <1>4
    <3>2. CASE j # 0
      <4>1. j \in 1..n /\ j - 1 \in 0..n
        BY <3>2, <1>2
      <4>2. all[j - 1] \in Nat /\ all[j] = g[j][all[j - 1]]
        BY <4>1, <1>4
      <4>3. all[j] = all[j - 1] + own(j)
        BY <4>1, <4>2
      <4>4. QED
        BY <3>2, <4>3
    <3>3. QED
      BY <3>1, <3>2
  <2>2. all = [j \in 0..n |-> all[j]]
    OBVIOUS
  <2> HIDE DEF body
  <2>3. QED
    BY <2>1, <2>2
<1>6. upTo = [j \in 0..n |-> body(upTo, j)]
  <2> HIDE DEF body
  <2>1. \E z : z = [j \in 0..n |-> body(z, j)]
    BY <1>5
  <2>2. QED
    BY <2>1, Zenon
<1>7. \A j \in 0..n : upTo[j] = body(upTo, j)
  <2> HIDE DEF body, upTo
  <2> QED
    BY <1>6
<1> HIDE DEF upTo
<1>8. BoxAt(f, 1) = 0
  <2>1. 0 \in 0..n /\ 1 - 1 = 0
    BY <1>2
  <2>2. QED
    BY <1>1, <1>7, <2>1
<1>9. ASSUME NEW i \in 1..n PROVE BoxAt(f, i + 1) = BoxAt(f, i) + own(i)
  <2>1. i \in 0..n /\ i # 0 /\ (i + 1) - 1 = i
    BY <1>2
  <2>2. upTo[i] = upTo[i - 1] + own(i)
    BY <1>7, <2>1
  <2>3. BoxAt(f, i + 1) = upTo[(i + 1) - 1] /\ BoxAt(f, i) = upTo[i - 1]
    BY <1>1
  <2>4. QED
    BY <2>1, <2>2, <2>3
<1>10. QED
  BY <1>8, <1>9 DEF own, n

LEMMA BoxPlaces ==
  ASSUME NEW f, FileOK(f)
  PROVE  \A i \in 1..Len(f.boxes) + 1 : BoxAt(f, i) \in Nat
<1> DEFINE n == Len(f.boxes)
           z == [c \in 0..n |-> BoxAt(f, c + 1)]
<1>1. n \in Nat
  BY BoxesTyped
<1>2. z[0] \in Nat
  BY BoxSteps, <1>1
<1>3. ASSUME NEW c \in 1..n, z[c - 1] \in Nat PROVE z[c] \in Nat
  <2>1. c - 1 \in 0..n /\ (c - 1) + 1 = c /\ c \in 0..n
    BY <1>1
  <2>2. z[c - 1] = BoxAt(f, c) /\ z[c] = BoxAt(f, c + 1)
    BY <2>1
  <2>3. BoxAt(f, c + 1) = BoxAt(f, c) + Own(f.boxes[c]) /\ Own(f.boxes[c]) \in Nat
    BY BoxSteps, BoxesTyped
  <2>4. QED
    BY <1>3, <2>2, <2>3
<1>4. \A c \in 0..n : z[c] \in Nat
  <2> HIDE DEF z, n
  <2> QED
    BY <1>1, <1>2, <1>3, Along
<1>5. ASSUME NEW i \in 1..n + 1 PROVE BoxAt(f, i) \in Nat
  <2>1. i - 1 \in 0..n /\ (i - 1) + 1 = i
    BY <1>1
  <2>2. z[i - 1] = BoxAt(f, i)
    BY <2>1
  <2> HIDE DEF z
  <2>3. QED
    BY <1>4, <2>1, <2>2
<1>6. QED
  BY <1>5

(* Two boxes do not start at the same place. *)
LEMMA BoxesApart ==
  ASSUME NEW f, FileOK(f), NEW i \in 1..Len(f.boxes) + 1, NEW j \in 1..Len(f.boxes) + 1, i < j
  PROVE  BoxAt(f, i) < BoxAt(f, j)
<1> DEFINE n == Len(f.boxes)
           Grown(d) == i + d + 1 <= n + 1 => BoxAt(f, i) < BoxAt(f, i + d + 1)
           S == {d \in Nat : Grown(d)}
<1>1. n \in Nat /\ i \in Nat /\ j \in Nat /\ i >= 1
  BY BoxesTyped
<1>2. \A k \in 1..n : /\ BoxAt(f, k + 1) = BoxAt(f, k) + Own(f.boxes[k])
                      /\ Own(f.boxes[k]) \in Nat /\ Own(f.boxes[k]) >= 1
                      /\ BoxAt(f, k) \in Nat
  BY BoxSteps, BoxesTyped, BoxPlaces
<1>3. Grown(0)
  <2>1. SUFFICES ASSUME i + 0 + 1 <= n + 1 PROVE BoxAt(f, i) < BoxAt(f, i + 0 + 1)
    OBVIOUS
  <2>2. i \in 1..n /\ i + 0 + 1 = i + 1
    BY <1>1, <2>1
  <2>3. QED
    BY <1>2, <2>2
<1>4. ASSUME NEW d \in Nat, Grown(d) PROVE Grown(d + 1)
  <2>1. SUFFICES ASSUME i + (d + 1) + 1 <= n + 1 PROVE BoxAt(f, i) < BoxAt(f, i + (d + 1) + 1)
    OBVIOUS
  <2> DEFINE k == i + d + 1
  <2>2. k \in 1..n /\ i + (d + 1) + 1 = k + 1 /\ k <= n + 1 /\ i \in 1..n
    BY <1>1, <2>1
  <2>3. BoxAt(f, i) < BoxAt(f, k)
    BY <1>4, <2>2
  <2> HIDE DEF k
  <2>4. BoxAt(f, k + 1) = BoxAt(f, k) + Own(f.boxes[k]) /\ Own(f.boxes[k]) \in Nat
        /\ BoxAt(f, k) \in Nat /\ BoxAt(f, i) \in Nat
    BY <1>2, <2>2
  <2>5. BoxAt(f, i) < BoxAt(f, k + 1)
    BY <2>3, <2>4
  <2>6. QED
    BY <2>2, <2>5
<1>5. S = Nat
  <2> HIDE DEF Grown
  <2>1. S \subseteq Nat /\ 0 \in S /\ \A d \in S : d + 1 \in S
    BY <1>3, <1>4
  <2>2. QED
    BY <2>1, Induct
<1>6. j - i - 1 \in Nat
  BY <1>1
<1>7. Grown(j - i - 1)
  <2> HIDE DEF Grown
  <2> QED
    BY <1>5, <1>6
<1>8. i + (j - i - 1) + 1 = j /\ j <= n + 1
  BY <1>1
<1>9. QED
  BY <1>7, <1>8

(* The handles between the boxes. *)
LEMMA HeadSteps ==
  ASSUME NEW f, FileOK(f), NEW x \in Handle, TablesOK(x)
  PROVE  /\ Heads(f, x)[0] = x
         /\ \A i \in 1..Len(f.boxes) :
              Heads(f, x)[i] = Read(f.codec, Heads(f, x)[i - 1], f.boxes[i])
         /\ \A i \in 0..Len(f.boxes) : Heads(f, x)[i] \in Handle /\ TablesOK(Heads(f, x)[i])
<1> DEFINE n == Len(f.boxes)
           D == {y \in Handle : TablesOK(y)}
           read(c, y) == Read(f.codec, y, f.boxes[c])
           body(z, j) == IF j = 0 THEN x ELSE read(j, z[j - 1])
           g == [c \in 1..n |-> [y \in D |-> read(c, y)]]
           head == CHOOSE z : z = [j \in 0..n |-> body(z, j)]
<1>1. Heads(f, x) = head
  BY DEF Heads
<1>2. n \in Nat /\ x \in D
  BY BoxesTyped
<1>3. \A c \in 1..n : \A y \in D : read(c, y) \in D
  BY BoxesTyped, ReadTyped
<1> HIDE DEF read, n, D
<1>4. g \in [1..n -> [D -> D]]
  BY <1>3
<1>5. PICK all \in [0..n -> D] : all[0] = x /\ \A c \in 1..n : all[c] = g[c][all[c - 1]]
  <2> HIDE DEF g
  <2>1. \E z \in [0..n -> D] : Follows(z, x, n, g)
    BY <1>2, <1>4, Recurrence
  <2>2. QED
    BY <2>1 DEF Follows
<1>6. all = [j \in 0..n |-> body(all, j)]
  <2>1. ASSUME NEW j \in 0..n PROVE all[j] = body(all, j)
    <3>1. CASE j = 0
      BY <3>1, <1>5
    <3>2. CASE j # 0
      <4>1. j \in 1..n /\ j - 1 \in 0..n
        BY <3>2, <1>2
      <4>2. all[j - 1] \in D /\ all[j] = g[j][all[j - 1]]
        BY <4>1, <1>5
      <4>3. all[j] = read(j, all[j - 1])
        BY <4>1, <4>2
      <4>4. QED
        BY <3>2, <4>3
    <3>3. QED
      BY <3>1, <3>2
  <2>2. all = [j \in 0..n |-> all[j]]
    OBVIOUS
  <2> HIDE DEF body
  <2>3. QED
    BY <2>1, <2>2
<1>7. head = [j \in 0..n |-> body(head, j)]
  <2> HIDE DEF body
  <2>1. \E z : z = [j \in 0..n |-> body(z, j)]
    BY <1>6
  <2>2. QED
    BY <2>1, Zenon
<1>8. \A j \in 0..n : head[j] = body(head, j)
  <2> HIDE DEF body, head
  <2> QED
    BY <1>7
<1> HIDE DEF head
<1>9. head[0] = x
  BY <1>2, <1>8
<1>10. ASSUME NEW i \in 1..n PROVE head[i] = read(i, head[i - 1])
  <2>1. i \in 0..n /\ i # 0
    BY <1>2
  <2>2. QED
    BY <1>8, <2>1
<1>11. \A i \in 0..n : head[i] \in D
  <2>1. head[0] \in D
    BY <1>9, <1>2
  <2>2. \A c \in 1..n : head[c - 1] \in D => head[c] \in D
    BY <1>3, <1>10
  <2>3. QED
    BY <1>2, <2>1, <2>2, Along
<1>12. QED
  BY <1>1, <1>9, <1>10, <1>11 DEF n, read, D

-----------------------------------------------------------------------------
(* The invariants.                                                         *)

(* Alike but for the place, which no box tells. *)
Alike(x, y) ==
  /\ x.trak = y.trak /\ x.play = y.play /\ x.config = y.config
  /\ x.stsc = y.stsc /\ x.chunks = y.chunks /\ x.stts = y.stts
  /\ x.default = y.default /\ x.table = y.table /\ x.block = y.block
  /\ x.skip = y.skip /\ x.samples = y.samples /\ x.empty = y.empty
  /\ x.sample = y.sample /\ x.nextchunk = y.nextchunk

(* What the handle may be when a track is opened. *)
Openings(codec) ==
  IF codec = "alac" THEN {Opened(0, 0)} ELSE {Opened(m, n) : m \in Nat, n \in Nat}

(* In the header: readp, or what is left to consume, leads to a box, and   *)
(* the handle is as the boxes before it tell.                              *)
AtBox(i, x) ==
  /\ i \in 1..Len(file.boxes) + 1
  /\ \A j \in 1..i - 1 : file.boxes[j].type # "mdat"
  /\ rd + h.consume = BoxAt(file, i)
  /\ Alike(h, Heads(file, x)[i - 1])

HeaderInv ==
  Sound /\ dec.new /\ dec.state = "running" =>
    /\ \E i \in 1..Len(file.boxes) + 1 : \E x \in Openings(file.codec) : AtBox(i, x)
    /\ dec.pc = "header" => h.consume = 0

(* Where sample k is; the one behind the last is where that ends. *)
SampleAt(k) ==
  IF k \in DOMAIN file.at THEN file.at[k]
  ELSE file.at[Len(file.at)] + file.sizes[Len(file.at)]

(* There is another chunk, in the handle x. *)
More(x) == x.chunks # NoTable /\ x.nextchunk + 1 < Len(x.chunks)

(* Sample k is the next: in the chunk before nextchunk, and counted as far *)
(* as another chunk may come.                                              *)
Counts(x, k) ==
  /\ x.chunks # NoTable => x.chunks[x.nextchunk].sample < k
  /\ More(x) => x.sample = k /\ k <= x.chunks[x.nextchunk + 1].sample

(* Its entry in the table of blocks. *)
NextBlock(x, k) ==
  file.codec = "alac" /\ x.default = 0 /\ x.table # NoTable => x.block = k - 1

AtSample(k) ==
  /\ k \in 1..Len(file.at) + 1
  /\ rd + h.consume = SampleAt(k)
  /\ Counts(h, k) /\ NextBlock(h, k)

(* The server broke off in sample k, and faad.c tries what is left of it.  *)
InTorn(k) ==
  /\ k \in DOMAIN file.at
  /\ file.codec = "aac" /\ closed /\ h.consume = 0
  /\ file.at[k] < rd /\ file.cut < file.at[k] + file.sizes[k]
  /\ More(h) => k <= h.chunks[h.nextchunk + 1].sample

SampleInv ==
  Sound /\ ~dec.new /\ dec.state = "running" =>
    /\ Laid(file, h) /\ file.at[1] > 0
    /\ \E k \in 1..Len(file.at) + 1 : AtSample(k) \/ InTorn(k)
    /\ dec.pc = "frame" =>
         h.consume = 0 /\ (file.codec = "aac" => Used > MinRead \/ closed)

AllSent == closed => arrived = file.cut

AlignInv == TypeInv /\ AllSent /\ HeaderInv /\ SampleInv

-----------------------------------------------------------------------------
(* The header is read.                                                     *)

(* What a box says does not depend on the place. *)
LEMMA ReadAlike ==
  ASSUME NEW codec, NEW x \in Handle, NEW y \in Handle, Alike(x, y), NEW b
  PROVE  Alike(Read(codec, x, b), Read(codec, y, b))
<1> DEFINE plain == b.type \notin {"moov", "trak"} /\ b.type # ConfigBox(codec)
<1>1. CASE b.type = "moov"
  <2> DEFINE rx == [x EXCEPT !.trak = 0, !.play = 0]
             ry == [y EXCEPT !.trak = 0, !.play = 0]
  <2>1. Read(codec, x, b) = rx /\ Read(codec, y, b) = ry
    BY <1>1 DEF Read, ConfigBox
  <2>3. \A m, n : Alike([x EXCEPT !.trak = m, !.play = n],
             [y EXCEPT !.trak = m, !.play = n])
    BY DEF Alike, Handle
  <2>4. Alike(rx, ry)
    BY <2>3
  <2> HIDE DEF rx, ry
  <2>5. QED
    BY <2>1, <2>4
<1>2. CASE b.type = "trak"
  <2> DEFINE rx == [x EXCEPT !.trak = x.trak + 1]
             ry == [y EXCEPT !.trak = y.trak + 1]
  <2>1. Read(codec, x, b) = rx /\ Read(codec, y, b) = ry
    BY <1>2 DEF Read, ConfigBox
  <2>2. x.trak = y.trak
    BY DEF Alike
  <2>3. \A m : Alike([x EXCEPT !.trak = m],
             [y EXCEPT !.trak = m])
    BY DEF Alike, Handle
  <2>4. Alike(rx, ry)
    BY <2>2, <2>3
  <2> HIDE DEF rx, ry
  <2>5. QED
    BY <2>1, <2>4
<1>3. CASE b.type \notin {"moov", "trak"} /\ b.type = ConfigBox(codec)
  <2> DEFINE play(z) == IF b.playable \/ codec = "alac" THEN z.trak ELSE z.play
             config(z) == z.config \/ b.playable
             px == play(x)
             cx == config(x)
             rx == [x EXCEPT !.play = px, !.config = cx]
             ry == [y EXCEPT !.play = px, !.config = cx]
  <2>1. px = play(y) /\ cx = config(y)
    BY DEF Alike
  <2>2. Read(codec, x, b) = ReadConfig(codec, x, b) /\ Read(codec, y, b) = ReadConfig(codec, y, b)
    BY <1>3 DEF Read, ConfigBox
  <2>3. ReadConfig(codec, x, b) = rx
    BY DEF ReadConfig
  <2>4. ReadConfig(codec, y, b) = [y EXCEPT !.play = play(y), !.config = config(y)]
    BY DEF ReadConfig
  <2> HIDE DEF px, cx, play, config
  <2>5. Alike(rx, ry)
    BY DEF Alike, Handle
  <2>6. QED
    BY <2>1, <2>2, <2>3, <2>4, <2>5
<1>4. CASE plain /\ b.type = "stsz" /\ codec = "alac"
  <2> DEFINE table == Append(b.sizes, 0)
             rx == IF b.default > 0 THEN [x EXCEPT !.default = b.default]
                   ELSE [x EXCEPT !.default = 0, !.table = table]
             ry == IF b.default > 0 THEN [y EXCEPT !.default = b.default]
                   ELSE [y EXCEPT !.default = 0, !.table = table]
  <2>1. Read(codec, x, b) = rx /\ Read(codec, y, b) = ry
    BY <1>4 DEF Read, ReadSizes, ConfigBox
  <2> HIDE DEF table
  <2>2. \A m, t : Alike([x EXCEPT !.default = m, !.table = t], [y EXCEPT !.default = m, !.table = t])
    BY DEF Alike, Handle
  <2>3. \A m : Alike([x EXCEPT !.default = m], [y EXCEPT !.default = m])
    BY DEF Alike, Handle
  <2>4. Alike(rx, ry)
    BY <2>2, <2>3
  <2> HIDE DEF rx, ry
  <2>5. QED
    BY <2>1, <2>4
<1>5. CASE plain /\ b.type = "stts"
  <2> DEFINE rx == [x EXCEPT !.stts = x.stts + b.frames]
             ry == [y EXCEPT !.stts = y.stts + b.frames]
  <2>1. Read(codec, x, b) = rx /\ Read(codec, y, b) = ry
    BY <1>5 DEF Read, ConfigBox, ReadTimes
  <2>2. x.stts = y.stts
    BY DEF Alike
  <2>3. \A m : Alike([x EXCEPT !.stts = m],
             [y EXCEPT !.stts = m])
    BY DEF Alike, Handle
  <2>4. Alike(rx, ry)
    BY <2>2, <2>3
  <2> HIDE DEF rx, ry
  <2>5. QED
    BY <2>1, <2>4
<1>6. CASE plain /\ b.type = "stsc"
  <2> DEFINE rx == IF x.chunks = NoTable THEN [x EXCEPT !.stsc = b.runs] ELSE x
             ry == IF y.chunks = NoTable THEN [y EXCEPT !.stsc = b.runs] ELSE y
  <2>1. Read(codec, x, b) = rx /\ Read(codec, y, b) = ry
    BY <1>6 DEF Read, ConfigBox, StashChunkRuns
  <2>2. x.chunks = y.chunks /\ Alike(x, y)
    BY DEF Alike
  <2>3. \A m : Alike([x EXCEPT !.stsc = m],
             [y EXCEPT !.stsc = m])
    BY DEF Alike, Handle
  <2>4. Alike(rx, ry)
    BY <2>2, <2>3
  <2> HIDE DEF rx, ry
  <2>5. QED
    BY <2>1, <2>4
<1>7. CASE plain /\ b.type = "stco"
  <2> DEFINE chunks(z) == [i \in 1..Len(b.offsets) |->
                 [offset |-> b.offsets[i], sample |-> FirstSample(z.stsc, i)]]
                 \o <<[offset |-> 0, sample |-> 0]>>
             c == chunks(x)
             rx == IF x.play # x.trak THEN x ELSE [x EXCEPT !.chunks = c, !.stsc = NoTable]
             ry == IF y.play # y.trak THEN y ELSE [y EXCEPT !.chunks = c, !.stsc = NoTable]
  <2>1. Read(codec, x, b) = ReadChunks(x, b) /\ Read(codec, y, b) = ReadChunks(y, b)
    BY <1>7 DEF Read, ConfigBox
  <2>2. c = chunks(y)
    BY DEF Alike
  <2>3. ReadChunks(x, b) = rx
    BY DEF ReadChunks
  <2>4. ReadChunks(y, b) = IF y.play # y.trak THEN y
                           ELSE [y EXCEPT !.chunks = chunks(y), !.stsc = NoTable]
    BY DEF ReadChunks
  <2> HIDE DEF c, chunks
  <2>5. \A m, n : Alike([x EXCEPT !.chunks = m, !.stsc = n], [y EXCEPT !.chunks = m, !.stsc = n])
    BY DEF Alike, Handle
  <2>6. x.play = y.play /\ x.trak = y.trak
    BY DEF Alike
  <2>7. Alike(rx, ry)
    BY <2>5, <2>6
  <2>8. ReadChunks(y, b) = ry
    BY <2>2, <2>4
  <2> HIDE DEF rx, ry
  <2>9. QED
    BY <2>1, <2>3, <2>7, <2>8
<1>8. CASE plain /\ b.type = "----"
  <2> DEFINE some(z) == IF z.stts > 0 /\ z.stts < b.start + b.end + b.frames
                        THEN (z.stts - (b.start + b.end)) % Word ELSE b.frames
             m == some(x)
             rx == [x EXCEPT !.skip = b.start, !.samples = m]
             ry == [y EXCEPT !.skip = b.start, !.samples = m]
  <2>1. Read(codec, x, b) = ReadGapless(x, b) /\ Read(codec, y, b) = ReadGapless(y, b)
    BY <1>8 DEF Read, ConfigBox
  <2>2. m = some(y)
    BY DEF Alike
  <2>3. ReadGapless(x, b) = rx
    BY DEF ReadGapless
  <2>4. ReadGapless(y, b) = [y EXCEPT !.skip = b.start, !.samples = some(y)]
    BY DEF ReadGapless
  <2> HIDE DEF m, some
  <2>5. Alike(rx, ry)
    BY DEF Alike, Handle
  <2>6. QED
    BY <2>1, <2>2, <2>3, <2>4, <2>5
<1>9. CASE /\ plain /\ b.type \notin {"stts", "stsc", "stco", "----"}
           /\ ~(b.type = "stsz" /\ codec = "alac")
  <2>1. Read(codec, x, b) = x /\ Read(codec, y, b) = y
    BY <1>9 DEF Read
  <2>2. QED
    BY <2>1
<1>10. QED
  BY <1>1, <1>2, <1>3, <1>4, <1>5, <1>6, <1>7, <1>8, <1>9

(* A box that is not missed is read. *)
LEMMA ReadOrMissed ==
  ASSUME NEW i \in DOMAIN file.boxes, Missed(file.boxes[i]) = {}
  PROVE  Parsed(file.boxes[i]) = Read(file.codec, h, file.boxes[i])
<1> DEFINE b == file.boxes[i]
<1>1. CASE b.type \in {"moov", "trak"} \/ Whole(b)
  BY <1>1 DEF Parsed
<1>2. CASE ~(b.type \in {"moov", "trak"} \/ Whole(b))
  <2>1. Parsed(b) = h /\ ~Wanted(b)
    BY <1>2 DEF Parsed, Missed
  <2>2. Read(file.codec, h, b) = h
    BY <1>2, <2>1 DEF Wanted, Read
  <2>3. QED
    BY <2>1, <2>2
<1>3. QED
  BY <1>1, <1>2

LEMMA OpeningsTyped ==
  ASSUME NEW codec, NEW x \in Openings(codec)
  PROVE  x \in Handle /\ TablesOK(x) /\ x.consume = 0
<1>1. 0 \in Nat
  OBVIOUS
<1>2. \A m, n \in Nat : Opened(m, n).consume = 0
  BY DEF Opened
<1>3. QED
  BY <1>1, <1>2, Opens DEF Openings

LEMMA AlikeItself ==
  ASSUME NEW x
  PROVE  Alike(x, x)
BY DEF Alike

LEMMA AlikeChain ==
  ASSUME NEW x, NEW y, NEW z, Alike(x, y), Alike(y, z)
  PROVE  Alike(x, z)
BY DEF Alike

(* From a box to the next. *)
LEMMA NextBox ==
  ASSUME TypeInv, NEW i \in DOMAIN file.boxes, file.boxes[i].type # "mdat",
         NEW x \in Openings(file.codec), AtBox(i, x), Missed(file.boxes[i]) = {},
         file' = file, Alike(h', Parsed(file.boxes[i])),
         rd' + h'.consume = Start(i) + Own(file.boxes[i])
  PROVE  i + 1 \in 1..Len(file.boxes) + 1 /\ AtBox(i + 1, x)'
<1> DEFINE n == Len(file.boxes)
           b == file.boxes[i]
           heads == Heads(file, x)
<1>1. FileOK(file)
  BY Buffered DEF TypeInv
<1>2. n \in Nat /\ i \in 1..n
  BY <1>1, BoxesTyped
<1>3. x \in Handle /\ TablesOK(x)
  BY OpeningsTyped
<1>4. /\ heads[i] = Read(file.codec, heads[i - 1], b)
      /\ heads[i - 1] \in Handle
  BY <1>1, <1>2, <1>3, HeadSteps
<1>5. Alike(h, heads[i - 1]) /\ \A j \in 1..i - 1 : file.boxes[j].type # "mdat"
  BY DEF AtBox
<1>6. h \in Handle
  BY DEF TypeInv, TypeOK
<1>7. Alike(h', heads[i])
  <2>1. Parsed(b) = Read(file.codec, h, b)
    BY ReadOrMissed
  <2>2. Alike(Read(file.codec, h, b), Read(file.codec, heads[i - 1], b))
    BY <1>4, <1>5, <1>6, ReadAlike
  <2>3. QED
    BY <1>4, <2>1, <2>2, AlikeChain
<1>8. rd' + h'.consume = BoxAt(file, i + 1)
  BY <1>1, <1>2, BoxSteps DEF Start
<1>9. \A j \in 1..(i + 1) - 1 : file.boxes[j].type # "mdat"
  BY <1>2, <1>5
<1>10. (i + 1) - 1 = i /\ i + 1 \in 1..n + 1
  BY <1>2
<1> HIDE DEF heads
<1>11. QED
  BY <1>7, <1>8, <1>9, <1>10 DEF AtBox, heads

(* readp is at one box only. *)
LEMMA TheBox ==
  ASSUME TypeInv, h.consume = 0, NEW i \in DOMAIN file.boxes, Reading(i),
         NEW j \in 1..Len(file.boxes) + 1, NEW x, AtBox(j, x)
  PROVE  i = j
<1> DEFINE n == Len(file.boxes)
<1>1. FileOK(file)
  BY Buffered DEF TypeInv
<1>2. n \in Nat /\ i \in 1..n + 1 /\ i \in Nat /\ j \in Nat
  BY <1>1, BoxesTyped
<1>3. BoxAt(file, i) = BoxAt(file, j)
  <2>1. rd \in Nat
    BY Buffered DEF TypeInv
  <2>2. rd = BoxAt(file, i) /\ rd + h.consume = BoxAt(file, j)
    BY DEF Reading, Start, AtBox
  <2>3. QED
    BY <2>1, <2>2
<1>4. BoxAt(file, i) \in Nat
  BY <1>1, <1>2, BoxPlaces
<1>5. ~(i < j) /\ ~(j < i)
  BY <1>1, <1>2, <1>3, <1>4, BoxesApart
<1>6. QED
  BY <1>2, <1>5

(* The header of every file tells where its samples are. *)
ProperFiles == \A f \in Files : \A x \in Openings(f.codec) : Proper(f, x)

(* Steps that leave readp and the handle. *)
LEMMA StillThere ==
  ASSUME HeaderInv, SampleInv, UNCHANGED <<file, rd, h>>, damage \subseteq damage',
         dec'.new = dec.new, dec'.state = "running" => dec.state = "running",
         dec'.pc = "idle", closed => closed'
  PROVE  HeaderInv' /\ SampleInv'
<1>1. Sound' => Sound
  BY DEF Sound
<1>2. \A i, x : AtBox(i, x) => AtBox(i, x)'
  BY DEF AtBox
<1>3. \A k : AtSample(k) => AtSample(k)'
  BY DEF AtSample, SampleAt, Counts, NextBlock, More
<1>4. \A k : InTorn(k) => InTorn(k)'
  BY DEF InTorn, More
<1>5. Laid(file, h) => Laid(file, h)'
  OBVIOUS
<1>6. HeaderInv'
  BY <1>1, <1>2 DEF HeaderInv
<1>7. SampleInv'
  BY <1>1, <1>3, <1>4, <1>5 DEF SampleInv
<1>8. QED
  BY <1>6, <1>7

LEMMA LaidAlike ==
  ASSUME NEW f, NEW x, NEW y, Laid(f, x), x.chunks = y.chunks, x.config = y.config,
         x.default = y.default, x.table = y.table
  PROVE  Laid(f, y)
BY DEF Laid, ChunkEndsAt

(* The first sample follows. *)
LEMMA FirstFound ==
  ASSUME TypeInv, HeaderInv, ProperFiles, NEW i \in DOMAIN file.boxes, MediaFound(i)
  PROVE  /\ SampleInv'
         /\ Sound' => /\ AtSample(1)'
                      /\ h'.config = h.config /\ h'.default = h.default /\ h'.table = h.table
                      /\ h'.skip = h.skip /\ h'.samples = h.samples /\ h'.empty = h.empty
<1> SUFFICES ASSUME Sound'
             PROVE  /\ SampleInv' /\ AtSample(1)'
                    /\ h'.config = h.config /\ h'.default = h.default /\ h'.table = h.table
                    /\ h'.skip = h.skip /\ h'.samples = h.samples /\ h'.empty = h.empty
  BY DEF SampleInv
<1> DEFINE far == IF h.chunks # NoTable THEN h.chunks[1].offset - (h.pos + HDR) ELSE 0
           there == far <= dec.bytes - HDR
           left == Used - HDR - IF far > 0 THEN far ELSE 0
           early == ~there \/ (file.codec = "aac" /\ ~closed /\ left <= MinRead)
           started == [h EXCEPT !.sample = 1, !.nextchunk = 1, !.block = 0]
           n == Len(file.at)
<1>1. /\ dec.pc = "header" /\ Reading(i) /\ file.boxes[i].type = "mdat" /\ h.play > 0
      /\ IF far > 0 /\ there THEN Advance(HDR + far, started)
         ELSE Advance(HDR, [started EXCEPT !.consume = IF far > 0 THEN far ELSE 0])
      /\ dec' = [dec EXCEPT !.new = FALSE, !.pc = "frame"]
      /\ damage' = IF early THEN damage \cup {"early"} ELSE damage
      /\ UNCHANGED <<file, arrived, closed, out, turn>>
  BY DEF MediaFound, Reading
<1>2. Sound /\ ~early
  BY <1>1 DEF Sound
<1>3. dec.new /\ dec.state = "running" /\ dec \in Calls
  BY <1>1 DEF TypeInv, TypeOK, CallInv
<1>4. h.consume = 0
  BY <1>1, <1>2, <1>3 DEF HeaderInv
<1>5. PICK j \in 1..Len(file.boxes) + 1 : \E x \in Openings(file.codec) : AtBox(j, x)
  BY <1>2, <1>3 DEF HeaderInv
<1>6. PICK x \in Openings(file.codec) : AtBox(j, x)
  BY <1>5
<1>7. i = j
  BY <1>1, <1>4, <1>6, TheBox
<1> DEFINE y == Heads(file, x)[i - 1]
<1>8. Alike(h, y) /\ \A m \in 1..i - 1 : file.boxes[m].type # "mdat"
  BY <1>6, <1>7 DEF AtBox
<1>9. Laid(file, y) /\ Leads(file, y, i)
  <2>1. Proper(file, x)
    BY DEF ProperFiles, TypeInv, TypeOK
  <2>2. y.play > 0
    BY <1>1, <1>8 DEF Alike
  <2>3. QED
    BY <1>1, <1>8, <2>1, <2>2 DEF Proper
<1>10. Laid(file, h) /\ Leads(file, h, i)
  <2>1. h.chunks = y.chunks /\ h.config = y.config /\ h.default = y.default /\ h.table = y.table
    BY <1>8 DEF Alike
  <2> HIDE DEF y
  <2>2. QED
    BY <1>9, <2>1, LaidAlike DEF Leads
<1> HIDE DEF y
<1>11. /\ h \in Handle /\ h.pos = rd /\ TablesOK(h) /\ rd \in Nat /\ rd = BoxAt(file, i)
  BY <1>1, Buffered DEF TypeInv, TypeOK, CallInv, Reading, Start
<1>12. file.at \in Seq(Nat) /\ n \in Nat /\ n >= 1 /\ file.at[1] \in Nat /\ DOMAIN file.at = 1..n
  <2>1. file.at \in Seq(Nat)
    BY Buffered DEF FileOK, TypeInv
  <2>2. file.at # << >>
    BY <1>10 DEF Laid
  <2> DEFINE at == file.at
  <2>3. n \in Nat /\ DOMAIN at = 1..n
    BY <2>1
  <2>4. n >= 1
    BY <2>1, <2>2, EmptySeq
  <2>5. at[1] \in Nat
    BY <2>1, <2>3, <2>4, ElementOfSeq
  <2>6. QED
    BY <2>1, <2>3, <2>4, <2>5
<1>13. h.chunks # NoTable => /\ h.chunks[1].offset = file.at[1] /\ h.chunks[1].sample = 0
                            /\ Len(h.chunks) \in Nat /\ Len(h.chunks) >= 2
  <2>1. SUFFICES ASSUME h.chunks # NoTable
                 PROVE  /\ h.chunks[1].offset = file.at[1] /\ h.chunks[1].sample = 0
                        /\ Len(h.chunks) \in Nat /\ Len(h.chunks) >= 2
    OBVIOUS
  <2>2. h.chunks \in Seq([offset : Nat, sample : Nat]) /\ Len(h.chunks) >= 2
    BY <1>11, <2>1 DEF Handle, TablesOK
  <2>3. Len(h.chunks) \in Nat
    BY <2>2
  <2> DEFINE l == Len(h.chunks)
  <2>4. 1 \in 1..l - 1
    BY <2>2, <2>3
  <2>5. h.chunks[1].sample = 0 /\ h.chunks[1].offset = file.at[h.chunks[1].sample + 1]
    BY <1>10, <2>4 DEF Laid
  <2>6. QED
    BY <2>2, <2>3, <2>5
<1>14. far \in Nat /\ rd + HDR + far = file.at[1] /\ file.at[1] > 0
  <2>1. CASE h.chunks = NoTable
    BY <1>10, <1>11, <1>12, <2>1 DEF Leads, HDR
  <2>2. CASE h.chunks # NoTable
    <3>1. file.at[1] >= BoxAt(file, i) + HDR
      BY <1>10, <2>2 DEF Leads
    <3>2. QED
      BY <1>11, <1>12, <1>13, <2>2, <3>1 DEF HDR
  <2>3. QED
    BY <2>1, <2>2
<1> DEFINE z == IF far > 0 THEN started ELSE [started EXCEPT !.consume = 0]
<1>15. Advance(HDR + far, z)
  <2>1. there
    BY <1>2
  <2> HIDE DEF there, started
  <2>2. CASE far > 0
    BY <1>1, <2>1, <2>2
  <2>3. CASE ~(far > 0)
    <3>1. far = 0
      BY <1>14, <2>3
    <3>2. HDR + far = HDR
      BY <3>1 DEF HDR
    <3> HIDE DEF far
    <3>3. QED
      BY <1>1, <2>3, <3>2
  <2>4. QED
    BY <2>2, <2>3
<1> HIDE DEF early, far, there
<1>16. /\ z \in Handle /\ z.consume = 0 /\ z.chunks = h.chunks /\ z.config = h.config
       /\ z.default = h.default /\ z.table = h.table
       /\ z.nextchunk = 1 /\ z.block = 0 /\ z.sample = 1
       /\ z.skip = h.skip /\ z.samples = h.samples /\ z.empty = h.empty
  <2>1. \A a, b, c \in Nat : [h EXCEPT !.sample = a, !.nextchunk = b, !.block = c] \in Handle
    BY <1>11 DEF Handle
  <2>2. started \in Handle
    BY <2>1
  <2>3. /\ started.consume = 0 /\ started.chunks = h.chunks /\ started.config = h.config
        /\ started.default = h.default /\ started.table = h.table
        /\ started.nextchunk = 1 /\ started.block = 0 /\ started.sample = 1
        /\ started.skip = h.skip /\ started.samples = h.samples /\ started.empty = h.empty
    BY <1>4, <1>11 DEF Handle
  <2> HIDE DEF started
  <2>4. QED
    BY <2>2, <2>3 DEF Handle
<1> HIDE DEF z, started
<1>17. /\ h'.consume = 0 /\ h'.chunks = h.chunks /\ h'.config = h.config
       /\ h'.default = h.default /\ h'.table = h.table
       /\ h'.nextchunk = 1 /\ h'.block = 0 /\ h'.sample = 1
       /\ h'.skip = h.skip /\ h'.samples = h.samples /\ h'.empty = h.empty
  <2>1. h' = [z EXCEPT !.pos = @ + (HDR + far)]
    BY <1>15 DEF Advance
  <2>2. QED
    BY <1>16, <2>1 DEF Handle
<1>18. rd' = file.at[1]
  BY <1>11, <1>14, <1>15 DEF Advance, HDR
<1>19. Laid(file, h)'
  <2>1. Laid(file, h')
    BY <1>10, <1>17, LaidAlike
  <2>2. QED
    BY <1>1, <2>1
<1>20. Counts(h, 1)' /\ NextBlock(h, 1)'
  <2>1. h.chunks # NoTable /\ 2 < Len(h.chunks) => 1 <= h.chunks[2].sample
    <3>1. SUFFICES ASSUME h.chunks # NoTable, 2 < Len(h.chunks) PROVE 1 <= h.chunks[2].sample
      OBVIOUS
    <3>2. 2 \in 1..Len(h.chunks) - 1 /\ 2 \in 1..Len(h.chunks)
      BY <1>13, <3>1
    <3>3. h.chunks[2 - 1].sample < h.chunks[2].sample
      BY <1>10, <3>2 DEF Laid
    <3>4. h.chunks \in Seq([offset : Nat, sample : Nat])
      BY <1>11 DEF Handle
    <3>5. h.chunks[2] \in [offset : Nat, sample : Nat]
      BY <3>2, <3>4, ElementOfSeq
    <3>6. h.chunks[2].sample \in Nat
      BY <3>5
    <3>7. QED
      BY <1>13, <3>1, <3>3, <3>6
  <2>2. QED
    BY <1>1, <1>13, <1>17, <2>1 DEF Counts, NextBlock, More
<1>21. AtSample(1)'
  <2>1. 1 \in 1..n + 1 /\ 1 \in DOMAIN file.at
    BY <1>12
  <2>2. rd' + h'.consume = file.at[1]
    BY <1>12, <1>17, <1>18
  <2>3. QED
    BY <1>1, <1>20, <2>1, <2>2 DEF AtSample, SampleAt
<1>22. dec'.pc = "frame" /\ ~dec'.new
  BY <1>1, <1>3 DEF Calls
<1>23. h'.consume = 0 /\ (file.codec = "aac" => Used' > MinRead \/ closed)
  <2>1. left = Used - HDR - far
    <3>1. far > 0 \/ far = 0
      BY <1>14
    <3>2. QED
      BY <3>1
  <2>2. Used' = Used - HDR - far
    <3>1. rd' = rd + (HDR + far)
      BY <1>15 DEF Advance
    <3>2. rd \in Int /\ arrived \in Int /\ HDR \in Int /\ far \in Int /\ arrived' = arrived
      BY <1>1, <1>11, <1>14, Buffered DEF HDR, TypeInv
    <3>3. QED
      BY <3>1, <3>2 DEF Used
  <2>3. Used' \in Int
    BY <1>11, <1>14, <2>2, Buffered DEF HDR, TypeInv
  <2>4. MinRead \in Int
    BY Numbers
  <2>5. file.codec = "aac" => closed \/ ~(left <= MinRead)
    BY <1>2 DEF early
  <2> HIDE DEF left
  <2>6. QED
    BY <1>17, <2>1, <2>2, <2>3, <2>4, <2>5
<1>24. (\E k \in 1..Len(file.at) + 1 : AtSample(k) \/ InTorn(k))'
  <2>1. 1 \in 1..Len(file.at) + 1
    BY <1>12
  <2>2. 1 \in 1..Len(file'.at) + 1
    BY <1>1, <2>1
  <2>3. QED
    BY <1>21, <2>2
<1>25. file'.at[1] > 0
  BY <1>1, <1>14
<1>26. QED
  BY <1>1, <1>17, <1>19, <1>21, <1>22, <1>23, <1>24, <1>25 DEF SampleInv

LEMMA ParsedKeeps ==
  ASSUME TypeInv, NEW b
  PROVE  Parsed(b).consume = h.consume
BY ReadKeeps DEF Parsed, TypeInv, TypeOK

(* A box is consumed, or what has arrived of it. *)
LEMMA BoxConsumed ==
  ASSUME TypeInv, HeaderInv, NEW i \in DOMAIN file.boxes, Reading(i),
         file.boxes[i].type # "mdat", Sound', damage' = damage \cup Missed(file.boxes[i]),
         file' = file, NEW n \in Nat, NEW rest \in Nat, n + rest = Own(file.boxes[i]),
         NEW x \in Handle, \/ x = Parsed(file.boxes[i]) /\ rest = 0
                           \/ x = [Parsed(file.boxes[i]) EXCEPT !.consume = rest],
         Advance(n, x)
  PROVE  /\ \E j \in 1..Len(file.boxes) + 1 : \E y \in Openings(file.codec) : AtBox(j, y)'
         /\ x.consume = rest /\ h'.consume = rest
         /\ rd' + h'.consume = Start(i) + Own(file.boxes[i])
         /\ Alike(h', Parsed(file.boxes[i])) /\ Missed(file.boxes[i]) = {}
<1> DEFINE b == file.boxes[i]
<1>1. damage = {} /\ Missed(b) = {}
  BY DEF Sound
<1>2. dec.pc = "header" /\ dec.new /\ dec.state = "running" /\ h.consume = 0
  BY <1>1 DEF Reading, TypeInv, CallInv, HeaderInv, Sound
<1>3. PICK j \in 1..Len(file.boxes) + 1 : \E y \in Openings(file.codec) : AtBox(j, y)
  BY <1>1, <1>2 DEF HeaderInv, Sound
<1>4. PICK y \in Openings(file.codec) : AtBox(j, y)
  BY <1>3
<1>5. i = j
  BY <1>2, <1>4, TheBox
<1> DEFINE p == Parsed(b)
<1>6. p \in Handle /\ p.consume = 0
  BY <1>2, ParsedTyped, ParsedKeeps
<1> HIDE DEF p
<1>7. x.consume = rest /\ Alike(x, p)
  <2>1. CASE x = p /\ rest = 0
    BY <1>6, <2>1, AlikeItself
  <2>2. CASE x = [p EXCEPT !.consume = rest]
    BY <1>6, <2>2 DEF Handle, Alike
  <2>3. QED
    BY <2>1, <2>2 DEF p
<1>8. h'.consume = rest /\ Alike(h', x)
  <2>1. h' = [x EXCEPT !.pos = x.pos + n]
    BY DEF Advance
  <2>2. QED
    BY <1>7, <2>1 DEF Handle, Alike
<1>9. rd' + h'.consume = Start(i) + Own(b)
  <2>1. rd = Start(i) /\ rd \in Nat /\ rd' = rd + n
    BY Buffered DEF Reading, TypeInv, Advance
  <2>2. QED
    BY <1>8, <2>1
<1>10. Alike(h', p)
  BY <1>7, <1>8, AlikeChain
<1>11. i + 1 \in 1..Len(file.boxes) + 1 /\ AtBox(i + 1, y)'
  BY <1>1, <1>4, <1>5, <1>9, <1>10, NextBox DEF p
<1>12. QED
  BY <1>1, <1>7, <1>8, <1>9, <1>10, <1>11 DEF p

LEMMA HeaderStep ==
  ASSUME TypeInv, HeaderInv, SampleInv, ProperFiles, ReadHeader
  PROVE  HeaderInv' /\ SampleInv'
<1>1. dec.pc = "header" /\ dec.new /\ dec.state = "running" /\ dec \in Calls
  <2>1. dec.pc = "header"
    BY DEF ReadHeader, HeaderEnds, Box, MediaFound, NotPlayable, ConsumeBox, ConsumePart,
           Linearize, TooLarge, Wait, Unwrap, Lacking, Reading
  <2>2. QED
    BY <2>1 DEF TypeInv, TypeOK, CallInv
<1>2. CASE HeaderEnds
  <2>1. UNCHANGED <<file, rd, h, damage, closed>> /\ Returns("running")
    BY <1>2 DEF HeaderEnds
  <2>2. QED
    BY <1>1, <2>1, ReturnsTyped, StillThere
<1>3. ASSUME NEW i \in DOMAIN file.boxes, Wait(i) \/ Unwrap(i) PROVE HeaderInv' /\ SampleInv'
  <2>1. UNCHANGED <<file, rd, h, closed>> /\ Returns("running") /\ damage \subseteq damage'
    BY <1>3 DEF Wait, Unwrap
  <2>2. QED
    BY <1>1, <2>1, ReturnsTyped, StillThere
<1>4. ASSUME NEW i \in DOMAIN file.boxes, Linearize(i) PROVE HeaderInv' /\ SampleInv'
  BY <1>4 DEF Linearize, HeaderInv, SampleInv, Sound
<1>5. ASSUME NEW i \in DOMAIN file.boxes, TooLarge(i) \/ NotPlayable(i)
      PROVE  HeaderInv' /\ SampleInv'
  <2>1. Returns("error")
    BY <1>5 DEF TooLarge, NotPlayable
  <2>2. dec'.state = "error"
    BY <2>1, ReturnsTyped
  <2>3. QED
    BY <2>2 DEF HeaderInv, SampleInv
<1>6. ASSUME NEW i \in DOMAIN file.boxes, MediaFound(i) PROVE HeaderInv' /\ SampleInv'
  <2>1. ~dec'.new
    BY <1>1, <1>6 DEF MediaFound, Calls
  <2>2. HeaderInv'
    BY <2>1 DEF HeaderInv
  <2>3. QED
    BY <1>6, <2>2, FirstFound
<1>7. ASSUME NEW i \in DOMAIN file.boxes, ConsumeBox(i) PROVE HeaderInv' /\ SampleInv'
  <2> DEFINE b == file.boxes[i]
             n == Own(b)
  <2>1. /\ Reading(i) /\ b.type # "mdat" /\ Advance(n, Parsed(b))
        /\ dec' = [dec EXCEPT !.bytes = @ - n] /\ damage' = damage \cup Missed(b)
        /\ file' = file
    BY <1>7 DEF ConsumeBox
  <2>2. dec'.new /\ dec'.pc = "header"
    BY <1>1, <2>1 DEF Calls
  <2>3. SampleInv'
    BY <2>2 DEF SampleInv
  <2>4. n \in Nat /\ Parsed(b) \in Handle
    BY ParsedTyped, OwnTyped
  <2>5. ASSUME Sound'
        PROVE  /\ \E j \in 1..Len(file.boxes) + 1 : \E y \in Openings(file.codec) : AtBox(j, y)'
               /\ h'.consume = 0
    <3> DEFINE rest == 0
               x == Parsed(b)
    <3>1. rest \in Nat /\ n + rest = Own(b) /\ x \in Handle /\ rest = 0
      BY <2>4
    <3> HIDE DEF n, rest
    <3>2. \E j \in 1..Len(file.boxes) + 1 : \E y \in Openings(file.codec) : AtBox(j, y)'
      BY <2>1, <2>4, <2>5, <3>1, BoxConsumed
    <3>3. h'.consume = rest
      BY <2>1, <2>4, <2>5, <3>1, BoxConsumed
    <3>4. QED
      BY <3>1, <3>2, <3>3
  <2>6. HeaderInv'
    BY <2>1, <2>5 DEF HeaderInv
  <2>7. QED
    BY <2>3, <2>6
<1>8. ASSUME NEW i \in DOMAIN file.boxes, ConsumePart(i) PROVE HeaderInv' /\ SampleInv'
  <2> DEFINE b == file.boxes[i]
             n == dec.bytes
             rest == Own(b) - n
             x == [Parsed(b) EXCEPT !.consume = rest]
  <2>1. /\ Reading(i) /\ b.type # "mdat" /\ Advance(n, x) /\ n < Own(b)
        /\ Returns("running") /\ damage' = damage \cup Missed(b)
        /\ file' = file
    BY <1>8 DEF ConsumePart
  <2>2. dec'.new /\ dec'.pc = "idle"
    BY <1>1, <2>1, ReturnsTyped
  <2>3. SampleInv'
    BY <2>2 DEF SampleInv
  <2>4. Own(b) \in Nat /\ Parsed(b) \in Handle
    BY ParsedTyped, OwnTyped
  <2>5. n \in Nat /\ rest \in Nat /\ n + rest = Own(b)
    BY <1>1, <2>1, <2>4, Numbers DEF Calls
  <2> HIDE DEF n, rest
  <2>6. x \in Handle
    BY <2>4, <2>5 DEF Handle
  <2>7. ASSUME Sound'
        PROVE  \E j \in 1..Len(file.boxes) + 1 : \E y \in Openings(file.codec) : AtBox(j, y)'
    BY <2>1, <2>5, <2>6, <2>7, BoxConsumed
  <2>8. HeaderInv'
    BY <2>1, <2>2, <2>7 DEF HeaderInv
  <2>9. QED
    BY <2>3, <2>8
<1>9. QED
  BY <1>2, <1>3, <1>4, <1>5, <1>6, <1>7, <1>8 DEF ReadHeader, Box

-----------------------------------------------------------------------------
(* The calls.                                                              *)

LEMMA AllSentKept ==
  ASSUME TypeInv, AllSent, [Next]_vars
  PROVE  AllSent'
<1>1. CASE Feed
  <2>1. PICK n \in 1..LesserOf(BufSize - 1 - Used, file.cut - arrived) :
          arrived' = arrived + n /\ UNCHANGED <<file, closed>>
    BY <1>1 DEF Feed
  <2>2. n <= file.cut - arrived /\ n >= 1
    <3>1. BufSize - 1 - Used \in Int /\ file.cut - arrived \in Int
      BY Buffered, Numbers DEF TypeInv
    <3>2. QED
      BY <3>1 DEF LesserOf
  <2>3. ~closed
    BY <2>2, Buffered DEF AllSent, TypeInv
  <2>4. QED
    BY <2>1, <2>3 DEF AllSent
<1>2. CASE Reopen
  BY <1>2 DEF Reopen, AllSent
<1>3. CASE Close
  BY <1>3 DEF Close, AllSent
<1>4. ASSUME UNCHANGED <<file, arrived, closed>> PROVE AllSent'
  BY <1>4 DEF AllSent
<1>5. CASE ReadHeader
  BY <1>4, <1>5 DEF ReadHeader, HeaderEnds, Box, MediaFound, NotPlayable, ConsumeBox, ConsumePart,
           Linearize, TooLarge, Wait, Unwrap
<1>6. CASE Frame
  BY <1>4, <1>6 DEF Frame, AacFrame, AlacFrame, AlacWait, AlacComplete, NoSizes
<1>7. CASE AacComplete \/ Consume \/ DecodeBegins \/ UNCHANGED vars
  BY <1>4, <1>7 DEF AacComplete, Consume, DecodeBegins, vars
<1>8. QED
  BY <1>1, <1>2, <1>3, <1>5, <1>6, <1>7 DEF Next, Decode

LEMMA StreamStep ==
  ASSUME HeaderInv, SampleInv, Feed \/ Close
  PROVE  HeaderInv' /\ SampleInv'
<1>1. UNCHANGED <<file, rd, h, dec, damage>> /\ dec.pc = "idle" /\ (closed => closed')
  BY DEF Feed, Close
<1>2. QED
  BY <1>1, StillThere

LEMMA SampleKept ==
  ASSUME file' = file, Alike(h', h), rd' + h'.consume = rd + h.consume
  PROVE  \A k : AtSample(k) => AtSample(k)'
<1> SUFFICES ASSUME NEW k, AtSample(k) PROVE AtSample(k)'
  OBVIOUS
<1>1. Counts(h, k)' /\ NextBlock(h, k)'
  BY DEF AtSample, Counts, NextBlock, More, Alike
<1>2. QED
  BY <1>1 DEF AtSample, SampleAt

(* What is in the way is consumed and else nothing changes. *)
LEMMA ConsumeKeeps ==
  ASSUME TypeInv, Consume
  PROVE  /\ h.consume > 0 /\ Alike(h', h) /\ rd' + h'.consume = rd + h.consume
         /\ UNCHANGED <<file, arrived, closed, out, damage>>
         /\ dec.pc = "idle" /\ dec'.pc = "idle" /\ dec'.new = dec.new /\ dec'.state = dec.state
         /\ dec.state = "running"
<1> DEFINE most == IF file.codec = "aac" THEN Cont ELSE Used
           n == LesserOf(h.consume, most)
           rest == h.consume - n
           x == [h EXCEPT !.consume = rest]
<1>1. /\ Advance(n, x) /\ Returns("running") /\ dec.pc = "idle" /\ dec.state = "running"
      /\ h.consume > 0 /\ UNCHANGED <<file, arrived, closed, out, turn, damage>>
  BY DEF Consume, Called
<1>2. h \in Handle /\ h.consume \in Nat /\ rd \in Nat
  BY Buffered DEF TypeInv, TypeOK, Handle
<1>3. n \in Nat /\ rest \in Nat
  <2>1. most \in Nat
    BY Buffered DEF TypeInv
  <2> HIDE DEF most
  <2>2. n \in Nat /\ n <= h.consume
    BY <1>2, <2>1, Lesser
  <2> HIDE DEF n
  <2>3. QED
    BY <1>2, <2>2
<1>4. rd' + rest = rd + h.consume
  <2>1. rd' = rd + n
    BY <1>1 DEF Advance
  <2> HIDE DEF n
  <2>2. QED
    BY <1>2, <1>3, <2>1
<1> HIDE DEF n, rest
<1>5. /\ Alike(h', h) /\ h'.consume = rest
  <2>1. x \in Handle /\ Alike(x, h) /\ x.consume = rest
    BY <1>2, <1>3 DEF Handle, Alike
  <2>2. h' = [x EXCEPT !.pos = x.pos + n]
    BY <1>1 DEF Advance
  <2> HIDE DEF x
  <2>3. QED
    BY <2>1, <2>2 DEF Handle, Alike
<1>6. dec'.pc = "idle" /\ dec'.new = dec.new /\ dec'.state = "running"
  BY <1>1, ReturnsTyped
<1>7. QED
  BY <1>1, <1>4, <1>5, <1>6

LEMMA ConsumeStep ==
  ASSUME TypeInv, HeaderInv, SampleInv, Consume
  PROVE  HeaderInv' /\ SampleInv'
<1>1. /\ h.consume > 0 /\ Alike(h', h) /\ rd' + h'.consume = rd + h.consume
      /\ UNCHANGED <<file, arrived, closed, out, damage>>
      /\ dec'.pc = "idle" /\ dec'.new = dec.new /\ dec'.state = dec.state /\ dec.state = "running"
  BY ConsumeKeeps
<1>2. Sound' = Sound
  BY <1>1 DEF Sound
<1>3. \A i, y : AtBox(i, y) => AtBox(i, y)'
  <2>1. SUFFICES ASSUME NEW i, NEW y, AtBox(i, y) PROVE AtBox(i, y)'
    OBVIOUS
  <2>2. Alike(h', Heads(file, y)[i - 1])
    BY <1>1, <2>1, AlikeChain DEF AtBox
  <2>3. rd' + h'.consume = BoxAt(file, i)
    BY <1>1, <2>1 DEF AtBox
  <2>4. QED
    BY <1>1, <2>1, <2>2, <2>3 DEF AtBox
<1>4. \A k : AtSample(k) => AtSample(k)'
  BY <1>1, SampleKept
<1>5. \A k : ~InTorn(k)
  BY <1>1 DEF InTorn
<1>6. Laid(file, h) => Laid(file, h)'
  <2>1. SUFFICES ASSUME Laid(file, h) PROVE Laid(file, h')
    BY <1>1
  <2>2. QED
    BY <1>1, <2>1, LaidAlike DEF Alike
<1>7. HeaderInv'
  BY <1>1, <1>2, <1>3 DEF HeaderInv
<1>8. SampleInv'
  BY <1>1, <1>2, <1>4, <1>5, <1>6 DEF SampleInv
<1>9. QED
  BY <1>7, <1>8

LEMMA BeginsStep ==
  ASSUME TypeInv, HeaderInv, SampleInv, DecodeBegins
  PROVE  HeaderInv' /\ SampleInv'
<1>1. /\ UNCHANGED <<file, arrived, closed, rd, ring, h, out, turn, damage>>
      /\ dec.state = "running" /\ dec \in Calls /\ h.consume = 0
      /\ dec' = [dec EXCEPT !.pc = IF dec.new THEN "header" ELSE "frame", !.bytes = Cont]
      /\ Used > MinRead \/ closed
  BY DEF DecodeBegins, Called, TypeInv, TypeOK
<1>2. dec'.new = dec.new /\ (~dec.new => dec'.pc = "frame")
  BY <1>1 DEF Calls
<1>3. Used' = Used /\ Sound' = Sound
  BY <1>1 DEF Used, Sound
<1>4. \A i, x : AtBox(i, x) => AtBox(i, x)'
  BY <1>1 DEF AtBox
<1>5. \A k : AtSample(k) => AtSample(k)'
  BY <1>1 DEF AtSample, SampleAt, Counts, NextBlock, More
<1>6. \A k : InTorn(k) => InTorn(k)'
  BY <1>1 DEF InTorn, More
<1>7. Laid(file, h) => Laid(file, h)'
  BY <1>1
<1>8. HeaderInv'
  BY <1>1, <1>2, <1>3, <1>4 DEF HeaderInv
<1>9. SampleInv'
  BY <1>1, <1>2, <1>3, <1>5, <1>6, <1>7 DEF SampleInv
<1>10. QED
  BY <1>8, <1>9

LEMMA OpensAtBox ==
  ASSUME NEW f, FileOK(f), NEW x \in Openings(f.codec)
  PROVE  /\ 1 \in 1..Len(f.boxes) + 1
         /\ BoxAt(f, 1) = 0 /\ x.consume = 0 /\ Alike(x, Heads(f, x)[0])
BY BoxSteps, BoxesTyped, HeadSteps, OpeningsTyped, AlikeItself

LEMMA ReopenStep ==
  ASSUME TypeInv, Reopen
  PROVE  HeaderInv' /\ SampleInv'
<1>1. PICK f \in Files :
        /\ file' = f
        /\ h' \in IF f.codec = "aac" /\ file.codec = "aac"
                   THEN {Opened(h.trak, h.play)} ELSE NewHandles(f.codec)
  BY DEF Reopen
<1>2. PICK y \in Openings(f.codec) : h' = y
  <2>1. h.trak \in Nat /\ h.play \in Nat /\ 0 \in Nat /\ 1 \in Nat
    BY DEF TypeInv, TypeOK, Handle
  <2>2. QED
    BY <1>1, <2>1 DEF Openings, NewHandles
<1>3. FileOK(f)
  BY Mp4Assumption
<1>4. rd' = 0 /\ dec' = Fresh
  BY DEF Reopen
<1>5. AtBox(1, y)'
  <2>1. rd' + h'.consume = BoxAt(f, 1)
    BY <1>2, <1>3, <1>4, OpensAtBox
  <2>2. \A j \in 1..1 - 1 : FALSE
    OBVIOUS
  <2>3. Alike(h', Heads(f, y)[1 - 1])
    BY <1>2, <1>3, OpensAtBox
  <2>4. 1 \in 1..Len(f.boxes) + 1
    BY <1>2, <1>3, OpensAtBox
  <2>5. QED
    BY <1>1, <2>1, <2>2, <2>3, <2>4 DEF AtBox
<1>6. dec'.new /\ dec'.pc = "idle"
  BY <1>4 DEF Fresh
<1>7. SampleInv'
  BY <1>6 DEF SampleInv
<1>8. HeaderInv'
  <2>1. 1 \in 1..Len(f.boxes) + 1
    BY <1>2, <1>3, OpensAtBox
  <2>2. QED
    BY <1>1, <1>2, <1>5, <1>6, <2>1 DEF HeaderInv
<1>9. QED
  BY <1>7, <1>8

-----------------------------------------------------------------------------
(* Where the samples are.                                                  *)

LEMMA SamplesTyped ==
  ASSUME TypeOK, NEW x, Laid(file, x)
  PROVE  /\ Len(file.at) \in Nat /\ Len(file.at) >= 1 /\ DOMAIN file.at = 1..Len(file.at)
         /\ \A k \in 1..Len(file.at) : /\ file.at[k] \in Nat
                                      /\ file.sizes[k] \in Nat /\ file.sizes[k] >= 1
         /\ \A j, k \in 1..Len(file.at) : j < k => file.at[j] + file.sizes[j] <= file.at[k]
<1> DEFINE at == file.at
           sizes == file.sizes
           n == Len(at)
<1>1. /\ at \in Seq(Nat) /\ sizes \in Seq(Nat \ {0}) /\ n = Len(sizes)
      /\ \A j, k \in DOMAIN at : j < k => at[j] + sizes[j] <= at[k]
  BY Buffered DEF FileOK
<1>2. n \in Nat /\ DOMAIN at = 1..n
  BY <1>1
<1>3. n >= 1
  BY <1>1, <1>2, EmptySeq DEF Laid
<1>4. ASSUME NEW k \in 1..n PROVE at[k] \in Nat /\ sizes[k] \in Nat /\ sizes[k] >= 1
  <2>1. sizes[k] \in Nat \ {0}
    BY <1>1, ElementOfSeq
  <2>2. QED
    BY <1>1, <2>1, ElementOfSeq
<1>5. QED
  BY <1>1, <1>2, <1>3, <1>4

(* Each sample ends at the next, or before it if it ends a chunk. *)
LEMMA SampleSteps ==
  ASSUME TypeOK, NEW x, Laid(file, x), NEW k \in 1..Len(file.at)
  PROVE  /\ SampleAt(k) = file.at[k] /\ SampleAt(k + 1) \in Nat
         /\ file.at[k] + file.sizes[k] <= SampleAt(k + 1)
         /\ k \notin ChunkEndsAt(x) \/ k = Len(file.at)
              => SampleAt(k + 1) = file.at[k] + file.sizes[k]
<1> DEFINE n == Len(file.at)
<1>1. n \in Nat /\ DOMAIN file.at = 1..n /\ file.at[k] \in Nat /\ file.sizes[k] \in Nat
  BY SamplesTyped
<1>2. SampleAt(k) = file.at[k]
  BY <1>1 DEF SampleAt
<1>3. CASE k = n
  <2>1. k + 1 \notin DOMAIN file.at
    BY <1>1, <1>3
  <2>2. SampleAt(k + 1) = file.at[k] + file.sizes[k]
    BY <1>3, <2>1 DEF SampleAt
  <2>3. QED
    BY <1>1, <1>2, <2>2
<1>4. CASE k # n
  <2>1. k + 1 \in 1..n /\ k \in 1..n - 1 /\ k < k + 1
    BY <1>1, <1>4
  <2>2. SampleAt(k + 1) = file.at[k + 1]
    BY <1>1, <2>1 DEF SampleAt
  <2>3. file.at[k] + file.sizes[k] <= file.at[k + 1] /\ file.at[k + 1] \in Nat
    BY <2>1, SamplesTyped
  <2>4. k \in ChunkEndsAt(x) \/ file.at[k] + file.sizes[k] = file.at[k + 1]
    BY <2>1 DEF Laid
  <2>5. QED
    BY <1>2, <1>4, <2>2, <2>3, <2>4
<1>5. QED
  BY <1>3, <1>4

LEMMA ChunksTyped ==
  ASSUME NEW x \in Handle, NEW c \in 1..Len(x.chunks)
  PROVE  x.chunks[c].sample \in Nat /\ x.chunks[c].offset \in Nat /\ Len(x.chunks) \in Nat
<1>1. x.chunks \in Seq([offset : Nat, sample : Nat])
  BY DEF Handle
<1>2. x.chunks[c] \in [offset : Nat, sample : Nat]
  BY <1>1, ElementOfSeq
<1>3. Len(x.chunks) \in Nat
  BY <1>1
<1>4. QED
  BY <1>2, <1>3

(* The numbers of samples grow from chunk to chunk. *)
LEMMA ChunksGrow ==
  ASSUME NEW f, NEW x \in Handle, Laid(f, x),
         NEW c \in 1..Len(x.chunks) - 1, NEW d \in 1..Len(x.chunks) - 1, c < d
  PROVE  x.chunks[c].sample < x.chunks[d].sample
<1> DEFINE l == Len(x.chunks)
           s(e) == x.chunks[e].sample
           Grown(m) == c + m + 1 <= l - 1 => s(c) < s(c + m + 1)
           S == {m \in Nat : Grown(m)}
<1>1. l \in Nat
  <2>1. x.chunks \in Seq([offset : Nat, sample : Nat])
    BY DEF Handle
  <2>2. QED
    BY <2>1
<1>2. \A e \in 1..l - 1 : s(e) \in Nat
  <2>1. \A e \in 1..l - 1 : e \in 1..l
    BY <1>1
  <2>2. QED
    BY <2>1, ChunksTyped
<1>3. \A e \in 2..l - 1 : s(e - 1) < s(e)
  <2>1. \A e \in 2..l - 1 : e \in 1..l - 1 /\ e # 1
    BY <1>1
  <2>2. QED
    BY <2>1 DEF Laid
<1> HIDE DEF s
<1>4. Grown(0)
  <2>1. c + 0 + 1 <= l - 1 => c + 1 \in 2..l - 1 /\ (c + 1) - 1 = c /\ c + 0 + 1 = c + 1
    BY <1>1
  <2>2. QED
    BY <1>3, <2>1
<1>5. ASSUME NEW m \in Nat, Grown(m) PROVE Grown(m + 1)
  <2>1. SUFFICES ASSUME c + (m + 1) + 1 <= l - 1 PROVE s(c) < s(c + (m + 1) + 1)
    OBVIOUS
  <2> DEFINE e == c + m + 1
  <2>2. e \in 1..l - 1 /\ e <= l - 1 /\ e + 1 \in 2..l - 1 /\ e + 1 \in 1..l - 1
        /\ (e + 1) - 1 = e /\ c + (m + 1) + 1 = e + 1
    BY <1>1, <2>1
  <2>3. s(c) < s(e)
    BY <1>5, <2>2
  <2> HIDE DEF e
  <2>4. s(e) < s(e + 1)
    BY <1>3, <2>2
  <2>5. s(c) < s(e + 1)
    BY <1>2, <2>2, <2>3, <2>4
  <2>6. QED
    BY <2>2, <2>5
<1>6. S = Nat
  <2> HIDE DEF Grown
  <2>1. S \subseteq Nat /\ 0 \in S /\ \A m \in S : m + 1 \in S
    BY <1>4, <1>5
  <2>2. QED
    BY <2>1, Induct
<1>7. d - c - 1 \in Nat /\ c + (d - c - 1) + 1 = d
  BY <1>1
<1>8. Grown(d - c - 1)
  <2> HIDE DEF Grown
  <2> QED
    BY <1>6, <1>7
<1>9. s(c) < s(d)
  BY <1>7, <1>8
<1>10. QED
  BY <1>9 DEF s

(* A sample in the middle of a chunk does not end one. *)
LEMMA InsideChunk ==
  ASSUME NEW f, NEW x \in Handle, TablesOK(x), Laid(f, x), NEW k \in Nat, Counts(x, k),
         x.chunks # NoTable => x.nextchunk \in 1..Len(x.chunks) - 1,
         More(x) => k # x.chunks[x.nextchunk + 1].sample
  PROVE  k \notin ChunkEndsAt(x)
<1> SUFFICES ASSUME NEW c \in 2..Len(x.chunks) - 1, k = x.chunks[c].sample
             PROVE  FALSE
  BY DEF ChunkEndsAt
<1> DEFINE l == Len(x.chunks)
           m == x.nextchunk
<1>1. l \in Nat
  <2>1. x.chunks \in Seq([offset : Nat, sample : Nat])
    BY DEF Handle
  <2>2. QED
    BY <2>1
<1>2. x.chunks # NoTable
  <2>1. SUFFICES ASSUME x.chunks = << >> PROVE FALSE
    BY DEF NoTable
  <2>2. l = 0
    BY <2>1
  <2>3. QED
    BY <2>2
<1>3. m \in 1..l - 1 /\ c \in 1..l - 1 /\ c \in 2..l - 1
  BY <1>1, <1>2
<1>4. x.chunks[m].sample < k /\ x.chunks[m].sample \in Nat
  <2>1. m \in 1..l
    BY <1>1, <1>3
  <2>2. QED
    BY <1>2, <2>1, ChunksTyped DEF Counts
<1>5. m < c
  <2>1. ASSUME c < m PROVE FALSE
    <3>1. x.chunks[c].sample < x.chunks[m].sample
      BY <1>3, <2>1, ChunksGrow
    <3> DEFINE y == x.chunks[m].sample
    <3>2. k < y /\ y \in Nat /\ y < k
      BY <1>4, <3>1
    <3> HIDE DEF y
    <3>3. QED
      BY <3>2
  <2>2. c # m
    BY <1>4
  <2>3. QED
    BY <1>3, <2>1, <2>2
<1>6. More(x) /\ m + 1 \in 1..l - 1
  BY <1>1, <1>2, <1>3, <1>5 DEF More
<1>7. k <= x.chunks[m + 1].sample /\ k # x.chunks[m + 1].sample
  BY <1>6 DEF Counts
<1>8. c # m + 1
  BY <1>7
<1>9. x.chunks[m + 1].sample < x.chunks[c].sample
  BY <1>3, <1>5, <1>6, <1>8, ChunksGrow
<1>10. x.chunks[m + 1].sample \in Nat
  <2>1. m + 1 \in 1..l
    BY <1>1, <1>6
  <2>2. QED
    BY <2>1, ChunksTyped
<1>11. QED
  BY <1>7, <1>9, <1>10

-----------------------------------------------------------------------------
(* A sample is decoded.                                                    *)

(* What trimming leaves of the handle. *)
Kept(x) ==
  /\ x \in Handle
  /\ x.pos = h.pos /\ x.consume = h.consume /\ x.config = h.config /\ x.chunks = h.chunks
  /\ x.default = h.default /\ x.table = h.table /\ x.sample = h.sample
  /\ x.nextchunk = h.nextchunk

LEMMA TrimKeeps ==
  ASSUME TypeInv, NEW frames \in Seq(Nat)
  PROVE  Kept(AfterTrim(frames)) /\ AfterTrim(frames).block = h.block
<1> DEFINE e == IF h.skip > 0 THEN FALSE ELSE h.empty
           s == SkipLeft(frames) - LesserOf(Len(frames), SkipLeft(frames))
           t == h.samples - LesserOf(h.samples, Len(Trimmed(frames)))
<1>1. AfterTrim(frames) = [h EXCEPT !.empty = e, !.skip = s, !.samples = t]
  BY DEF AfterTrim
<1>2. AfterTrim(frames) \in Handle
  BY TrimTyped
<1>3. h \in Handle
  BY DEF TypeInv, TypeOK
<1> HIDE DEF e, s, t
<1>4. QED
  BY <1>1, <1>2, <1>3 DEF Handle, Kept

LEMMA CountedKeeps ==
  ASSUME NEW x \in Handle
  PROVE  /\ Counted(x) \in Handle /\ Counted(x).sample = IF AnotherChunk THEN x.sample + 1 ELSE x.sample
         /\ Counted(x).pos = x.pos /\ Counted(x).consume = x.consume
         /\ Counted(x).config = x.config /\ Counted(x).chunks = x.chunks
         /\ Counted(x).default = x.default /\ Counted(x).table = x.table
         /\ Counted(x).nextchunk = x.nextchunk /\ Counted(x).block = x.block
<1> DEFINE m == IF AnotherChunk THEN x.sample + 1 ELSE x.sample
<1>1. Counted(x) = [x EXCEPT !.sample = m]
  BY DEF Counted
<1>2. m \in Nat
  BY DEF Handle
<1> HIDE DEF m
<1>3. QED
  BY <1>1, <1>2 DEF Handle, m

(* The table tells whether there is another chunk. *)
LEMMA MoreIsAnother ==
  ASSUME TypeInv, dec.pc = "frame", Laid(file, h), file.at[1] > 0
  PROVE  /\ AnotherChunk <=> More(h)
         /\ h.chunks # NoTable =>
              /\ h.nextchunk \in 1..Len(h.chunks) - 1 /\ Len(h.chunks) \in Nat
              /\ h.chunks[h.nextchunk].sample \in Nat
         /\ More(h) =>
              LET m == h.chunks[h.nextchunk + 1].sample IN
              /\ h.nextchunk + 1 \in 2..Len(h.chunks) - 1
              /\ m \in Nat /\ m + 1 \in DOMAIN file.at
              /\ h.chunks[h.nextchunk + 1].offset = file.at[m + 1]
<1>1. h \in Handle /\ TablesOK(h)
  BY DEF TypeInv, TypeOK, CallInv
<1>2. SUFFICES ASSUME h.chunks # NoTable
               PROVE  /\ AnotherChunk <=> More(h)
                      /\ h.nextchunk \in 1..Len(h.chunks) - 1 /\ Len(h.chunks) \in Nat
                      /\ h.chunks[h.nextchunk].sample \in Nat
                      /\ More(h) =>
                          LET m == h.chunks[h.nextchunk + 1].sample IN
                          /\ h.nextchunk + 1 \in 2..Len(h.chunks) - 1
                          /\ m \in Nat /\ m + 1 \in DOMAIN file.at
                          /\ h.chunks[h.nextchunk + 1].offset = file.at[m + 1]
  BY DEF AnotherChunk, More
<1> DEFINE l == Len(h.chunks)
           c == h.nextchunk + 1
           m == h.chunks[c].sample
<1>3. /\ h.nextchunk \in Nat /\ c \in 1..l /\ l \in Nat
      /\ h.chunks[c].offset \in Nat /\ (h.chunks[c].offset > 0 => c \in 1..l - 1)
  BY <1>2, NextEntry
<1>4. h.nextchunk \in 1..l - 1
  BY <1>2 DEF TypeInv, CallInv
<1>5. h.chunks[h.nextchunk].sample \in Nat
  <2>1. h.nextchunk \in 1..l
    BY <1>3, <1>4
  <2>2. QED
    BY <1>1, <2>1, ChunksTyped
<1>6. m \in Nat
  BY <1>1, <1>3, ChunksTyped
<1>7. ASSUME c < l
      PROVE  /\ c \in 2..l - 1 /\ m + 1 \in DOMAIN file.at
             /\ h.chunks[c].offset = file.at[m + 1] /\ h.chunks[c].offset > 0
  <2>1. c \in 1..l - 1 /\ c \in 2..l - 1
    BY <1>3, <1>4, <1>7
  <2>2. m < Len(file.at) /\ h.chunks[c].offset = file.at[m + 1]
    BY <2>1 DEF Laid
  <2> DEFINE n == Len(file.at)
  <2>3. n \in Nat /\ n >= 1 /\ DOMAIN file.at = 1..n
    BY SamplesTyped DEF TypeInv
  <2>4. m + 1 \in 1..n /\ 1 \in 1..n
    BY <1>6, <2>2, <2>3
  <2>5. file.at[m + 1] \in Nat /\ file.at[1] \in Nat
        /\ (1 < m + 1 => file.at[1] + file.sizes[1] <= file.at[m + 1]) /\ file.sizes[1] \in Nat
    BY <2>4, SamplesTyped DEF TypeInv
  <2>6. file.at[m + 1] > 0
    <3>1. m + 1 = 1 \/ 1 < m + 1
      BY <1>6
    <3> HIDE DEF m
    <3>2. CASE m + 1 = 1
      BY <3>2
    <3>3. CASE 1 < m + 1
      BY <2>5, <3>3
    <3>4. QED
      BY <3>1, <3>2, <3>3
  <2>7. QED
    BY <2>1, <2>2, <2>3, <2>4, <2>6
<1>8. h.chunks[c].offset > 0 <=> c < l
  <2> HIDE DEF c, l
  <2>1. h.chunks[c].offset > 0 => c < l
    BY <1>3
  <2>2. QED
    BY <1>7, <2>1
<1>9. AnotherChunk <=> More(h)
  BY <1>2, <1>8 DEF AnotherChunk, More
<1>10. QED
  BY <1>2, <1>3, <1>4, <1>5, <1>6, <1>7, <1>9 DEF More

(* On to the sample that opens the next chunk, m + 1. *)
LEMMA ToNextChunk ==
  ASSUME TypeInv, dec.pc = "frame", Laid(file, h), file.at[1] > 0, h.consume = 0,
         ChunkEnds, file' = file, arrived' = arrived, NEW x, Kept(x), NextChunk(x),
         NEW m \in Nat, m = h.chunks[h.nextchunk + 1].sample
  PROVE  /\ m + 1 \in DOMAIN file.at /\ ChunkGap = file.at[m + 1] - rd
         /\ rd' + h'.consume = file.at[m + 1]
         /\ Counts(h, m + 1)'
         /\ h'.block = x.block /\ h'.config = h.config /\ h'.chunks = h.chunks
         /\ h'.default = h.default /\ h'.table = h.table
<1> DEFINE c == h.nextchunk + 1
           l == Len(h.chunks)
           y == Counted(x)
           next == [y EXCEPT !.nextchunk = @ + 1]
           late == [next EXCEPT !.consume = ChunkGap]
<1>1. AnotherChunk /\ h.sample = m
  BY DEF ChunkEnds
<1>2. /\ More(h) /\ c \in 2..l - 1 /\ m + 1 \in DOMAIN file.at
      /\ h.chunks[c].offset = file.at[m + 1] /\ l \in Nat /\ h.nextchunk \in Nat
  <2>1. More(h)
    BY <1>1, MoreIsAnother
  <2>2. h.nextchunk \in 1..l - 1
    BY <2>1, MoreIsAnother DEF More
  <2>3. h.nextchunk \in Nat
    BY <2>2
  <2>4. QED
    BY <2>1, <2>3, MoreIsAnother DEF More
<1>3. file.at[m + 1] \in Nat /\ rd \in Nat /\ h.pos = rd /\ h \in Handle
  BY <1>2, SamplesTyped, Buffered DEF TypeInv, TypeOK
<1>4. ChunkGap = file.at[m + 1] - rd /\ ChunkGap \in Int
  <2>1. ChunkGap = file.at[m + 1] - rd
    BY <1>2, <1>3 DEF ChunkGap
  <2>2. QED
    BY <1>3, <2>1
<1>5. /\ y \in Handle /\ y.sample = m + 1 /\ y.pos = rd /\ y.consume = 0
      /\ y.config = h.config /\ y.chunks = h.chunks /\ y.default = h.default
      /\ y.table = h.table /\ y.nextchunk = h.nextchunk /\ y.block = x.block
  BY <1>1, <1>3, CountedKeeps DEF Kept
<1> HIDE DEF y
<1>6. /\ next \in Handle /\ next.sample = m + 1 /\ next.pos = rd /\ next.consume = 0
      /\ next.config = h.config /\ next.chunks = h.chunks /\ next.default = h.default
      /\ next.table = h.table /\ next.nextchunk = c /\ next.block = x.block
  <2>1. c \in Nat
    BY <1>2
  <2>2. next = [y EXCEPT !.nextchunk = c]
    BY <1>5
  <2> HIDE DEF next, c
  <2>3. QED
    BY <1>5, <2>1, <2>2 DEF Handle
<1> HIDE DEF next
<1>7. /\ rd' + h'.consume = file.at[m + 1]
      /\ h'.sample = m + 1 /\ h'.config = h.config /\ h'.chunks = h.chunks
      /\ h'.default = h.default /\ h'.table = h.table /\ h'.nextchunk = c /\ h'.block = x.block
  <2>1. CASE ChunkGap <= Used
    <3>1. Advance(ChunkGap, next)
      BY <2>1 DEF NextChunk, next, y
    <3>2. rd' = rd + ChunkGap /\ h' = [next EXCEPT !.pos = next.pos + ChunkGap]
      BY <3>1 DEF Advance
    <3>3. /\ h'.consume = next.consume
          /\ h'.sample = next.sample /\ h'.config = next.config /\ h'.chunks = next.chunks
          /\ h'.default = next.default /\ h'.table = next.table
          /\ h'.nextchunk = next.nextchunk /\ h'.block = next.block
      BY <1>6, <3>2 DEF Handle
    <3>4. rd' + h'.consume = file.at[m + 1]
      BY <1>3, <1>4, <1>6, <3>2, <3>3
    <3>5. QED
      BY <1>6, <3>3, <3>4
  <2>2. CASE ~(ChunkGap <= Used)
    <3>1. Stay(late)
      BY <2>2 DEF NextChunk, next, y, late
    <3>2. rd' = rd /\ h' = late
      BY <3>1 DEF Stay
    <3>3. /\ h'.consume = ChunkGap
          /\ h'.sample = next.sample /\ h'.config = next.config /\ h'.chunks = next.chunks
          /\ h'.default = next.default /\ h'.table = next.table
          /\ h'.nextchunk = next.nextchunk /\ h'.block = next.block
      BY <1>6, <3>2 DEF Handle
    <3>4. rd' + h'.consume = file.at[m + 1]
      BY <1>3, <1>4, <3>2, <3>3
    <3>5. QED
      BY <1>6, <3>3, <3>4
  <2>3. QED
    BY <2>1, <2>2
<1>8. Counts(h, m + 1)'
  <2>1. h.chunks[c].sample < m + 1
    OBVIOUS
  <2>2. ASSUME c + 1 < l
        PROVE  m + 1 <= h.chunks[c + 1].sample
    <3>1. c \in 1..l - 1 /\ c + 1 \in 1..l - 1 /\ c < c + 1 /\ c + 1 \in 1..l
      BY <1>2, <2>2
    <3>2. m < h.chunks[c + 1].sample
      BY <1>3, <3>1, ChunksGrow
    <3>3. h.chunks[c + 1].sample \in Nat
      BY <1>3, <3>1, ChunksTyped
    <3>4. QED
      BY <3>2, <3>3
  <2>3. QED
    BY <1>7, <2>1, <2>2 DEF Counts, More
<1>9. QED
  BY <1>2, <1>4, <1>7, <1>8

(* On to the next sample, in this chunk or the next. *)
LEMMA ToNextSample ==
  ASSUME TypeInv, dec.pc = "frame", Laid(file, h), file.at[1] > 0, h.consume = 0,
         NEW k \in DOMAIN file.at, AtSample(k), file' = file, arrived' = arrived,
         NEW x, Kept(x), NextBlock(x, k + 1),
         IF ChunkEnds THEN NextChunk(x) ELSE Advance(file.sizes[k], Counted(x))
  PROVE  /\ k + 1 \in 1..Len(file.at) + 1
         /\ AtSample(k + 1)' /\ Laid(file, h)'
<1> DEFINE n == Len(file.at)
           m == h.chunks[h.nextchunk + 1].sample
<1>1. /\ n \in Nat /\ k \in 1..n /\ k \in Nat /\ DOMAIN file.at = 1..n
      /\ file.at[k] \in Nat /\ file.sizes[k] \in Nat
  BY SamplesTyped DEF TypeInv
<1>2. h \in Handle /\ h.pos = rd /\ rd \in Nat /\ TablesOK(h)
  BY Buffered DEF TypeInv, TypeOK, CallInv
<1>3. rd = file.at[k]
  BY <1>1, <1>2 DEF AtSample, SampleAt
<1>4. Counts(h, k)
  BY DEF AtSample
<1>5. AnotherChunk <=> More(h)
  BY MoreIsAnother
<1>6. CASE ChunkEnds
  <2>1. More(h) /\ h.sample = m
    BY <1>5, <1>6 DEF ChunkEnds
  <2>2. m = k
    BY <1>4, <2>1 DEF Counts
  <2>3. NextChunk(x)
    BY <1>6
  <2>4. /\ k + 1 \in DOMAIN file.at
        /\ rd' + h'.consume = file.at[k + 1]
        /\ Counts(h, k + 1)'
        /\ h'.block = x.block /\ h'.config = h.config /\ h'.chunks = h.chunks
        /\ h'.default = h.default /\ h'.table = h.table
    BY <1>1, <1>6, <2>2, <2>3, ToNextChunk
  <2>5. NextBlock(h, k + 1)'
    BY <2>4 DEF NextBlock, Kept
  <2>6. Laid(file, h')
    BY <2>4, LaidAlike
  <2>7. k + 1 \in 1..n + 1 /\ SampleAt(k + 1) = file.at[k + 1]
    BY <1>1, <2>4 DEF SampleAt
  <2>8. QED
    BY <2>4, <2>5, <2>6, <2>7 DEF AtSample, SampleAt
<1>7. CASE ~ChunkEnds
  <2> DEFINE y == Counted(x)
             s == file.sizes[k]
  <2>1. rd' = rd + s /\ h' = [y EXCEPT !.pos = y.pos + s]
    BY <1>7 DEF Advance
  <2>2. /\ y \in Handle /\ y.sample = IF AnotherChunk THEN h.sample + 1 ELSE h.sample
        /\ y.consume = 0 /\ y.config = h.config /\ y.chunks = h.chunks
        /\ y.default = h.default /\ y.table = h.table
        /\ y.nextchunk = h.nextchunk /\ y.block = x.block
    BY CountedKeeps DEF Kept
  <2> HIDE DEF y
  <2>3. /\ h'.sample = IF AnotherChunk THEN h.sample + 1 ELSE h.sample
        /\ h'.consume = 0 /\ h'.config = h.config /\ h'.chunks = h.chunks
        /\ h'.default = h.default /\ h'.table = h.table
        /\ h'.nextchunk = h.nextchunk /\ h'.block = x.block
    BY <2>1, <2>2 DEF Handle
  <2>4. More(h) => h.sample = k /\ k <= m /\ k # m /\ m \in Nat
    <3>1. More(h) => m \in Nat
      BY MoreIsAnother
    <3>2. More(h) => h.sample = k /\ k <= m
      BY <1>4 DEF Counts
    <3>3. More(h) => h.sample # m
      BY <1>5, <1>7 DEF ChunkEnds
    <3>4. QED
      BY <3>1, <3>2, <3>3
  <2>5. k \notin ChunkEndsAt(h)
    <3>1. h.chunks # NoTable => h.nextchunk \in 1..Len(h.chunks) - 1
      BY DEF TypeInv, CallInv
    <3>2. QED
      BY <1>1, <1>2, <1>4, <2>4, <3>1, InsideChunk
  <2>6. SampleAt(k + 1) = file.at[k] + s
    BY <1>1, <2>5, SampleSteps DEF TypeInv
  <2>7. rd' + h'.consume = SampleAt(k + 1)
    BY <1>1, <1>3, <2>1, <2>3, <2>6
  <2>8. Counts(h, k + 1)'
    <3>1. h.chunks # NoTable => h.chunks[h.nextchunk].sample < k + 1
      <4>1. SUFFICES ASSUME h.chunks # NoTable PROVE h.chunks[h.nextchunk].sample < k + 1
        OBVIOUS
      <4>2. h.chunks[h.nextchunk].sample \in Nat
        BY <4>1, MoreIsAnother
      <4>3. h.chunks[h.nextchunk].sample < k
        BY <1>4, <4>1 DEF Counts
      <4>4. QED
        BY <1>1, <4>2, <4>3
    <3>2. More(h) => h.sample + 1 = k + 1 /\ k + 1 <= m
      BY <1>1, <2>4
    <3>3. QED
      BY <1>5, <2>3, <3>1, <3>2 DEF Counts, More
  <2>9. NextBlock(h, k + 1)'
    BY <2>3 DEF NextBlock, Kept
  <2>10. Laid(file, h')
    BY <2>3, LaidAlike
  <2>11. k + 1 \in 1..n + 1
    BY <1>1
  <2>12. QED
    BY <2>7, <2>8, <2>9, <2>10, <2>11 DEF AtSample, SampleAt
<1>8. QED
  BY <1>6, <1>7

(* Behind the last sample nothing is left, and no chunk to come. *)
LEMMA BehindLast ==
  ASSUME TypeInv, dec.pc = "frame", Laid(file, h), file.at[1] > 0, h.consume = 0,
         NEW k \in 1..Len(file.at) + 1, k \notin DOMAIN file.at, AtSample(k)
  PROVE  Used = 0 /\ ~ChunkEnds
<1> DEFINE n == Len(file.at)
<1>1. /\ n \in Nat /\ n >= 1 /\ DOMAIN file.at = 1..n
      /\ file.at[n] \in Nat /\ file.sizes[n] \in Nat
  BY SamplesTyped DEF TypeInv
<1>2. k = n + 1
  BY <1>1
<1>3. rd = file.at[n] + file.sizes[n]
  BY Buffered DEF AtSample, SampleAt, TypeInv
<1>4. file.cut <= file.at[n] + file.sizes[n]
  BY DEF Laid
<1>5. rd <= arrived /\ arrived <= file.cut /\ rd \in Nat /\ arrived \in Nat /\ file.cut \in Nat
  BY Buffered DEF TypeInv, TypeOK
<1>6. Used = 0
  BY <1>1, <1>3, <1>4, <1>5 DEF Used
<1>7. ASSUME ChunkEnds PROVE FALSE
  <2> DEFINE m == h.chunks[h.nextchunk + 1].sample
  <2>1. More(h)
    BY <1>7, MoreIsAnother DEF ChunkEnds
  <2>2. m \in Nat /\ m + 1 \in DOMAIN file.at
    BY <2>1, MoreIsAnother
  <2>3. k <= m
    BY <2>1 DEF AtSample, Counts
  <2> HIDE DEF m
  <2>4. QED
    BY <1>1, <1>2, <2>2, <2>3
<1>8. QED
  BY <1>6, <1>7

(* What faad.c is offered is short of the sample only if the server broke  *)
(* off.                                                                    *)
LEMMA ShortOffer ==
  ASSUME TypeInv, AllSent, Laid(file, h), file.codec = "aac", Used > MinRead \/ closed,
         NEW k \in DOMAIN file.at, rd = file.at[k], ~(file.sizes[k] <= Offered)
  PROVE  closed /\ file.cut < file.at[k] + file.sizes[k]
<1> DEFINE s == file.sizes[k]
<1>1. /\ file.at[k] \in Nat /\ s \in Nat
  BY SamplesTyped DEF TypeInv
<1>2. s <= WrapLen /\ s <= MinRead + 1
  BY DEF Laid
<1> HIDE DEF s
<1>3. /\ Used \in Nat /\ Cont \in Nat /\ WrapLen \in Nat /\ MinRead \in Nat /\ Cont <= Used
      /\ arrived \in Nat /\ rd \in Nat /\ file.cut \in Nat
  BY Buffered, Numbers DEF TypeInv
<1>4. ~(s <= Offered)
  BY DEF s
<1>5. Used < s
  <2>1. CASE Cont < WrapLen /\ Cont # Used
    <3>1. Offered = LesserOf(Used, WrapLen)
      BY <2>1 DEF Offered
    <3>2. QED
      BY <1>1, <1>2, <1>3, <1>4, <3>1 DEF LesserOf, s
  <2>2. CASE ~(Cont < WrapLen /\ Cont # Used)
    <3>1. Offered = Cont
      BY <2>2 DEF Offered
    <3>2. s \in Nat
      BY <1>1 DEF s
    <3>3. QED
      BY <1>2, <1>3, <1>4, <2>2, <3>1, <3>2
  <2>3. QED
    BY <2>1, <2>2
<1>6. closed
  <2>1. s \in Nat
    BY <1>1 DEF s
  <2>2. QED
    BY <1>2, <1>3, <1>5, <2>1
<1>7. arrived = file.cut
  BY <1>6 DEF AllSent
<1>8. QED
  BY <1>1, <1>3, <1>5, <1>6, <1>7 DEF Used, s

(* The decoder of a whole sample, of a part of one, and elsewhere.         *)
LEMMA WholeSample ==
  ASSUME TypeInv, h.config, NEW k \in DOMAIN file.at, rd = file.at[k],
         NEW avail \in Nat, file.sizes[k] <= avail, NEW d \in Decodes(avail)
  PROVE  d.consumed = file.sizes[k] /\ d.frames = FramesOf(k)
<1> DEFINE here == {j \in DOMAIN file.at : file.at[j] = rd}
<1>1. k \in here
  OBVIOUS
<1>2. PICK j \in here : d = [consumed |-> file.sizes[j], frames |-> FramesOf(j)]
  BY <1>1 DEF Decodes
<1>3. j = k
  BY <1>2, OneHere DEF TypeInv
<1>4. QED
  BY <1>2, <1>3

LEMMA PartOfSample ==
  ASSUME TypeInv, NEW k \in DOMAIN file.at, rd = file.at[k],
         NEW avail \in Nat, ~(file.sizes[k] <= avail), NEW d \in Decodes(avail)
  PROVE  d.consumed \in {0, 1} /\ d.frames = << >>
<1> DEFINE here == {j \in DOMAIN file.at : file.at[j] = rd}
<1>1. k \in here
  OBVIOUS
<1>2. \A j \in here : j = k
  BY OneHere DEF TypeInv
<1>3. \E n \in 0..LesserOf(avail, 1) : d = Error(n)
  BY <1>1, <1>2 DEF Decodes
<1>4. QED
  BY <1>3 DEF Error, LesserOf

(* In a sample that was cut off. *)
LEMMA TornStep ==
  ASSUME TypeInv, dec.pc = "frame", Laid(file, h), file.at[1] > 0, h.consume = 0,
         file.codec = "aac", closed, UNCHANGED <<file, arrived, closed>>,
         NEW k \in DOMAIN file.at, file.at[k] <= rd, file.cut < file.at[k] + file.sizes[k],
         More(h) => k <= h.chunks[h.nextchunk + 1].sample,
         NEW x, Kept(x), NEW n \in Nat, n >= 1,
         IF ChunkEnds THEN NextChunk(x) ELSE Advance(n, Counted(x))
  PROVE  /\ Laid(file, h)'
         /\ InTorn(k)' \/ \E j \in k + 1..Len(file.at) : AtSample(j)'
<1>1. /\ Len(file.at) \in Nat /\ DOMAIN file.at = 1..Len(file.at) /\ file.at[k] \in Nat
  BY SamplesTyped DEF TypeInv
<1>2. h \in Handle /\ h.pos = rd /\ rd \in Nat
  BY Buffered DEF TypeInv, TypeOK
<1>3. CASE ChunkEnds
  <2>1. PICK m \in Nat : m = h.chunks[h.nextchunk + 1].sample
    BY <1>3, MoreIsAnother DEF ChunkEnds
  <2>2. NextChunk(x) /\ file' = file /\ arrived' = arrived
    BY <1>3
  <2>3. /\ m + 1 \in DOMAIN file.at
        /\ rd' + h'.consume = file.at[m + 1]
        /\ Counts(h, m + 1)'
        /\ h'.config = h.config /\ h'.chunks = h.chunks
        /\ h'.default = h.default /\ h'.table = h.table
    BY <1>3, <2>1, <2>2, ToNextChunk
  <2>4. Laid(file, h')
    BY <2>3, LaidAlike
  <2>5. m + 1 \in 1..Len(file.at) + 1 /\ m + 1 \in k + 1..Len(file.at)
    <3>1. k <= m
      BY <1>3, <2>1, MoreIsAnother DEF ChunkEnds
    <3>2. m + 1 \in 1..Len(file.at) /\ Len(file.at) \in Nat /\ k \in Nat
      BY <1>1, <2>3
    <3>3. QED
      BY <2>1, <3>1, <3>2
  <2>6. SampleAt(m + 1)' = file.at[m + 1]
    BY <2>2, <2>3 DEF SampleAt
  <2>7. NextBlock(h, m + 1)'
    BY DEF NextBlock
  <2>8. AtSample(m + 1)'
    BY <2>2, <2>3, <2>5, <2>6, <2>7 DEF AtSample
  <2>9. QED
    BY <2>4, <2>5, <2>8
<1>4. CASE ~ChunkEnds
  <2> DEFINE y == Counted(x)
  <2>1. rd' = rd + n /\ h' = [y EXCEPT !.pos = y.pos + n]
    BY <1>4 DEF Advance
  <2>2. /\ y \in Handle /\ y.consume = 0 /\ y.config = h.config /\ y.chunks = h.chunks
        /\ y.default = h.default /\ y.table = h.table /\ y.nextchunk = h.nextchunk
    BY CountedKeeps DEF Kept
  <2> HIDE DEF y
  <2>3. /\ h'.consume = 0 /\ h'.config = h.config /\ h'.chunks = h.chunks
        /\ h'.default = h.default /\ h'.table = h.table /\ h'.nextchunk = h.nextchunk
    BY <2>1, <2>2 DEF Handle
  <2>4. Laid(file, h')
    BY <2>3, LaidAlike
  <2>5. file.at[k] < rd'
    BY <1>1, <1>2, <2>1
  <2>6. InTorn(k)'
    BY <2>3, <2>5 DEF InTorn, More
  <2>7. QED
    BY <2>4, <2>6
<1>5. QED
  BY <1>3, <1>4

LEMMA AacStep ==
  ASSUME TypeInv, AllSent, SampleInv, AacFrame
  PROVE  HeaderInv' /\ SampleInv'
<1>1. PICK d \in Decodes(Offered) :
        LET backwards == ChunkEnds /\ ChunkGap <= 0
            stuck == ~ChunkEnds /\ d.consumed = 0
            handle == IF backwards \/ stuck THEN h
                      ELSE IF d.frames = << >> THEN [h EXCEPT !.empty = TRUE]
                      ELSE AfterTrim(d.frames)
        IN
        /\ IF backwards THEN Stay(Counted(handle))
           ELSE IF ChunkEnds THEN NextChunk(handle)
           ELSE Advance(d.consumed, Counted(handle))
        /\ Returns(IF backwards \/ stuck THEN "error" ELSE "running")
  BY DEF AacFrame
<1> DEFINE failed == (ChunkEnds /\ ChunkGap <= 0) \/ (~ChunkEnds /\ d.consumed = 0)
           x == IF d.frames = << >> THEN [h EXCEPT !.empty = TRUE] ELSE AfterTrim(d.frames)
<1>2. /\ dec.pc = "frame" /\ file.codec = "aac"
      /\ UNCHANGED <<file, arrived, closed, turn, damage>>
  BY DEF AacFrame
<1>3. dec.state = "running" /\ ~dec.new
  BY <1>2 DEF TypeInv, CallInv
<1>4. ~dec'.new /\ dec'.pc = "idle" /\ dec'.state = IF failed THEN "error" ELSE "running"
  BY <1>1, <1>3, ReturnsTyped
<1>5. HeaderInv'
  BY <1>4 DEF HeaderInv
<1>6. SUFFICES ASSUME Sound', ~failed
               PROVE  /\ Laid(file, h)' /\ (file.at[1] > 0)'
                      /\ \E j \in 1..Len(file.at) + 1 : AtSample(j)' \/ InTorn(j)'
  BY <1>2, <1>4, <1>5 DEF SampleInv
<1>7. IF ChunkEnds THEN NextChunk(x) ELSE Advance(d.consumed, Counted(x))
  BY <1>1, <1>6
<1>8. Sound
  BY <1>2, <1>6 DEF Sound
<1>9. /\ Laid(file, h) /\ file.at[1] > 0 /\ h.consume = 0 /\ (Used > MinRead \/ closed)
      /\ \E k \in 1..Len(file.at) + 1 : AtSample(k) \/ InTorn(k)
  BY <1>2, <1>3, <1>8 DEF SampleInv
<1>10. Offered \in Nat /\ Offered <= Used /\ Used \in Nat
  <2>1. Used \in Nat /\ Cont \in Nat /\ Cont <= Used /\ WrapLen \in Nat
    BY Buffered, Numbers DEF TypeInv
  <2>2. LesserOf(Used, WrapLen) \in Nat /\ LesserOf(Used, WrapLen) <= Used
    BY <2>1, Lesser
  <2>3. QED
    BY <2>1, <2>2 DEF Offered
<1>11. d.consumed \in Nat /\ d.consumed <= Offered /\ d.frames \in Seq(Nat)
  BY <1>10, DecodesTyped
<1>12. ~ChunkEnds => d.consumed >= 1
  BY <1>6, <1>11
<1>13. Kept(x)
  <2>1. h \in Handle
    BY DEF TypeInv, TypeOK
  <2>2. Kept([h EXCEPT !.empty = TRUE])
    BY <2>1 DEF Handle, Kept
  <2>3. QED
    BY <1>11, <2>2, TrimKeeps
<1> HIDE DEF failed, x
<1>14. file.at' = file.at /\ file' = file
  BY <1>2
<1>15. ASSUME NEW k \in DOMAIN file.at, closed, file.at[k] <= rd,
              file.cut < file.at[k] + file.sizes[k],
              More(h) => k <= h.chunks[h.nextchunk + 1].sample
       PROVE  /\ Laid(file, h)'
              /\ \E j \in 1..Len(file.at) + 1 : AtSample(j)' \/ InTorn(j)'
  <2> DEFINE n == IF ChunkEnds THEN 1 ELSE d.consumed
  <2>1. n \in Nat /\ n >= 1
    BY <1>11, <1>12
  <2>2. IF ChunkEnds THEN NextChunk(x) ELSE Advance(n, Counted(x))
    BY <1>7
  <2> HIDE DEF n
  <2>3. Laid(file, h)' /\ (InTorn(k)' \/ \E j \in k + 1..Len(file.at) : AtSample(j)')
    BY <1>2, <1>9, <1>13, <1>15, <2>1, <2>2, TornStep
  <2>4. DOMAIN file.at = 1..Len(file.at) /\ Len(file.at) \in Nat
    BY <1>9, SamplesTyped DEF TypeInv
  <2>5. k \in 1..Len(file.at) + 1 /\ k + 1..Len(file.at) \subseteq 1..Len(file.at) + 1
    BY <2>4
  <2>6. QED
    BY <2>3, <2>5
<1>16. PICK k \in 1..Len(file.at) + 1 : AtSample(k) \/ InTorn(k)
  BY <1>9
<1>17. rd \in Nat /\ file.cut \in Nat
  BY Buffered DEF TypeInv
<1>18. CASE InTorn(k)
  <2>1. k \in DOMAIN file.at /\ file.at[k] \in Nat
    BY <1>9, <1>18, SamplesTyped DEF InTorn, TypeInv
  <2>2. file.at[k] <= rd
    BY <1>17, <1>18, <2>1 DEF InTorn
  <2>3. QED
    BY <1>9, <1>14, <1>15, <1>18, <2>1, <2>2 DEF InTorn
<1>19. CASE AtSample(k) /\ k \notin DOMAIN file.at
  <2>1. Used = 0 /\ ~ChunkEnds
    BY <1>2, <1>9, <1>19, BehindLast
  <2>2. QED
    BY <1>10, <1>11, <1>12, <2>1
<1>20. CASE AtSample(k) /\ k \in DOMAIN file.at
  <2>1. rd = file.at[k] /\ file.at[k] \in Nat /\ file.sizes[k] \in Nat
    BY <1>9, <1>17, <1>20, SamplesTyped DEF AtSample, SampleAt, TypeInv
  <2>2. CASE file.sizes[k] <= Offered
    <3>1. h.config
      BY <1>2, <1>9 DEF Laid
    <3>2. d.consumed = file.sizes[k]
      BY <1>10, <1>20, <2>1, <2>2, <3>1, WholeSample
    <3>3. NextBlock(x, k + 1)
      BY <1>2 DEF NextBlock
    <3>4. k + 1 \in 1..Len(file.at) + 1 /\ AtSample(k + 1)' /\ Laid(file, h)'
      BY <1>2, <1>7, <1>9, <1>13, <1>20, <3>2, <3>3, ToNextSample
    <3>5. QED
      BY <1>9, <1>14, <3>4
  <2>3. CASE ~(file.sizes[k] <= Offered)
    <3>1. closed /\ file.cut < file.at[k] + file.sizes[k]
      BY <1>2, <1>9, <1>20, <2>1, <2>3, ShortOffer
    <3>2. More(h) => k <= h.chunks[h.nextchunk + 1].sample
      BY <1>20 DEF AtSample, Counts
    <3>3. file.at[k] <= rd
      BY <2>1
    <3>4. QED
      BY <1>9, <1>14, <1>15, <1>20, <3>1, <3>2, <3>3
  <2>4. QED
    BY <2>2, <2>3
<1>21. QED
  BY <1>16, <1>18, <1>19, <1>20

(* The size alac.c takes a block to have is that of the sample. *)
LEMMA BlockFits ==
  ASSUME TypeInv, Laid(file, h), file.codec = "alac", h.default > 0 \/ h.table # NoTable,
         NEW k \in DOMAIN file.at, NextBlock(h, k)
  PROVE  BlockSize = file.sizes[k] /\ file.sizes[k] >= 1
<1>1. /\ Len(file.at) \in Nat /\ k \in 1..Len(file.at)
      /\ file.sizes[k] \in Nat /\ file.sizes[k] >= 1 /\ h.default \in Nat
  BY SamplesTyped DEF TypeInv, TypeOK, Handle
<1>2. CASE h.default > 0
  BY <1>1, <1>2 DEF Laid, BlockSize
<1>3. CASE ~(h.default > 0)
  <2>1. h.table = Append(file.sizes, 0) /\ h.block = k - 1
    BY <1>1, <1>3 DEF Laid, NextBlock
  <2>2. BlockSize = h.table[h.block + 1]
    BY <1>3 DEF BlockSize
  <2>3. h.block + 1 = k
    BY <1>1, <2>1
  <2> DEFINE sizes == file.sizes
  <2>4. sizes \in Seq(Nat \ {0}) /\ k \in 1..Len(sizes)
    BY <1>1, Buffered DEF TypeInv, FileOK
  <2>5. Append(sizes, 0)[k] = sizes[k]
    BY <2>4
  <2> HIDE DEF sizes
  <2>6. h.table = Append(sizes, 0)
    BY <2>1 DEF sizes
  <2>7. BlockSize = sizes[k]
    BY <2>2, <2>3, <2>5, <2>6
  <2>8. QED
    BY <1>1, <2>7 DEF sizes
<1>4. QED
  BY <1>2, <1>3

(* What a block of frames makes of the handle of alac.c. *)
Behind(frames) ==
  [AfterTrim(frames) EXCEPT !.block = IF BlockSize # h.default THEN @ + 1 ELSE @]

LEMMA BlockPassed ==
  ASSUME TypeInv, dec.pc = "frame", file.codec = "alac", h.default > 0 \/ h.table # NoTable,
         Laid(file, h), file.at[1] > 0, h.consume = 0, file' = file, arrived' = arrived,
         NEW k \in DOMAIN file.at, AtSample(k), BlockSize > 0, NEW frames \in Seq(Nat),
         IF ChunkEnds THEN NextChunk(Behind(frames)) ELSE Advance(BlockSize, Counted(Behind(frames)))
  PROVE  /\ k + 1 \in 1..Len(file.at) + 1 /\ AtSample(k + 1)' /\ Laid(file, h)'
         /\ Behind(frames) \in Handle
         /\ Behind(frames).skip = AfterTrim(frames).skip
         /\ Behind(frames).samples = AfterTrim(frames).samples
         /\ Behind(frames).empty = AfterTrim(frames).empty
         /\ Behind(frames).config = h.config /\ Behind(frames).default = h.default
         /\ Behind(frames).table = h.table
<1> DEFINE y == AfterTrim(frames)
           next == Behind(frames)
           m == IF BlockSize # h.default THEN y.block + 1 ELSE y.block
<1>1. BlockSize = file.sizes[k]
  BY BlockFits DEF AtSample
<1>2. y \in Handle /\ Kept(y) /\ y.block = h.block
  BY TrimKeeps DEF Kept
<1>3. m \in Nat
  BY <1>2 DEF Handle
<1>4. next = [y EXCEPT !.block = m]
  BY DEF Behind
<1> HIDE DEF next, y
<1>5. /\ Kept(next) /\ next.block = m /\ next \in Handle
      /\ next.skip = y.skip /\ next.samples = y.samples /\ next.empty = y.empty
  <2> HIDE DEF m
  <2>1. /\ next \in Handle /\ next.block = m
        /\ next.pos = y.pos /\ next.consume = y.consume /\ next.config = y.config
        /\ next.chunks = y.chunks /\ next.default = y.default /\ next.table = y.table
        /\ next.sample = y.sample /\ next.nextchunk = y.nextchunk
        /\ next.skip = y.skip /\ next.samples = y.samples /\ next.empty = y.empty
    BY <1>2, <1>3, <1>4 DEF Handle
  <2>2. QED
    BY <1>2, <2>1 DEF Kept
<1>6. NextBlock(next, k + 1)
  <2>1. SUFFICES ASSUME next.default = 0, next.table # NoTable PROVE next.block = (k + 1) - 1
    BY DEF NextBlock
  <2>2. h.default = 0 /\ h.block = k - 1
    BY <1>5, <2>1 DEF Kept, AtSample, NextBlock
  <2>3. m = h.block + 1
    BY <1>2, <2>2
  <2>4. k \in Nat
    BY SamplesTyped DEF TypeInv
  <2> HIDE DEF m
  <2>5. QED
    BY <1>5, <2>2, <2>3, <2>4
<1>7. IF ChunkEnds THEN NextChunk(next) ELSE Advance(file.sizes[k], Counted(next))
  BY <1>1 DEF next
<1>8. k + 1 \in 1..Len(file.at) + 1 /\ AtSample(k + 1)' /\ Laid(file, h)'
  BY <1>5, <1>6, <1>7, ToNextSample
<1>9. next.config = h.config /\ next.default = h.default /\ next.table = h.table
  BY <1>5 DEF Kept
<1>10. QED
  BY <1>5, <1>8, <1>9 DEF next, y

LEMMA AlacStep ==
  ASSUME TypeInv, SampleInv, AlacFrame
  PROVE  HeaderInv' /\ SampleInv'
<1>1. PICK d \in Decodes(BlockSize) :
        LET failed == d.frames = << >>
            backwards == ~failed /\ ChunkEnds /\ ChunkGap <= 0
            next == [AfterTrim(d.frames) EXCEPT
                       !.block = IF BlockSize # h.default THEN @ + 1 ELSE @]
        IN
        /\ IF failed \/ backwards THEN Stay(h)
           ELSE IF ChunkEnds THEN NextChunk(next)
           ELSE Advance(BlockSize, Counted(next))
        /\ Returns(IF failed \/ backwards THEN "error" ELSE "running")
  BY DEF AlacFrame
<1> DEFINE failed == d.frames = << >>
           backwards == ~failed /\ ChunkEnds /\ ChunkGap <= 0
           y == AfterTrim(d.frames)
           next == [y EXCEPT !.block = IF BlockSize # h.default THEN @ + 1 ELSE @]
<1>2. /\ dec.pc = "frame" /\ file.codec = "alac" /\ (h.default > 0 \/ h.table # NoTable)
      /\ Used >= BlockSize
      /\ UNCHANGED <<file, arrived, closed, turn, damage>>
  BY DEF AlacFrame, Sized
<1>3. dec.state = "running" /\ ~dec.new
  BY <1>2 DEF TypeInv, CallInv
<1>4. ~dec'.new /\ dec'.pc = "idle"
      /\ dec'.state = IF failed \/ backwards THEN "error" ELSE "running"
  BY <1>1, <1>3, ReturnsTyped
<1>5. HeaderInv'
  BY <1>4 DEF HeaderInv
<1>6. SUFFICES ASSUME Sound', ~failed, ~backwards
               PROVE  /\ Laid(file, h)' /\ (file.at[1] > 0)'
                      /\ \E j \in 1..Len(file.at) + 1 : AtSample(j)' \/ InTorn(j)'
  BY <1>2, <1>4, <1>5 DEF SampleInv
<1>7. IF ChunkEnds THEN NextChunk(next) ELSE Advance(BlockSize, Counted(next))
  BY <1>1, <1>6
<1>8. Sound
  BY <1>2, <1>6 DEF Sound
<1>9. /\ Laid(file, h) /\ file.at[1] > 0 /\ h.consume = 0
      /\ \E k \in 1..Len(file.at) + 1 : AtSample(k) \/ InTorn(k)
  BY <1>2, <1>3, <1>8 DEF SampleInv
<1>10. PICK k \in 1..Len(file.at) + 1 : AtSample(k)
  BY <1>2, <1>9 DEF InTorn
<1>11. BlockSize \in Nat /\ BlockSize > 0 /\ d.frames \in Seq(Nat)
  <2>1. BlockSize \in Nat
    BY <1>2, BlockSizeTyped
  <2>2. QED
    BY <1>6, <2>1, DecodesTyped
<1>12. k \in DOMAIN file.at
  <2>1. SUFFICES ASSUME k \notin DOMAIN file.at PROVE FALSE
    OBVIOUS
  <2>2. Used = 0
    BY <1>2, <1>9, <1>10, <2>1, BehindLast
  <2>3. QED
    BY <1>2, <1>11, <2>2
<1>13. k + 1 \in 1..Len(file.at) + 1 /\ AtSample(k + 1)' /\ Laid(file, h)'
  <2> HIDE DEF next, failed, backwards
  <2>1. next = Behind(d.frames)
    BY DEF next, Behind
  <2>2. IF ChunkEnds THEN NextChunk(Behind(d.frames))
        ELSE Advance(BlockSize, Counted(Behind(d.frames)))
    BY <1>7, <2>1
  <2>3. QED
    BY <1>2, <1>9, <1>10, <1>11, <1>12, <2>2, BlockPassed
<1>14. QED
  BY <1>2, <1>9, <1>13

-----------------------------------------------------------------------------
(* The theorem.                                                            *)

LEMMA InitAligned == Init => AllSent /\ HeaderInv /\ SampleInv
<1> SUFFICES ASSUME Init PROVE AllSent /\ HeaderInv /\ SampleInv
  OBVIOUS
<1>1. FileOK(file) /\ h \in Openings(file.codec) /\ rd = 0 /\ dec = Fresh /\ ~closed
  <2>1. /\ Opened(0, 0) \in {Opened(m, n) : m \in Nat, n \in Nat}
        /\ Opened(0, 1) \in {Opened(m, n) : m \in Nat, n \in Nat}
    <3>1. 0 \in Nat /\ 1 \in Nat
      OBVIOUS
    <3>2. QED
      BY <3>1
  <2>2. h \in NewHandles(file.codec) /\ file \in Files
    BY DEF Init
  <2>3. h \in Openings(file.codec)
    BY <2>1, <2>2 DEF NewHandles, Openings
  <2>4. QED
    BY <2>2, <2>3, Mp4Assumption DEF Init
<1>2. 1 \in 1..Len(file.boxes) + 1 /\ AtBox(1, h)
  <2>1. rd + h.consume = BoxAt(file, 1)
    BY <1>1, OpensAtBox
  <2>2. \A j \in 1..1 - 1 : FALSE
    OBVIOUS
  <2>3. Alike(h, Heads(file, h)[1 - 1]) /\ 1 \in 1..Len(file.boxes) + 1
    BY <1>1, OpensAtBox
  <2>4. QED
    BY <2>1, <2>2, <2>3 DEF AtBox
<1>3. QED
  BY <1>1, <1>2 DEF AllSent, HeaderInv, SampleInv, Fresh

LEMMA StepAligned ==
  ASSUME ProperFiles, AlignInv, [Next]_vars
  PROVE  AlignInv'
<1>1. TypeInv /\ AllSent /\ HeaderInv /\ SampleInv
  BY DEF AlignInv
<1>2. TypeInv' /\ AllSent'
  BY <1>1, StepTyped, AllSentKept
<1>3. SUFFICES HeaderInv' /\ SampleInv'
  BY <1>2 DEF AlignInv
<1>4. CASE Feed \/ Close
  BY <1>1, <1>4, StreamStep
<1>5. CASE Reopen
  BY <1>1, <1>5, ReopenStep
<1>6. CASE Consume
  BY <1>1, <1>6, ConsumeStep
<1>7. CASE DecodeBegins
  BY <1>1, <1>7, BeginsStep
<1>8. CASE ReadHeader
  BY <1>1, <1>8, HeaderStep
<1>9. CASE AacFrame
  BY <1>1, <1>9, AacStep
<1>10. CASE AlacFrame
  BY <1>1, <1>10, AlacStep
<1>11. CASE AlacWait
  <2>1. UNCHANGED <<file, rd, h, damage, closed>> /\ Returns("running") /\ dec.pc = "frame"
    BY <1>11 DEF AlacWait, Sized
  <2>2. dec'.pc = "idle" /\ dec'.new = dec.new /\ dec.state = "running"
    BY <1>1, <2>1, ReturnsTyped DEF TypeInv, CallInv
  <2>3. QED
    BY <1>1, <2>1, <2>2, StillThere
<1>12. CASE AacComplete \/ AlacComplete \/ NoSizes
  <2>1. Returns("complete") \/ Returns("crash")
    BY <1>12 DEF AacComplete, AlacComplete, NoSizes
  <2>2. dec'.state # "running"
    BY <1>1, <2>1, ReturnsTyped
  <2>3. QED
    BY <2>2 DEF HeaderInv, SampleInv
<1>13. CASE UNCHANGED vars
  <2>1. UNCHANGED <<file, arrived, closed, rd, ring, h, dec, out, turn, damage>>
    BY <1>13 DEF vars
  <2>2. UNCHANGED Used /\ UNCHANGED Sound
    BY <2>1 DEF Used, Sound
  <2>3. \A i, x : AtBox(i, x) => AtBox(i, x)'
    BY <2>1 DEF AtBox
  <2>4. \A k : AtSample(k) \/ InTorn(k) => AtSample(k)' \/ InTorn(k)'
    BY <2>1 DEF AtSample, InTorn, SampleAt, Counts, NextBlock, More
  <2>5. HeaderInv'
    BY <1>1, <2>1, <2>2, <2>3 DEF HeaderInv
  <2>6. SampleInv'
    BY <1>1, <2>1, <2>2, <2>4 DEF SampleInv
  <2>7. QED
    BY <2>5, <2>6
<1>14. QED
  BY <1>4, <1>5, <1>6, <1>7, <1>8, <1>9, <1>10, <1>11, <1>12, <1>13 DEF Next, Decode, Frame

LEMMA AlignedPlaces == AlignInv => SampleAligned
<1> SUFFICES ASSUME AlignInv, Sound, ~dec.new, dec.state = "running"
             PROVE  rd + h.consume \in Places
  BY DEF SampleAligned
<1>1. TypeInv /\ Laid(file, h)
  BY DEF AlignInv, SampleInv
<1>2. PICK k \in 1..Len(file.at) + 1 : AtSample(k) \/ InTorn(k)
  BY DEF AlignInv, SampleInv
<1>3. CASE AtSample(k)
  BY <1>3 DEF AtSample, SampleAt, Places
<1>4. CASE InTorn(k)
  <2>1. /\ rd \in Nat /\ arrived \in Nat /\ file.cut \in Nat
        /\ rd <= arrived /\ arrived <= file.cut
    BY <1>1, Buffered DEF TypeInv, TypeOK
  <2>2. rd + h.consume = rd /\ rd \in 0..file.cut
    BY <1>4, <2>1 DEF InTorn
  <2>3. QED
    BY <1>4, <2>2 DEF InTorn, Places
<1>5. QED
  BY <1>2, <1>3, <1>4

(* Whatever the files, as long as the header of each tells where its        *)
(* samples are and was not spoilt by the pieces it came in, and wherever    *)
(* the server breaks off, the decoders go from sample to sample: a call     *)
(* that finds its data again at a wrong place would decode noise            *)
(* (faad.c:425-448, alac.c:378-398).                                        *)
THEOREM Mp4Aligned ==
  ASSUME ProperFiles
  PROVE  Spec => []SampleAligned
<1>1. Init => AlignInv
  BY InitTyped, InitAligned DEF AlignInv
<1>2. AlignInv /\ [Next]_vars => AlignInv'
  BY StepAligned
<1>3. AlignInv => SampleAligned
  BY AlignedPlaces
<1>4. QED
  BY <1>1, <1>2, <1>3, PTL DEF Spec
=============================================================================

--------------------------- MODULE Mp4PlaysProofs ---------------------------
(***************************************************************************)
(* Proofs about Mp4Decoder, for all files whose header tells where their   *)
(* samples are (Proper) and what of them is padding (Padded): it           *)
(* implements GaplessTrack.                                                *)
(***************************************************************************)
EXTENDS Mp4DecoderProofs

(* What the provers are given for a leaf, in seconds. *)
USE SMTT(20), ZenonT(40)

-----------------------------------------------------------------------------
(* Frames from a number to another.                                        *)

(* How many frames lie between two numbers.                                *)
LEMMA BetweenSeq ==
  ASSUME NEW a \in Nat, NEW b \in Nat
  PROVE  /\ Between(a, b) \in Seq(Nat)
         /\ Len(Between(a, b)) = IF a <= b THEN b - a ELSE 0
         /\ \A i \in 1..b - a : Between(a, b)[i] = a + i
         /\ b <= a => Between(a, b) = << >>
<1>1. CASE a < b
  <2> DEFINE d == b - a
  <2>1. d \in Nat /\ a <= b /\ ~(b <= a)
    BY <1>1
  <2>2. Between(a, b) \in [1..d -> Nat] /\ \A i \in 1..d : Between(a, b)[i] = a + i
    BY DEF Between
  <2> HIDE DEF d
  <2>3. Between(a, b) \in Seq(Nat) /\ Len(Between(a, b)) = d
    BY <2>1, <2>2
  <2>4. QED
    BY <2>1, <2>2, <2>3 DEF d
<1>2. CASE b <= a
  <2>1. 1..b - a = {}
    BY <1>2
  <2>2. Between(a, b) = << >>
    BY <2>1 DEF Between
  <2>3. << >> \in Seq(Nat) /\ Len(<< >>) = 0
    BY EmptySeq
  <2>4. a <= b => b - a = 0
    BY <1>2
  <2>5. QED
    BY <2>1, <2>2, <2>3, <2>4
<1>3. QED
  BY <1>1, <1>2

(* Frames on both sides of a number make one run of them.                  *)
LEMMA BetweenJoin ==
  ASSUME NEW a \in Nat, NEW b \in Nat, NEW c \in Nat, a <= b, b <= c
  PROVE  Between(a, b) \o Between(b, c) = Between(a, c)
<1> DEFINE u == Between(a, b)
           v == Between(b, c)
           w == Between(a, c)
<1>1. u \in Seq(Nat) /\ v \in Seq(Nat) /\ w \in Seq(Nat)
  BY BetweenSeq
<1>2. Len(u) = b - a /\ Len(v) = c - b /\ Len(w) = c - a
  <2>1. a <= c
    OBVIOUS
  <2>2. Len(u) = IF a <= b THEN b - a ELSE 0
    BY BetweenSeq
  <2>3. Len(v) = IF b <= c THEN c - b ELSE 0
    BY BetweenSeq
  <2>4. Len(w) = IF a <= c THEN c - a ELSE 0
    BY BetweenSeq
  <2> HIDE DEF u, v, w
  <2>5. QED
    BY <2>1, <2>2, <2>3, <2>4
<1>3. /\ \A i \in 1..b - a : u[i] = a + i
      /\ \A i \in 1..c - b : v[i] = b + i
      /\ \A i \in 1..c - a : w[i] = a + i
  BY BetweenSeq
<1> HIDE DEF u, v, w
<1>4. u \o v \in Seq(Nat) /\ Len(u \o v) = c - a
  BY <1>1, <1>2, ConcatProperties
<1>5. ASSUME NEW i \in 1..c - a PROVE (u \o v)[i] = w[i]
  <2>1. (u \o v)[i] = IF i <= b - a THEN u[i] ELSE v[i - (b - a)]
    BY <1>1, <1>2, ConcatProperties
  <2>2. CASE i <= b - a
    BY <1>3, <2>1, <2>2
  <2>3. CASE ~(i <= b - a)
    <3>1. i - (b - a) \in 1..c - b /\ b + (i - (b - a)) = a + i
      BY <2>3
    <3>2. QED
      BY <1>3, <2>1, <2>3, <3>1
  <2>4. QED
    BY <2>2, <2>3
<1>6. u \o v = w
  BY <1>1, <1>2, <1>4, <1>5, SeqEqual
<1>7. QED
  BY <1>6 DEF u, v, w

(* Cut in two, a run of frames is the run up to the cut and that behind.   *)
LEMMA BetweenCut ==
  ASSUME NEW a \in Nat, NEW b \in Nat, a <= b, NEW l \in 0..b - a
  PROVE  /\ SubSeq(Between(a, b), l + 1, b - a) = Between(a + l, b)
         /\ SubSeq(Between(a, b), 1, l) = Between(a, a + l)
<1> DEFINE u == Between(a, b)
           v == Between(a + l, b)
           w == Between(a, a + l)
           front == SubSeq(u, 1, l)
           back == SubSeq(u, l + 1, b - a)
<1>1. l \in Nat /\ a + l \in Nat /\ a <= a + l /\ a + l <= b
  OBVIOUS
<1>2. u \in Seq(Nat) /\ v \in Seq(Nat) /\ w \in Seq(Nat)
  BY <1>1, BetweenSeq
<1>3. Len(u) = b - a /\ Len(v) = b - (a + l) /\ Len(w) = (a + l) - a
  BY <1>1, BetweenSeq
<1>4. /\ \A i \in 1..b - a : u[i] = a + i
      /\ \A i \in 1..b - (a + l) : v[i] = a + l + i
      /\ \A i \in 1..(a + l) - a : w[i] = a + i
  BY <1>1, BetweenSeq
<1> HIDE DEF u, v, w
<1>5. \A i \in 1..b - a : u[i] \in Nat
  BY <1>4
<1>6. /\ front \in Seq(Nat) /\ Len(front) = l
      /\ \A i \in 1..l : front[i] = u[i]
  <2>1. \A i \in 1..l : u[i] \in Nat
    BY <1>5
  <2>2. /\ SubSeq(u, 1, l) \in Seq(Nat)
        /\ Len(SubSeq(u, 1, l)) = IF 1 <= l THEN l - 1 + 1 ELSE 0
        /\ \A i \in 1..l - 1 + 1 : SubSeq(u, 1, l)[i] = u[1 + i - 1]
    BY <2>1, SubSeqProperties
  <2> HIDE DEF front
  <2>3. front = SubSeq(u, 1, l)
    BY DEF front
  <2>4. \A i \in 1..l : i \in 1..l - 1 + 1 /\ 1 + i - 1 = i
    OBVIOUS
  <2>5. QED
    BY <2>2, <2>3, <2>4
<1>7. /\ back \in Seq(Nat) /\ Len(back) = b - (a + l)
      /\ \A i \in 1..b - (a + l) : back[i] = u[l + i]
  <2>1. \A i \in l + 1..b - a : u[i] \in Nat
    BY <1>5
  <2> DEFINE m == l + 1
             n == b - a
  <2>2. m \in Int /\ n \in Int
    OBVIOUS
  <2>3. /\ SubSeq(u, m, n) \in Seq(Nat)
        /\ Len(SubSeq(u, m, n)) = IF m <= n THEN n - m + 1 ELSE 0
        /\ \A i \in 1..n - m + 1 : SubSeq(u, m, n)[i] = u[m + i - 1]
    <3> HIDE DEF m, n
    <3>1. \A i \in m..n : u[i] \in Nat
      BY <2>1 DEF m, n
    <3>2. QED
      BY <2>2, <3>1, SubSeqProperties
  <2>4. back = SubSeq(u, m, n)
    OBVIOUS
  <2> HIDE DEF back
  <2>5. /\ (IF m <= n THEN n - m + 1 ELSE 0) = b - (a + l)
        /\ \A i \in 1..b - (a + l) : i \in 1..n - m + 1 /\ m + i - 1 = l + i
    OBVIOUS
  <2> HIDE DEF m, n
  <2>6. QED
    BY <2>3, <2>4, <2>5
<1> HIDE DEF front, back
<1>8. back = v
  <2>1. \A i \in 1..b - (a + l) : l + i \in 1..b - a /\ a + (l + i) = a + l + i
    OBVIOUS
  <2>2. \A i \in 1..b - (a + l) : back[i] = v[i]
    BY <1>4, <1>7, <2>1
  <2>3. QED
    BY <1>2, <1>3, <1>7, <2>2, SeqEqual
<1>9. front = w
  <2>1. (a + l) - a = l /\ \A i \in 1..l : i \in 1..b - a
    OBVIOUS
  <2>2. \A i \in 1..l : front[i] = w[i]
    BY <1>4, <1>6, <2>1
  <2>3. QED
    BY <1>2, <1>3, <1>6, <2>1, <2>2, SeqEqual
<1>10. QED
  BY <1>8, <1>9 DEF u, v, w, front, back

(* A run that ends sooner is a start of one that ends later.               *)
LEMMA BetweenPrefix ==
  ASSUME NEW a \in Nat, NEW b \in Nat, NEW c \in Nat, b <= c
  PROVE  Track!IsPrefix(Between(a, b), Between(a, c))
<1>1. CASE b <= a
  <2>1. Between(a, b) = << >> /\ Len(<< >>) = 0 /\ Between(a, c) \in Seq(Nat)
    BY <1>1, BetweenSeq, EmptySeq
  <2>2. QED
    BY <2>1, SubSeqEmpty DEF Track!IsPrefix
<1>2. CASE a < b
  <2> DEFINE l == b - a
  <2>1. l \in 0..c - a /\ a <= c /\ a + l = b
    BY <1>2
  <2>2. Len(Between(a, b)) = l /\ Len(Between(a, c)) = c - a
    BY <1>2, <2>1, BetweenSeq
  <2>3. SubSeq(Between(a, c), 1, l) = Between(a, b)
    BY <2>1, BetweenCut
  <2>4. SubSeq(Between(a, b), 1, l) = Between(a, b)
    <3>1. Between(a, b) \in Seq(Nat)
      BY BetweenSeq
    <3> HIDE DEF l
    <3>2. QED
      BY <2>2, <3>1, SubSeqFull
  <2>5. l <= c - a
    BY <2>1
  <2> HIDE DEF l
  <2>6. QED
    BY <2>2, <2>3, <2>4, <2>5 DEF Track!IsPrefix
<1>3. QED
  BY <1>1, <1>2

-----------------------------------------------------------------------------
(* Trimming.                                                               *)

(* What is due when j samples are decoded, and what the handle says of it. *)
Progress(s, n, j) ==
  /\ out = Between(Begin(file, s), Finish(file, s, n, j))
  /\ h.skip = IF file.lead /\ j <= 1 THEN s ELSE s - LesserOf(s, j * PerSample)
  /\ h.samples = n - LesserOf(n, Len(out))
  /\ h.skip > 0 => (h.empty <=> file.lead /\ j = 1)

(* A sample yields the frames between its numbers, unless it is the lead.  *)
LEMMA FramesBetween ==
  ASSUME NEW j \in Nat, ~(file.lead /\ j = 0)
  PROVE  j * PerSample \in Nat /\ FramesOf(j + 1) = Between(j * PerSample, j * PerSample + PerSample)
<1>1. j * PerSample \in Nat /\ PerSample \in Nat
  BY Numbers
<1> DEFINE q == j * PerSample
           r == ((j + 1) - 1) * PerSample
<1>2. (j + 1) - 1 = j /\ ~(j + 1 = 1 /\ file.lead)
  OBVIOUS
<1>3. r = q
  BY <1>2
<1>4. FramesOf(j + 1) = [i \in 1..PerSample |-> r + i]
  BY <1>2 DEF FramesOf
<1> HIDE DEF q, r
<1>5. (q + PerSample) - q = PerSample
  BY <1>1 DEF q
<1>6. QED
  BY <1>1, <1>3, <1>4, <1>5 DEF Between, q

(* The first frames of a run.                                              *)
LEMMA CutBetween ==
  ASSUME NEW u \in Nat, NEW v \in Nat, u <= v, NEW x \in Nat
  PROVE  SubSeq(Between(u, v), 1, LesserOf(Len(Between(u, v)), x)) = Between(u, LesserOf(v, u + x))
<1> DEFINE z == LesserOf(v - u, x)
<1>1. z \in 0..v - u /\ u + z = LesserOf(v, u + x)
  BY DEF LesserOf
<1> HIDE DEF z
<1>2. Len(Between(u, v)) = v - u
  BY BetweenSeq
<1>3. SubSeq(Between(u, v), 1, z) = Between(u, u + z)
  BY <1>1, BetweenCut
<1>4. QED
  BY <1>1, <1>2, <1>3 DEF z

(* Nothing taken from nothing.                                             *)
LEMMA NoneLess == ASSUME NEW y \in Nat PROVE 0 - LesserOf(0, y) = 0
<1>1. LesserOf(0, y) = 0
  BY DEF LesserOf
<1>2. QED
  BY <1>1

(* How many frames of sample j + 1 are left to skip. *)
LEMMA SkipsLeft ==
  ASSUME TypeInv, NEW s \in 0..Word - 1, NEW n \in 0..Word - 1, NEW m, Plan(file, s, n, m),
         NEW j \in Nat, ~(file.lead /\ j = 0), Progress(s, n, j),
         NEW frames, Len(frames) = PerSample
  PROVE  SkipLeft(frames) = s - LesserOf(s, j * PerSample)
<1> DEFINE q == j * PerSample
<1>1. q \in Nat /\ PerSample \in Nat /\ Word \in Nat /\ s \in Nat
  BY Numbers
<1>2. CASE file.lead /\ j = 1
  <2>1. q = PerSample
    BY <1>1, <1>2
  <2>2. h.skip = s
    BY <1>2 DEF Progress
  <2>3. CASE s > 0
    <3>1. h.empty /\ s >= PerSample
      BY <1>1, <1>2, <2>2, <2>3 DEF Progress, Plan
    <3>2. SkipLeft(frames) = (s - PerSample) % Word
      BY <2>2, <2>3, <3>1 DEF SkipLeft
    <3>3. s - PerSample \in 0..Word - 1
      BY <1>1, <3>1
    <3>4. (s - PerSample) % Word = s - PerSample
      BY <1>1, <3>3
    <3>5. LesserOf(s, PerSample) = PerSample
      BY <1>1, <3>1 DEF LesserOf
    <3>6. s - LesserOf(s, q) = s - PerSample
      BY <2>1, <3>5
    <3>7. QED
      BY <3>2, <3>4, <3>6
  <2>4. CASE ~(s > 0)
    <3>1. SkipLeft(frames) = 0 /\ s = 0
      BY <1>1, <2>2, <2>4 DEF SkipLeft
    <3>2. s - LesserOf(s, q) = 0
      <4>1. s = 0 /\ q \in Nat
        BY <1>1, <3>1
      <4> HIDE DEF q
      <4>2. QED
        BY <4>1, NoneLess
    <3>3. QED
      BY <3>1, <3>2
  <2>5. QED
    BY <2>3, <2>4
<1>3. CASE ~(file.lead /\ j = 1)
  <2>1. ~(file.lead /\ j <= 1)
    <3>1. j <= 1 => j = 0 \/ j = 1
      OBVIOUS
    <3>2. QED
      BY <1>3, <3>1
  <2>2. h.skip = s - LesserOf(s, q)
    BY <2>1 DEF Progress
  <2>3. h.skip > 0 => ~h.empty
    BY <1>3 DEF Progress
  <2>4. SkipLeft(frames) = h.skip
    BY <2>3 DEF SkipLeft
  <2>5. QED
    BY <2>2, <2>4
<1>4. QED
  BY <1>2, <1>3

(* Before the last sample nothing is cut off at the end. *)
LEMMA FinishSteps ==
  ASSUME TypeInv, NEW s \in 0..Word - 1, NEW n \in 0..Word - 1, NEW m, Plan(file, s, n, m),
         NEW j \in Nat, j < Len(file.at), Len(file.at) \in Nat
  PROVE  LET q == j * PerSample IN
         LET b == Begin(file, s) IN
         /\ q \in Nat /\ b \in Nat
         /\ Finish(file, s, n, j) = q /\ (n > 0 => q < b + n)
         /\ Finish(file, s, n, j + 1) =
              IF n > 0 THEN LesserOf(q + PerSample, b + n) ELSE q + PerSample
<1> DEFINE q == j * PerSample
           b == Begin(file, s)
           r == (j + 1) * PerSample
           t == (Len(file.at) - 1) * PerSample
           d == Len(file.at) - 1 - j
           u == d * PerSample
<1>1. PerSample \in Nat /\ s \in Nat /\ n \in Nat /\ d \in Nat
  BY Numbers
<1>2. q \in Nat /\ b \in Nat /\ u \in Nat
  BY <1>1 DEF Begin
<1>3. r = q + PerSample
  BY <1>1
<1>4. t = q + u
  <2>1. Len(file.at) - 1 = j + d
    BY <1>1
  <2> DEFINE w == Len(file.at) - 1
  <2>2. w = j + d
    BY <2>1
  <2> HIDE DEF w, d
  <2>3. w * PerSample = j * PerSample + d * PerSample
    BY <1>1, <2>2
  <2>4. QED
    BY <2>3 DEF w
<1>5. n > 0 => t < b + n
  BY DEF Plan
<1> HIDE DEF u, d
<1>6. n > 0 => q < b + n
  <2> HIDE DEF q, b, t
  <2>1. QED
    BY <1>1, <1>2, <1>4, <1>5
<1>7. Finish(file, s, n, j) = IF n > 0 THEN LesserOf(q, b + n) ELSE q
  BY DEF Finish
<1>8. Finish(file, s, n, j + 1) = IF n > 0 THEN LesserOf(r, b + n) ELSE r
  BY DEF Finish
<1>9. n > 0 => LesserOf(q, b + n) = q
  <2> HIDE DEF q, b
  <2>1. QED
    BY <1>1, <1>2, <1>6 DEF LesserOf
<1> HIDE DEF q, b, r, t
<1>10. /\ q \in Nat /\ b \in Nat
       /\ Finish(file, s, n, j) = q /\ (n > 0 => q < b + n)
       /\ Finish(file, s, n, j + 1) = IF n > 0 THEN LesserOf(q + PerSample, b + n) ELSE q + PerSample
  BY <1>2, <1>3, <1>6, <1>7, <1>8, <1>9
<1>11. QED
  BY <1>10 DEF q, b

(* One sample more (faad.c:463-492, alac.c:411-431): what is handed on of  *)
(* its frames is what is due, whether it lies in what is skipped, in what  *)
(* is left, or across an end of either.                                    *)
LEMMA TrimStep ==
  ASSUME TypeInv, NEW s \in 0..Word - 1, NEW n \in 0..Word - 1, NEW m, Plan(file, s, n, m),
         NEW j \in Nat, j < Len(file.at), Len(file.at) \in Nat, ~(file.lead /\ j = 0),
         Progress(s, n, j), NEW frames, frames = FramesOf(j + 1)
  PROVE  /\ out \o Trimmed(frames) = Between(Begin(file, s), Finish(file, s, n, j + 1))
         /\ AfterTrim(frames).skip = s - LesserOf(s, (j + 1) * PerSample)
         /\ AfterTrim(frames).samples = n - LesserOf(n, Len(out \o Trimmed(frames)))
         /\ AfterTrim(frames).skip > 0 => ~AfterTrim(frames).empty
<1> DEFINE q == j * PerSample
           e == q + PerSample
           b == Begin(file, s)
           l == s - LesserOf(s, q)
           k == h.samples
           a == q + LesserOf(e - q, l)
           rest == SubSeq(Between(q, e), LesserOf(e - q, l) + 1, e - q)
           to == IF k > 0 THEN LesserOf(e, a + k) ELSE e
           end == IF n > 0 THEN LesserOf(e, b + n) ELSE e
           T == Trimmed(frames)
<1>1. /\ PerSample \in Nat /\ PerSample >= 1 /\ s \in Nat /\ n \in Nat /\ q \in Nat /\ b \in Nat
      /\ Finish(file, s, n, j) = q /\ (n > 0 => q < b + n)
      /\ Finish(file, s, n, j + 1) = end
  BY Numbers, FinishSteps
<1>2. (j + 1) * PerSample = e
  BY <1>1
<1>3. file.lead /\ s = 0 => b = PerSample /\ b <= q
  <2>1. SUFFICES ASSUME file.lead, s = 0 PROVE b = PerSample /\ b <= q
    OBVIOUS
  <2>2. b = PerSample
    BY <2>1 DEF Begin
  <2> DEFINE i == j - 1
  <2>3. i \in Nat /\ j = i + 1
    BY <2>1
  <2> HIDE DEF i
  <2>4. j * PerSample = i * PerSample + PerSample /\ i * PerSample \in Nat
    BY <1>1, <2>3
  <2>5. QED
    BY <1>1, <2>2, <2>4
<1>4. ~(file.lead /\ s = 0) => b = s
  BY DEF Begin
<1>5. /\ frames = Between(q, e)
  BY FramesBetween
<1> HIDE DEF q
<1>6. e \in Nat /\ q <= e /\ e - q = PerSample /\ Len(frames) = e - q
  <2>1. e \in Nat /\ q <= e /\ e - q = PerSample
    BY <1>1
  <2>2. QED
    BY <1>1, <1>5, <2>1, BetweenSeq
<1>7. SkipLeft(frames) = l
  BY <1>6, SkipsLeft DEF q
<1>8. l \in Nat
  BY <1>1 DEF LesserOf
<1>9. h \in Handle /\ k \in Nat /\ out = Between(b, q) /\ k = n - LesserOf(n, Len(out))
  <2>1. h \in Handle
    BY DEF TypeInv, TypeOK
  <2>2. k \in Nat
    BY <2>1, Numbers DEF Handle
  <2>3. QED
    BY <1>1, <2>1, <2>2 DEF Progress
<1>10. T = IF k > 0 THEN SubSeq(rest, 1, LesserOf(Len(rest), k)) ELSE rest
  BY <1>5, <1>6, <1>7 DEF Trimmed
<1> HIDE DEF e, b, l, k
<1>11. /\ a \in Nat /\ q <= a /\ a <= e /\ rest = Between(a, e)
       /\ SubSeq(rest, 1, LesserOf(Len(rest), k)) = Between(a, LesserOf(e, a + k))
  <2> DEFINE d == LesserOf(e - q, l)
  <2>1. e - q \in Nat
    BY <1>1, <1>6
  <2>2. d \in 0..e - q /\ q <= q + d
    BY <1>1, <1>8, <2>1 DEF LesserOf
  <2>3. a = q + d /\ rest = SubSeq(Between(q, e), d + 1, e - q)
    OBVIOUS
  <2> HIDE DEF d, a, rest
  <2>4. /\ q + d \in Nat /\ q + d <= e
        /\ SubSeq(Between(q, e), d + 1, e - q) = Between(q + d, e)
        /\ SubSeq(Between(q + d, e), 1, LesserOf(Len(Between(q + d, e)), k))
              = Between(q + d, LesserOf(e, q + d + k))
    <3>1. q \in Nat
      BY <1>1
    <3>2. e \in Nat
      BY <1>6
    <3>3. q <= e
      BY <1>6
    <3>4. d \in 0..e - q
      BY <2>2
    <3>5. k \in Nat
      BY <1>9
    <3>6. q + d \in Nat
      BY <3>1, <3>2, <3>3, <3>4
    <3>7. q + d <= e
      BY <3>1, <3>2, <3>3, <3>4
    <3>8. SubSeq(Between(q, e), d + 1, e - q) = Between(q + d, e)
      BY <3>1, <3>2, <3>3, <3>4, BetweenCut, Zenon
    <3>9. SubSeq(Between(q + d, e), 1, LesserOf(Len(Between(q + d, e)), k))
            = Between(q + d, LesserOf(e, q + d + k))
      BY <3>2, <3>5, <3>6, <3>7, CutBetween, Zenon
    <3>10. QED
      BY <3>6, <3>7, <3>8, <3>9
  <2>5. QED
    BY <2>2, <2>3, <2>4
<1> HIDE DEF rest
<1>12. T = Between(a, to)
  BY <1>10, <1>11
<1>13. Len(out) = (IF b <= q THEN q - b ELSE 0) /\ out \in Seq(Nat)
  BY <1>1, <1>9, BetweenSeq
<1>14. k = (IF n > 0 THEN n - Len(out) ELSE 0) /\ (n > 0 => k > 0)
  BY <1>1, <1>9, <1>13 DEF LesserOf
<1>15. out \o T = Between(b, end)
  <2>1. CASE b <= q
    <3>1. s <= q
      BY <1>1, <1>3, <1>4, <2>1
    <3>2. l = 0
      BY <1>1, <3>1 DEF l, LesserOf
    <3>3. a = q
      BY <1>1, <1>6, <3>2 DEF LesserOf
    <3>4. to = end /\ q <= end /\ end \in Nat
      <4> HIDE DEF a
      <4>1. QED
        BY <1>1, <1>6, <1>13, <1>14, <2>1, <3>3 DEF LesserOf
    <3>5. T = Between(q, end)
      BY <1>12, <3>3, <3>4
    <3> HIDE DEF end, T
    <3>6. Between(b, q) \o Between(q, end) = Between(b, end)
      BY <1>1, <2>1, <3>4, BetweenJoin
    <3>7. QED
      BY <1>9, <3>5, <3>6
  <2>2. CASE q < b
    <3>1. b = s /\ ~(b <= q) /\ b <= b + n
      BY <1>1, <1>3, <1>4, <2>2
    <3>2. l = s - q
      BY <1>1, <2>2, <3>1 DEF l, LesserOf
    <3>3. out = << >> /\ k = n
      BY <1>1, <1>9, <1>13, <1>14, <2>2, <3>1, BetweenSeq
    <3>4. CASE e <= s
      <4>1. a = e
        BY <1>1, <1>6, <3>2, <3>4 DEF LesserOf
      <4>2. to = e
        <5> HIDE DEF a
        <5>1. e \in Nat /\ k \in Nat
          BY <1>6, <1>9
        <5>2. LesserOf(e, e + k) = e
          BY <5>1 DEF LesserOf
        <5>3. QED
          BY <4>1, <5>2
      <4>3. T = << >>
        <5>1. T = Between(e, e) /\ e \in Nat /\ e <= e
          BY <1>6, <1>12, <4>1, <4>2
        <5> HIDE DEF T
        <5>2. QED
          BY <5>1, BetweenSeq
      <4>4. end <= b /\ end \in Nat
        BY <1>1, <1>6, <3>1, <3>4 DEF LesserOf
      <4>5. Between(b, end) = << >>
        <5> HIDE DEF end
        <5>1. QED
          BY <1>1, <4>4, BetweenSeq
      <4> HIDE DEF T, end
      <4>6. << >> \o << >> = << >>
        BY EmptySeq, ConcatEmptySeq
      <4>7. QED
        BY <3>3, <4>3, <4>5, <4>6
    <3>5. CASE s < e
      <4>1. a = s
        BY <1>1, <1>6, <2>2, <3>1, <3>2, <3>5 DEF LesserOf
      <4>2. to = end /\ end \in Nat
        <5> HIDE DEF a
        <5>1. QED
          BY <1>1, <1>6, <1>9, <3>1, <3>3, <4>1 DEF LesserOf
      <4>3. T = Between(b, end)
        BY <1>12, <3>1, <4>1, <4>2
      <4> HIDE DEF T, end
      <4>4. Between(b, end) \in Seq(Nat)
        BY <1>1, <4>2, BetweenSeq
      <4>5. QED
        BY <3>3, <4>3, <4>4, ConcatEmptySeq
    <3>6. QED
      BY <1>1, <1>6, <3>4, <3>5
  <2>3. QED
    BY <1>1, <2>1, <2>2
<1>16. T \in Seq(Nat) /\ Len(T) \in Nat
  <2>1. to \in Nat
    BY <1>6, <1>9, <1>11 DEF LesserOf
  <2> HIDE DEF to, a
  <2>2. T \in Seq(Nat)
    BY <1>11, <1>12, <2>1, BetweenSeq
  <2> HIDE DEF T
  <2>3. QED
    BY <2>2
<1> DEFINE y == AfterTrim(frames)
<1>17. /\ y.skip = l - LesserOf(Len(frames), l) /\ y.samples = k - LesserOf(k, Len(T))
       /\ y.empty = IF h.skip > 0 THEN FALSE ELSE h.empty
  <2> DEFINE c == IF h.skip > 0 THEN FALSE ELSE h.empty
             d == SkipLeft(frames) - LesserOf(Len(frames), SkipLeft(frames))
             f == h.samples - LesserOf(h.samples, Len(Trimmed(frames)))
  <2>1. y = [h EXCEPT !.empty = c, !.skip = d, !.samples = f]
    BY DEF AfterTrim
  <2>2. d = l - LesserOf(Len(frames), l) /\ f = k - LesserOf(k, Len(T))
    BY <1>7 DEF k
  <2> HIDE DEF c, d, f, y
  <2>3. y.skip = d /\ y.samples = f /\ y.empty = c
    BY <1>9, <2>1 DEF Handle
  <2>4. QED
    BY <2>2, <2>3 DEF c
<1> HIDE DEF T, y, to, a, end
<1>18. y.skip = s - LesserOf(s, e)
  BY <1>1, <1>6, <1>17 DEF l, LesserOf
<1>19. y.samples = n - LesserOf(n, Len(out \o T))
  <2> DEFINE lo == Len(out)
             lt == Len(T)
  <2>1. Len(out \o T) = lo + lt
    BY <1>13, <1>16, ConcatProperties
  <2>2. lo \in Nat /\ lt \in Nat /\ (n > 0 => lo < n)
    BY <1>1, <1>13, <1>16
  <2>3. y.samples = k - LesserOf(k, lt) /\ k = IF n > 0 THEN n - lo ELSE 0
    BY <1>14, <1>17
  <2> HIDE DEF lo, lt
  <2>4. k - LesserOf(k, lt) = n - LesserOf(n, lo + lt)
    <3>1. CASE n > 0
      BY <1>1, <2>2, <2>3, <3>1 DEF LesserOf
    <3>2. CASE n = 0
      <4>1. k = 0 /\ lo + lt \in Nat
        BY <2>2, <2>3, <3>2
      <4>2. QED
        BY <2>2, <3>2, <4>1, NoneLess
    <3>3. QED
      BY <1>1, <3>1, <3>2
  <2>5. QED
    BY <2>1, <2>3, <2>4
<1>20. y.skip > 0 => ~y.empty
  <2>1. SUFFICES ASSUME y.skip > 0 PROVE ~y.empty
    OBVIOUS
  <2>2. l > 0
    BY <1>6, <1>8, <1>17, <2>1 DEF LesserOf
  <2>3. h.skip > 0
    <3>1. SUFFICES ASSUME ~(h.skip > 0) PROVE FALSE
      OBVIOUS
    <3>2. SkipLeft(frames) = h.skip
      BY <3>1 DEF SkipLeft
    <3>3. QED
      BY <1>7, <2>2, <3>1, <3>2
  <2>4. QED
    BY <1>17, <2>3
<1>21. QED
  BY <1>1, <1>2, <1>15, <1>18, <1>19, <1>20 DEF T, y, e, q, b

-----------------------------------------------------------------------------
(* The steps of GaplessTrack.                                              *)

(* A step of GaplessTrack, or one that changes nothing it shows.           *)
Steps == [Track!Next]_(Track!vars)

(* Nothing is handed on, and decoding goes on. *)
LEMMA QuietStep ==
  ASSUME UNCHANGED <<file, out>>, dec'.state = dec.state, damage \subseteq damage'
  PROVE  Steps
<1>1. CASE Sound'
  <2>1. Sound
    BY <1>1 DEF Sound
  <2>2. UNCHANGED <<file.wanted, out, dec.state # "running", Sound>>
    BY <1>1, <2>1
  <2>3. QED
    BY <2>2 DEF Steps, Track!vars
<1>2. CASE ~Sound'
  BY <1>2 DEF Steps, Track!Next, Track!Spoilt
<1>3. QED
  BY <1>1, <1>2

(* The end of the track, or of a spoilt one. *)
LEMMA EndStep ==
  ASSUME UNCHANGED <<file, out>>, dec.state = "running", dec'.state # "running",
         damage \subseteq damage', Sound => out = file.wanted
  PROVE  Steps
<1>1. CASE Sound'
  <2>1. Sound
    BY <1>1 DEF Sound
  <2>2. Track!End
    BY <1>1, <2>1 DEF Track!End
  <2>3. QED
    BY <2>2 DEF Steps, Track!Next
<1>2. CASE ~Sound'
  BY <1>2 DEF Steps, Track!Next, Track!Spoilt
<1>3. QED
  BY <1>1, <1>2

(* More of the frames wanted, in order: a step of GaplessTrack.            *)
LEMMA PlayStep ==
  ASSUME UNCHANGED <<file, damage>>, Sound, dec.state = "running", dec'.state = "running",
         NEW b \in Nat, NEW c \in Nat, NEW d \in Nat, NEW e \in Nat, c <= d, d <= e,
         out = Between(b, c), out' = Between(b, d), file.wanted = Between(b, e)
  PROVE  Steps
<1>1. Track!IsPrefix(out, out')
  BY BetweenPrefix
<1>2. Track!IsPrefix(out', file.wanted)
  BY BetweenPrefix
<1>3. Sound'
  BY DEF Sound
<1>4. Track!Play
  BY <1>1, <1>2, <1>3 DEF Track!Play
<1>5. QED
  BY <1>4 DEF Steps, Track!Next

-----------------------------------------------------------------------------
(* What a decoded sample leaves.                                           *)

(* No frames, nothing handed on.                                           *)
LEMMA NothingTrimmed ==
  ASSUME TypeInv
  PROVE  out \o Trimmed(<< >>) = out
<1> DEFINE e == << >>
           d == LesserOf(Len(e), SkipLeft(e))
           rest == SubSeq(e, d + 1, Len(e))
           l == LesserOf(Len(rest), h.samples)
<1>1. e \in Seq(Nat) /\ Len(e) = 0 /\ e = << >>
  BY EmptySeq
<1> HIDE DEF e
<1>2. h.samples \in Nat /\ h.skip \in Nat /\ out \in Seq(Nat)
  <2>1. h \in Handle /\ out \in Seq(Nat)
    BY DEF TypeInv, TypeOK
  <2>2. QED
    BY <2>1, Numbers DEF Handle
<1>3. d \in Nat
  <2>1. h.skip - Len(e) \in Int
    BY <1>1, <1>2
  <2>2. (h.skip - Len(e)) % Word \in 0..Word - 1
    BY <2>1, Remainder
  <2>3. SkipLeft(e) \in Nat
    BY <1>2, <2>2, Numbers DEF SkipLeft
  <2>4. QED
    BY <1>1, <2>3, Lesser
<1>4. Trimmed(e) = IF h.samples > 0 THEN SubSeq(rest, 1, l) ELSE rest
  BY DEF Trimmed
<1>5. rest = << >>
  <2> HIDE DEF d
  <2>1. Len(e) < d + 1 /\ d + 1 \in Int /\ Len(e) \in Int
    BY <1>1, <1>3
  <2>2. QED
    BY <2>1, SubSeqEmpty
<1> HIDE DEF rest
<1>6. l = 0
  BY <1>1, <1>2, <1>5 DEF LesserOf
<1> HIDE DEF l
<1>7. SubSeq(rest, 1, l) = << >>
  BY <1>6, SubSeqEmpty
<1>8. Trimmed(e) = << >>
  BY <1>4, <1>5, <1>7
<1>9. QED
  BY <1>1, <1>2, <1>8, ConcatEmptySeq

(* Going on to the next sample leaves what is to be trimmed. *)
LEMMA TrimPassed ==
  ASSUME NEW x \in Handle, NEW n,
         IF ChunkEnds THEN NextChunk(x) ELSE Advance(n, Counted(x))
  PROVE  /\ h'.skip = x.skip /\ h'.samples = x.samples /\ h'.empty = x.empty
         /\ h'.config = x.config /\ h'.default = x.default /\ h'.table = x.table
<1> DEFINE y == Counted(x)
           next == [y EXCEPT !.nextchunk = @ + 1]
           late == [next EXCEPT !.consume = ChunkGap]
<1>1. /\ y \in Handle /\ y.skip = x.skip /\ y.samples = x.samples /\ y.empty = x.empty
      /\ y.config = x.config /\ y.default = x.default /\ y.table = x.table
  <2> DEFINE m == IF AnotherChunk THEN x.sample + 1 ELSE x.sample
  <2>1. y = [x EXCEPT !.sample = m]
    BY DEF Counted
  <2>2. y \in Handle
    BY CountedKeeps
  <2> HIDE DEF m, y
  <2>3. QED
    BY <2>1, <2>2 DEF Handle
<1> HIDE DEF y
<1>2. /\ next \in Handle
      /\ next.skip = x.skip /\ next.samples = x.samples /\ next.empty = x.empty
      /\ next.config = x.config /\ next.default = x.default /\ next.table = x.table
  <2> DEFINE c == y.nextchunk + 1
  <2>1. next = [y EXCEPT !.nextchunk = c]
    OBVIOUS
  <2> HIDE DEF next
  <2>2. y.nextchunk \in Nat
    BY <1>1 DEF Handle
  <2>3. c \in Nat
    BY <2>2
  <2> HIDE DEF c
  <2>4. QED
    BY <1>1, <2>1, <2>3 DEF Handle
<1> HIDE DEF next
<1>3. ASSUME NEW k, Advance(k, y) \/ Advance(k, next)
      PROVE  /\ h'.skip = x.skip /\ h'.samples = x.samples /\ h'.empty = x.empty
             /\ h'.config = x.config /\ h'.default = x.default /\ h'.table = x.table
  <2>1. PICK z \in {y, next} : h' = [z EXCEPT !.pos = z.pos + k]
    BY <1>3 DEF Advance
  <2>2. /\ z \in Handle /\ z.skip = x.skip /\ z.samples = x.samples /\ z.empty = x.empty
        /\ z.config = x.config /\ z.default = x.default /\ z.table = x.table
    BY <1>1, <1>2
  <2>3. QED
    BY <2>1, <2>2 DEF Handle
<1>4. CASE ChunkEnds /\ ChunkGap <= Used
  <2>1. Advance(ChunkGap, next)
    BY <1>4 DEF NextChunk, next, y
  <2>2. QED
    BY <1>3, <2>1
<1>5. CASE ChunkEnds /\ ~(ChunkGap <= Used)
  <2>1. Stay(late)
    BY <1>5 DEF NextChunk, next, y, late
  <2>2. h' = late
    BY <2>1 DEF Stay
  <2>3. QED
    BY <1>2, <2>2 DEF Handle
<1>6. CASE ~ChunkEnds
  <2>1. Advance(n, y)
    BY <1>6 DEF y
  <2>2. QED
    BY <1>3, <2>1
<1>7. QED
  BY <1>4, <1>5, <1>6

(* The more samples, the more is to be heard. *)
LEMMA FinishGrows ==
  ASSUME NEW f, NEW s \in 0..Word - 1, NEW n \in 0..Word - 1,
         NEW j \in Nat, NEW l \in Nat, j <= l
  PROVE  /\ Begin(f, s) \in Nat /\ Finish(f, s, n, j) \in Nat /\ Finish(f, s, n, l) \in Nat
         /\ Finish(f, s, n, j) <= Finish(f, s, n, l)
<1> DEFINE p == j * PerSample
           q == l * PerSample
           b == Begin(f, s)
           d == l - j
           r == d * PerSample
<1>1. PerSample \in Nat /\ s \in Nat /\ n \in Nat /\ d \in Nat
  BY Numbers
<1>2. b \in Nat /\ p \in Nat /\ q \in Nat /\ r \in Nat
  BY <1>1 DEF Begin
<1>3. q = p + r
  <2>1. l = j + d
    BY <1>1
  <2> HIDE DEF d
  <2>2. QED
    BY <1>1, <2>1
<1>4. /\ Finish(f, s, n, j) = IF n > 0 THEN LesserOf(p, b + n) ELSE p
      /\ Finish(f, s, n, l) = IF n > 0 THEN LesserOf(q, b + n) ELSE q
  BY DEF Finish
<1> HIDE DEF p, q, b, r
<1>5. p <= q
  BY <1>2, <1>3
<1>6. QED
  BY <1>1, <1>2, <1>4, <1>5 DEF LesserOf, b

-----------------------------------------------------------------------------
(* In the header.                                                          *)

(* The padding the header tells of is what is not to be heard.             *)
PaddedFiles == \A f \in Files : \A x \in Openings(f.codec) : Padded(f, x)

(* Nothing is handed on, and streambuf had room for the boxes so far.      *)
RoomInv ==
  Sound /\ dec.new /\ dec.state = "running" =>
    /\ out = << >> /\ ~h.empty
    /\ \A i \in 1..Len(file.boxes) + 1 :
         rd + h.consume = BoxAt(file, i) => \A j \in 1..i - 1 : HasRoom(file, file.boxes[j])

(* If there is something to hear, the first sample was sent, in part.      *)
LEMMA SomethingSent ==
  ASSUME NEW f, FileOK(f), NEW x, Laid(f, x), NEW s \in 0..Word - 1, NEW n \in 0..Word - 1,
         NEW m, Plan(f, s, n, m), f.wanted # << >>
  PROVE  f.at[1] \in Nat /\ f.at[1] < f.cut
<1>1. /\ f.at \in Seq(Nat) /\ f.sizes \in Seq(Nat \ {0}) /\ Len(f.at) = Len(f.sizes)
      /\ f.cut \in Nat
      /\ \A j, k \in DOMAIN f.at : j < k => f.at[j] + f.sizes[j] <= f.at[k]
  BY DEF FileOK
<1> DEFINE at == f.at
           sizes == f.sizes
           b == Begin(f, s)
<1>2. Len(at) \in Nat /\ DOMAIN at = 1..Len(at) /\ m \in 0..Len(at)
  BY <1>1 DEF Plan, Sent
<1>3. m # 0
  <2>1. SUFFICES ASSUME m = 0 PROVE f.wanted = << >>
    OBVIOUS
  <2>2. f.wanted = Between(b, Finish(f, s, n, 0))
    BY <2>1 DEF Plan
  <2>3. b \in Nat /\ Finish(f, s, n, 0) \in Nat
    BY FinishGrows
  <2>4. Finish(f, s, n, 0) <= 0
    <3>1. PerSample \in Nat /\ 0 * PerSample = 0 /\ n \in Nat
      BY Numbers
    <3>2. Finish(f, s, n, 0) = IF n > 0 THEN LesserOf(0, b + n) ELSE 0
      BY <3>1 DEF Finish
    <3> HIDE DEF b
    <3>3. QED
      BY <2>3, <3>1, <3>2 DEF LesserOf
  <2> HIDE DEF b
  <2>5. QED
    BY <2>2, <2>3, <2>4, BetweenSeq
<1>4. m \in 1..Len(at) /\ 1 \in 1..Len(at) /\ m > 0
  BY <1>2, <1>3
<1>5. /\ at[1] \in Nat /\ at[m] \in Nat
      /\ sizes[1] \in Nat \ {0} /\ sizes[m] \in Nat \ {0}
  BY <1>1, <1>4, ElementOfSeq
<1>6. at[m] + sizes[m] <= f.cut
  BY <1>4 DEF Plan, Sent
<1>7. at[1] <= at[m]
  <2>1. CASE m = 1
    BY <1>5, <2>1
  <2>2. CASE m # 1
    <3>1. 1 < m
      BY <1>4, <2>2
    <3>2. at[1] + sizes[1] <= at[m]
      BY <1>1, <1>2, <1>4, <3>1
    <3>3. QED
      BY <1>5, <3>2
  <2>3. QED
    BY <2>1, <2>2
<1> HIDE DEF at, sizes
<1>8. at[1] < f.cut
  BY <1>1, <1>5, <1>6, <1>7
<1>9. QED
  BY <1>5, <1>8 DEF at

(* A set of numbers that is not empty has a least one. *)
LEMMA LeastNumber ==
  ASSUME NEW S, S \subseteq Nat, S # {}
  PROVE  \E c \in S : \A m \in S : c <= m
<1> DEFINE R == {p \in Nat \X Nat : p[1] < p[2]}
<1>1. IsWellFoundedOn(R, Nat)
  BY NatLessThanWellFounded DEF OpToRel
<1>2. PICK c \in S : \A m \in S : <<m, c>> \notin R
  BY <1>1, WFMin
<1>3. ASSUME NEW m \in S PROVE c <= m
  <2>1. c \in Nat /\ m \in Nat
    OBVIOUS
  <2>2. ~(m < c)
    BY <1>2, <2>1
  <2>3. QED
    BY <2>1, <2>2
<1>4. QED
  BY <1>3

(* If there is something to hear, an mdat follows that can be played.      *)
LEMMA MediaFollows ==
  ASSUME NEW f, FileOK(f), NEW x \in Openings(f.codec), Proper(f, x), Padded(f, x),
         NEW i \in 1..Len(f.boxes) + 1, \A j \in 1..i - 1 : f.boxes[j].type # "mdat",
         f.wanted # << >>
  PROVE  \E c \in i..Len(f.boxes) :
           /\ f.boxes[c].type = "mdat"
           /\ \A j \in 1..c - 1 : f.boxes[j].type # "mdat" /\ HasRoom(f, f.boxes[j])
           /\ Heads(f, x)[c - 1].play > 0
           /\ BoxAt(f, i) < f.cut
<1> DEFINE n == Len(f.boxes)
           S == {c \in 1..n : f.boxes[c].type = "mdat"}
<1>1. n \in Nat /\ DOMAIN f.boxes = 1..n
  BY BoxesTyped
<1>2. S # {} /\ S \subseteq Nat
  BY <1>1 DEF Padded
<1>3. PICK c \in S : \A m \in S : c <= m
  BY <1>2, LeastNumber
<1>4. c \in 1..n /\ f.boxes[c].type = "mdat"
  OBVIOUS
<1>5. \A j \in 1..c - 1 : f.boxes[j].type # "mdat"
  <2>1. SUFFICES ASSUME NEW j \in 1..c - 1, f.boxes[j].type = "mdat" PROVE FALSE
    OBVIOUS
  <2>2. j \in S
    BY <1>1, <1>4, <2>1
  <2>3. c <= j
    BY <1>3, <2>2
  <2>4. QED
    BY <1>4, <2>3
<1>6. i <= c
  <2>1. SUFFICES ASSUME ~(i <= c) PROVE FALSE
    OBVIOUS
  <2>2. c \in 1..i - 1
    BY <1>1, <1>4, <2>1
  <2>3. QED
    BY <1>4, <2>2
<1> HIDE DEF S
<1> DEFINE before == Heads(f, x)[c - 1]
<1>7. /\ before.play > 0 /\ Decodable(f, before)
      /\ \A j \in 1..c - 1 : HasRoom(f, f.boxes[j])
      /\ \E m \in 0..Len(f.at) : Plan(f, before.skip, before.samples, m)
  BY <1>1, <1>4, <1>5 DEF Padded
<1>8. Laid(f, before) /\ Leads(f, before, c)
  BY <1>1, <1>4, <1>5, <1>7 DEF Proper
<1>9. before.skip \in 0..Word - 1 /\ before.samples \in 0..Word - 1
  <2>1. c - 1 \in 0..n
    BY <1>1, <1>4
  <2>2. before \in Handle
    BY <2>1, OpeningsTyped, HeadSteps
  <2>3. QED
    BY <2>2 DEF Handle
<1>10. f.at[1] \in Nat /\ f.at[1] < f.cut
  BY <1>7, <1>8, <1>9, SomethingSent
<1>11. BoxAt(f, c) + HDR <= f.at[1]
  <2>1. BoxAt(f, c) \in Nat
    <3>1. c \in 1..n + 1
      BY <1>1, <1>4
    <3>2. QED
      BY <3>1, BoxPlaces
  <2>2. QED
    BY <1>8, <1>10, <2>1 DEF Leads, HDR
<1>12. BoxAt(f, i) < f.cut
  <2>1. c \in 1..n + 1 /\ i \in 1..n + 1
    BY <1>1, <1>4
  <2>2. BoxAt(f, c) \in Nat /\ BoxAt(f, i) \in Nat
    BY <2>1, BoxPlaces
  <2>3. BoxAt(f, i) <= BoxAt(f, c)
    <3>1. i = c \/ i < c
      BY <1>1, <1>4, <1>6
    <3>2. QED
      BY <2>1, <2>2, <3>1, BoxesApart
  <2>4. f.cut \in Nat
    BY DEF FileOK
  <2>5. QED
    BY <1>10, <1>11, <2>2, <2>3, <2>4 DEF HDR
<1>13. c \in i..n
  BY <1>1, <1>4, <1>6
<1>14. QED
  BY <1>4, <1>5, <1>7, <1>12, <1>13

(* The box readp is at, and the handle there.                              *)
LEMMA HeaderAt ==
  ASSUME TypeInv, HeaderInv, Sound, dec.new, dec.state = "running", ProperFiles, PaddedFiles
  PROVE  \E i \in 1..Len(file.boxes) + 1 : \E x \in Openings(file.codec) :
           AtBox(i, x) /\ Proper(file, x) /\ Padded(file, x) /\ FileOK(file)
BY Buffered DEF HeaderInv, ProperFiles, PaddedFiles, TypeInv, TypeOK

(* Ending in the header is right only if there is nothing to hear.         *)
LEMMA HeaderStops ==
  ASSUME TypeInv, HeaderInv, RoomInv, Sound, dec.new, dec.state = "running",
         ProperFiles, PaddedFiles,
         \/ \E i \in DOMAIN file.boxes : TooLarge(i) \/ NotPlayable(i)
         \/ AacComplete /\ AllSent
  PROVE  out = file.wanted
<1>1. PICK i \in 1..Len(file.boxes) + 1 : \E x \in Openings(file.codec) :
        AtBox(i, x) /\ Proper(file, x) /\ Padded(file, x) /\ FileOK(file)
  BY HeaderAt
<1>2. PICK x \in Openings(file.codec) :
        AtBox(i, x) /\ Proper(file, x) /\ Padded(file, x) /\ FileOK(file)
  BY <1>1
<1>3. out = << >>
  BY DEF RoomInv
<1>4. SUFFICES ASSUME file.wanted # << >> PROVE FALSE
  BY <1>3
<1>5. \A j \in 1..i - 1 : file.boxes[j].type # "mdat"
  BY <1>2 DEF AtBox
<1>6. PICK c \in i..Len(file.boxes) :
           /\ file.boxes[c].type = "mdat"
           /\ \A j \in 1..c - 1 : file.boxes[j].type # "mdat" /\ HasRoom(file, file.boxes[j])
           /\ Heads(file, x)[c - 1].play > 0
           /\ BoxAt(file, i) < file.cut
  BY <1>2, <1>4, <1>5, MediaFollows
<1>7. Len(file.boxes) \in Nat /\ i \in Nat /\ c \in Nat /\ i <= c
  BY <1>2, BoxesTyped
<1>8. ASSUME NEW k \in DOMAIN file.boxes, Reading(k) PROVE k = i
  <2>1. h.consume = 0
    BY <1>8 DEF Reading, HeaderInv
  <2>2. QED
    BY <1>2, <1>8, <2>1, TheBox
<1>9. ASSUME NEW k \in DOMAIN file.boxes, TooLarge(k) PROVE FALSE
  <2>1. k = i /\ file.boxes[k].type # "mdat" /\ WaitsFor(file.boxes[k])
        /\ file.boxes[k].len >= BufSize
    BY <1>8, <1>9 DEF TooLarge, Lacking
  <2>2. ~HasRoom(file, file.boxes[i])
    <3>1. file.boxes[i].len \in Nat
      BY <1>2, <2>1, BoxesTyped DEF BoxOK, FileOK
    <3>2. QED
      BY <2>1, <3>1, Numbers DEF HasRoom, WaitsFor
  <2>3. i # c
    BY <1>6, <2>1
  <2>4. i \in 1..c - 1
    BY <1>7, <2>3
  <2>5. QED
    BY <1>6, <2>2, <2>4
<1>10. ASSUME NEW k \in DOMAIN file.boxes, NotPlayable(k) PROVE FALSE
  <2>1. k = i /\ file.boxes[k].type = "mdat" /\ h.play = 0
    BY <1>8, <1>10 DEF NotPlayable
  <2>2. i = c
    <3>1. ~(i \in 1..c - 1)
      BY <1>6, <2>1
    <3>2. QED
      BY <1>7, <3>1
  <2>3. h.play = Heads(file, x)[c - 1].play
    BY <1>2, <2>2 DEF AtBox, Alike
  <2>4. QED
    BY <1>6, <2>1, <2>3
<1>11. ASSUME AacComplete, AllSent PROVE FALSE
  <2>1. closed /\ Used = 0
    BY <1>11 DEF AacComplete
  <2>2. arrived = file.cut
    BY <1>11, <2>1 DEF AllSent
  <2>3. rd \in Nat /\ arrived \in Nat /\ h.consume \in Nat
    BY Buffered DEF TypeInv, TypeOK, Handle
  <2>4. rd + h.consume = BoxAt(file, i)
    BY <1>2 DEF AtBox
  <2>5. QED
    BY <1>6, <2>1, <2>2, <2>3, <2>4 DEF Used
<1>12. QED
  BY <1>9, <1>10, <1>11

(* A box is passed that streambuf had room for.                            *)
LEMMA RoomPassed ==
  ASSUME TypeInv, RoomInv, Sound, dec.new, dec.state = "running", h.consume = 0,
         NEW k \in DOMAIN file.boxes, Reading(k), HasRoom(file, file.boxes[k]),
         UNCHANGED <<file, out>>, rd' + h'.consume = Start(k) + Own(file.boxes[k]), h'.empty = h.empty
  PROVE  RoomInv'
<1>1. FileOK(file) /\ Len(file.boxes) \in Nat /\ k \in 1..Len(file.boxes)
  BY Buffered, BoxesTyped DEF TypeInv
<1>2. /\ out = << >> /\ ~h.empty
      /\ \A i \in 1..Len(file.boxes) + 1 :
           rd = BoxAt(file, i) => \A j \in 1..i - 1 : HasRoom(file, file.boxes[j])
  <2>1. rd + h.consume = rd
    BY Buffered DEF TypeInv
  <2>2. QED
    BY <2>1 DEF RoomInv
<1>3. rd = BoxAt(file, k)
  BY DEF Reading, Start
<1>4. \A j \in 1..k : HasRoom(file, file.boxes[j])
  <2>1. \A j \in 1..k - 1 : HasRoom(file, file.boxes[j])
    <3>1. k \in 1..Len(file.boxes) + 1
      BY <1>1
    <3>2. QED
      BY <1>2, <1>3, <3>1
  <2>2. \A j \in 1..k : j = k \/ j \in 1..k - 1
    BY <1>1
  <2>3. QED
    BY <2>1, <2>2
<1>5. rd' + h'.consume = BoxAt(file, k + 1)
  BY <1>1, BoxSteps DEF Start
<1>6. ASSUME NEW i \in 1..Len(file.boxes) + 1, BoxAt(file, k + 1) = BoxAt(file, i)
      PROVE  i = k + 1
  <2>1. k + 1 \in 1..Len(file.boxes) + 1
    BY <1>1
  <2>2. BoxAt(file, i) \in Nat /\ BoxAt(file, k + 1) \in Nat
    BY <1>1, <2>1, BoxPlaces
  <2>3. ~(i < k + 1)
    <3>1. SUFFICES ASSUME i < k + 1 PROVE FALSE
      OBVIOUS
    <3>2. BoxAt(file, i) < BoxAt(file, k + 1)
      BY <1>1, <2>1, <3>1, BoxesApart
    <3>3. QED
      BY <1>6, <2>2, <3>2
  <2>4. ~(k + 1 < i)
    <3>1. SUFFICES ASSUME k + 1 < i PROVE FALSE
      OBVIOUS
    <3>2. BoxAt(file, k + 1) < BoxAt(file, i)
      BY <1>1, <2>1, <3>1, BoxesApart
    <3>3. QED
      BY <1>6, <2>2, <3>2
  <2>5. QED
    BY <1>1, <2>3, <2>4
<1>7. ASSUME NEW i \in 1..Len(file.boxes) + 1, rd' + h'.consume = BoxAt(file, i)
      PROVE  \A j \in 1..i - 1 : HasRoom(file, file.boxes[j])
  <2>1. i - 1 = k
    BY <1>1, <1>5, <1>6, <1>7
  <2>2. QED
    BY <1>4, <2>1
<1>8. QED
  BY <1>2, <1>7 DEF RoomInv

(* Steps that leave readp, or consume what is in the way.                  *)
LEMMA RoomKept ==
  ASSUME RoomInv, UNCHANGED <<file, out>>, h'.empty = h.empty, damage \subseteq damage',
         rd' + h'.consume = rd + h.consume, dec'.new = dec.new,
         dec'.state = "running" => dec.state = "running"
  PROVE  RoomInv'
BY DEF RoomInv, Sound

(* What the header reader has passed streambuf had room for.               *)
LEMMA HeaderRoom ==
  ASSUME TypeInv, HeaderInv, RoomInv, ReadHeader
  PROVE  RoomInv'
<1>1. dec.pc = "header" /\ dec.new /\ dec.state = "running" /\ dec \in Calls
  <2>1. dec.pc = "header"
    BY DEF ReadHeader, HeaderEnds, Box, MediaFound, NotPlayable, ConsumeBox, ConsumePart,
           Linearize, TooLarge, Wait, Unwrap, Lacking, Reading
  <2>2. QED
    BY <2>1 DEF TypeInv, TypeOK, CallInv
<1>2. CASE HeaderEnds
  <2>1. UNCHANGED <<file, rd, h, out, damage>> /\ Returns("running")
    BY <1>2 DEF HeaderEnds
  <2>2. QED
    BY <1>1, <2>1, ReturnsTyped, RoomKept
<1>3. ASSUME NEW i \in DOMAIN file.boxes, Wait(i) \/ Unwrap(i) PROVE RoomInv'
  <2>1. UNCHANGED <<file, rd, h, out>> /\ Returns("running") /\ damage \subseteq damage'
    BY <1>3 DEF Wait, Unwrap
  <2>2. QED
    BY <1>1, <2>1, ReturnsTyped, RoomKept
<1>4. ASSUME NEW i \in DOMAIN file.boxes, Linearize(i) PROVE RoomInv'
  BY <1>4 DEF Linearize, RoomInv, Sound
<1>5. ASSUME NEW i \in DOMAIN file.boxes, TooLarge(i) \/ NotPlayable(i) PROVE RoomInv'
  <2>1. Returns("error")
    BY <1>5 DEF TooLarge, NotPlayable
  <2>2. dec'.state = "error"
    BY <2>1, ReturnsTyped
  <2>3. QED
    BY <2>2 DEF RoomInv
<1>6. ASSUME NEW i \in DOMAIN file.boxes, MediaFound(i) PROVE RoomInv'
  <2>1. ~dec'.new
    BY <1>1, <1>6 DEF MediaFound, Calls
  <2>2. QED
    BY <2>1 DEF RoomInv
<1>7. ASSUME NEW i \in DOMAIN file.boxes,
             ConsumeBox(i) \/ ConsumePart(i), Sound'
      PROVE  Sound /\ h.consume = 0 /\ BoxOK(file.boxes[i]) /\ Parsed(file.boxes[i]) \in Handle
             /\ Reading(i) /\ file.boxes[i].type # "mdat" /\ UNCHANGED <<file, out>>
             /\ damage' = damage \cup Missed(file.boxes[i])
  <2>1. /\ damage' = damage \cup Missed(file.boxes[i]) /\ Reading(i)
        /\ file.boxes[i].type # "mdat" /\ UNCHANGED <<file, out>>
    BY <1>7 DEF ConsumeBox, ConsumePart
  <2>2. Sound
    BY <1>7, <2>1 DEF Sound
  <2>3. QED
    BY <1>1, <2>1, <2>2, ParsedTyped DEF HeaderInv
<1>8. \A i \in DOMAIN file.boxes : Parsed(file.boxes[i]).empty = h.empty
  BY ReadKeeps DEF Parsed, TypeInv, TypeOK
<1>9. ASSUME NEW i \in DOMAIN file.boxes, ConsumeBox(i), Sound' PROVE RoomInv'
  <2> DEFINE b == file.boxes[i]
             n == Own(b)
             rest == 0
             x == Parsed(b)
  <2>1. /\ Sound /\ h.consume = 0 /\ BoxOK(b) /\ x \in Handle /\ Reading(i) /\ b.type # "mdat"
        /\ UNCHANGED <<file, out>> /\ damage' = damage \cup Missed(b)
    BY <1>7, <1>9
  <2>2. Advance(n, x) /\ dec.bytes >= n
    BY <1>9 DEF ConsumeBox
  <2>3. n \in Nat /\ rest \in Nat /\ n + rest = Own(b) /\ rest = 0
    BY <2>1, OwnTyped
  <2>4. HasRoom(file, b)
    <3>1. SUFFICES ASSUME b.type \in Awaited(file.codec) PROVE b.len < BufSize
      BY DEF HasRoom
    <3>2. n = b.len
      BY <3>1 DEF Awaited, Own
    <3>3. dec.bytes <= Used /\ Used < BufSize /\ dec.bytes \in Nat
      BY <1>1, Numbers DEF TypeInv, TypeOK, CallInv, Calls
    <3> HIDE DEF n
    <3>4. QED
      BY <2>2, <2>3, <3>2, <3>3, Buffered, Numbers DEF TypeInv
  <2> HIDE DEF n, rest
  <2>5. rd' + h'.consume = Start(i) + Own(b) /\ Alike(h', x)
    BY <1>9, <2>1, <2>2, <2>3, BoxConsumed
  <2>6. h'.empty = h.empty
    BY <1>8, <2>5 DEF Alike
  <2>7. QED
    BY <1>1, <2>1, <2>4, <2>5, <2>6, RoomPassed
<1>10. ASSUME NEW i \in DOMAIN file.boxes, ConsumePart(i), Sound' PROVE RoomInv'
  <2> DEFINE b == file.boxes[i]
             n == dec.bytes
             rest == Own(b) - n
             x == [Parsed(b) EXCEPT !.consume = rest]
  <2>1. /\ Sound /\ h.consume = 0 /\ BoxOK(b) /\ Parsed(b) \in Handle /\ Reading(i)
        /\ b.type # "mdat" /\ UNCHANGED <<file, out>> /\ damage' = damage \cup Missed(b)
    BY <1>7, <1>10
  <2>2. Advance(n, x) /\ n < Own(b) /\ ~WaitsFor(b)
    BY <1>10 DEF ConsumePart
  <2>3. n \in Nat /\ rest \in Nat /\ n + rest = Own(b)
    <3>1. Own(b) \in Nat
      BY <2>1, OwnTyped
    <3>2. QED
      BY <1>1, <2>2, <3>1, Numbers DEF Calls
  <2>4. HasRoom(file, b)
    BY <2>2 DEF HasRoom, WaitsFor
  <2> HIDE DEF n, rest
  <2>5. x \in Handle
    BY <2>1, <2>3 DEF Handle
  <2>6. rd' + h'.consume = Start(i) + Own(b) /\ Alike(h', Parsed(b))
    BY <1>10, <2>1, <2>2, <2>3, <2>5, BoxConsumed
  <2>7. h'.empty = h.empty
    BY <1>8, <2>6 DEF Alike
  <2>8. QED
    BY <1>1, <2>1, <2>4, <2>6, <2>7, RoomPassed
<1>11. ASSUME ~Sound' PROVE RoomInv'
  BY <1>11 DEF RoomInv
<1>12. QED
  BY <1>2, <1>3, <1>4, <1>5, <1>6, <1>9, <1>10, <1>11 DEF ReadHeader, Box

-----------------------------------------------------------------------------
(* Among the samples.                                                      *)

(* A track that cannot be decoded has nothing to be heard.                 *)
Mute == ~Decodable(file, h) /\ out = << >> /\ file.wanted = << >>

(* The samples before the next are heard, of the m that are sent whole.    *)
Playing(s, n, m) == \E k \in 1..m + 1 : AtSample(k) /\ Progress(s, n, k - 1)

(* All is heard, and faad.c tries what is behind.                          *)
Torn(m) ==
  /\ file.codec = "aac" /\ out = file.wanted
  /\ InTorn(m + 1) \/ \E k \in m + 2..Len(file.at) + 1 : AtSample(k)

(* Until the track ends it cannot be heard at all, the next sample is due, *)
(* or all is heard.                                                        *)
PlayInv ==
  Sound /\ ~dec.new /\ dec.state = "running" =>
    \/ Mute
    \/ /\ Decodable(file, h)
       /\ \E s \in 0..Word - 1 : \E n \in 0..Word - 1 : \E m \in 0..Len(file.at) :
            Plan(file, s, n, m) /\ (Playing(s, n, m) \/ Torn(m))

(* Steps that leave the place and what was handed on.                      *)
LEMMA PlayKept ==
  ASSUME PlayInv, UNCHANGED <<file, out>>, Alike(h', h), rd' + h'.consume = rd + h.consume,
         \A k : InTorn(k) => InTorn(k)', damage \subseteq damage', dec'.new = dec.new,
         dec'.state = "running" => dec.state = "running"
  PROVE  PlayInv'
<1> SUFFICES ASSUME Sound', ~dec.new, dec.state = "running" PROVE PlayInv'
  BY DEF PlayInv
<1>1. Sound
  BY DEF Sound
<1>2. Decodable(file, h)' <=> Decodable(file, h)
  BY DEF Decodable, Alike
<1>3. CASE Mute
  BY <1>2, <1>3 DEF Mute, PlayInv
<1>4. CASE ~Mute
  <2>1. PICK s \in 0..Word - 1, n \in 0..Word - 1, m \in 0..Len(file.at) :
          Decodable(file, h) /\ Plan(file, s, n, m) /\ (Playing(s, n, m) \/ Torn(m))
    BY <1>1, <1>4 DEF PlayInv
  <2>2. \A k : AtSample(k) => AtSample(k)'
    BY SampleKept
  <2>3. \A k : Progress(s, n, k) => Progress(s, n, k)'
    BY DEF Progress, Alike
  <2>4. Playing(s, n, m) => Playing(s, n, m)'
    BY <2>2, <2>3 DEF Playing
  <2>5. Torn(m) => Torn(m)'
    BY <2>2 DEF Torn
  <2>6. Plan(file, s, n, m)' /\ m \in 0..Len(file'.at)
    BY <2>1
  <2>7. QED
    BY <1>2, <2>1, <2>4, <2>5, <2>6 DEF PlayInv
<1>5. QED
  BY <1>3, <1>4

(* The samples sent whole.                                                 *)
LEMMA SentWhole ==
  ASSUME TypeOK, NEW x, Laid(file, x), NEW m, Sent(file, m)
  PROVE  /\ m \in Nat /\ m <= Len(file.at)
         /\ \A k \in 1..m : k \in DOMAIN file.at /\ file.at[k] + file.sizes[k] <= file.cut
         /\ \A k \in m + 2..Len(file.at) + 1 : file.cut < SampleAt(k)
<1>1. /\ Len(file.at) \in Nat /\ DOMAIN file.at = 1..Len(file.at)
      /\ \A k \in 1..Len(file.at) : /\ file.at[k] \in Nat
                                    /\ file.sizes[k] \in Nat /\ file.sizes[k] >= 1
      /\ \A j, k \in 1..Len(file.at) : j < k => file.at[j] + file.sizes[j] <= file.at[k]
  BY SamplesTyped
<1>2. /\ m \in 0..Len(file.at) /\ file.cut \in Nat
      /\ m > 0 => file.at[m] + file.sizes[m] <= file.cut
      /\ m < Len(file.at) => file.cut < file.at[m + 1] + file.sizes[m + 1]
  BY Buffered DEF Sent
<1>3. m \in Nat /\ m <= Len(file.at)
  BY <1>1, <1>2
<1>4. ASSUME NEW k \in 1..m
      PROVE  k \in DOMAIN file.at /\ file.at[k] + file.sizes[k] <= file.cut
  <2>1. m > 0 /\ k \in 1..Len(file.at) /\ m \in 1..Len(file.at)
    BY <1>1, <1>3, <1>4
  <2>2. CASE k = m
    BY <1>1, <1>2, <2>1, <2>2
  <2>3. CASE k # m
    <3>1. k < m
      BY <1>3, <2>3
    <3>2. file.at[k] + file.sizes[k] <= file.at[m]
      BY <1>1, <2>1, <3>1
    <3>3. file.at[m] + file.sizes[m] <= file.cut
      BY <1>2, <2>1
    <3>4. /\ file.at[k] \in Nat /\ file.sizes[k] \in Nat
          /\ file.at[m] \in Nat /\ file.sizes[m] \in Nat
      BY <1>1, <2>1
    <3> DEFINE a == file.at[k]
               b == file.sizes[k]
               c == file.at[m]
               d == file.sizes[m]
    <3>5. /\ a \in Nat /\ b \in Nat /\ c \in Nat /\ d \in Nat /\ file.cut \in Nat
          /\ a + b <= c /\ c + d <= file.cut
      BY <1>2, <3>2, <3>3, <3>4
    <3>6. k \in DOMAIN file.at
      BY <1>1, <2>1
    <3> HIDE DEF a, b, c, d
    <3>7. a + b <= file.cut
      BY <3>5
    <3>8. QED
      BY <3>6, <3>7 DEF a, b
  <2>4. QED
    BY <2>2, <2>3
<1>5. ASSUME NEW k \in m + 2..Len(file.at) + 1
      PROVE  file.cut < SampleAt(k)
  <2>1. m + 1 \in 1..Len(file.at) /\ m < Len(file.at) /\ m + 1 < k
    BY <1>1, <1>3, <1>5
  <2>2. file.cut < file.at[m + 1] + file.sizes[m + 1]
    BY <1>2, <2>1
  <2>3. file.at[m + 1] \in Nat /\ file.sizes[m + 1] \in Nat
    BY <1>1, <2>1
  <2> DEFINE cut == file.cut
             next == file.at[m + 1] + file.sizes[m + 1]
  <2>4. cut \in Nat /\ next \in Nat /\ cut < next
    BY <1>2, <2>2, <2>3
  <2>5. CASE k \in DOMAIN file.at
    <3> DEFINE place == file.at[k]
    <3>1. next <= place /\ place \in Nat
      BY <1>1, <2>1, <2>5
    <3>2. SampleAt(k) = place
      BY <2>5 DEF SampleAt
    <3> HIDE DEF cut, next, place
    <3>3. cut < place
      BY <2>4, <3>1
    <3>4. QED
      BY <3>2, <3>3 DEF cut
  <2>6. CASE k \notin DOMAIN file.at
    <3> DEFINE n == Len(file.at)
    <3>1. SampleAt(k) = file.at[n] + file.sizes[n]
      BY <2>6 DEF SampleAt
    <3>2. n \in 1..n /\ n \in Nat
      BY <1>1, <2>1
    <3>3. file.at[n] \in Nat /\ file.sizes[n] \in Nat
      BY <1>1, <3>2
    <3>4. CASE m + 1 = n
      BY <2>2, <3>1, <3>4
    <3>5. CASE m + 1 # n
      <4>1. m + 1 < n
        BY <2>1, <3>2, <3>5
      <4> DEFINE place == file.at[n]
                 size == file.sizes[n]
      <4>2. next <= place
        BY <1>1, <2>1, <3>2, <4>1
      <4>3. SampleAt(k) = place + size /\ place \in Nat /\ size \in Nat
        BY <3>1, <3>3
      <4> HIDE DEF cut, next, place, size
      <4>4. cut < place + size
        BY <2>4, <4>2, <4>3
      <4>5. QED
        BY <4>3, <4>4 DEF cut
    <3>6. QED
      BY <3>4, <3>5
  <2>7. QED
    BY <2>5, <2>6
<1>6. QED
  BY <1>3, <1>4, <1>5

(* The gap to the next chunk leads ahead.                                  *)
LEMMA GapAhead ==
  ASSUME TypeInv, dec.pc = "frame", Laid(file, h), file.at[1] > 0, h.consume = 0,
         NEW k \in DOMAIN file.at, AtSample(k), ChunkEnds
  PROVE  ~(ChunkGap <= 0)
<1> DEFINE c == h.chunks[h.nextchunk + 1].sample
<1>1. More(h) /\ h.sample = c
  BY MoreIsAnother DEF ChunkEnds
<1>2. c = k
  BY <1>1 DEF AtSample, Counts
<1>3. c + 1 \in DOMAIN file.at /\ h.chunks[h.nextchunk + 1].offset = file.at[c + 1]
  BY <1>1, MoreIsAnother
<1> HIDE DEF c
<1>4. /\ DOMAIN file.at = 1..Len(file.at)
      /\ \A j \in 1..Len(file.at) : /\ file.at[j] \in Nat
                                    /\ file.sizes[j] \in Nat /\ file.sizes[j] >= 1
      /\ \A i, j \in 1..Len(file.at) : i < j => file.at[i] + file.sizes[i] <= file.at[j]
  BY SamplesTyped DEF TypeInv
<1>5. /\ file.at[k] \in Nat /\ file.sizes[k] \in Nat /\ file.sizes[k] >= 1
      /\ file.at[k + 1] \in Nat /\ file.at[k] + file.sizes[k] <= file.at[k + 1]
  <2>1. k \in 1..Len(file.at) /\ k + 1 \in 1..Len(file.at) /\ k < k + 1
    BY <1>2, <1>3, <1>4
  <2>2. QED
    BY <1>4, <2>1
<1>6. h.pos = rd /\ rd = file.at[k]
  BY Buffered DEF TypeInv, TypeOK, AtSample, SampleAt
<1>7. ChunkGap = file.at[k + 1] - file.at[k]
  BY <1>2, <1>3, <1>6 DEF ChunkGap
<1>8. QED
  BY <1>5, <1>7

(* One of the samples sent whole is decoded.                               *)
LEMMA SamplePlayed ==
  ASSUME TypeInv, UNCHANGED <<file, damage>>, Sound, dec.state = "running",
         dec'.state = "running",
         NEW s \in 0..Word - 1, NEW n \in 0..Word - 1, NEW m, Plan(file, s, n, m),
         m \in Nat, m <= Len(file.at), Len(file.at) \in Nat,
         NEW j \in Nat, j < m, ~(file.lead /\ j = 0), Progress(s, n, j),
         NEW frames, frames = FramesOf(j + 1), out' = out \o Trimmed(frames),
         h'.skip = AfterTrim(frames).skip, h'.samples = AfterTrim(frames).samples,
         h'.empty = AfterTrim(frames).empty
  PROVE  Steps /\ Progress(s, n, j + 1)'
<1> DEFINE c == Finish(file, s, n, j)
           d == Finish(file, s, n, j + 1)
           e == Finish(file, s, n, m)
           b == Begin(file, s)
<1>1. j < Len(file.at) /\ j + 1 \in Nat /\ j <= j + 1 /\ j + 1 <= m
  OBVIOUS
<1>2. /\ out \o Trimmed(frames) = Between(b, d)
      /\ AfterTrim(frames).skip = s - LesserOf(s, (j + 1) * PerSample)
      /\ AfterTrim(frames).samples = n - LesserOf(n, Len(out \o Trimmed(frames)))
      /\ AfterTrim(frames).skip > 0 => ~AfterTrim(frames).empty
  <2>1. j < Len(file.at)
    BY <1>1
  <2>2. QED
    BY <2>1, TrimStep
<1>3. b \in Nat /\ c \in Nat /\ d \in Nat /\ c <= d
  BY <1>1, FinishGrows
<1>4. e \in Nat /\ d <= e
  BY <1>1, FinishGrows
<1>5. out = Between(b, c) /\ file.wanted = Between(b, e) /\ out' = Between(b, d)
  BY <1>2 DEF Progress, Plan
<1>6. Progress(s, n, j + 1)'
  <2>1. ~(file.lead /\ j + 1 <= 1) /\ ~(file.lead /\ j + 1 = 1)
    OBVIOUS
  <2>2. out' = Between(Begin(file', s), Finish(file', s, n, j + 1))
    BY <1>5
  <2>3. h'.samples = n - LesserOf(n, Len(out'))
    BY <1>2
  <2>4. h'.skip = s - LesserOf(s, (j + 1) * PerSample) /\ (h'.skip > 0 => ~h'.empty)
    BY <1>2
  <2>5. QED
    BY <2>1, <2>2, <2>3, <2>4 DEF Progress
<1> HIDE DEF b, c, d, e
<1>7. Steps
  BY <1>3, <1>4, <1>5, PlayStep
<1>8. QED
  BY <1>6, <1>7

(* The first sample yields no frames: the decoder starts up with it.       *)
LEMMA LeadPlayed ==
  ASSUME TypeInv, UNCHANGED <<file, out>>,
         NEW s \in 0..Word - 1, NEW n \in 0..Word - 1, NEW m, Plan(file, s, n, m),
         file.lead, Progress(s, n, 0),
         h'.skip = h.skip, h'.samples = h.samples, h'.empty
  PROVE  Progress(s, n, 1)'
<1> DEFINE b == Begin(file, s)
<1>1. PerSample \in Nat /\ s \in Nat /\ n \in Nat /\ PerSample >= 1
  BY Numbers
<1>2. b \in Nat /\ PerSample <= b
  BY <1>1 DEF Begin, Plan
<1>3. /\ Finish(file, s, n, 0) \in Nat /\ Finish(file, s, n, 0) <= b
      /\ Finish(file, s, n, 1) \in Nat /\ Finish(file, s, n, 1) <= b
  <2>1. 0 * PerSample = 0 /\ 1 * PerSample = PerSample
    BY <1>1
  <2>2. /\ Finish(file, s, n, 0) = IF n > 0 THEN LesserOf(0, b + n) ELSE 0
        /\ Finish(file, s, n, 1) = IF n > 0 THEN LesserOf(PerSample, b + n) ELSE PerSample
    BY <2>1 DEF Finish
  <2> HIDE DEF b
  <2>3. QED
    BY <1>1, <1>2, <2>2 DEF LesserOf
<1>4. out = << >> /\ out = Between(b, Finish(file, s, n, 1))
  BY <1>2, <1>3, BetweenSeq DEF Progress
<1>5. h.skip = s /\ h.samples = n - LesserOf(n, Len(out))
  BY DEF Progress
<1>6. QED
  BY <1>4, <1>5 DEF Progress

(* When all is heard the decoder may end, or try what is behind.           *)
LEMMA AllPlayed ==
  ASSUME UNCHANGED <<file, out, damage>>, dec.state = "running", out = file.wanted
  PROVE  Steps
<1>1. CASE dec'.state = "running"
  BY <1>1, QuietStep
<1>2. CASE dec'.state # "running"
  BY <1>2, EndStep
<1>3. QED
  BY <1>1, <1>2

(* Behind the samples sent whole nothing is left to be heard.              *)
LEMMA PlayedOut ==
  ASSUME NEW s, NEW n, NEW m \in Nat, Plan(file, s, n, m), Progress(s, n, m)
  PROVE  out = file.wanted
BY DEF Plan, Progress

(* A sample of an aac file.                                                *)
LEMMA AacPlays ==
  ASSUME TypeInv, AllSent, SampleInv, PlayInv, AacFrame
  PROVE  Steps /\ PlayInv'
<1>1. PICK d \in Decodes(Offered) :
        LET backwards == ChunkEnds /\ ChunkGap <= 0
            stuck == ~ChunkEnds /\ d.consumed = 0
            handle == IF backwards \/ stuck THEN h
                      ELSE IF d.frames = << >> THEN [h EXCEPT !.empty = TRUE]
                      ELSE AfterTrim(d.frames)
        IN
        /\ IF backwards THEN Stay(Counted(handle))
           ELSE IF ChunkEnds THEN NextChunk(handle)
           ELSE Advance(d.consumed, Counted(handle))
        /\ Returns(IF backwards \/ stuck THEN "error" ELSE "running")
        /\ out' = IF backwards \/ stuck THEN out ELSE out \o Trimmed(d.frames)
  BY DEF AacFrame
<1> DEFINE failed == (ChunkEnds /\ ChunkGap <= 0) \/ (~ChunkEnds /\ d.consumed = 0)
           x == IF d.frames = << >> THEN [h EXCEPT !.empty = TRUE] ELSE AfterTrim(d.frames)
<1>2. /\ dec.pc = "frame" /\ file.codec = "aac"
      /\ UNCHANGED <<file, arrived, closed, turn, damage>>
  BY DEF AacFrame
<1>3. dec.state = "running" /\ ~dec.new
  BY <1>2 DEF TypeInv, CallInv
<1>4. ~dec'.new /\ dec'.state = IF failed THEN "error" ELSE "running"
  BY <1>1, <1>3, ReturnsTyped
<1>5. CASE ~Sound
  BY <1>2, <1>5 DEF PlayInv, Sound, Steps, Track!Next, Track!Spoilt
<1>6. SUFFICES ASSUME Sound PROVE Steps /\ PlayInv'
  BY <1>5
<1>7. /\ Laid(file, h) /\ file.at[1] > 0 /\ h.consume = 0 /\ (Used > MinRead \/ closed)
  BY <1>2, <1>3, <1>6 DEF SampleInv
<1>8. Decodable(file, h) /\ Decodable(file, h)'
  BY <1>2 DEF Decodable
<1>9. PICK s \in 0..Word - 1, n \in 0..Word - 1, m \in 0..Len(file.at) :
        Plan(file, s, n, m) /\ (Playing(s, n, m) \/ Torn(m))
  BY <1>3, <1>6, <1>8 DEF PlayInv, Mute
<1>10. SUFFICES Steps /\ (~failed => Playing(s, n, m)' \/ Torn(m)')
  <2>1. Plan(file, s, n, m)' /\ m \in 0..Len(file'.at)
    BY <1>2, <1>9
  <2> HIDE DEF failed
  <2>2. QED
    BY <1>4, <1>8, <2>1 DEF PlayInv
<1>11. ~failed => IF ChunkEnds THEN NextChunk(x) ELSE Advance(d.consumed, Counted(x))
  BY <1>1
<1>12. out' = IF failed THEN out ELSE out \o Trimmed(d.frames)
  BY <1>1
<1>13. Offered \in Nat /\ Offered <= Used /\ Used \in Nat
  <2>1. Used \in Nat /\ Cont \in Nat /\ Cont <= Used /\ WrapLen \in Nat
    BY Buffered, Numbers DEF TypeInv
  <2>2. LesserOf(Used, WrapLen) \in Nat /\ LesserOf(Used, WrapLen) <= Used
    BY <2>1, Lesser
  <2>3. QED
    BY <2>1, <2>2 DEF Offered
<1>14. d.consumed \in Nat /\ d.consumed <= Offered /\ d.frames \in Seq(Nat)
       /\ (d.frames # << >> => Offered > 0)
  BY <1>13, DecodesTyped
<1>15. Kept(x)
  <2>1. h \in Handle
    BY DEF TypeInv, TypeOK
  <2>2. Kept([h EXCEPT !.empty = TRUE])
    BY <2>1 DEF Handle, Kept
  <2>3. QED
    BY <1>14, <2>2, TrimKeeps
<1>16. d.frames = << >> => out' = out
  BY <1>12, NothingTrimmed
<1>17. /\ Len(file.at) \in Nat /\ DOMAIN file.at = 1..Len(file.at) /\ m \in Nat
       /\ m <= Len(file.at) /\ rd \in Nat /\ arrived \in Nat /\ file.cut \in Nat
       /\ rd <= arrived /\ arrived <= file.cut
       /\ \A k \in 1..Len(file.at) : /\ file.at[k] \in Nat
                                    /\ file.sizes[k] \in Nat /\ file.sizes[k] >= 1
  BY <1>7, <1>9, SamplesTyped, Buffered DEF TypeInv, TypeOK
<1>18. /\ \A k \in 1..m : k \in DOMAIN file.at /\ file.at[k] + file.sizes[k] <= file.cut
       /\ \A k \in m + 2..Len(file.at) + 1 : file.cut < SampleAt(k)
  BY <1>7, <1>9, SentWhole DEF TypeInv, Plan
<1>19. m + 1 \in DOMAIN file.at => /\ file.cut < file.at[m + 1] + file.sizes[m + 1]
                                   /\ file.cut <= file.at[m + 1] + 1
  <2>1. m + 1 \in DOMAIN file.at => m < Len(file.at)
    BY <1>17
  <2>2. QED
    BY <1>2, <1>9, <2>1 DEF Plan, Sent
<1> HIDE DEF failed
<1>20. ASSUME out = file.wanted, d.frames = << >>, m + 1 \in DOMAIN file.at, closed,
              file.at[m + 1] <= rd, More(h) => m + 1 <= h.chunks[h.nextchunk + 1].sample
       PROVE  Steps /\ (~failed => Torn(m)')
  <2>1. Steps
    BY <1>2, <1>3, <1>16, <1>20, AllPlayed
  <2>2. SUFFICES ASSUME ~failed PROVE Torn(m)'
    BY <2>1
  <2> DEFINE t == IF ChunkEnds THEN 1 ELSE d.consumed
             k == m + 1
  <2>3. t \in Nat /\ t >= 1
    BY <1>14, <2>2 DEF failed
  <2> HIDE DEF x
  <2>4. IF ChunkEnds THEN NextChunk(x) ELSE Advance(t, Counted(x))
    BY <1>11, <2>2
  <2> HIDE DEF t
  <2>5. /\ k \in DOMAIN file.at /\ file.at[k] <= rd /\ file.cut < file.at[k] + file.sizes[k]
        /\ More(h) => k <= h.chunks[h.nextchunk + 1].sample
    BY <1>19, <1>20
  <2> HIDE DEF k
  <2>6. InTorn(k)' \/ \E j \in k + 1..Len(file.at) : AtSample(j)'
    BY <1>2, <1>7, <1>15, <1>20, <2>3, <2>4, <2>5, TornStep
  <2>7. k = m + 1 /\ k + 1..Len(file.at) \subseteq m + 2..Len(file.at) + 1
    BY <1>17 DEF k
  <2>8. InTorn(m + 1)' \/ \E j \in m + 2..Len(file.at) + 1 : AtSample(j)'
    BY <2>6, <2>7
  <2>9. QED
    BY <1>2, <1>16, <1>20, <2>8 DEF Torn
<1>21. ASSUME NEW k \in 1..m, AtSample(k), Progress(s, n, k - 1)
       PROVE  Steps /\ ~failed /\ Playing(s, n, m)'
  <2> DEFINE j == k - 1
  <2>1. /\ k \in DOMAIN file.at /\ file.at[k] + file.sizes[k] <= file.cut
        /\ j \in Nat /\ j < m /\ k = j + 1 /\ k \in Nat
    BY <1>17, <1>18
  <2>2. rd = file.at[k] /\ file.sizes[k] >= 1 /\ file.sizes[k] \in Nat
    BY <1>7, <1>17, <1>21, <2>1 DEF AtSample, SampleAt
  <2>3. file.sizes[k] <= Offered
    <3>1. ~(file.cut < file.at[k] + file.sizes[k])
      <4>1. file.at[k] + file.sizes[k] \in Nat /\ file.cut \in Nat
        BY <1>17, <2>2
      <4>2. QED
        BY <2>1, <4>1
    <3>2. QED
      BY <1>2, <1>7, <2>1, <2>2, <3>1, ShortOffer
  <2>4. d.consumed = file.sizes[k] /\ d.frames = FramesOf(k)
    <3>1. h.config
      BY <1>2, <1>7 DEF Laid
    <3>2. QED
      BY <1>13, <2>1, <2>2, <2>3, <3>1, WholeSample
  <2>5. ~failed
    <3>1. d.consumed # 0
      BY <2>2, <2>4
    <3>2. ChunkEnds => ~(ChunkGap <= 0)
      BY <1>2, <1>7, <1>21, <2>1, GapAhead
    <3>3. QED
      BY <3>1, <3>2 DEF failed
  <2>6. IF ChunkEnds THEN NextChunk(x) ELSE Advance(file.sizes[k], Counted(x))
    BY <1>11, <2>4, <2>5
  <2>7. AtSample(k + 1)'
    <3>1. NextBlock(x, k + 1)
      BY <1>2 DEF NextBlock
    <3> HIDE DEF x
    <3>2. QED
      BY <1>2, <1>7, <1>15, <1>21, <2>1, <2>6, <3>1, ToNextSample
  <2>8. h'.skip = x.skip /\ h'.samples = x.samples /\ h'.empty = x.empty
    <3>1. x \in Handle
      BY <1>15 DEF Kept
    <3> HIDE DEF x
    <3>2. QED
      BY <2>6, <3>1, TrimPassed
  <2>9. dec'.state = "running" /\ out' = out \o Trimmed(d.frames)
    BY <1>4, <1>12, <2>5
  <2>10. Steps /\ Progress(s, n, j + 1)'
    <3>1. CASE file.lead /\ k = 1
      <4>1. d.frames = << >> /\ j = 0 /\ j + 1 = 1
        BY <2>4, <3>1 DEF FramesOf
      <4>2. x = [h EXCEPT !.empty = TRUE] /\ h \in Handle
        BY <4>1 DEF TypeInv, TypeOK
      <4>3. x.skip = h.skip /\ x.samples = h.samples /\ x.empty
        BY <4>2 DEF Handle
      <4>4. out' = out
        BY <1>16, <4>1
      <4> HIDE DEF x, j
      <4>5. Steps
        BY <1>2, <1>3, <2>9, <4>4, QuietStep
      <4>6. Progress(s, n, 0)
        BY <1>21, <4>1 DEF j
      <4>7. Progress(s, n, 1)'
        BY <1>2, <1>9, <2>8, <3>1, <4>3, <4>4, <4>6, LeadPlayed
      <4>8. QED
        BY <4>1, <4>5, <4>7
    <3>2. CASE ~(file.lead /\ k = 1)
      <4>1. ~(file.lead /\ j = 0)
        BY <2>1, <3>2
      <4>2. d.frames = FramesOf(j + 1)
        BY <2>1, <2>4
      <4> HIDE DEF j
      <4>3. d.frames # << >>
        <5>1. d.frames = Between(j * PerSample, j * PerSample + PerSample)
              /\ j * PerSample \in Nat
          BY <2>1, <4>1, <4>2, FramesBetween
        <5> DEFINE q == j * PerSample
        <5>2. q \in Nat /\ q + PerSample \in Nat /\ q <= q + PerSample /\ PerSample >= 1
              /\ (q + PerSample) - q = PerSample
          BY <5>1, Numbers
        <5>3. d.frames = Between(q, q + PerSample)
          BY <5>1
        <5> HIDE DEF q
        <5>4. Len(d.frames) = PerSample
          BY <5>2, <5>3, BetweenSeq
        <5>5. QED
          BY <5>2, <5>4, EmptySeq
      <4>4. x = AfterTrim(d.frames)
        BY <4>3
      <4> HIDE DEF x
      <4>5. Progress(s, n, j)
        BY <1>21 DEF j
      <4>6. UNCHANGED <<file, damage>> /\ Sound /\ dec.state = "running"
        BY <1>2, <1>3, <1>6
      <4>7. /\ h'.skip = AfterTrim(d.frames).skip /\ h'.samples = AfterTrim(d.frames).samples
            /\ h'.empty = AfterTrim(d.frames).empty
        BY <2>8, <4>4
      <4>8. QED
        BY <1>9, <1>17, <2>1, <2>9, <4>1, <4>2, <4>5, <4>6, <4>7, SamplePlayed
    <3>3. QED
      BY <3>1, <3>2
  <2>11. (k + 1) - 1 = j + 1 /\ k + 1 \in 1..m + 1
    BY <1>17, <2>1
  <2>12. \E i \in 1..m + 1 : AtSample(i)' /\ Progress(s, n, i - 1)'
    <3> HIDE DEF j
    <3>1. Progress(s, n, (k + 1) - 1)'
      BY <2>10, <2>11
    <3>2. QED
      BY <2>7, <2>11, <3>1
  <2>13. QED
    BY <2>5, <2>10, <2>12 DEF Playing
<1>22. CASE Playing(s, n, m)
  <2>1. PICK k \in 1..m + 1 : AtSample(k) /\ Progress(s, n, k - 1)
    BY <1>22 DEF Playing
  <2>2. CASE k \in 1..m
    BY <1>21, <2>1, <2>2
  <2>3. CASE k \notin 1..m
    <3>1. k = m + 1 /\ k - 1 = m /\ AtSample(m + 1)
      BY <1>17, <2>1, <2>3
    <3>2. out = file.wanted
      <4>1. Progress(s, n, m)
        BY <2>1, <3>1
      <4>2. QED
        BY <1>9, <1>17, <4>1, PlayedOut
    <3>3. CASE m + 1 \in DOMAIN file.at
      <4>1. rd = file.at[m + 1]
        BY <1>7, <1>17, <3>1, <3>3 DEF AtSample, SampleAt
      <4>2. ~(file.sizes[m + 1] <= Offered)
        <5> DEFINE size == file.sizes[m + 1]
        <5>1. size \in Nat
          BY <1>17, <3>3
        <5>2. file.cut < rd + size
          BY <1>19, <3>3, <4>1
        <5>3. Used = arrived - rd
          BY DEF Used
        <5> HIDE DEF size
        <5>4. ~(size <= Offered)
          BY <1>13, <1>17, <5>1, <5>2, <5>3
        <5>5. QED
          BY <5>4 DEF size
      <4>3. d.frames = << >>
        BY <1>13, <3>3, <4>1, <4>2, PartOfSample
      <4>4. closed
        BY <1>2, <1>7, <3>3, <4>1, <4>2, ShortOffer
      <4>5. More(h) => m + 1 <= h.chunks[h.nextchunk + 1].sample
        BY <3>1 DEF AtSample, Counts
      <4>6. file.at[m + 1] <= rd
        BY <1>17, <4>1
      <4>7. QED
        BY <1>20, <3>2, <3>3, <4>3, <4>4, <4>5, <4>6
    <3>4. CASE m + 1 \notin DOMAIN file.at
      <4>1. m + 1 \in 1..Len(file.at) + 1
        BY <1>17
      <4>2. Used = 0 /\ ~ChunkEnds
        BY <1>2, <1>7, <3>1, <3>4, <4>1, BehindLast
      <4>3. d.consumed = 0 /\ failed
        BY <1>13, <1>14, <4>2 DEF failed
      <4>4. out' = out
        BY <1>12, <4>3
      <4>5. QED
        BY <1>2, <1>3, <3>2, <4>3, <4>4, AllPlayed
    <3>5. QED
      BY <3>3, <3>4
  <2>4. QED
    BY <2>2, <2>3
<1>23. CASE Torn(m)
  <2>1. out = file.wanted
    BY <1>23 DEF Torn
  <2>2. ASSUME NEW k \in m + 2..Len(file.at) + 1, AtSample(k) PROVE FALSE
    <3>1. rd = SampleAt(k)
      BY <1>7, <1>17, <2>2 DEF AtSample
    <3>2. file.cut < rd
      BY <1>18, <3>1
    <3>3. QED
      BY <1>17, <3>2
  <2>3. InTorn(m + 1)
    BY <1>23, <2>2 DEF Torn
  <2>4. m + 1 \in DOMAIN file.at /\ closed /\ file.at[m + 1] < rd
        /\ (More(h) => m + 1 <= h.chunks[h.nextchunk + 1].sample)
    BY <2>3 DEF InTorn
  <2>5. file.at[m + 1] \in Nat /\ file.at[m + 1] <= rd
    BY <1>17, <2>4
  <2>6. Offered = 0
    <3>1. Used = 0
      BY <1>13, <1>17, <1>19, <2>4, <2>5 DEF Used
    <3>2. QED
      BY <1>13, <3>1
  <2>7. d.frames = << >>
    BY <1>14, <2>6
  <2>8. QED
    BY <1>20, <2>1, <2>4, <2>5, <2>7
<1>24. QED
  BY <1>9, <1>22, <1>23

(* A sample of an alac file.                                               *)
LEMMA AlacPlays ==
  ASSUME TypeInv, SampleInv, PlayInv, AlacFrame
  PROVE  Steps /\ PlayInv'
<1>1. PICK d \in Decodes(BlockSize) :
        LET failed == d.frames = << >>
            backwards == ~failed /\ ChunkEnds /\ ChunkGap <= 0
            next == [AfterTrim(d.frames) EXCEPT
                       !.block = IF BlockSize # h.default THEN @ + 1 ELSE @]
        IN
        /\ IF failed \/ backwards THEN Stay(h)
           ELSE IF ChunkEnds THEN NextChunk(next)
           ELSE Advance(BlockSize, Counted(next))
        /\ Returns(IF failed \/ backwards THEN "error" ELSE "running")
        /\ out' = IF failed \/ backwards THEN out ELSE out \o Trimmed(d.frames)
  BY DEF AlacFrame
<1> DEFINE failed == d.frames = << >> \/ (ChunkEnds /\ ChunkGap <= 0)
           x == Behind(d.frames)
<1>2. /\ dec.pc = "frame" /\ file.codec = "alac" /\ (h.default > 0 \/ h.table # NoTable)
      /\ Used >= BlockSize
      /\ UNCHANGED <<file, arrived, closed, turn, damage>>
  BY DEF AlacFrame, Sized
<1>3. dec.state = "running" /\ ~dec.new
  BY <1>2 DEF TypeInv, CallInv
<1>4. ~dec'.new /\ dec'.state = IF failed THEN "error" ELSE "running"
  BY <1>1, <1>3, ReturnsTyped
<1>5. CASE ~Sound
  BY <1>2, <1>5 DEF PlayInv, Sound, Steps, Track!Next, Track!Spoilt
<1>6. SUFFICES ASSUME Sound PROVE Steps /\ PlayInv'
  BY <1>5
<1>7. /\ Laid(file, h) /\ file.at[1] > 0 /\ h.consume = 0
      /\ \E k \in 1..Len(file.at) + 1 : AtSample(k)
  BY <1>2, <1>3, <1>6 DEF SampleInv, InTorn
<1>8. ~failed => IF ChunkEnds THEN NextChunk(x) ELSE Advance(BlockSize, Counted(x))
  BY <1>1 DEF Behind
<1>9. out' = IF failed THEN out ELSE out \o Trimmed(d.frames)
  BY <1>1
<1>10. /\ BlockSize \in Nat /\ d.frames \in Seq(Nat)
       /\ d.frames # << >> => BlockSize > 0
  <2>1. BlockSize \in Nat
    BY <1>2, BlockSizeTyped
  <2>2. QED
    BY <2>1, DecodesTyped
<1>11. /\ Len(file.at) \in Nat /\ DOMAIN file.at = 1..Len(file.at)
       /\ rd \in Nat /\ arrived \in Nat /\ file.cut \in Nat /\ arrived <= file.cut
       /\ \A k \in 1..Len(file.at) : file.at[k] \in Nat /\ file.sizes[k] \in Nat
  BY <1>7, SamplesTyped, Buffered DEF TypeInv, TypeOK
<1> HIDE DEF failed, x
<1>12. ASSUME out = file.wanted, failed PROVE Steps /\ PlayInv'
  <2>1. Steps
    BY <1>2, <1>3, <1>9, <1>12, AllPlayed
  <2>2. QED
    BY <1>4, <1>12, <2>1 DEF PlayInv
<1>13. ASSUME NEW k \in 1..Len(file.at) + 1, k \notin DOMAIN file.at, AtSample(k) PROVE failed
  <2>1. Used = 0
    BY <1>2, <1>7, <1>13, BehindLast
  <2>2. d.frames = << >>
    BY <1>2, <1>10, <2>1
  <2>3. QED
    BY <2>2 DEF failed
<1>14. CASE Mute
  <2>1. out = file.wanted
    BY <1>14 DEF Mute
  <2>2. ~h.config
    BY <1>2, <1>14 DEF Mute, Decodable
  <2>3. PICK k \in 1..Len(file.at) + 1 : AtSample(k)
    BY <1>7
  <2>4. CASE k \in DOMAIN file.at
    <3>1. rd = file.at[k]
      BY <1>7, <1>11, <2>3, <2>4 DEF AtSample, SampleAt
    <3>2. d.frames = << >>
      BY <2>2, <2>4, <3>1 DEF Decodes, Error
    <3>3. failed
      BY <3>2 DEF failed
    <3>4. QED
      BY <1>12, <2>1, <3>3
  <2>5. CASE k \notin DOMAIN file.at
    BY <1>12, <1>13, <2>1, <2>3, <2>5
  <2>6. QED
    BY <2>4, <2>5
<1>15. CASE ~Mute
  <2>1. PICK s \in 0..Word - 1, n \in 0..Word - 1, m \in 0..Len(file.at) :
          Decodable(file, h) /\ Plan(file, s, n, m) /\ (Playing(s, n, m) \/ Torn(m))
    BY <1>3, <1>6, <1>15 DEF PlayInv
  <2>2. Decodable(file, h) /\ Plan(file, s, n, m) /\ ~file.lead
    BY <1>2, <2>1 DEF Plan
  <2>3. PICK k \in 1..m + 1 : AtSample(k) /\ Progress(s, n, k - 1)
    BY <1>2, <2>1 DEF Torn, Playing
  <2>4. /\ m \in Nat /\ m <= Len(file.at)
        /\ \A i \in 1..m : i \in DOMAIN file.at /\ file.at[i] + file.sizes[i] <= file.cut
    BY <1>7, <2>2, SentWhole DEF TypeInv, Plan
  <2>5. CASE k \notin 1..m
    <3>1. k = m + 1 /\ k - 1 = m
      BY <2>3, <2>4, <2>5
    <3>2. out = file.wanted
      <4>1. Progress(s, n, m)
        BY <2>3, <3>1
      <4>2. QED
        BY <2>2, <2>4, <4>1, PlayedOut
    <3>3. k \notin DOMAIN file.at
      <4>1. SUFFICES ASSUME k \in DOMAIN file.at PROVE FALSE
        OBVIOUS
      <4>2. m < Len(file.at)
        BY <1>11, <2>4, <3>1, <4>1
      <4>3. file.cut < file.at[k] + file.sizes[k]
        BY <2>2, <3>1, <4>2 DEF Plan, Sent
      <4>4. rd = file.at[k] /\ file.sizes[k] \in Nat
        BY <1>7, <1>11, <2>3, <4>1 DEF AtSample, SampleAt
      <4>5. BlockSize = file.sizes[k]
        BY <1>2, <1>7, <2>3, <4>1, BlockFits DEF AtSample
      <4> DEFINE size == file.sizes[k]
      <4>6. size \in Nat /\ file.cut < rd + size /\ BlockSize = size /\ Used = arrived - rd
        BY <4>3, <4>4, <4>5 DEF Used
      <4> HIDE DEF size
      <4>7. QED
        BY <1>2, <1>11, <4>6
    <3>4. k \in 1..Len(file.at) + 1
      BY <1>11, <2>4, <3>1
    <3>5. QED
      BY <1>12, <1>13, <2>3, <3>2, <3>3, <3>4
  <2>6. CASE k \in 1..m
    <3> DEFINE j == k - 1
    <3>1. k \in DOMAIN file.at /\ j \in Nat /\ j < m /\ k = j + 1 /\ k \in Nat
          /\ (k + 1) - 1 = j + 1 /\ k + 1 \in 1..m + 1
      BY <2>4, <2>6
    <3>2. rd = file.at[k]
      BY <1>7, <1>11, <2>3, <3>1 DEF AtSample, SampleAt
    <3>3. BlockSize = file.sizes[k] /\ file.sizes[k] >= 1
      BY <1>2, <1>7, <2>3, <3>1, BlockFits DEF AtSample
    <3>4. d.frames = FramesOf(k)
      <4>1. h.config /\ file.sizes[k] <= BlockSize
        BY <1>2, <1>10, <2>2, <3>3 DEF Decodable
      <4>2. QED
        BY <1>10, <3>1, <3>2, <4>1, WholeSample
    <3> HIDE DEF j
    <3>5. d.frames = FramesOf(j + 1)
      BY <3>1, <3>4
    <3>6. d.frames # << >>
      <4>1. d.frames = Between(j * PerSample, j * PerSample + PerSample)
            /\ j * PerSample \in Nat
        BY <2>2, <3>1, <3>5, FramesBetween
      <4> DEFINE q == j * PerSample
      <4>2. q \in Nat /\ q + PerSample \in Nat /\ q <= q + PerSample /\ PerSample >= 1
            /\ (q + PerSample) - q = PerSample
        BY <4>1, Numbers
      <4>3. d.frames = Between(q, q + PerSample)
        BY <4>1
      <4> HIDE DEF q
      <4>4. Len(d.frames) = PerSample
        BY <4>2, <4>3, BetweenSeq
      <4>5. QED
        BY <4>2, <4>4, EmptySeq
    <3>7. ~failed
      <4>1. ChunkEnds => ~(ChunkGap <= 0)
        BY <1>2, <1>7, <2>3, <3>1, GapAhead
      <4>2. QED
        BY <3>6, <4>1 DEF failed
    <3>8. dec'.state = "running" /\ out' = out \o Trimmed(d.frames)
          /\ IF ChunkEnds THEN NextChunk(x) ELSE Advance(BlockSize, Counted(x))
      BY <1>4, <1>8, <1>9, <3>7
    <3>9. /\ AtSample(k + 1)' /\ x \in Handle
          /\ x.skip = AfterTrim(d.frames).skip /\ x.samples = AfterTrim(d.frames).samples
          /\ x.empty = AfterTrim(d.frames).empty
          /\ x.config = h.config /\ x.default = h.default /\ x.table = h.table
      <4>1. IF ChunkEnds THEN NextChunk(Behind(d.frames))
            ELSE Advance(BlockSize, Counted(Behind(d.frames)))
        BY <3>8 DEF x
      <4>2. BlockSize > 0
        BY <1>10, <3>6
      <4>3. QED
        BY <1>2, <1>7, <1>10, <2>3, <3>1, <4>1, <4>2, BlockPassed DEF x
    <3>10. /\ h'.skip = x.skip /\ h'.samples = x.samples /\ h'.empty = x.empty
           /\ h'.config = x.config /\ h'.default = x.default /\ h'.table = x.table
      BY <3>8, <3>9, TrimPassed
    <3>11. Steps /\ Progress(s, n, j + 1)'
      <4>1. ~(file.lead /\ j = 0) /\ Progress(s, n, j)
        BY <2>2, <2>3 DEF j
      <4>2. UNCHANGED <<file, damage>> /\ Sound /\ dec.state = "running"
        BY <1>2, <1>3, <1>6
      <4>3. /\ h'.skip = AfterTrim(d.frames).skip /\ h'.samples = AfterTrim(d.frames).samples
            /\ h'.empty = AfterTrim(d.frames).empty
        BY <3>9, <3>10
      <4>4. QED
        BY <1>11, <2>2, <2>4, <3>1, <3>5, <3>8, <4>1, <4>2, <4>3, SamplePlayed
    <3>12. Playing(s, n, m)'
      <4>1. Progress(s, n, (k + 1) - 1)'
        BY <3>1, <3>11
      <4>2. \E i \in 1..m + 1 : AtSample(i)' /\ Progress(s, n, i - 1)'
        BY <3>1, <3>9, <4>1
      <4>3. QED
        BY <4>2 DEF Playing
    <3>13. Decodable(file, h)'
      BY <1>2, <2>2, <3>9, <3>10 DEF Decodable
    <3>14. Plan(file, s, n, m)' /\ m \in 0..Len(file'.at)
      BY <1>2, <2>1
    <3>15. PlayInv'
      BY <3>12, <3>13, <3>14 DEF PlayInv
    <3>16. QED
      BY <3>11, <3>15
  <2>7. QED
    BY <2>5, <2>6
<1>16. QED
  BY <1>14, <1>15

(* The first of the samples is found.                                      *)
LEMMA MediaPlays ==
  ASSUME TypeInv, HeaderInv, RoomInv, ProperFiles, PaddedFiles,
         NEW i \in DOMAIN file.boxes, MediaFound(i)
  PROVE  PlayInv'
<1> SUFFICES ASSUME Sound' PROVE PlayInv'
  BY DEF PlayInv
<1>1. /\ dec.pc = "header" /\ Reading(i) /\ file.boxes[i].type = "mdat" /\ h.play > 0
      /\ UNCHANGED <<file, out>> /\ damage \subseteq damage'
  BY DEF MediaFound, Reading
<1>2. Sound /\ dec.new /\ dec.state = "running" /\ h.consume = 0
  BY <1>1 DEF Sound, TypeInv, CallInv, HeaderInv
<1>3. PICK j \in 1..Len(file.boxes) + 1 : \E x \in Openings(file.codec) :
        AtBox(j, x) /\ Proper(file, x) /\ Padded(file, x) /\ FileOK(file)
  BY <1>2, HeaderAt
<1>4. PICK x \in Openings(file.codec) :
        AtBox(j, x) /\ Proper(file, x) /\ Padded(file, x) /\ FileOK(file)
  BY <1>3
<1>5. i = j
  BY <1>1, <1>2, <1>4, TheBox
<1> DEFINE y == Heads(file, x)[i - 1]
<1>6. Alike(h, y) /\ \A m \in 1..i - 1 : file.boxes[m].type # "mdat"
  BY <1>4, <1>5 DEF AtBox
<1>7. out = << >> /\ ~h.empty /\ \A m \in 1..i - 1 : HasRoom(file, file.boxes[m])
  BY <1>2, <1>4, <1>5 DEF RoomInv, AtBox
<1>8. y.play > 0 /\ y.skip = h.skip /\ y.samples = h.samples
  BY <1>1, <1>6 DEF Alike
<1>9. IF Decodable(file, y) THEN \E m \in 0..Len(file.at) : Plan(file, y.skip, y.samples, m)
      ELSE file.wanted = << >>
  BY <1>1, <1>4, <1>6, <1>7, <1>8 DEF Padded
<1>10. /\ AtSample(1)'
       /\ h'.config = h.config /\ h'.default = h.default /\ h'.table = h.table
       /\ h'.skip = h.skip /\ h'.samples = h.samples /\ h'.empty = h.empty
  BY FirstFound
<1>11. Decodable(file, h)' <=> Decodable(file, y)
  BY <1>1, <1>6, <1>10 DEF Decodable, Alike
<1> HIDE DEF y
<1>12. CASE ~Decodable(file, y)
  BY <1>1, <1>7, <1>9, <1>11, <1>12 DEF PlayInv, Mute
<1>13. CASE Decodable(file, y)
  <2>1. PICK s \in 0..Word - 1, n \in 0..Word - 1 : s = h.skip /\ n = h.samples
    BY DEF TypeInv, TypeOK, Handle
  <2>2. PICK m \in 0..Len(file.at) : Plan(file, s, n, m)
    BY <1>8, <1>9, <1>13, <2>1
  <2>3. Between(Begin(file, s), Finish(file, s, n, 0)) = << >>
    <3> DEFINE b == Begin(file, s)
    <3>1. PerSample \in Nat /\ s \in Nat /\ n \in Nat /\ 0 * PerSample = 0
      BY Numbers
    <3>2. b \in Nat
      BY <3>1 DEF Begin
    <3>3. Finish(file, s, n, 0) = IF n > 0 THEN LesserOf(0, b + n) ELSE 0
      BY <3>1 DEF Finish
    <3> HIDE DEF b
    <3>4. Finish(file, s, n, 0) = 0
      BY <3>1, <3>2, <3>3 DEF LesserOf
    <3>5. QED
      BY <3>2, <3>4, BetweenSeq DEF b
  <2>4. Progress(s, n, 0)'
    <3>1. out' = Between(Begin(file', s), Finish(file', s, n, 0)) /\ Len(out') = 0
      BY <1>1, <1>7, <2>3, EmptySeq
    <3>2. h'.skip = s /\ h'.samples = n /\ ~h'.empty
      BY <1>7, <1>10, <2>1
    <3>3. LesserOf(s, 0 * PerSample) = 0 /\ LesserOf(n, Len(out')) = 0
      <4>1. 0 * PerSample = 0 /\ s \in Nat /\ n \in Nat
        BY Numbers
      <4>2. QED
        BY <3>1, <4>1 DEF LesserOf
    <3>4. s = s - 0 /\ n = n - 0
      BY Numbers
    <3>5. QED
      BY <3>1, <3>2, <3>3, <3>4 DEF Progress
  <2>5. Playing(s, n, m)'
    <3>1. 1 \in 1..m + 1 /\ 1 - 1 = 0
      <4>1. m \in Nat
        <5>1. Len(file.at) \in Nat
          BY <1>4 DEF FileOK
        <5>2. QED
          BY <2>2, <5>1
      <4>2. QED
        BY <4>1
    <3>2. \E k \in 1..m + 1 : AtSample(k)' /\ Progress(s, n, k - 1)'
      BY <1>10, <2>4, <3>1
    <3>3. QED
      BY <3>2 DEF Playing
  <2>6. Plan(file, s, n, m)' /\ m \in 0..Len(file'.at)
    BY <1>1, <2>2
  <2>7. QED
    BY <1>11, <1>13, <2>5, <2>6 DEF PlayInv
<1>14. QED
  BY <1>12, <1>13

(* When all has been taken out of streambuf all is heard.                  *)
LEMMA NothingLeft ==
  ASSUME TypeInv, AllSent, SampleInv, PlayInv, Sound, ~dec.new, dec.state = "running",
         closed, Used = 0
  PROVE  out = file.wanted
<1>1. SUFFICES ASSUME ~Mute PROVE out = file.wanted
  BY DEF Mute
<1>2. Laid(file, h)
  BY DEF SampleInv
<1>3. PICK s \in 0..Word - 1, n \in 0..Word - 1, m \in 0..Len(file.at) :
        Plan(file, s, n, m) /\ (Playing(s, n, m) \/ Torn(m))
  BY <1>1 DEF PlayInv
<1>4. SUFFICES ASSUME Playing(s, n, m) PROVE out = file.wanted
  BY <1>3 DEF Torn
<1>5. PICK k \in 1..m + 1 : AtSample(k) /\ Progress(s, n, k - 1)
  BY <1>4 DEF Playing
<1>6. /\ m \in Nat /\ m <= Len(file.at)
      /\ \A i \in 1..m : i \in DOMAIN file.at /\ file.at[i] + file.sizes[i] <= file.cut
  BY <1>2, <1>3, SentWhole DEF TypeInv, Plan
<1>7. k \notin 1..m
  <2>1. SUFFICES ASSUME k \in 1..m PROVE FALSE
    OBVIOUS
  <2>2. /\ k \in DOMAIN file.at /\ file.at[k] + file.sizes[k] <= file.cut
    BY <1>6, <2>1
  <2>3. file.at[k] \in Nat /\ file.sizes[k] \in Nat /\ file.sizes[k] >= 1
    BY <1>2, <2>2, SamplesTyped DEF TypeInv
  <2>4. rd + h.consume = file.at[k]
    BY <1>5, <2>2 DEF AtSample, SampleAt
  <2>5. rd \in Nat /\ arrived \in Nat /\ h.consume \in Nat /\ arrived = file.cut
    BY Buffered DEF TypeInv, TypeOK, Handle, AllSent
  <2>6. QED
    BY <2>2, <2>3, <2>4, <2>5 DEF Used
<1>8. k = m + 1 /\ k - 1 = m
  BY <1>5, <1>6, <1>7
<1>9. Progress(s, n, m)
  BY <1>5, <1>8
<1>10. QED
  BY <1>3, <1>6, <1>9, PlayedOut

(* alac.c ends a track: all its samples are behind, or it has no sizes.    *)
LEMMA AlacEnds ==
  ASSUME TypeInv, AllSent, SampleInv, PlayInv, AlacComplete \/ NoSizes
  PROVE  Steps /\ PlayInv'
<1>1. /\ dec.pc = "frame" /\ file.codec = "alac" /\ UNCHANGED <<file, out, damage>>
      /\ Returns("complete") \/ Returns("crash")
  BY DEF AlacComplete, NoSizes, Sized
<1>2. dec.state = "running" /\ ~dec.new
  BY <1>1 DEF TypeInv, CallInv
<1>3. dec'.state # "running"
  BY <1>1, ReturnsTyped
<1>4. PlayInv'
  BY <1>3 DEF PlayInv
<1>5. ASSUME Sound PROVE out = file.wanted
  <2>1. CASE NoSizes
    <3>1. h.default = 0 /\ h.table = NoTable
      BY <2>1 DEF NoSizes
    <3>2. ~Decodable(file, h)
      BY <1>1, <3>1 DEF Decodable
    <3>3. QED
      BY <1>2, <1>5, <3>2 DEF PlayInv, Mute
  <2>2. CASE AlacComplete /\ Used = 0
    <3>1. closed
      BY <2>2 DEF AlacComplete
    <3>2. QED
      BY <1>2, <1>5, <2>2, <3>1, NothingLeft
  <2>3. CASE AlacComplete /\ BlockSize = 0
    <3>1. SUFFICES ASSUME ~Mute PROVE out = file.wanted
      BY DEF Mute
    <3>2. /\ Laid(file, h) /\ (h.default > 0 \/ h.table # NoTable)
      BY <1>2, <1>5, <2>3 DEF SampleInv, AlacComplete, Sized
    <3>3. PICK s \in 0..Word - 1, n \in 0..Word - 1, m \in 0..Len(file.at) :
            Plan(file, s, n, m) /\ (Playing(s, n, m) \/ Torn(m))
      BY <1>2, <1>5, <3>1 DEF PlayInv
    <3>4. PICK k \in 1..m + 1 : AtSample(k) /\ Progress(s, n, k - 1)
      BY <1>1, <3>3 DEF Torn, Playing
    <3>5. /\ m \in Nat /\ m <= Len(file.at)
          /\ \A i \in 1..m : i \in DOMAIN file.at
      BY <3>2, <3>3, SentWhole DEF TypeInv, Plan
    <3>6. k \notin DOMAIN file.at
      <4>1. SUFFICES ASSUME k \in DOMAIN file.at PROVE FALSE
        OBVIOUS
      <4>2. BlockSize = file.sizes[k] /\ file.sizes[k] >= 1
        BY <1>1, <3>2, <3>4, <4>1, BlockFits DEF AtSample
      <4>3. QED
        BY <2>3, <4>2
    <3>7. k = m + 1 /\ k - 1 = m
      BY <3>4, <3>5, <3>6
    <3>8. Progress(s, n, m)
      BY <3>4, <3>7
    <3>9. QED
      BY <3>3, <3>5, <3>8, PlayedOut
  <2>4. QED
    BY <2>1, <2>2, <2>3 DEF AlacComplete
<1>6. Steps
  BY <1>1, <1>2, <1>3, <1>5, EndStep
<1>7. QED
  BY <1>4, <1>6

(* faad.c ends a track: all that was sent is consumed, so all was heard.   *)
LEMMA AacEnds ==
  ASSUME TypeInv, AllSent, HeaderInv, SampleInv, RoomInv, PlayInv, ProperFiles, PaddedFiles,
         AacComplete
  PROVE  Steps /\ PlayInv'
<1>1. /\ dec.state = "running" /\ UNCHANGED <<file, out, damage>>
      /\ Returns("complete") /\ closed /\ Used = 0
  BY DEF AacComplete, Called
<1>2. dec'.state # "running"
  BY <1>1, ReturnsTyped
<1>3. PlayInv'
  BY <1>2 DEF PlayInv
<1>4. ASSUME Sound PROVE out = file.wanted
  BY <1>1, <1>4, HeaderStops, NothingLeft
<1>5. QED
  BY <1>1, <1>2, <1>3, <1>4, EndStep

-----------------------------------------------------------------------------
(* The theorem.                                                            *)

(* The inductive invariant.                                                *)
PlaysInv == AlignInv /\ RoomInv /\ PlayInv

(* In the header: nothing is handed on, and the track ends there only if   *)
(* there is nothing to hear; behind it the first sample is next.           *)
LEMMA HeaderPlays ==
  ASSUME TypeInv, HeaderInv, RoomInv, ProperFiles, PaddedFiles, ReadHeader
  PROVE  Steps /\ PlayInv'
<1>1. dec.pc = "header" /\ dec.new /\ dec.state = "running" /\ dec \in Calls
  <2>1. dec.pc = "header"
    BY DEF ReadHeader, HeaderEnds, Box, MediaFound, NotPlayable, ConsumeBox, ConsumePart,
           Linearize, TooLarge, Wait, Unwrap, Lacking, Reading
  <2>2. QED
    BY <2>1 DEF TypeInv, TypeOK, CallInv
<1>2. ASSUME UNCHANGED <<file, out>>, damage \subseteq damage', dec'.state = "running", dec'.new
      PROVE  Steps /\ PlayInv'
  BY <1>1, <1>2, QuietStep DEF PlayInv
<1>3. CASE HeaderEnds
  BY <1>1, <1>2, <1>3, ReturnsTyped DEF HeaderEnds
<1>4. ASSUME NEW i \in DOMAIN file.boxes, Wait(i) \/ Unwrap(i) \/ Linearize(i) \/ ConsumePart(i)
      PROVE  Steps /\ PlayInv'
  <2>1. UNCHANGED <<file, out>> /\ damage \subseteq damage' /\ Returns("running")
    BY <1>4 DEF Wait, Unwrap, Linearize, ConsumePart
  <2>2. QED
    BY <1>1, <1>2, <2>1, ReturnsTyped
<1>5. ASSUME NEW i \in DOMAIN file.boxes, ConsumeBox(i) PROVE Steps /\ PlayInv'
  <2>1. /\ UNCHANGED <<file, out>> /\ damage \subseteq damage'
        /\ dec' = [dec EXCEPT !.bytes = @ - Own(file.boxes[i])]
    BY <1>5 DEF ConsumeBox
  <2>2. dec'.new /\ dec'.state = "running"
    BY <1>1, <2>1 DEF Calls
  <2>3. QED
    BY <1>2, <2>1, <2>2
<1>6. ASSUME NEW i \in DOMAIN file.boxes, TooLarge(i) \/ NotPlayable(i)
      PROVE  Steps /\ PlayInv'
  <2>1. UNCHANGED <<file, out, damage>> /\ Returns("error")
    BY <1>6 DEF TooLarge, NotPlayable
  <2>2. dec'.state # "running"
    BY <2>1, ReturnsTyped
  <2>3. Sound => out = file.wanted
    BY <1>1, <1>6, HeaderStops
  <2>4. Steps
    BY <1>1, <2>1, <2>2, <2>3, EndStep
  <2>5. QED
    BY <2>2, <2>4 DEF PlayInv
<1>7. ASSUME NEW i \in DOMAIN file.boxes, MediaFound(i) PROVE Steps /\ PlayInv'
  <2>1. /\ UNCHANGED <<file, out>> /\ damage \subseteq damage'
        /\ dec' = [dec EXCEPT !.new = FALSE, !.pc = "frame"]
    BY <1>7 DEF MediaFound
  <2>2. dec'.state = dec.state
    BY <1>1, <2>1 DEF Calls
  <2>3. Steps
    BY <2>1, <2>2, QuietStep
  <2>4. QED
    BY <1>7, <2>3, MediaPlays
<1>8. QED
  BY <1>3, <1>4, <1>5, <1>6, <1>7 DEF ReadHeader, Box

(* Steps that hand nothing on and go on.                                   *)
LEMMA OtherPlays ==
  ASSUME TypeInv, RoomInv, PlayInv, Feed \/ Close \/ Consume \/ DecodeBegins \/ AlacWait
  PROVE  Steps /\ RoomInv' /\ PlayInv'
<1>1. CASE Consume
  <2>1. /\ h.consume > 0 /\ Alike(h', h) /\ rd' + h'.consume = rd + h.consume
        /\ UNCHANGED <<file, out, damage>>
        /\ dec'.new = dec.new /\ dec'.state = dec.state
    BY <1>1, ConsumeKeeps
  <2>2. \A k : ~InTorn(k)
    BY <2>1 DEF InTorn
  <2>3. Steps
    BY <2>1, QuietStep
  <2>4. RoomInv'
    BY <2>1, RoomKept DEF Alike
  <2>5. PlayInv'
    BY <2>1, <2>2, PlayKept
  <2>6. QED
    BY <2>3, <2>4, <2>5
<1>2. CASE Feed \/ Close \/ DecodeBegins \/ AlacWait
  <2>1. /\ UNCHANGED <<file, rd, h, out, damage>> /\ (closed => closed')
        /\ dec'.new = dec.new /\ dec'.state = dec.state
    <3>1. CASE Feed \/ Close
      BY <3>1 DEF Feed, Close
    <3>2. CASE DecodeBegins
      BY <3>2 DEF DecodeBegins, TypeInv, TypeOK, Calls
    <3>3. CASE AlacWait
      <4>1. dec.state = "running"
        BY <3>3 DEF AlacWait, Sized, TypeInv, CallInv
      <4>2. QED
        BY <3>3, <4>1, ReturnsTyped DEF AlacWait
    <3>4. QED
      BY <1>2, <3>1, <3>2, <3>3
  <2>2. \A k : InTorn(k) => InTorn(k)'
    BY <2>1 DEF InTorn, More
  <2>3. Steps
    BY <2>1, QuietStep
  <2>4. RoomInv'
    BY <2>1, RoomKept
  <2>5. Alike(h', h)
    BY <2>1, AlikeItself
  <2>6. PlayInv'
    BY <2>1, <2>2, <2>5, PlayKept
  <2>7. QED
    BY <2>3, <2>4, <2>6
<1>3. QED
  BY <1>1, <1>2

(* Only the first box starts where the file does.                          *)
LEMMA OnlyFirst ==
  ASSUME NEW f, FileOK(f), NEW i \in 1..Len(f.boxes) + 1, BoxAt(f, i) = 0
  PROVE  i = 1
<1>1. Len(f.boxes) \in Nat
  BY BoxesTyped
<1>2. 1 \in 1..Len(f.boxes) + 1 /\ BoxAt(f, 1) = 0
  BY <1>1, BoxSteps
<1>3. SUFFICES ASSUME i # 1 PROVE FALSE
  OBVIOUS
<1>4. 1 < i
  BY <1>1, <1>3
<1>5. BoxAt(f, 1) < BoxAt(f, i)
  BY <1>2, <1>4, BoxesApart
<1>6. QED
  BY <1>2, <1>5

(* A handle as codec_open leaves it.                                       *)
LEMMA NewHandle ==
  ASSUME NEW codec, NEW x, \/ \E m, n \in Nat : x = Opened(m, n)
                           \/ x \in NewHandles(codec)
  PROVE  ~x.empty /\ x.consume = 0
BY DEF NewHandles, Opened

(* A track behind another starts anew.                                     *)
LEMMA ReopenPlays ==
  ASSUME TypeInv, Reopen
  PROVE  Steps /\ RoomInv' /\ PlayInv'
<1>1. PICK f \in Files :
        /\ file' = f
        /\ h' \in IF f.codec = "aac" /\ file.codec = "aac"
                   THEN {Opened(h.trak, h.play)} ELSE NewHandles(f.codec)
  BY DEF Reopen
<1>2. FileOK(f) /\ rd' = 0 /\ dec' = Fresh /\ out' = << >> /\ damage' = {}
  BY Mp4Assumption DEF Reopen
<1>3. ~h'.empty /\ h'.consume = 0
  <2>1. h.trak \in Nat /\ h.play \in Nat
    BY DEF TypeInv, TypeOK, Handle
  <2>2. QED
    BY <1>1, <2>1, NewHandle
<1>4. dec'.state = "running" /\ dec'.new
  BY <1>2 DEF Fresh
<1>5. PlayInv'
  BY <1>4 DEF PlayInv
<1>6. RoomInv'
  <2>1. ASSUME NEW i \in 1..Len(f.boxes) + 1, rd' + h'.consume = BoxAt(f, i)
        PROVE  \A j \in 1..i - 1 : HasRoom(f, f.boxes[j])
    <3>1. BoxAt(f, i) = 0
      BY <1>2, <1>3, <2>1
    <3>2. i = 1
      BY <1>2, <3>1, OnlyFirst
    <3>3. 1..i - 1 = {}
      BY <3>2
    <3>4. QED
      BY <3>3
  <2>2. QED
    BY <1>1, <1>2, <1>3, <2>1 DEF RoomInv
<1>7. Steps
  <2>1. Track!Open
    BY <1>2, <1>4 DEF Track!Open, Sound
  <2>2. QED
    BY <2>1 DEF Steps, Track!Next
<1>8. QED
  BY <1>5, <1>6, <1>7

(* A decoder starts with nothing handed on.                                *)
LEMMA InitPlays == Init => Track!Init /\ PlaysInv
<1> SUFFICES ASSUME Init PROVE Track!Init /\ PlaysInv
  OBVIOUS
<1>1. /\ FileOK(file) /\ rd = 0 /\ dec = Fresh /\ out = << >> /\ damage = {}
      /\ h \in NewHandles(file.codec)
  BY Mp4Assumption DEF Init
<1>2. ~h.empty /\ h.consume = 0
  BY <1>1, NewHandle
<1>3. dec.state = "running" /\ dec.new
  BY <1>1 DEF Fresh
<1>4. PlayInv
  BY <1>3 DEF PlayInv
<1>5. RoomInv
  <2>1. ASSUME NEW i \in 1..Len(file.boxes) + 1, rd + h.consume = BoxAt(file, i)
        PROVE  \A j \in 1..i - 1 : HasRoom(file, file.boxes[j])
    <3>1. BoxAt(file, i) = 0
      BY <1>1, <1>2, <2>1
    <3>2. i = 1
      BY <1>1, <3>1, OnlyFirst
    <3>3. 1..i - 1 = {}
      BY <3>2
    <3>4. QED
      BY <3>3
  <2>2. QED
    BY <1>1, <1>2, <2>1 DEF RoomInv
<1>6. AlignInv
  BY InitTyped, InitAligned DEF AlignInv
<1>7. Track!Init
  BY <1>1, <1>3 DEF Track!Init, Sound
<1>8. QED
  BY <1>4, <1>5, <1>6, <1>7 DEF PlaysInv

(* One step.                                                               *)
LEMMA StepPlays ==
  ASSUME ProperFiles, PaddedFiles, PlaysInv, [Next]_vars
  PROVE  Steps /\ PlaysInv'
<1>1. TypeInv /\ AllSent /\ HeaderInv /\ SampleInv /\ RoomInv /\ PlayInv /\ AlignInv
  BY DEF PlaysInv, AlignInv
<1>2. SUFFICES Steps /\ RoomInv' /\ PlayInv'
  BY <1>1, StepAligned DEF PlaysInv
<1>3. ASSUME ~dec'.new \/ dec'.state # "running" PROVE RoomInv'
  BY <1>3 DEF RoomInv
<1>4. CASE Feed \/ Close \/ Consume \/ DecodeBegins \/ AlacWait
  BY <1>1, <1>4, OtherPlays
<1>5. CASE Reopen
  BY <1>1, <1>5, ReopenPlays
<1>6. CASE ReadHeader
  BY <1>1, <1>6, HeaderPlays, HeaderRoom
<1>7. CASE AacFrame \/ AlacFrame \/ AlacComplete \/ NoSizes
  <2>1. dec.pc = "frame" /\ \E state \in {"running", "complete", "error", "crash"} : Returns(state)
    BY <1>7 DEF AacFrame, AlacFrame, AlacComplete, NoSizes, Sized
  <2>2. ~dec'.new
    BY <1>1, <2>1, ReturnsTyped DEF TypeInv, CallInv
  <2>3. Steps /\ PlayInv'
    BY <1>1, <1>7, AacPlays, AlacPlays, AlacEnds
  <2>4. QED
    BY <1>3, <2>2, <2>3
<1>8. CASE AacComplete
  <2>1. Steps /\ PlayInv'
    BY <1>1, <1>8, AacEnds
  <2>2. dec'.state # "running"
    BY <1>1, <1>8, ReturnsTyped DEF AacComplete
  <2>3. QED
    BY <1>3, <2>1, <2>2
<1>9. CASE UNCHANGED vars
  <2>1. UNCHANGED <<file, rd, h, dec, out, damage, closed>>
    BY <1>9 DEF vars
  <2>2. \A k : InTorn(k) => InTorn(k)'
    BY <2>1 DEF InTorn, More
  <2>3. Alike(h', h)
    BY <2>1, AlikeItself
  <2>4. QED
    BY <1>1, <2>1, <2>2, <2>3, QuietStep, RoomKept, PlayKept
<1>10. QED
  BY <1>4, <1>5, <1>6, <1>7, <1>8, <1>9 DEF Next, Decode, Frame

(* Whatever the files, as long as their headers tell where the samples and *)
(* the padding are, and were not spoilt by the pieces they came in: what   *)
(* the decoders hand on are the frames of the track without the encoder's  *)
(* padding, in order and each once, and a decoder says that the track is   *)
(* over when all that was sent of it is handed on (faad.c:463-492,         *)
(* alac.c:411-431).                                                        *)
THEOREM Mp4Plays ==
  ASSUME ProperFiles, PaddedFiles
  PROVE  Spec => PlaysWanted
<1>1. Init => Track!Init /\ PlaysInv
  BY InitPlays
<1>2. PlaysInv /\ [Next]_vars => Steps /\ PlaysInv'
  BY StepPlays
<1>3. QED
  BY <1>1, <1>2, PTL DEF Spec, PlaysWanted, Track!Spec, Steps
=============================================================================

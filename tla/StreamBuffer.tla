---------------------------- MODULE StreamBuffer ----------------------------
(***************************************************************************)
(* The circular buffer of buffer.c as the player uses it: streambuf        *)
(* between the stream thread and a codec, outputbuf between a codec and    *)
(* the output thread.  Every operation runs under the buffer's mutex, so   *)
(* each is one action.  Pointers are offsets from buf: readp = 0 is        *)
(* buf->buf and BufSize is buf->wrap.                                      *)
(*                                                                         *)
(* buf_adjust, _buf_resize, _buf_reset, _buf_read and _buf_write have no   *)
(* caller in this program and are left out.                                *)
(***************************************************************************)
EXTENDS Naturals, Sequences

CONSTANTS
  Byte,      \* the values a byte takes
  BufSize    \* buf->size = wrap - buf, fixed by buf_init

ASSUME BufferAssumption == BufSize \in Nat \ {0} /\ Byte # {}

VARIABLES
  mem,       \* the bytes of buf[0..size-1]
  readp,     \* next byte to read
  writep     \* next byte to write

vars == <<mem, readp, writep>>

Cells == 0..BufSize - 1

(***************************************************************************)
(* The four measures the callers bound their accesses with.                *)
(***************************************************************************)
BufUsed == IF writep >= readp THEN writep - readp
                              ELSE BufSize - (readp - writep)

(* One byte is never used: full would look like empty otherwise. *)
BufSpace == BufSize - BufUsed - 1

ContRead == IF writep >= readp THEN writep - readp ELSE BufSize - readp

ContWrite == IF writep >= readp THEN BufSize - writep ELSE readp - writep

(* Mutant: a pointer may rest on wrap. *)
IncPtrLate(ptr, n) == IF ptr + n > BufSize THEN ptr + n - BufSize ELSE ptr + n

(* _buf_inc_readp and _buf_inc_writep: step over n bytes, wrap once. *)
IncPtr(ptr, n) == IF ptr + n >= BufSize THEN ptr + n - BufSize ELSE ptr + n

LesserOf(a, b) == IF a < b THEN a ELSE b

(***************************************************************************)
(* Contents: the bytes between readp and writep in the order they will be  *)
(* read.                                                                   *)
(***************************************************************************)
Contents == [i \in 1..BufUsed |-> mem[IncPtr(readp, i - 1)]]

Init ==
  /\ mem \in [Cells -> Byte]
  /\ readp = 0
  /\ writep = 0

(***************************************************************************)
(* The producer stores straight at writep, never more than one contiguous  *)
(* run nor more than the space left, then moves writep.                    *)
(***************************************************************************)
Fill ==
  \E n \in 1..LesserOf(BufSpace, ContWrite) : \E chunk \in [1..n -> Byte] :
    /\ mem' = [k \in Cells |-> IF k >= writep /\ k < writep + n
                                 THEN chunk[k - writep + 1] ELSE mem[k]]
    /\ writep' = IncPtr(writep, n)
    /\ UNCHANGED readp

(* The consumer has read n bytes, possibly across the wrap, and drops them. *)
Drain ==
  \E n \in 1..BufUsed :
    /\ readp' = IncPtr(readp, n)
    /\ UNCHANGED <<mem, writep>>

Flush ==
  /\ readp' = 0
  /\ writep' = 0
  /\ UNCHANGED mem

(***************************************************************************)
(* _buf_unwrap when the data does not wrap but too little room is left     *)
(* behind readp for `cont` bytes in one run: everything moves down by the  *)
(* shortage.                                                               *)
(***************************************************************************)
Shortage(cont) == cont - (BufSize - readp)

(* Mutant: the test of a wrapped buffer is forgotten. *)
UnwrapAlways(cont) ==
  /\ cont > BufSize - readp
  /\ cont < BufSize
  /\ Shortage(cont) <= writep
  /\ mem' = [k \in Cells |->
               IF k >= readp - Shortage(cont) /\ k < writep - Shortage(cont)
                 THEN mem[k + Shortage(cont)] ELSE mem[k]]
  /\ readp' = readp - Shortage(cont)
  /\ writep' = writep - Shortage(cont)

UnwrapLinear(cont) ==
  /\ cont > BufSize - readp
  /\ cont < BufSize
  /\ writep >= readp
  /\ mem' = [k \in Cells |->
               IF k >= readp - Shortage(cont) /\ k < writep - Shortage(cont)
                 THEN mem[k + Shortage(cont)] ELSE mem[k]]
  /\ readp' = readp - Shortage(cont)
  /\ writep' = writep - Shortage(cont)

Next ==
  \/ Fill
  \/ Drain
  \/ Flush
  \/ \E cont \in Cells : UnwrapLinear(cont)

Spec == Init /\ [][Next]_vars
-----------------------------------------------------------------------------
(* Type invariant.  Both pointers stay on a cell: wrap itself is never a   *)
(* position, which ContWrite relies on (writep = wrap leaves no room).     *)
TypeOK ==
  /\ mem \in [Cells -> Byte]
  /\ readp \in Cells
  /\ writep \in Cells

(* Neither side stalls for nothing: as long as there is space the producer *)
(* is offered a contiguous run, and as long as there are bytes so is the   *)
(* consumer, wherever filling, draining and moving the data left the two   *)
(* pointers.                                                               *)
NoFalseStall ==
  /\ BufSpace > 0 => ContWrite > 0
  /\ BufUsed > 0 => ContRead > 0

(* The buffer implements the bounded queue: no byte is lost, duplicated or *)
(* reordered by wrapping, dropping a part or moving the data down.         *)
Queue == INSTANCE ByteQueue WITH Capacity <- BufSize - 1, queue <- Contents
QueueSpec == Queue!Spec
=============================================================================

----------------------------- MODULE ByteBuffer -----------------------------
(***************************************************************************)
(* The byte_buffer of runtime.c, in which every stream of the program      *)
(* grows: frames, frame stream, QLZ payload, QLZ stream.  Sizes are        *)
(* unsigned integers of the machine, and realloc may refuse any growth.    *)
(*                                                                         *)
(* memory is the block data points to, by offset; what was never written   *)
(* in it is Garbage.  asked is a history variable: all the bytes the       *)
(* callers asked to append while the buffer had not failed.                *)
(***************************************************************************)
EXTENDS Integers, Sequences

CONSTANTS
  Octet,          (* the values of a byte                               *)
  Garbage,        (* what realloc leaves in new memory                  *)
  MaxSize,        (* UINT32_MAX                                         *)
  FirstCapacity,  (* 256, the capacity growth starts from               *)
  Pieces          (* the byte sequences callers append                  *)

ASSUME BufferAssumption ==
  /\ Garbage \notin Octet
  /\ MaxSize \in Nat
  /\ FirstCapacity \in 1 .. MaxSize
  /\ Pieces \subseteq Seq(Octet)

VARIABLES memory, size, capacity, failed, asked

bufferVars == <<memory, size, capacity, failed, asked>>

TypeOK ==
  /\ size \in 0 .. MaxSize
  /\ capacity \in 0 .. MaxSize
  /\ memory \in [0 .. capacity - 1 -> Octet \cup {Garbage}]
  /\ failed \in BOOLEAN
  /\ asked \in Seq(Octet)

(* A buffer set to { 0 }.                                                  *)
NoMemory == [k \in 0 .. -1 |-> Garbage]

Init ==
  /\ memory = NoMemory /\ size = 0 /\ capacity = 0
  /\ failed = FALSE
  /\ asked = << >>
-----------------------------------------------------------------------------
(* c is reached from `from` by doubling, every double still in range.      *)
Doublings(from) == {c \in from .. MaxSize : \E k \in 0 .. c : c = from * 2^k}

(* The loop of buffer_reserve: the first double that is enough; exactly    *)
(* what is needed when the next double would overflow before that.         *)
NewCapacity(needed) ==
  LET from == IF capacity = 0 THEN FirstCapacity ELSE capacity
      enough(c) == c >= needed /\ (c = from \/ c \div 2 < needed)
  IN  IF \E c \in Doublings(from) : enough(c)
      THEN CHOOSE c \in Doublings(from) : enough(c)
      ELSE needed

(* Mutant: the sum is compared after it has wrapped.                       *)
OverflowsNever(extra) == FALSE

Overflows(extra) == extra > MaxSize - size

(* Mutant: growth copies nothing.                                          *)
ReallocatedEmpty(c) == [k \in 0 .. c - 1 |-> Garbage]

(* realloc keeps what fits and moves the block.                            *)
Reallocated(c) == [k \in 0 .. c - 1 |-> IF k < capacity THEN memory[k] ELSE Garbage]

(* data and capacity after a buffer_reserve that succeeds; a block that is *)
(* large enough is left alone.                                             *)
CanReserve(extra) == ~failed /\ ~Overflows(extra)

Needed(extra) == (size + extra) % (MaxSize + 1)

ReservedCapacity(extra) ==
  IF Needed(extra) <= capacity THEN capacity ELSE NewCapacity(Needed(extra))

Reserved(extra) ==
  IF Needed(extra) <= capacity THEN memory ELSE Reallocated(NewCapacity(Needed(extra)))

(* Mutant: a refused realloc is reported but not remembered.               *)
ReserveForgets(extra) ==
  /\ ~CanReserve(extra) \/ Needed(extra) > capacity
  /\ UNCHANGED <<memory, size, capacity, failed>>

(* A buffer_reserve that fails: too large a sum or a refused realloc.      *)
ReserveFails(extra) ==
  /\ ~CanReserve(extra) \/ Needed(extra) > capacity
  /\ failed' = TRUE
  /\ UNCHANGED <<memory, size, capacity>>

(* Mutant: a byte short, the first of the new ones is written over.        *)
CopiedTooLow(m, piece) ==
  [k \in DOMAIN m |-> IF k \in size - 1 .. size + Len(piece) - 2
                      THEN piece[k - size + 2] ELSE m[k]]

(* memcpy(data + size, piece, Len(piece)).                                 *)
Copied(m, piece) ==
  [k \in DOMAIN m |-> IF k \in size .. size + Len(piece) - 1
                      THEN piece[k - size + 1] ELSE m[k]]
-----------------------------------------------------------------------------
(* buffer_append.  (An empty piece is taken and changes nothing, by a      *)
(* failed buffer too.)                                                     *)
Appends(piece) ==
  /\ piece # << >>
  /\ CanReserve(Len(piece))
  /\ memory' = Copied(Reserved(Len(piece)), piece)
  /\ capacity' = ReservedCapacity(Len(piece))
  /\ size' = size + Len(piece)
  /\ asked' = asked \o piece
  /\ UNCHANGED failed

AppendFails(piece) ==
  /\ piece # << >>
  /\ ReserveFails(Len(piece))
  /\ asked' = IF failed THEN asked ELSE asked \o piece

(* buffer_reserve called by itself, by the host decoder.                   *)
Reserve(extra) ==
  /\ CanReserve(extra)
  /\ memory' = Reserved(extra)
  /\ capacity' = ReservedCapacity(extra)
  /\ UNCHANGED <<size, failed, asked>>

(* buffer_free; the buffer may be used again.                              *)
Free ==
  /\ memory' = NoMemory /\ size' = 0 /\ capacity' = 0
  /\ failed' = FALSE
  /\ asked' = << >>

Next ==
  \/ \E piece \in Pieces :
       Appends(piece) \/ AppendFails(piece) \/ Reserve(Len(piece))
  \/ Free

Spec == Init /\ [][Next]_bufferVars
-----------------------------------------------------------------------------
Contents == [k \in 1 .. size |-> memory[k - 1]]

(* The buffer is the log its callers take it for, through every growth and *)
(* after every failure: nothing in it moves, is lost or comes twice, and   *)
(* once failed it stays as it is.                                          *)
Log == INSTANCE AppendLog WITH log <- Contents
IsAppendLog == Log!LogSpec

(* vgm_convert and qlz_compress_payload look at `failed` once, behind many *)
(* appends: if it is not set, the buffer holds all they asked to append,   *)
(* within its block, and none of it is what malloc left there.             *)
NothingMissing ==
  /\ size <= capacity
  /\ ~failed => Contents = asked

(* What the theorems are proved from.                                      *)
IInv ==
  /\ TypeOK
  /\ NothingMissing
  /\ Contents \in Seq(Octet)
=============================================================================

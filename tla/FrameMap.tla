------------------------------ MODULE FrameMap ------------------------------
(***************************************************************************)
(* AllocFrame and FreeFrame of physical.c: one bit per frame of physical   *)
(* memory, in an array of bytes that the EFI stub allocates and maps but   *)
(* never clears.                                                           *)
(*                                                                         *)
(* AllocFrame takes an address, FreeFrame a frame number: only AllocFrame  *)
(* divides its argument by 0x1000, so that a caller who frees the address  *)
(* it allocated frees another frame.  Neither function looks at            *)
(* frame_map_size or at who asks.  A byte is the set of its bits that are  *)
(* 1.                                                                      *)
(***************************************************************************)
EXTENDS Naturals, FiniteSets

CONSTANTS
  PageSize,   \* 0x1000
  Bits,       \* 8, bits of a byte
  Bytes,      \* mapped bytes of the frame map, frame_map_size rounded up
  Beyond,     \* offsets from frame_map at which something else is mapped: the
              \* stub leaves 15 pages out for each page of the map; then come
              \* the frame buffer, the temp region's table and the stack
  Addresses,  \* what callers may pass
  Callers,    \* the parts of the kernel that use frames
  MaxStolen   \* bound on the frames freed by callers that do not hold them

ASSUME SizesAssumption ==
  /\ PageSize \in Nat \ {0}
  /\ Bits \in Nat \ {0}
  /\ Bytes \in Nat
  /\ Beyond \subseteq Nat /\ Beyond \cap (0 .. (Bytes - 1)) = {}
  /\ Addresses \subseteq Nat

VARIABLES
  frame_map,  \* the bitmap
  holds,      \* history: frame numbers each caller has allocated, not freed
  junk,       \* history: frames marked before the kernel started
  stolen,     \* history: frames freed by a caller that did not hold them
  result      \* what the last call returned, or "fault"

vars == <<frame_map, holds, junk, stolen, result>>

\* Mutant: the divisor is wrong, and two frames share a bit.
OffsetByNine(n) == n \div (Bits + 1)

Offset(n) == n \div Bits

\* Mutant: the remainder is forgotten.
BitWithoutMod(n) == n

BitInByte(n) == n % Bits

Frames == 0 .. (Bytes * Bits - 1)

\* The frames whose bit is set.
Marked == {n \in Frames : BitInByte(n) \in frame_map[Offset(n)]}

\* Mutant: the test is dropped.
NeverSet(n) == FALSE

IsSet(n) == BitInByte(n) \in frame_map[Offset(n)]

\* frame_map[offset] |= 1 << bit_in_byte
WithBit(n) == frame_map[Offset(n)] \cup {BitInByte(n)}

\* Mutant: the whole byte is cleared.
NoBits(n) == {}

\* frame_map[offset] &= ~(1 << bit_in_byte)
WithoutBit(n) == frame_map[Offset(n)] \ {BitInByte(n)}

\* frame_map with a new value of frame n's byte.
Stored(n, byte) ==
  [o \in DOMAIN frame_map |-> IF o = Offset(n) THEN byte ELSE frame_map[o]]

\* The bit of frame n lies in somebody else's memory.
Strays(n) == Offset(n) \in Beyond

\* The bit of frame n may be found set, or clear.  A stray one may be either:
\* whoever owns the memory changes it at any time.
MayBeSet(n) == Strays(n) \/ (n \in Frames /\ IsSet(n))
MayBeClear(n) == Strays(n) \/ (n \in Frames /\ ~IsSet(n))

\* The memory holds whatever it held.
Init ==
  /\ frame_map \in [0 .. (Bytes - 1) -> SUBSET (0 .. (Bits - 1))]
  /\ holds = [c \in Callers |-> {}]
  /\ junk = Marked
  /\ stolen = {}
  /\ result = "none"

\* A byte that is neither the map's nor somebody else's: the stub has mapped nothing
\* there, and the kernel has no handler for the page fault.
Faults(n) ==
  /\ n \notin Frames /\ ~Strays(n)
  /\ result' = "fault"
  /\ UNCHANGED <<frame_map, holds, junk, stolen>>

AllocFrame(c, frame_pointer) ==
  LET n == frame_pointer \div PageSize IN
  /\ result # "fault"
  /\ \/ Faults(n)
     \/ /\ MayBeSet(n)
        /\ result' = "-1"
        /\ UNCHANGED <<frame_map, holds, junk, stolen>>
     \/ /\ MayBeClear(n)
        /\ frame_map' = IF Strays(n) THEN frame_map ELSE Stored(n, WithBit(n))
        /\ holds' = [holds EXCEPT ![c] = @ \cup {n}]
        /\ result' = "ok"
        /\ UNCHANGED <<junk, stolen>>

\* Whoever calls, a bit that is set is cleared.
FreeFrame(c, frame_pointer) ==
  LET n == frame_pointer IN
  /\ result # "fault"
  /\ \/ Faults(n)
     \/ /\ MayBeClear(n)
        /\ result' = "-1"
        /\ UNCHANGED <<frame_map, holds, junk, stolen>>
     \/ /\ MayBeSet(n)
        /\ frame_map' = IF Strays(n) THEN frame_map ELSE Stored(n, WithoutBit(n))
        /\ holds' = [holds EXCEPT ![c] = @ \ {n}]
        /\ stolen' = IF n \in holds[c] THEN stolen ELSE stolen \cup {n}
        /\ Cardinality(stolen') <= MaxStolen
        /\ result' = "ok"
        /\ UNCHANGED junk

Next == \E c \in Callers, p \in Addresses : AllocFrame(c, p) \/ FreeFrame(c, p)

Spec == Init /\ [][Next]_vars

-----------------------------------------------------------------------------
(* Properties *)

\* Types: no call leaves a bit outside its byte.  The numbers that callers hold
\* are frames of the map or, since nobody compares them with frame_map_size,
\* numbers whose bit is in somebody else's memory.
TypeOK ==
  /\ frame_map \in [0 .. (Bytes - 1) -> SUBSET (0 .. (Bits - 1))]
  /\ DOMAIN holds = Callers
  /\ \A c \in Callers : \A n \in holds[c] : n \in Frames \/ Strays(n)
  /\ junk \subseteq Frames
  /\ \A n \in stolen : n \in Frames \/ Strays(n)
  /\ result \in {"none", "ok", "-1", "fault"}

\* A frame of the map is given out twice only if somebody freed it who did not
\* hold it: a mistake with one frame, like freeing an address, and a call for a
\* number beyond the map, endanger no other frame.
Exclusive ==
  \A c, d \in Callers : \A n \in Frames \ stolen :
    n \in holds[c] /\ n \in holds[d] => c = d

\* The same frames apart, the map is exact about the frames given out, and for
\* ever wrong about the ones whose bits the uncleared memory happened to have
\* set: those, and no others, are marked without a holder, and no caller ever
\* gets one.
Accounted ==
  \A n \in Frames \ stolen :
    /\ n \in Marked <=> n \in junk \/ \E c \in Callers : n \in holds[c]
    /\ n \in junk => \A c \in Callers : n \notin holds[c]

\* The bytes and bits implement a set of frames: a call touches the bit of one
\* frame and no other, whatever the junk in the map and whoever calls.
FS == INSTANCE FrameSet WITH
        used <- Marked, holds <- [c \in Callers |-> holds[c] \cap Frames]

ImplementsFrameSet == FS!Spec

=============================================================================

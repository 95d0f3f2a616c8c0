--------------------------- MODULE FrameMapProofs ---------------------------
(***************************************************************************)
(* The frame map's bytes and bits are a set of frames, for every size of   *)
(* the map, whatever it held at the start and whoever calls.               *)
(***************************************************************************)
EXTENDS FrameMap, TLAPS

IInv == TypeOK /\ Accounted /\ Exclusive

\* The bit of one frame is that of no other.
LEMMA BitsIdentifyFrames ==
  ASSUME NEW n \in Nat, NEW m \in Nat,
         Offset(n) = Offset(m), BitInByte(n) = BitInByte(m)
  PROVE  n = m
BY SizesAssumption DEF Offset, BitInByte

\* Every frame of the map has its byte and its bit, and no other number does.
LEMMA FrameBits ==
  ASSUME NEW n \in Nat
  PROVE  /\ BitInByte(n) \in 0 .. (Bits - 1)
         /\ n \in Frames <=> Offset(n) \in 0 .. (Bytes - 1)
<1>1. /\ n \div Bits \in Nat /\ n % Bits \in 0 .. (Bits - 1)
      /\ n = Bits * (n \div Bits) + (n % Bits)
  BY SizesAssumption
<1> DEFINE q == n \div Bits
           r == n % Bits
<1>2. q \in Nat /\ r \in 0 .. (Bits - 1) /\ n = Bits * q + r
  BY <1>1
<1>3. r \in 0 .. (Bits - 1)
  BY <1>2
<1> HIDE DEF q, r
<1>4. ASSUME q < Bytes PROVE n < Bytes * Bits
  <2>1. q + 1 <= Bytes
    BY <1>2, <1>4, SizesAssumption
  <2>2. Bits * (q + 1) <= Bits * Bytes
    BY <1>2, <2>1, SizesAssumption
  <2>3. Bits * (q + 1) = Bits * q + Bits
    BY <1>2, SizesAssumption
  <2> QED BY <1>2, <2>2, <2>3, SizesAssumption
<1>5. ASSUME q >= Bytes PROVE n >= Bytes * Bits
  <2>1. Bits * q >= Bits * Bytes
    BY <1>2, <1>5, SizesAssumption
  <2> QED BY <1>2, <2>1, SizesAssumption
<1>6. n \in Frames <=> q \in 0 .. (Bytes - 1)
  BY <1>2, <1>4, <1>5, SizesAssumption DEF Frames
<1> QED BY <1>3, <1>6 DEF q, r, Offset, BitInByte

\* At the start the marked frames are the junk and nobody holds any.
LEMMA InitIInv == Init => IInv
BY DEF Init, IInv, TypeOK, Accounted, Exclusive, Marked

\* A successful AllocFrame of frame n marks n and nothing else.
LEMMA Mark ==
  ASSUME TypeOK, NEW n \in Frames, frame_map' = Stored(n, WithBit(n))
  PROVE  /\ frame_map' \in [0 .. (Bytes - 1) -> SUBSET (0 .. (Bits - 1))]
         /\ Marked' = Marked \cup {n}
<1>1. /\ n \in Nat /\ Frames \subseteq Nat
      /\ Offset(n) \in 0 .. (Bytes - 1) /\ BitInByte(n) \in 0 .. (Bits - 1)
  BY FrameBits, SizesAssumption DEF Frames
<1>2. frame_map' \in [0 .. (Bytes - 1) -> SUBSET (0 .. (Bits - 1))]
  BY <1>1 DEF TypeOK, Stored, WithBit
<1>3. ASSUME NEW m \in Frames
      PROVE  BitInByte(m) \in frame_map'[Offset(m)]
               <=> m = n \/ BitInByte(m) \in frame_map[Offset(m)]
  <2>1. m \in Nat /\ Offset(m) \in 0 .. (Bytes - 1)
    BY <1>1, FrameBits
  <2>2. Offset(m) = Offset(n) /\ BitInByte(m) = BitInByte(n) => m = n
    BY <1>1, <2>1, BitsIdentifyFrames
  <2> QED BY <1>1, <2>1, <2>2 DEF TypeOK, Stored, WithBit
<1> QED BY <1>2, <1>3 DEF Marked

\* A successful FreeFrame of frame n unmarks n and nothing else.
LEMMA Unmark ==
  ASSUME TypeOK, NEW n \in Frames, frame_map' = Stored(n, WithoutBit(n))
  PROVE  /\ frame_map' \in [0 .. (Bytes - 1) -> SUBSET (0 .. (Bits - 1))]
         /\ Marked' = Marked \ {n}
<1>1. /\ n \in Nat /\ Frames \subseteq Nat
      /\ Offset(n) \in 0 .. (Bytes - 1) /\ BitInByte(n) \in 0 .. (Bits - 1)
  BY FrameBits, SizesAssumption DEF Frames
<1>2. frame_map' \in [0 .. (Bytes - 1) -> SUBSET (0 .. (Bits - 1))]
  BY <1>1 DEF TypeOK, Stored, WithoutBit
<1>3. ASSUME NEW m \in Frames
      PROVE  BitInByte(m) \in frame_map'[Offset(m)]
               <=> m # n /\ BitInByte(m) \in frame_map[Offset(m)]
  <2>1. m \in Nat /\ Offset(m) \in 0 .. (Bytes - 1)
    BY <1>1, FrameBits
  <2>2. Offset(m) = Offset(n) /\ BitInByte(m) = BitInByte(n) => m = n
    BY <1>1, <2>1, BitsIdentifyFrames
  <2> QED BY <1>1, <2>1, <2>2 DEF TypeOK, Stored, WithoutBit
<1> QED BY <1>2, <1>3 DEF Marked

\* A number whose bit strays is no frame of the map.
LEMMA StraysApart ==
  ASSUME NEW n \in Frames
  PROVE  ~Strays(n)
<1>1. n \in Nat
  BY SizesAssumption DEF Frames
<1>2. Offset(n) \in 0 .. (Bytes - 1)
  BY <1>1, FrameBits
<1> QED BY <1>2, SizesAssumption DEF Strays

Results == {"none", "ok", "-1", "fault"}

\* A step that leaves the frames of the map alone: a call that is refused or
\* faults, or one for a number whose bit strays.
Elsewhere ==
  /\ UNCHANGED <<frame_map, junk>> /\ result' \in Results
  /\ DOMAIN holds' = Callers
  /\ \A c \in Callers :
       /\ \A n \in Frames : n \in holds'[c] <=> n \in holds[c]
       /\ \A n \in holds'[c] : n \in Frames \/ Strays(n)
  /\ \A n \in Frames : n \in stolen' <=> n \in stolen
  /\ \A n \in stolen' : n \in Frames \/ Strays(n)

\* Caller c gets the unmarked frame n.
Gets(c, n) ==
  /\ frame_map' = Stored(n, WithBit(n))
  /\ holds' = [holds EXCEPT ![c] = @ \cup {n}]
  /\ UNCHANGED <<junk, stolen>> /\ result' = "ok"

\* Caller c gives the marked frame n back, whether it holds it or not.
Gives(c, n) ==
  /\ frame_map' = Stored(n, WithoutBit(n))
  /\ holds' = [holds EXCEPT ![c] = @ \ {n}]
  /\ stolen' = IF n \in holds[c] THEN stolen ELSE stolen \cup {n}
  /\ UNCHANGED junk /\ result' = "ok"

\* A step is an allocation of an unmarked frame, a release of a marked one, or
\* leaves the frames of the map alone.
LEMMA Steps ==
  ASSUME TypeOK, [Next]_vars
  PROVE  \/ Elsewhere
         \/ \E c \in Callers, n \in Frames \ Marked : Gets(c, n)
         \/ \E c \in Callers, n \in Marked : Gives(c, n)
<1>1. ASSUME UNCHANGED <<frame_map, holds, junk, stolen>>, result' \in Results
      PROVE  Elsewhere
  BY <1>1 DEF Elsewhere, TypeOK
<1>2. ASSUME NEW c \in Callers, NEW n, MayBeClear(n),
             frame_map' = IF Strays(n) THEN frame_map ELSE Stored(n, WithBit(n)),
             holds' = [holds EXCEPT ![c] = @ \cup {n}],
             UNCHANGED <<junk, stolen>>, result' = "ok"
      PROVE  Elsewhere \/ (n \in Frames \ Marked /\ Gets(c, n))
  <2>1. CASE Strays(n)
    <3>1. n \notin Frames
      BY <2>1, StraysApart
    <3>2. \A d \in Callers : holds'[d] = IF d = c THEN holds[d] \cup {n} ELSE holds[d]
      BY <1>2 DEF TypeOK
    <3>3. DOMAIN holds' = Callers
      BY <1>2 DEF TypeOK
    <3> QED BY <1>2, <2>1, <3>1, <3>2, <3>3 DEF Elsewhere, TypeOK, Results
  <2>2. CASE ~Strays(n)
    BY <1>2, <2>2 DEF MayBeClear, IsSet, Marked, Gets
  <2> QED BY <2>1, <2>2
<1>3. ASSUME NEW c \in Callers, NEW n, MayBeSet(n),
             frame_map' = IF Strays(n) THEN frame_map ELSE Stored(n, WithoutBit(n)),
             holds' = [holds EXCEPT ![c] = @ \ {n}],
             stolen' = IF n \in holds[c] THEN stolen ELSE stolen \cup {n},
             UNCHANGED junk, result' = "ok"
      PROVE  Elsewhere \/ (n \in Marked /\ Gives(c, n))
  <2>1. CASE Strays(n)
    <3>1. n \notin Frames
      BY <2>1, StraysApart
    <3>2. \A d \in Callers : holds'[d] = IF d = c THEN holds[d] \ {n} ELSE holds[d]
      BY <1>3 DEF TypeOK
    <3>3. DOMAIN holds' = Callers
      BY <1>3 DEF TypeOK
    <3> QED BY <1>3, <2>1, <3>1, <3>2, <3>3 DEF Elsewhere, TypeOK, Results
  <2>2. CASE ~Strays(n)
    BY <1>3, <2>2 DEF MayBeSet, IsSet, Marked, Gives
  <2> QED BY <2>1, <2>2
<1>4. ASSUME NEW c \in Callers, NEW p \in Addresses, AllocFrame(c, p)
      PROVE  \/ Elsewhere
             \/ \E n \in Frames \ Marked : Gets(c, n)
  <2> DEFINE n == p \div PageSize
  <2>1. \/ UNCHANGED <<frame_map, holds, junk, stolen>> /\ result' \in Results
        \/ /\ MayBeClear(n)
           /\ frame_map' = IF Strays(n) THEN frame_map ELSE Stored(n, WithBit(n))
           /\ holds' = [holds EXCEPT ![c] = @ \cup {n}]
           /\ UNCHANGED <<junk, stolen>> /\ result' = "ok"
    BY <1>4 DEF AllocFrame, Faults, Results
  <2> HIDE DEF n
  <2> QED BY <1>1, <1>2, <2>1
<1>5. ASSUME NEW c \in Callers, NEW n \in Addresses, FreeFrame(c, n)
      PROVE  \/ Elsewhere
             \/ n \in Marked /\ Gives(c, n)
  <2>1. \/ UNCHANGED <<frame_map, holds, junk, stolen>> /\ result' \in Results
        \/ /\ MayBeSet(n)
           /\ frame_map' = IF Strays(n) THEN frame_map ELSE Stored(n, WithoutBit(n))
           /\ holds' = [holds EXCEPT ![c] = @ \ {n}]
           /\ stolen' = IF n \in holds[c] THEN stolen ELSE stolen \cup {n}
           /\ UNCHANGED junk /\ result' = "ok"
    BY <1>5 DEF FreeFrame, Faults, Results
  <2> QED BY <1>1, <1>3, <2>1
<1>6. CASE UNCHANGED vars
  BY <1>1, <1>6 DEF vars, TypeOK, Results
<1> QED BY <1>4, <1>5, <1>6 DEF Next

\* Every step keeps the invariant.
LEMMA NextIInv == IInv /\ [Next]_vars => IInv'
<1> SUFFICES ASSUME IInv, [Next]_vars PROVE IInv'
  OBVIOUS
<1>1. CASE Elsewhere
  <2>1. TypeOK' /\ Marked' = Marked
    BY <1>1 DEF IInv, TypeOK, Elsewhere, Results, Marked, Strays
  <2>2. Accounted'
    BY <1>1, <2>1 DEF IInv, Accounted, Elsewhere
  <2>3. Exclusive'
    BY <1>1 DEF IInv, Exclusive, Elsewhere
  <2> QED BY <2>1, <2>2, <2>3 DEF IInv
<1>2. ASSUME NEW c \in Callers, NEW n \in Frames \ Marked, Gets(c, n)
      PROVE  IInv'
  <2>1. /\ frame_map' \in [0 .. (Bytes - 1) -> SUBSET (0 .. (Bits - 1))]
        /\ Marked' = Marked \cup {n}
    BY <1>2, Mark DEF IInv, Gets
  <2>2. /\ DOMAIN holds' = Callers
        /\ \A d \in Callers : holds'[d] = IF d = c THEN holds[d] \cup {n} ELSE holds[d]
    BY <1>2 DEF IInv, TypeOK, Gets
  <2>3. n \notin stolen => n \notin junk /\ \A d \in Callers : n \notin holds[d]
    BY DEF IInv, Accounted
  <2>4. UNCHANGED <<junk, stolen>> /\ result' = "ok"
    BY <1>2 DEF Gets
  <2>5. TypeOK'
    BY <2>1, <2>2, <2>4 DEF IInv, TypeOK, Strays
  <2>6. Accounted'
    BY <2>1, <2>2, <2>3, <2>4 DEF IInv, Accounted
  <2>7. Exclusive'
    BY <2>2, <2>3, <2>4 DEF IInv, Exclusive
  <2> QED BY <2>5, <2>6, <2>7 DEF IInv
<1>3. ASSUME NEW c \in Callers, NEW n \in Marked, Gives(c, n)
      PROVE  IInv'
  <2>0. n \in Frames
    BY DEF Marked
  <2>1. /\ frame_map' \in [0 .. (Bytes - 1) -> SUBSET (0 .. (Bits - 1))]
        /\ Marked' = Marked \ {n}
    BY <1>3, <2>0, Unmark DEF IInv, Gives
  <2>2. /\ DOMAIN holds' = Callers
        /\ \A d \in Callers : holds'[d] = IF d = c THEN holds[d] \ {n} ELSE holds[d]
    BY <1>3 DEF IInv, TypeOK, Gives
  <2>3. /\ stolen' = IF n \in holds[c] THEN stolen ELSE stolen \cup {n}
        /\ junk' = junk /\ result' = "ok"
    BY <1>3 DEF Gives
  <2>4. n \notin stolen' => n \notin junk /\ \A d \in Callers : d # c => n \notin holds[d]
    BY <2>0, <2>3 DEF IInv, Accounted, Exclusive
  <2>5. TypeOK'
    BY <2>0, <2>1, <2>2, <2>3 DEF IInv, TypeOK, Strays
  <2>6. Accounted'
    BY <2>0, <2>1, <2>2, <2>3, <2>4 DEF IInv, Accounted
  <2>7. Exclusive'
    BY <2>2, <2>3, <2>4 DEF IInv, Exclusive
  <2> QED BY <2>5, <2>6, <2>7 DEF IInv
<1> QED BY <1>1, <1>2, <1>3, Steps DEF IInv

\* The inductive invariant holds in every reachable state.
LEMMA Inductive == Spec => []IInv
BY InitIInv, NextIInv, PTL DEF Spec

\* AllocFrame and FreeFrame leave no bit outside its byte, and hand out no number
\* but frames of the map and those whose bit strays, whatever callers pass.
THEOREM TypeCorrect == Spec => []TypeOK
<1>1. IInv => TypeOK
  BY DEF IInv
<1> QED BY <1>1, Inductive, PTL

\* No frame is given out twice, but for those freed by somebody else.
THEOREM ExclusiveCorrect == Spec => []Exclusive
<1>1. IInv => Exclusive
  BY DEF IInv
<1> QED BY <1>1, Inductive, PTL

\* The marked frames are the held ones and the initial junk, for ever, but for
\* frames freed by callers that did not hold them.
THEOREM AccountedCorrect == Spec => []Accounted
<1>1. IInv => Accounted
  BY DEF IInv
<1> QED BY <1>1, Inductive, PTL

\* The bitmap implements the set of frames.
THEOREM FrameSetRefinement == Spec => ImplementsFrameSet
<1> DEFINE Held == [c \in Callers |-> holds[c] \cap Frames]
<1>1. Init => FS!Init
  BY DEF Init, FS!Init, Marked
<1>2. IInv /\ [Next]_vars => [FS!Next]_FS!vars
  <2> SUFFICES ASSUME IInv, [Next]_vars PROVE [FS!Next]_FS!vars
    OBVIOUS
  <2>0. TypeOK
    BY DEF IInv
  <2>1. CASE Elsewhere
    <3>1. Held' = Held
      BY <2>1 DEF Elsewhere
    <3>2. Marked' = Marked
      BY <2>1 DEF Elsewhere, Marked
    <3> QED BY <3>1, <3>2 DEF FS!vars
  <2>2. ASSUME NEW c \in Callers, NEW n \in Frames \ Marked, Gets(c, n)
        PROVE  FS!Alloc(c, n)
    <3>1. Marked' = Marked \cup {n}
      BY <2>0, <2>2, Mark DEF Gets
    <3>2. Held' = [Held EXCEPT ![c] = @ \cup {n}]
      BY <2>0, <2>2 DEF Gets, TypeOK
    <3> QED BY <3>1, <3>2 DEF FS!Alloc
  <2>3. ASSUME NEW c \in Callers, NEW n \in Marked, Gives(c, n)
        PROVE  n \in Frames /\ FS!Free(c, n)
    <3>1. n \in Frames
      BY DEF Marked
    <3>2. Marked' = Marked \ {n}
      BY <2>0, <2>3, <3>1, Unmark DEF Gives
    <3>3. Held' = [Held EXCEPT ![c] = @ \ {n}]
      BY <2>0, <2>3 DEF Gives, TypeOK
    <3> QED BY <3>1, <3>2, <3>3 DEF FS!Free
  <2> QED BY <2>0, <2>1, <2>2, <2>3, Steps DEF FS!Next
<1> QED BY <1>1, <1>2, Inductive, PTL DEF Spec, ImplementsFrameSet, FS!Spec

=============================================================================

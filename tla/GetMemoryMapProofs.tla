------------------------- MODULE GetMemoryMapProofs -------------------------
(***************************************************************************)
(* What the slack of GetMemoryMap is good for, for every slack, every      *)
(* initial map and any number of firmware events and calls.                *)
(***************************************************************************)
EXTENDS GetMemoryMap, TLAPS

\* Since the firmware was asked for the size, the map has grown by at most what
\* the events of that time added and MaxSplit for the function's own allocation.
GrowthBounded ==
  /\ fetched <= events
  /\ pc = "buffer" => descriptors <= MemoryMapSize + grown
  /\ pc = "fetch" =>
       /\ descriptors + Slack <= MemoryMapSize + MaxSplit + grown
       /\ MemoryMapSize = room

IInv == TypeOK /\ GrowthBounded /\ SlackSuffices /\ ReturnedMapIsCurrent

LEMMA InitIInv == Init => IInv
BY SlackAssumption
   DEF Init, IInv, TypeOK, GrowthBounded, SlackSuffices, ReturnedMapIsCurrent

\* One step per firmware call, and one for the firmware's own doings.
LEMMA NextIInv == IInv /\ [Next]_vars => IInv'
<1> SUFFICES ASSUME IInv, [Next]_vars PROVE IInv'
  OBVIOUS
<1> USE SlackAssumption
    DEF IInv, TypeOK, GrowthBounded, SlackSuffices, ReturnedMapIsCurrent
<1>1. CASE Event
  BY <1>1 DEF Event, ChangeMap
<1>2. CASE AllocateDescriptor
  BY <1>2 DEF AllocateDescriptor, AllocatePool, ChangeMap
<1>3. CASE QuerySize
  BY <1>3 DEF QuerySize
<1>4. CASE AllocateBuffer
  BY <1>4 DEF AllocateBuffer, AllocatePool, Padded, ChangeMap
<1>5. CASE Fetch
  BY <1>5 DEF Fetch, FetchedKey
<1>6. CASE FreeMemoryMapDescriptor
  BY <1>6 DEF FreeMemoryMapDescriptor, ChangeMap
<1>7. CASE UNCHANGED vars
  BY <1>7 DEF vars
<1> QED BY <1>1, <1>2, <1>3, <1>4, <1>5, <1>6, <1>7 DEF Next

LEMMA Inductive == Spec => []IInv
BY InitIInv, NextIInv, PTL DEF Spec

\* The size that GetMemoryMap passes to AllocatePool never wraps below zero.
THEOREM TypeCorrect == Spec => []TypeOK
<1>1. IInv => TypeOK
  BY DEF IInv
<1> QED BY <1>1, Inductive, PTL

\* The second GetMemoryMap call finds the buffer too small only if the firmware's
\* events since the first added more than the allocation left of the slack.
THEOREM SlackCorrect == Spec => []SlackSuffices
<1>1. IInv => SlackSuffices
  BY DEF IInv
<1> QED BY <1>1, Inductive, PTL

\* A returned map fits its buffer and is, with its key, the firmware's own until
\* the next event.
THEOREM ReturnedMapCorrect == Spec => []ReturnedMapIsCurrent
<1>1. IInv => ReturnedMapIsCurrent
  BY DEF IInv
<1> QED BY <1>1, Inductive, PTL

=============================================================================

---------------------------- MODULE GetMemoryMap ----------------------------
(***************************************************************************)
(* GetMemoryMap and FreeMemoryMapDescriptor of EFI_STUB.c against a live   *)
(* firmware.  GetMemoryMap asks for the size of the map, allocates a       *)
(* buffer with room for Slack more descriptors, and asks again.  The       *)
(* allocation itself splits descriptors, and until boot services end the   *)
(* firmware's events change the map between any two calls.                 *)
(*                                                                         *)
(* Sizes are counted in descriptors (DescriptorSize bytes each).           *)
(***************************************************************************)
EXTENDS Naturals

CONSTANTS
  Slack,       \* 5, descriptors added to the size the firmware asked for
  MaxSplit,    \* descriptors that one change of the map can add or merge
  InitialMap,  \* descriptors of the map when the stub starts
  MaxEvents,   \* bound on the firmware's events
  MaxCalls     \* bound on the calls of GetMemoryMap

ASSUME SlackAssumption == {Slack, MaxSplit, InitialMap, MaxEvents, MaxCalls} \subseteq Nat

VARIABLES
  pc,          \* next step of the call in progress, or its outcome
  descriptors, \* number of descriptors of the firmware's map
  key,         \* the firmware's map key
  MemoryMapSize, MapKey,  \* fields of the MEMORY_MAP_DESCRIPTOR
  room,        \* descriptors that fit in the buffer
  events,      \* history: events so far
  grown,       \* history: descriptors that events added since the firmware was
               \* asked for the size
  fetched,     \* history: events before the map was fetched
  calls        \* history: calls so far

vars == <<pc, descriptors, key, MemoryMapSize, MapKey, room, events, grown,
          fetched, calls>>

Init ==
  /\ pc = "idle"
  /\ descriptors = InitialMap /\ key = 0
  /\ MemoryMapSize = 0 /\ MapKey = 0 /\ room = 0
  /\ events = 0 /\ grown = 0 /\ fetched = 0 /\ calls = 0

\* Memory is allocated or freed: regions are split or merged.
ChangeMap ==
  /\ descriptors' \in {d \in 0 .. (descriptors + MaxSplit) : descriptors <= d + MaxSplit}
  /\ key' = key + 1

AllocatePool == ChangeMap

\* An event handler of the firmware allocates or frees memory.
Event ==
  /\ events < MaxEvents
  /\ ChangeMap
  /\ events' = events + 1
  /\ grown' = grown + (IF descriptors' > descriptors THEN descriptors' - descriptors ELSE 0)
  /\ UNCHANGED <<pc, MemoryMapSize, MapKey, room, fetched, calls>>

\* The descriptor's pool and MemoryMapSize = 0.  efi_main calls again without
\* freeing the descriptor of its first call.
AllocateDescriptor ==
  /\ pc \in {"idle", "returned"}
  /\ calls < MaxCalls
  /\ calls' = calls + 1
  /\ \/ AllocatePool /\ MemoryMapSize' = 0 /\ pc' = "query"
     \/ pc' = "NULL" /\ UNCHANGED <<descriptors, key, MemoryMapSize>>
  /\ UNCHANGED <<MapKey, room, events, grown, fetched>>

\* The firmware answers EFI_BUFFER_TOO_SMALL and the size; any other answer
\* ends the call, and the descriptor's pool is not freed.
QuerySize ==
  /\ pc = "query"
  /\ \/ MemoryMapSize' = descriptors /\ pc' = "buffer"
     \/ pc' = "NULL" /\ UNCHANGED MemoryMapSize
  /\ grown' = 0
  /\ UNCHANGED <<descriptors, key, MapKey, room, events, fetched, calls>>

\* Mutants: no room is added, or it is subtracted.
Exact(size) == size
Smaller(size) == size - Slack

Padded(size) == size + Slack

\* Room for Slack more descriptors than the firmware asked for.
AllocateBuffer ==
  /\ pc = "buffer"
  /\ MemoryMapSize' = Padded(MemoryMapSize)
  /\ \/ AllocatePool /\ room' = MemoryMapSize' /\ pc' = "fetch"
     \/ pc' = "NULL" /\ UNCHANGED <<descriptors, key, room>>
  /\ UNCHANGED <<MapKey, events, grown, fetched, calls>>

\* Mutant: the key of the size query is kept.
OldKey == key - 1

FetchedKey == key

\* The map and its key are copied if the map fits.
Fetch ==
  /\ pc = "fetch"
  /\ \/ /\ descriptors <= MemoryMapSize
        /\ MemoryMapSize' = descriptors
        /\ MapKey' = FetchedKey
        /\ fetched' = events
        /\ pc' = "returned"
     \/ /\ descriptors > MemoryMapSize
        /\ MemoryMapSize' = descriptors
        /\ pc' = "TOO_SMALL"
        /\ UNCHANGED <<MapKey, fetched>>
     \/ /\ pc' = "NULL"
        /\ UNCHANGED <<MemoryMapSize, MapKey, fetched>>
  /\ UNCHANGED <<descriptors, key, room, events, grown, calls>>

\* FreePool of the map, then of the descriptor that holds its address.  If the
\* second fails, the map stays freed.
FreeMemoryMapDescriptor ==
  \/ /\ pc = "returned"
     /\ \/ ChangeMap /\ pc' = "freeing"
        \/ pc' = "free_failed" /\ UNCHANGED <<descriptors, key>>
     /\ UNCHANGED <<MemoryMapSize, MapKey, room, events, grown, fetched, calls>>
  \/ /\ pc = "freeing"
     /\ \/ ChangeMap /\ pc' = "idle"
        \/ pc' = "free_failed" /\ UNCHANGED <<descriptors, key>>
     /\ UNCHANGED <<MemoryMapSize, MapKey, room, events, grown, fetched, calls>>

Next ==
  \/ Event
  \/ AllocateDescriptor \/ QuerySize \/ AllocateBuffer \/ Fetch
  \/ FreeMemoryMapDescriptor

Spec == Init /\ [][Next]_vars

-----------------------------------------------------------------------------
(* Properties *)

\* Types; the size that is passed to AllocatePool never wraps below zero.
TypeOK ==
  /\ pc \in {"idle", "query", "buffer", "fetch", "returned", "NULL",
             "TOO_SMALL", "freeing", "free_failed"}
  /\ {descriptors, key, MemoryMapSize, MapKey, room, events, grown, fetched, calls}
       \subseteq Nat

\* The second call finds the buffer too small only if the descriptors that the
\* firmware's events added used up what its own AllocatePool left of the slack.
SlackSuffices == pc = "TOO_SMALL" => grown + MaxSplit > Slack

\* A map that was returned fits its buffer, and its key is good until an event
\* changes the map: nothing the function itself does after the fetch spoils it.
ReturnedMapIsCurrent ==
  pc = "returned" =>
    /\ MemoryMapSize <= room
    /\ events = fetched => MapKey = key /\ MemoryMapSize = descriptors

=============================================================================

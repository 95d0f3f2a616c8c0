------------------------------- MODULE BootX64 -------------------------------
(***************************************************************************)
(* efi_main of efi/src/main.c, the first program the firmware starts.  It  *)
(* fetches the memory map, asks for pages at KernelAddress in every        *)
(* matching region, and loads and starts EFI_STUB.efi.                     *)
(*                                                                         *)
(* Two pointers are passed to the firmware without a value: ReserveBuffer, *)
(* from which it reads the address to reserve, and EfiStubHandle, through  *)
(* which it returns the stub's handle.  What they point to is a choice of  *)
(* the model.  Addresses and page counts are unsigned words, modulo Word.  *)
(***************************************************************************)
EXTENDS Integers, Sequences, FiniteSets

CONSTANTS
  Word,            \* 2^64
  Page,            \* 0x1000
  KernelAddress,   \* 0xffff00000000
  DescriptorSize,  \* of the firmware, in bytes
  Slack,           \* 100, bytes added to the size the firmware asked for
  MemoryMaps,      \* maps the firmware may report: <<[type, start, pages]>>
  KernelFileSize,  \* of the file "kernel"
  MaxSplit,        \* descriptors that one change of the map can add
  MaxEvents,       \* bound on the firmware's events
  MaxFailures      \* bound on the firmware calls that fail

ASSUME BootAssumption ==
  /\ {Word, Page, DescriptorSize} \subseteq Nat \ {0}
  /\ {Slack, KernelFileSize, MaxSplit, MaxEvents, MaxFailures} \subseteq Nat
  /\ KernelAddress \in 0 .. (Word - 1) /\ KernelAddress % Page = 0

\* Regions start on a page and end below 2^64.
ASSUME MemoryMapsAssumption ==
  \A m \in MemoryMaps :
    /\ m \in Seq([type : STRING, start : Nat, pages : Nat])
    /\ \A n \in 1 .. Len(m) :
         /\ m[n].start % Page = 0
         /\ m[n].start + m[n].pages * Page < Word

VARIABLES
  pc,              \* the part of efi_main to run next
  i,               \* loop counter of the reserve loop, in bytes
  firmware_map,    \* the firmware's own map
  MemoryMap, MemoryMapSize,
  FileSize,        \* KernelInfo->FileSize
  requests,        \* history: the entry and page count of every request
  reserved,        \* regions the firmware has reserved for the loader
  DevicePath,      \* of the stub: NULL, without its device, or complete
  EfiStubHandle,   \* what EfiStubHandle points to
  queried,         \* history: length of the map when its size was asked for
  events, failures \* history: numbers of events and of failed calls

mapVars == <<firmware_map, MemoryMap, MemoryMapSize, queried>>
kernelVars == <<FileSize, requests, reserved>>
stubVars == <<DevicePath, EfiStubHandle>>
vars == <<pc, i, mapVars, kernelVars, stubVars, events, failures>>

Init ==
  /\ pc = "query" /\ i = 0
  /\ firmware_map \in MemoryMaps
  /\ MemoryMap = <<>> /\ MemoryMapSize = 0 /\ queried = 0
  /\ FileSize = 0 /\ requests = {} /\ reserved = {}
  /\ DevicePath = "NULL" /\ EfiStubHandle = "unset"
  /\ events = 0 /\ failures = 0

-----------------------------------------------------------------------------
(* The firmware *)

OneMoreFailure ==
  /\ failures < MaxFailures
  /\ failures' = failures + 1

\* Maps that an allocation or an event can make of m: regions are split or merged.
ChangedMaps(m) == {n \in MemoryMaps : Len(n) <= Len(m) + MaxSplit}

Event ==
  /\ events < MaxEvents
  /\ pc \notin {"returned", "wild", "started", "waiting"}
  /\ events' = events + 1
  /\ firmware_map' \in ChangedMaps(firmware_map)
  /\ UNCHANGED <<pc, i, MemoryMap, MemoryMapSize, queried, kernelVars,
                 stubVars, failures>>

\* AllocatePages(AllocateAddress): n > 0 pages at a are conventional and free.
CanReserve(a, n) ==
  /\ n > 0
  /\ \E k \in DOMAIN firmware_map :
       /\ firmware_map[k].type = "EfiConventionalMemory"
       /\ firmware_map[k].start <= a
       /\ a + n * Page <= firmware_map[k].start + firmware_map[k].pages * Page
  /\ \A r \in reserved : a + n * Page <= r.start \/ r.start + r.pages * Page <= a

-----------------------------------------------------------------------------
(* The memory map *)

QuerySize ==
  /\ pc = "query"
  /\ \/ /\ MemoryMapSize' = Len(firmware_map) * DescriptorSize
        /\ queried' = Len(firmware_map)
        /\ pc' = "pool"
        /\ UNCHANGED failures
     \/ pc' = "returned" /\ OneMoreFailure /\ UNCHANGED <<MemoryMapSize, queried>>
  /\ UNCHANGED <<i, firmware_map, MemoryMap, kernelVars, stubVars, events>>

\* Mutant: no room is added.
ExactSize == MemoryMapSize

PaddedSize == MemoryMapSize + Slack

AllocateMap ==
  /\ pc = "pool"
  /\ MemoryMapSize' = PaddedSize
  /\ \/ /\ firmware_map' \in ChangedMaps(firmware_map)
        /\ pc' = "fetch"
        /\ UNCHANGED failures
     \/ pc' = "returned" /\ OneMoreFailure /\ UNCHANGED firmware_map
  /\ UNCHANGED <<i, MemoryMap, queried, kernelVars, stubVars, events>>

\* A map that has become too long ends the program like any other error.
FetchMap ==
  /\ pc = "fetch"
  /\ \/ /\ Len(firmware_map) * DescriptorSize <= MemoryMapSize
        /\ MemoryMap' = firmware_map
        /\ MemoryMapSize' = Len(firmware_map) * DescriptorSize
        /\ pc' = "volume"
        /\ UNCHANGED failures
     \/ /\ Len(firmware_map) * DescriptorSize > MemoryMapSize
        /\ MemoryMapSize' = Len(firmware_map) * DescriptorSize
        /\ pc' = "returned"
        /\ UNCHANGED <<MemoryMap, failures>>
     \/ pc' = "returned" /\ OneMoreFailure /\ UNCHANGED <<MemoryMap, MemoryMapSize>>
  /\ UNCHANGED <<i, firmware_map, queried, kernelVars, stubVars, events>>

-----------------------------------------------------------------------------
(* Space for the kernel *)

\* GET_VOLUME and Open: a failure is at best printed, and the handle that was
\* never set is called through.
OpenKernel ==
  /\ pc = "volume"
  /\ \/ pc' = "info" /\ UNCHANGED failures
     \/ pc' = "wild" /\ OneMoreFailure
  /\ UNCHANGED <<i, mapVars, kernelVars, stubVars, events>>

\* If GetInfo fails, FileSize is whatever the stack held: any word.
GetInfo ==
  /\ pc = "info"
  /\ \/ FileSize' = KernelFileSize /\ UNCHANGED failures
     \/ FileSize' \in 0 .. (Word - 1) /\ OneMoreFailure
  /\ pc' = "reserve"
  /\ UNCHANGED <<i, mapVars, requests, reserved, stubVars, events>>

\* The end is that of the entry, the start that of the map's first entry.
Matches(d) ==
  /\ (d.start + d.pages * Page) % Word >= KernelAddress
  /\ MemoryMap[1].start <= KernelAddress
  /\ d.type = "EfiConventionalMemory"

ReserveFromFile == FileSize \div Page

\* Mutant: signed, and the distance to KernelAddress is left in bytes.
SignedReserveFromMap(d) == d.pages - (KernelAddress - d.start)

\* Both subtractions may wrap.
ReserveFromMap(d) ==
  (d.pages - ((KernelAddress - d.start) % Word) \div Page) % Word

\* Mutant: the larger of the two numbers.
LargerReserve(d) ==
  IF ReserveFromMap(d) > ReserveFromFile THEN ReserveFromMap(d) ELSE ReserveFromFile

ReserveSize(d) ==
  IF ReserveFromMap(d) > ReserveFromFile THEN ReserveFromFile ELSE ReserveFromMap(d)

\* Mutant: the loop stays at the same entry.
SameDescriptor == i

NextDescriptor == i + DescriptorSize

\* One turn of the loop.  The firmware reads the address through a pointer
\* without a value: it faults, or finds some address.
ReserveEntry ==
  /\ pc = "reserve"
  /\ i < MemoryMapSize
  /\ LET d == MemoryMap[i \div DescriptorSize + 1]
         n == ReserveSize(d)
     IN \/ ~Matches(d) /\ UNCHANGED <<pc, requests, reserved>>
        \/ /\ Matches(d)
           /\ requests' = requests \cup {[entry |-> d, pages |-> n]}
           /\ \/ pc' = "wild" /\ UNCHANGED reserved
              \/ \E k \in DOMAIN MemoryMap : \E a \in {MemoryMap[k].start, KernelAddress} :
                   /\ reserved' = IF CanReserve(a, n)
                                  THEN reserved \cup {[start |-> a, pages |-> n]}
                                  ELSE reserved
                   /\ UNCHANGED pc
  /\ i' = NextDescriptor
  /\ UNCHANGED <<mapVars, FileSize, stubVars, events, failures>>

EndReserve ==
  /\ pc = "reserve"
  /\ i >= MemoryMapSize
  /\ pc' = "path"
  /\ UNCHANGED <<i, mapVars, kernelVars, stubVars, events, failures>>

-----------------------------------------------------------------------------
(* The stub *)

\* Without RootImage the device is unknown; without memory there is no path.
MakeDevicePath ==
  /\ pc = "path"
  /\ \/ DevicePath' = "complete" /\ pc' = "load" /\ UNCHANGED failures
     \/ DevicePath' \in {"NULL", "file only"} /\ pc' = "load" /\ OneMoreFailure
     \/ DevicePath' = "NULL" /\ pc' = "wild" /\ OneMoreFailure
  /\ UNCHANGED <<i, mapVars, kernelVars, EfiStubHandle, events>>

\* LoadImage returns the handle through a pointer without a value.  Into the
\* loader itself or where nothing is, the program is lost; elsewhere it
\* overwrites what it can be hoped nobody needs.  After an error the handle is
\* whatever stood there.
LoadStub ==
  /\ pc = "load"
  /\ \/ pc' = "wild" /\ UNCHANGED <<EfiStubHandle, failures>>
     \/ DevicePath = "complete" /\ EfiStubHandle' = "stub" /\ pc' = "start" /\ UNCHANGED failures
     \/ EfiStubHandle' = "garbage" /\ pc' = "start"
        /\ (IF DevicePath = "complete" THEN OneMoreFailure ELSE UNCHANGED failures)
  /\ UNCHANGED <<i, mapVars, kernelVars, DevicePath, events>>

\* The firmware refuses a handle that is none.  In any case the loader prints
\* and waits for ever.
StartStub ==
  /\ pc = "start"
  /\ \/ EfiStubHandle = "stub" /\ pc' = "started" /\ UNCHANGED failures
     \/ EfiStubHandle = "stub" /\ pc' = "waiting" /\ OneMoreFailure
     \/ EfiStubHandle # "stub" /\ pc' = "waiting" /\ UNCHANGED failures
  /\ UNCHANGED <<i, mapVars, kernelVars, stubVars, events>>

\* The stub returns when it cannot find its own image.
StubReturns ==
  /\ pc = "started"
  /\ pc' = "waiting"
  /\ UNCHANGED <<i, mapVars, kernelVars, stubVars, events, failures>>

Loader ==
  \/ QuerySize \/ AllocateMap \/ FetchMap \/ OpenKernel \/ GetInfo
  \/ ReserveEntry \/ EndReserve \/ MakeDevicePath \/ LoadStub \/ StartStub

Next == Loader \/ StubReturns \/ Event

\* The processor keeps executing the loader until it hands over.
Spec == Init /\ [][Next]_vars /\ WF_vars(Loader)

-----------------------------------------------------------------------------
(* Properties *)

\* Types; the page count that AllocatePages gets is a word.
TypeOK ==
  /\ pc \in {"query", "pool", "fetch", "volume", "info", "reserve", "path",
             "load", "start", "started", "waiting", "returned", "wild"}
  /\ {i, MemoryMapSize, FileSize, queried, events, failures} \subseteq Nat
  /\ \A r \in requests : r.pages \in 0 .. (Word - 1)
  /\ DevicePath \in {"NULL", "file only", "complete"}
  /\ EfiStubHandle \in {"unset", "garbage", "stub"}

\* The reserve loop tests the first entry's start, so its subtraction wraps for
\* an entry above KernelAddress.  Even so no request is for more pages than the
\* file has, nor, in a region that holds KernelAddress, for more than lie
\* between KernelAddress and the region's end.
ReservesWithinRegion ==
  \A r \in requests :
    /\ r.pages <= ReserveFromFile
    /\ r.entry.start <= KernelAddress =>
         KernelAddress + r.pages * Page <= r.entry.start + r.entry.pages * Page

\* The loader gives up, no call having failed, only if the map grew by more
\* descriptors than fit in 100 bytes since its size was asked for.
GivesUpOnlyIfMapGrew ==
  pc = "returned" /\ failures = 0 =>
    Len(firmware_map) > queried + Slack \div DescriptorSize

\* The loader starts the stub, gives up or is led astray by a pointer without a
\* value, and waits for ever without having started anything only if a call has
\* failed: the loop over the map ends, whatever FileSize is and however the map
\* changes meanwhile, and no failure leaves the loader in between.
LoaderStartsStub ==
  <>(pc \in {"started", "returned", "wild"} \/ (pc = "waiting" /\ failures > 0))

\* "Allocate space for kernel at 0xffff00000000": what the loader reserves for
\* the kernel lies there.
ReservesAtKernelAddress == \A r \in reserved : r.start = KernelAddress

=============================================================================

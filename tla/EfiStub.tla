------------------------------- MODULE EfiStub -------------------------------
(***************************************************************************)
(* efi_main of EFI_STUB.c: from the firmware to the kernel's first         *)
(* instruction.  The stub loads the kernel, builds its address space page  *)
(* by page, sizes the frame map from the firmware's memory map, leaves     *)
(* boot services and switches CR3 and RSP.                                 *)
(*                                                                         *)
(* The page tables are the component AddressSpace, which PageTables is     *)
(* shown to implement: each MMap is a Request and its outcome.  All        *)
(* statuses but one are only printed, so the model goes on after a failed  *)
(* call with whatever the variable then holds.  While boot services run,   *)
(* the firmware's own events may change the memory map at any moment.      *)
(*                                                                         *)
(* Physical memory is counted in pages, virtual offsets and sizes in units *)
(* of which PageSize make a page (0x1000 in the code).                     *)
(***************************************************************************)
EXTENDS Naturals, Sequences, FiniteSets

CONSTANTS
  PageSize,       \* 0x1000
  Fan,            \* 512, entries of a page table
  Bits,           \* 8, frames that a byte of the frame map stands for
  Slack,          \* 0x10000 / 0x1000, pages added to the kernel's file
  Stride,         \* 0x10000 / 0x1000, pages kept per page of frame map
  HigherHalf,     \* page number of HIGHER_HALF_START
  TopPage,        \* page number of 0xfffffffffffff000
  ImageBase, ImageSize,              \* of the running stub
  KernelFileSize,                    \* of the file "kernel"
  MaxFileSize,    \* largest size of a kernel that fits the higher half
  StackPages,                        \* kernelStackSize / 0x1000
  FrameBufferBase, FrameBufferSize,  \* from GOP
  MemoryMaps,     \* memory maps the firmware may report: <<[start, pages]>>
  Phys,           \* pages of RAM
  Firmware,       \* its pages that the firmware keeps: pools, stack, page 0
  Anywhere,       \* pages that a variable without a value may point to
  PTPage,         \* stands for the page table of the temp region
  Self, Idle,     \* see AddressSpace
  MaxFailures     \* bound on the firmware calls that fail in one boot

VARIABLES
  pc,             \* the part of efi_main to run next
  i,              \* loop counter of that part
  space, arg, status,  \* the address space being built (AddressSpace)
  free,           \* pages the firmware may hand out
  base,           \* KernelPhysicalAddress, phys, kernelStack and FrameMap
  content,        \* what each page of RAM holds
  FileSize,       \* KernelInfo->FileSize
  CurrentPage,    \* offset of the next free address of the higher half
  map,            \* the memory map the frame map is sized from
  MaxAddress,     \* in pages
  KernelArgs,     \* what the kernel is told
  key,            \* is MapKey still the firmware's, and if not, who changed it
  exited,         \* boot services have ended
  failures        \* history: calls that failed so far, a refused exit not counted

asVars == <<space, arg, status>>
ram == <<free, base, content>>
layout == <<FileSize, CurrentPage, KernelArgs>>
memmap == <<map, MaxAddress>>
vars == <<pc, i, asVars, ram, layout, memmap, key, exited, failures>>

ASSUME SizesAssumption ==
  /\ {PageSize, Fan, Bits, Slack, Stride} \subseteq Nat \ {0}
  /\ {HigherHalf, TopPage, ImageBase, ImageSize, KernelFileSize, StackPages,
      MaxFileSize, FrameBufferBase, FrameBufferSize, MaxFailures} \subseteq Nat
  /\ KernelFileSize <= MaxFileSize
  /\ Phys \subseteq Anywhere /\ Anywhere \subseteq Nat
  /\ Firmware \subseteq Phys /\ 0 \in Firmware
  /\ Self \notin Nat /\ PTPage \notin Nat /\ Self # PTPage

\* A memory map describes each page at most once, in no particular order.
ASSUME MemoryMapsAssumption ==
  \A m \in MemoryMaps :
    /\ m \in Seq([start : Nat, pages : Nat \ {0}])
    /\ \A j, k \in 1 .. Len(m) :
         j # k => \/ m[j].start + m[j].pages <= m[k].start
                  \/ m[k].start + m[k].pages <= m[j].start

-----------------------------------------------------------------------------
(* Sizes and places *)

PagesFor(size) == (size + PageSize - 1) \div PageSize

KernelPagesCount == (PagesFor(FileSize) + Slack) * PageSize

SizeOfFrameMap == MaxAddress \div Bits

\* Mutant: CurrentPage & ~0x1fffff.
ThisWindow(offset) == (offset \div (Fan * PageSize)) * (Fan * PageSize)

\* (CurrentPage & ~0x1fffff) + (1 << 21): the next table's worth of pages.
NextWindow(offset) == (offset \div (Fan * PageSize) + 1) * (Fan * PageSize)

ImagePages == 0 .. (PagesFor(ImageSize) - 1)
ImageFrames == {ImageBase + n : n \in ImagePages}
FrameBufferPages ==
  FrameBufferBase .. (FrameBufferBase + PagesFor(FrameBufferSize) - 1)

\* Where a memory map of the firmware may end.
Ends == {0} \cup UNION {{m[n].start + m[n].pages : n \in 1 .. Len(m)} : m \in MemoryMaps}

\* The stub's image lies below the higher half, and the higher half has room for
\* kernel, frame map, frame buffer and the temp region's window below the stack:
\* 128 TiB, of which 2^52 bytes of RAM would take 2.
ASSUME LayoutAssumption ==
  /\ ImageBase + PagesFor(ImageSize) <= HigherHalf
  /\ \A f \in 0 .. MaxFileSize, e \in Ends :
       LET offset == (PagesFor(f) + Slack + PagesFor(e \div Bits) * Stride) * PageSize
       IN HigherHalf + NextWindow(offset + FrameBufferSize) \div PageSize + Fan
            <= TopPage - StackPages

Virt == 0 .. TopPage

\* Sizes, in pages, of the loops over allocated regions.
AllocatedSizes ==
  {PagesFor(f) + Slack : f \in 0 .. MaxFileSize} \cup {StackPages}
    \cup {PagesFor(e \div Bits) : e \in Ends}

\* The pages that the loops can name.  After a failed allocation a loop counts
\* from whatever its variable holds, and beyond RAM if it gets there.
Data ==
  Phys \cup FrameBufferPages \cup ImageFrames
    \cup {p + n : p \in Anywhere, n \in UNION {0 .. (c - 1) : c \in AllocatedSizes}}

AS == INSTANCE AddressSpace WITH Frames <- Data \cup {PTPage}

\* The five loops of MMap calls: first virtual and physical page, size, Cached.
Loops ==
  [image |-> [virt |-> ImageBase, phys |-> ImageBase,
              size |-> ImageSize, cached |-> FALSE],
   kernel |-> [virt |-> HigherHalf, phys |-> base.kernel,
               size |-> KernelPagesCount, cached |-> TRUE],
   stack |-> [virt |-> TopPage - StackPages, phys |-> base.stack,
              size |-> StackPages * PageSize, cached |-> TRUE],
   framemap |-> [virt |-> HigherHalf + CurrentPage \div PageSize,
                 phys |-> base.framemap,
                 size |-> SizeOfFrameMap, cached |-> TRUE],
   framebuffer |-> [virt |-> HigherHalf + CurrentPage \div PageSize,
                    phys |-> FrameBufferBase,
                    size |-> FrameBufferSize, cached |-> FALSE]]

Init ==
  /\ pc = "load" /\ i = 0
  /\ AS!Init
  /\ free = Phys \ (Firmware \cup ImageFrames)
  /\ base = [kernel |-> 0, pml4 |-> 0, stack |-> 0, framemap |-> 0]
  /\ content = [p \in Phys |-> "other"]
  /\ FileSize = 0 /\ CurrentPage = 0 /\ map = <<>> /\ MaxAddress = 0
  /\ KernelArgs = [FrameMap |-> 0, FrameMapSize |-> 0, framebuffer |-> 0,
                   TempMappingRegion |-> 0]
  /\ key = "none" /\ exited = FALSE /\ failures = 0

-----------------------------------------------------------------------------
(* The firmware *)

OneMoreFailure ==
  /\ failures < MaxFailures
  /\ failures' = failures + 1

\* Where n consecutive pages are free; the firmware refuses n = 0.
Places(n) == {p \in free : n > 0 /\ p .. (p + n - 1) \subseteq free}

\* AllocatePages(AllocateAnyPages) of n pages for region r.  An error, which
\* the firmware must return when it has no place, leaves the variable unset.
AllocatePages(r, n, unset) ==
  \/ \E p \in Places(n) :
       /\ free' = free \ (p .. (p + n - 1))
       /\ base' = [base EXCEPT ![r] = p]
       /\ UNCHANGED failures
  \/ \E p \in unset :
       /\ failures < MaxFailures \/ Places(n) = {}
       /\ failures' = failures + 1
       /\ base' = [base EXCEPT ![r] = p]
       /\ free' = free

\* A timer or driver event: the memory map changes under the stub's feet.
FirmwareEvent ==
  /\ ~exited
  /\ key = "fresh"
  /\ key' = "firmware"
  /\ UNCHANGED <<pc, i, asVars, ram, layout, memmap, exited, failures>>

\* The stub's own allocations spoil the key as well.
KeyAfterAllocation == IF key = "fresh" THEN "own" ELSE key

\* What may run once the pages ps were written.  Nothing is known of the stub
\* after a write to its own image; one to the firmware's pages, where RootImage,
\* the GOP mode and the stack lie, or outside RAM, may do harm or not.
AfterWriting(ps, next) ==
  IF ps \cap ImageFrames # {} THEN {"wild"}
  ELSE IF ps \subseteq Phys \ Firmware THEN {next} ELSE {next, "wild"}

-----------------------------------------------------------------------------
(* efi_main, part by part *)

\* Find the image, the volume and the file.  Only the first failure ends the
\* stub; after any other it calls through a pointer that was never set.
OpenKernel ==
  /\ pc = "load"
  /\ \/ pc' = "info" /\ UNCHANGED failures
     \/ pc' \in {"returned", "wild"} /\ OneMoreFailure
  /\ UNCHANGED <<i, asVars, ram, layout, memmap, key, exited>>

\* GetInfo, AllocatePool, GetInfo.  If one fails, FileSize is what the buffer,
\* or address 0, happened to hold.  The model gives up if reading it faults, or
\* if the size is such that the kernel's loop would run into the stack.
GetKernelInfo ==
  /\ pc = "info"
  /\ \/ FileSize' = KernelFileSize /\ pc' = "allocate" /\ UNCHANGED failures
     \/ FileSize' \in 0 .. MaxFileSize /\ pc' = "allocate" /\ OneMoreFailure
     \/ FileSize' = FileSize /\ pc' = "wild" /\ OneMoreFailure
  /\ UNCHANGED <<i, asVars, ram, CurrentPage, KernelArgs, memmap, key, exited>>

\* Mutant: KernelPhysicalAddress, phys and kernelStack have no initial value.
Uninitialised == Anywhere

\* They are initialised to 0, and keep it when their allocation fails.
Initialised == {0}

AllocateKernel ==
  /\ pc = "allocate"
  /\ AllocatePages("kernel", KernelPagesCount \div PageSize, Initialised)
  /\ pc' = "read"
  /\ UNCHANGED <<i, asVars, content, layout, memmap, key, exited>>

\* Bytes that Read returns: never more than it is asked for or the file has.
BytesRead == IF FileSize < KernelFileSize THEN FileSize ELSE KernelFileSize

\* Pages that Read fills.
FilePages == base.kernel .. (base.kernel + PagesFor(BytesRead) - 1)

ReadKernel ==
  /\ pc = "read"
  /\ \/ /\ content' = [p \in Phys |-> IF p \in FilePages THEN "file" ELSE content[p]]
        /\ pc' \in AfterWriting(FilePages, "gop")
        /\ UNCHANGED failures
     \/ content' = content /\ pc' = "gop" /\ OneMoreFailure
  /\ UNCHANGED <<i, asVars, free, base, layout, memmap, key, exited>>

\* Without GOP the stub reads the mode through a NULL pointer.
LocateGop ==
  /\ pc = "gop"
  /\ \/ pc' = "pml4" /\ UNCHANGED failures
     \/ pc' = "wild" /\ OneMoreFailure
  /\ UNCHANGED <<i, asVars, ram, layout, memmap, key, exited>>

\* Mutant: the loop clears a page more.
ClearedMore(p) == p .. (p + 2)

\* The pages that the loop over 0x400 entries of 8 bytes clears.
Cleared(p) == p .. (p + 1)

\* One page for the PML4, and two are cleared, whoever owns the second one.
InitPageMap ==
  /\ pc = "pml4"
  /\ AllocatePages("pml4", 1, Initialised)
  /\ content' = [p \in Phys |-> IF p \in Cleared(base'.pml4) THEN "zero" ELSE content[p]]
  /\ pc' \in AfterWriting(Cleared(base'.pml4), "image")
  /\ UNCHANGED <<i, asVars, layout, memmap, key, exited>>

\* The next call of the loop the stub is in.
CallMMap ==
  /\ pc \in DOMAIN Loops
  /\ status # "busy"
  /\ i < Loops[pc].size
  /\ AS!Request([virt |-> Loops[pc].virt + i \div PageSize,
                 phys |-> Loops[pc].phys + i \div PageSize,
                 cached |-> Loops[pc].cached])
  /\ UNCHANGED <<pc, i, ram, layout, memmap, key, exited, failures>>

\* Mutant: the loop counter is not advanced.
SameOffset == i

NextOffset == i + PageSize

\* MMap or MakeTempRegion returns; nobody looks at the status.  It may have
\* taken pages for tables, which changes the memory map.
MMapReturns ==
  /\ \/ (\E m \in AS!Mapping : AS!Succeed(m)) /\ UNCHANGED failures
     \/ AS!Fail /\ OneMoreFailure
  /\ i' = NextOffset
  /\ key' = KeyAfterAllocation
  /\ UNCHANGED <<pc, ram, layout, memmap, exited>>

\* The loop named l is over.
EndLoop(l) ==
  /\ pc = l
  /\ status # "busy"
  /\ i >= Loops[l].size
  /\ i' = 0

EndImage ==
  /\ EndLoop("image")
  /\ pc' = "kernel"
  /\ UNCHANGED <<asVars, ram, layout, memmap, key, exited, failures>>

\* Mutant: CurrentPage is not advanced past the kernel.
AtKernel == CurrentPage

BehindKernel == CurrentPage + KernelPagesCount

\* The kernel is mapped: make room for it and allocate the stack.
EndKernel ==
  /\ EndLoop("kernel")
  /\ CurrentPage' = BehindKernel
  /\ AllocatePages("stack", StackPages, Initialised)
  /\ pc' = "stack"
  /\ UNCHANGED <<asVars, content, FileSize, KernelArgs, memmap, key, exited>>

\* The stack is mapped: GetMemoryMap, whose NULL is dereferenced.  Address 0 can
\* be readable and hold an empty map; otherwise nothing is known of the loop.
EndStack ==
  /\ EndLoop("stack")
  /\ \/ /\ map' \in MemoryMaps
        /\ key' = "fresh"
        /\ pc' = "scan"
        /\ UNCHANGED failures
     \/ map' = <<>> /\ pc' \in {"scan", "wild"} /\ OneMoreFailure /\ UNCHANGED key
  /\ UNCHANGED <<asVars, ram, layout, MaxAddress, exited>>

\* Mutant: the last descriptor wins.
LastEnd(d) == d.start + d.pages

\* What the end of memory is taken to be after descriptor d.
MaxEnd(d) == IF d.start > MaxAddress THEN d.start + d.pages ELSE MaxAddress

\* One descriptor of the loop that looks for the end of memory.
Scan ==
  /\ pc = "scan"
  /\ i < Len(map)
  /\ MaxAddress' = MaxEnd(map[i + 1])
  /\ i' = i + 1
  /\ UNCHANGED <<pc, asVars, ram, layout, map, key, exited, failures>>

\* FrameMap has no initial value: after a failure it can be any address.
FrameMapUnset == Anywhere

AllocateFrameMap ==
  /\ pc = "scan"
  /\ i = Len(map)
  /\ AllocatePages("framemap", PagesFor(SizeOfFrameMap), FrameMapUnset)
  /\ i' = 0
  /\ pc' = "framemap"
  /\ key' = KeyAfterAllocation
  /\ UNCHANGED <<asVars, content, layout, memmap, exited>>

\* Mutant: CurrentPage is advanced before it is saved in KernelArgs.
SavedLate == CurrentPage'

\* HIGHER_HALF_START + CurrentPage, as KernelArgs gets it.
Saved == CurrentPage

\* The frame map is mapped: tell the kernel and leave room behind it.
EndFrameMap ==
  /\ EndLoop("framemap")
  /\ CurrentPage' = CurrentPage + PagesFor(SizeOfFrameMap) * Stride * PageSize
  /\ KernelArgs' = [FrameMap |-> Saved, FrameMapSize |-> SizeOfFrameMap,
                    framebuffer |-> KernelArgs.framebuffer,
                    TempMappingRegion |-> KernelArgs.TempMappingRegion]
  /\ pc' = "framebuffer"
  /\ UNCHANGED <<asVars, ram, FileSize, memmap, key, exited, failures>>

\* The framebuffer is mapped; place the temp region and call MakeTempRegion.
EndFrameBuffer ==
  /\ EndLoop("framebuffer")
  /\ LET region == NextWindow(CurrentPage + FrameBufferSize) IN
     /\ KernelArgs' = [FrameMap |-> KernelArgs.FrameMap,
                       FrameMapSize |-> KernelArgs.FrameMapSize,
                       framebuffer |-> CurrentPage, TempMappingRegion |-> region]
     /\ CurrentPage' = region + 511
     /\ AS!Request([virt |-> HigherHalf + region \div PageSize,
                    phys |-> Self, cached |-> FALSE])
  /\ pc' = "temp"
  /\ UNCHANGED <<ram, FileSize, memmap, key, exited, failures>>

\* Mutant: the first memory map's key is used again.
FirstKey == key

\* The key that the second GetMemoryMap returns.
FinalKey == "fresh"

\* The second GetMemoryMap; a NULL is copied from, and MapKey is then garbage.
GetFinalMemoryMap ==
  /\ pc = "temp"
  /\ status # "busy"
  /\ \/ key' = FinalKey /\ UNCHANGED failures
     \/ key' = "garbage" /\ OneMoreFailure
  /\ pc' = "exit"
  /\ UNCHANGED <<i, asVars, ram, layout, memmap, exited>>

\* The firmware accepts only the current key.  A refusal is only printed.
ExitBootServices ==
  /\ pc = "exit"
  /\ exited' = (key = "fresh")
  /\ pc' = "jump"
  /\ UNCHANGED <<i, asVars, ram, layout, memmap, key, failures>>

\* CR3, RSP, RDI, call: the stub's code, the stack and the entry must be mapped.
Jump ==
  /\ pc = "jump"
  /\ pc' = IF /\ \A n \in ImagePages : space[ImageBase + n] # {}
              /\ space[TopPage - 1] # {}
              /\ space[HigherHalf] # {}
           THEN "running" ELSE "fault"
  /\ UNCHANGED <<i, asVars, ram, layout, memmap, key, exited, failures>>

Stub ==
  \/ OpenKernel \/ GetKernelInfo \/ AllocateKernel \/ ReadKernel \/ LocateGop
  \/ InitPageMap \/ CallMMap \/ MMapReturns
  \/ EndImage \/ EndKernel \/ EndStack \/ Scan \/ AllocateFrameMap
  \/ EndFrameMap \/ EndFrameBuffer \/ GetFinalMemoryMap \/ ExitBootServices
  \/ Jump

Next == Stub \/ FirmwareEvent

\* The processor keeps executing the stub, whatever the firmware does.
Spec == Init /\ [][Next]_vars /\ WF_vars(Stub)

-----------------------------------------------------------------------------
(* Properties *)

Parts ==
  {"load", "info", "allocate", "read", "gop", "pml4", "image", "kernel",
   "stack", "scan", "framemap", "framebuffer", "temp", "exit", "jump",
   "returned", "wild", "fault", "running"}

\* Types of the stub's variables: whichever calls fail, the kernel, the PML4 and
\* the stack are pages of RAM, only the frame map may be anywhere, and every page
\* the address space shows is one that a loop may name or the temp region's table.
TypeOK ==
  /\ pc \in Parts
  /\ i \in Nat
  /\ space \in [Virt -> SUBSET AS!Mapping]
  /\ status \in {"none", "busy", "EFI_SUCCESS", "error"}
  /\ free \subseteq Phys
  /\ base \in [{"kernel", "pml4", "stack", "framemap"} -> Anywhere]
  /\ {base.kernel, base.pml4, base.stack} \subseteq Phys
  /\ content \in [Phys -> {"other", "file", "zero"}]
  /\ {FileSize, CurrentPage, MaxAddress} \subseteq Nat
  /\ key \in {"none", "fresh", "own", "firmware", "garbage"}
  /\ exited \in BOOLEAN /\ failures \in Nat

\* The layout has no collisions: no MMap or MakeTempRegion ever replaces a
\* mapping that an earlier call made.  Image, kernel, frame map, frame buffer,
\* temp region and stack are placed by five separate computations.
MapsEachPageOnce ==
  [][\A v \in Virt : space'[v] # space[v] => space[v] = {}]_vars

\* TempMap takes any entry without the present bit for free: the window that
\* the temp region's table maps holds nothing but the table itself.
WindowIsFresh ==
  pc \in {"temp", "exit", "jump", "running"} =>
    \A n \in 1 .. (Fan - 1) :
      space[HigherHalf + KernelArgs.TempMappingRegion \div PageSize + n] = {}

\* The page at offset o of the higher half is mapped to physical page p.
MappedTo(o, p) ==
  \E m \in space[HigherHalf + o \div PageSize] : m.frame = p

\* When the stub enters the kernel and no call has failed, what the kernel is
\* told is true: the file's pages and their slack start at HIGHER_HALF_START,
\* and every byte of the frame map and of the frame buffer, and the temp
\* region, is mapped to the right page at the address in KernelArgs.
HandOver ==
  pc = "running" /\ failures = 0 =>
    /\ \A n \in 0 .. (KernelPagesCount - 1) :
         MappedTo(n, base.kernel + n \div PageSize)
    /\ \A n \in 0 .. (KernelArgs.FrameMapSize - 1) :
         MappedTo(KernelArgs.FrameMap + n, base.framemap + n \div PageSize)
    /\ \A n \in 0 .. (FrameBufferSize - 1) :
         MappedTo(KernelArgs.framebuffer + n, FrameBufferBase + n \div PageSize)
    /\ MappedTo(KernelArgs.TempMappingRegion, PTPage)

\* ExitBootServices is refused only if the firmware itself changed the memory
\* map after the last GetMemoryMap, or that call failed: the stub makes no
\* allocation of its own between the two calls.
ExitRefusedOnlyByFirmware ==
  pc \in {"jump", "running", "fault"} /\ ~exited => key \in {"firmware", "garbage"}

\* The frame map is sized from MaxAddress.  For descriptors in any order, the
\* only memory the scan can miss is a region that starts exactly there.
ScanMissesOnlyAdjacent ==
  pc \in {"framemap", "framebuffer", "temp", "exit", "jump", "running"} =>
    \A n \in 1 .. Len(map) :
      map[n].start + map[n].pages <= MaxAddress \/ map[n].start = MaxAddress

\* The kernel's file is in memory when the kernel is entered.
KernelIsLoaded ==
  pc = "running" /\ failures = 0 => \A p \in FilePages : content[p] = "file"

\* ... unless the kernel's pages follow the PML4's page directly.
KernelIsLoadedOrFollowsPML4 ==
  pc = "running" /\ failures = 0 /\ base.pml4 + 1 \notin FilePages =>
    \A p \in FilePages : content[p] = "file"

\* The stub always comes to an end: it enters the kernel, returns to the
\* firmware, faults at the switch or is lost in a wild pointer.
StubEnds == <>(pc \in {"running", "returned", "fault", "wild"})

=============================================================================

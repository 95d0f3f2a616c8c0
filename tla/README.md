# FurOS64 in TLA+

FurOS64 is a small x86-64 operating system started through UEFI.  This project
models how it gets from the firmware to the kernel's idle loop, and the memory
management, interrupt table and text output that the kernel has at this commit.
TLC checks the models on small instances; TLAPS proves their safety properties for
every value of their parameters.  Only liveness rests on the instances alone.

## 1. Inventory

| Part | Source | State | Operations |
|---|---|---|---|
| BOOTX64 | `efi/src/main.c` 107-242 | memory map, file size, device path, the stub's handle | `GET_VOLUME`, `efi_main`: reserve pages for the kernel, load and start the stub |
| EFI stub: page tables | `efi/src/EFI_STUB.c` 205-312 | the physical pages used as tables | `GetTable`, `MMap`, `MakeTempRegion` |
| EFI stub: loader | `efi/src/EFI_STUB.c` 314-513 | addresses and sizes of what it allocates, `CurrentPage`, `KernelArgs`, `MapKey` | `efi_main` |
| EFI stub: memory map | `efi/src/EFI_STUB.c` 139-203 | `MEMORY_MAP_DESCRIPTOR` | `GetMemoryMap`, `FreeMemoryMapDescriptor` |
| Kernel entry | `src/main.c`, `linkerscript.ld` | `KernelArgs`, the statics in `.bss` | `kernel` |
| Frame allocator | `src/MemoryManagment/physical.c` 22-41 | `frame_map` | `AllocFrame`, `FreeFrame` |
| Temporary mappings | `src/MemoryManagment/physical.c` 43-69 | `temp_mapping_region`, the TLB | `TempMap`, `FreeTempMap`, `RefreshPages` |
| Memory manager set-up | `src/MemoryManagment/physical.c` 71-84 | pointers and sizes | `InitMemoryManagment` |
| Terminal | `src/Terminal/stdio.c` | cursor, screen size | `initTerminal`, `PrintChar`, `PrintString`, `PrintNum`, `PrintHex` |
| Frame buffer | `src/Drivers/vga.c` | the frame buffer | `initVga`, `PrintPixel` |
| Strings | `src/stdlib/string.c` | none | `strlen`, `strcmp` |
| Interrupts | `src/Arch/Interrupts` | IDT, IDTR, handler table | `SetIDTGate`, `LoadIDT`, `ISRInstall`, `RegisterInterruptHandler` |
| Port I/O, GDT, font | `src/Arch`, `src/font_mononoki.c` | none | data, single instructions, empty files |
| gnu-efi | `efi/lib`, `efi/include` | | vendored |

Several functions have no callers at this commit: the interrupt functions,
`AllocFrame`, `FreeFrame`, `TempMap`, `FreeTempMap`, `PrintNum`, `PrintHex`,
`FreeMemoryMapDescriptor`, `strcmp`, `memcpy` and the port I/O functions.  Where such
a function is modelled, its callers are a choice of the model: any sequence of calls.

How the parts interact.  BOOTX64 starts the stub.  The stub calls the firmware
for pages, files and the memory map; while boot services run, the firmware's
timer and driver events run between any two of its instructions and can change
the memory map.  The stub builds the kernel's address space with `MMap`, passes
`KernelArgs` in RDI and jumps.  The kernel runs alone, on one processor, with
interrupts off; the MMU is the only other actor, filling its TLB when it likes.
`temp_mapping_region` ties the two programs together: the stub maps a page table
into its own window (`MakeTempRegion`) and the kernel edits that table through
the window (`TempMap`).

What is hard here: firmware errors that are only printed, after which the boot
goes on with unset variables; page-table walks that fail half-way; memory that
is not cleared, the kernel's own `.bss` included; pointers that are passed to the
firmware without a value; a structure that two programs declare separately; a
layout made by five separate size computations; a map key that expires; the TLB;
an interrupt gate that is written field by field; and pointer arithmetic scaled
by hand.  `PROJECT.json` lists
each hazard at its line with the properties that cover it.

## 2. Modules

| Module | Models | Refines / uses |
|---|---|---|
| `AddressSpace` | what `MMap` and `MakeTempRegion` promise: one page per call | |
| `PageTables` | `GetTable`, `MMap`, `MakeTempRegion` on physical pages | implements `AddressSpace` |
| `EfiStub` | `efi_main` of the stub | uses `AddressSpace` for its `MMap` calls |
| `GetMemoryMap` | `GetMemoryMap`, `FreeMemoryMapDescriptor` | |
| `FrameSet` | what `AllocFrame` and `FreeFrame` promise | |
| `FrameMap` | the bitmap of `physical.c` | implements `FrameSet` |
| `TempMapping` | the temp window with the MMU | its initial state is what `MakeTempRegion` leaves |
| `Terminal` | `main.c`'s set-up order, `vga.c`, `stdio.c`, `strlen` | |
| `BootX64` | `efi_main` and `GET_VOLUME` of BOOTX64 | |
| `Kernel` | `kernel`, `initVga`, `initTerminal`, `InitMemoryManagment` | composed with `EfiStub`: extends it and runs on the state it leaves |
| `Interrupts` | `SetIDTGate`, `LoadIDT`, `ISRInstall`, `RegisterInterruptHandler` | |
| `MC*` | instances for TLC | |
| `*Proofs` | theorems on the module of that name; `BootProofs` on `EfiStub` and `Kernel` | extend the modules they are about |

Definitions marked `\* Mutant:` stand before the one they would replace and are
plausible bugs; each is used to see that one property really depends on the code
it is about.

### PageTables

`mem` holds the contents of every physical page read as a table of `Fan` (512)
entries; an entry is an address and a set of flag bits.  Addresses are page
numbers.  A call is a walk: `Call` enters `MMap` or `MakeTempRegion`, `level`
goes from 4 (PML4) to 1 (PT), and `table` is the table at hand.  At each level
`GetTable` either follows a present entry (`FollowEntry`), or takes a page,
clears it and links it (`LinkNewTable`), or fails (`AllocationFails`), which ends
the call; the caller's `|= 3` belongs to the same step.  `WritePTEntry` writes
the final entry: the physical page for `MMap`, the PT itself for
`MakeTempRegion` (the argument `Self`).  Pages that the firmware hands out hold
arbitrary old contents (`Junk`).  The flag that `Cached` sets is bit 4, which the
processor reads as cache *disable* (`"PCD"`): the model keeps what the code
writes.  `Translate` is the MMU's walk and the
refinement mapping to `AddressSpace`.

### EfiStub

One action per part of `efi_main`; `pc` names the part to run next and `i` is
the part's loop counter.  The five loops of `MMap` calls share `CallMMap` and
`MMapReturns` and differ in their row of `Loops`.  `OpenKernel` ends in
`"returned"` (the only early return) or `"wild"` (a call through a pointer that
was never set).  After a failed `AllocatePages` the address is 0 (`Initialised`), or,
for `FrameMap`, which has no initial value, any page of `Anywhere`: RAM or not.
After a failed `GetInfo` the file size is anything up to `MaxFileSize`, the largest
kernel that the higher half has room for; a size beyond it, or one that cannot be
read, ends in `"wild"`.  `Read` then returns no more than the file has
(`BytesRead`).  `content` says what each page of RAM holds, so that the clearing of
the PML4 can be seen to destroy something.  Pages of RAM that are never handed out
are the stub's image and the ones that the `Firmware` keeps for its pools, page 0
and the stub's stack.  `AfterWriting` says how the stub goes on when it has written
to pages that are not its own: into its image, nothing is known any more; into the
firmware's pages, where `RootImage` and the GOP mode lie, or outside RAM, it may be
lost or not.  After a NULL from the first `GetMemoryMap` the scan reads address 0,
which may look like an empty map.  `failures` counts the calls that failed; a refused
`ExitBootServices` is not among them, because it is a legal answer to an event and
what follows from it is a matter of the properties.
`key` says whether `MapKey` is still the firmware's, and who changed the map if
it is not.  `Jump` is the CR3, RSP and RDI switch, which faults unless the stub's
own code, the stack and the kernel's entry are mapped.  Sizes are counted in
units of which `PageSize` make a page, so the roundings stay visible.  The pages
that `MMap` takes for tables are not taken from `free`: they are the subject of
`PageTables`.

### GetMemoryMap

Sizes are counted in descriptors.  `AllocateDescriptor`, `QuerySize`,
`AllocateBuffer` and `Fetch` are the function's four firmware calls; `Event` is
the firmware changing its map in between.  An allocation, like an event, splits or
merges regions: the map gets longer or shorter by up to `MaxSplit` descriptors.
`grown` counts what events have added since the size was asked for.
`FreeMemoryMapDescriptor` frees two pools, in two steps.

### FrameMap

`frame_map` is a function from bytes to sets of bits with any initial contents.
`holds` is a history variable: who allocated what.  `AllocFrame` takes an address
and `FreeFrame` a frame number, as in the code.  Callers keep no contract: any of
them may pass any of `Addresses` to either function, and `FreeFrame` clears a bit
whoever had it set.  A frame freed by a caller that did not hold it, like the one a
caller hits that passes `FreeFrame` the address it gave `AllocFrame`, is recorded in
`stolen`; the properties say that all other frames are safe.  Beyond the map lie
pages without a mapping, where an access is a fault, and then the frame buffer, the
temp region's table and the stack (`Beyond`): there a bit reads as anything, and
setting it "allocates" a frame that does not exist.

### TempMapping

`temp_mapping_region` is the table's entries; `tlb` is what the MMU has cached
for each page of the window (`Walk`, `Evict`).  `TempMap` uses entry 1 or spins
for ever, since its loop never advances `i`.  `FreeTempMap` and `RefreshPages`
are two steps, so that the stale TLB between them can be seen.

### Terminal

A pixel holds the number of the character that drew it last, so that overwriting
is visible; colours and the bitmaps of the font are left out.  `PrintString`,
`PrintNum` and `PrintHex` put codes in `todo`; `PrintChar` prints one.  What
`PrintPixel` writes outside the frame buffer is collected in `stray`.  `Glyphs`
gives the entry of `font_data` for a code.  For a code that is no letter, no
digit and not above 0x60, `printed` has no value: the entry is any of `Garbage`.

### BootX64

`pc` names the part of `efi_main` to run next.  Sizes, addresses and page counts
are words modulo `Word`, because the reserve loop subtracts a start that it has
not compared.  `ReserveBuffer` and `EfiStubHandle` are pointers without a value:
the firmware reads an arbitrary address through the first (one of the map's
starts, or `KernelAddress`) and writes through the second, unless the access
loses the program (`"wild"`).  `requests` keeps what was asked for, `reserved`
what the firmware gave.  `Event` and `AllocateMap` change the firmware's map, by up
to `MaxSplit` more descriptors.  After a failed `GetInfo` the file size is any word.

### Kernel

`Kernel` extends `EfiStub`, so that the kernel's page accesses are looked up in
the very `space` that the stub's `MMap` calls built, and its arguments are the
stub's `KernelArgs`.  Each part of `kernel()` is a use of `Execute`: the statics
it reads, the ones it sets, and the pages it touches besides `.bss`, the stack
and the arguments; a page without a mapping is a fault that nobody handles.
`linkerscript.ld` makes a flat binary, so `.bss` is not in the file, and the
statics start as `"junk"`; a static's value is the field of the structure it was
copied from.  `Offsets` lays a structure out as the compiler does, and `Received`
is what the kernel finds at an offset that the stub wrote with its own
declaration.  `Interrupt` is an interrupt before `cli` while boot services run.

### Interrupts

A gate is its seven members, numbered as they lie in `idt_gate_t`; an address is
four half words of `Half` (2^16) values.  `SetIDTGate` is one step per
assignment, since exceptions and NMIs are not held off by `cli`.  `Usable` and
`Target` are the processor's reading of a gate, `Accepts` its check of the limit.
`gdt.c` is empty, so that the GDT is the firmware's; `CodeSegments` are the selectors
of its 64-bit code segments, and that 0x10 is one of them is an assumption.

## 3. Runs

| Run | Shows | Bounds |
|---|---|---|
| `page_tables` | `TypeOK`, `TreeShaped` (no table lost, shared or uncleared), `TablesStayPrivate`, `OnlyTablesWritten`, `ImplementsAddressSpace` | tables of 2 entries, 5 pages for tables (two full paths need 6, so calls also fail for want of pages), 2 data pages, junk that looks present |
| `efi_stub` | `MapsEachPageOnce`, `WindowIsFresh`, `HandOver`, `ExitRefusedOnlyByFirmware`, `ScanMissesOnlyAdjacent`, `KernelIsLoadedOrFollowsPML4`, `StubEnds`, `TypeOK` | pages of 2 units, windows of 4 pages, 8 pages of RAM, of which the firmware keeps 2 and the image has 1, the others in every placement; 4 memory maps (one region, adjacent ones, with a hole, out of order), file sizes up to 3 pages' worth with the slack, a frame map also on the frame buffer and beyond everything, at most 2 failures per boot (`MaxFailures`) |
| `efi_stub_overrun` | a counterexample to `KernelIsLoaded` | as above |
| `memory_map` | `SlackSuffices`, `ReturnedMapIsCurrent`, `TypeOK` | 2 calls, as in `efi_main`, and 4 events; up to 2 descriptors per change of the map, so that events can add 8 where the slack is 5 |
| `frame_map` | `Exclusive`, `Accounted`, `ImplementsFrameSet`, `TypeOK` | 2 bytes of 2 bits, every initial content, 2 callers, numbers in the gap behind the map, in the byte mapped behind that and beyond; at most 2 frames freed by others (`MaxStolen`) |
| `temp_mapping` | `SelfMapKept`, `WindowShowsLoans`, `SpinsOnlyWhileLent`, `TypeOK` | a window of 18 pages, so that pages 8 and 16 exist; 10 frames |
| `temp_mapping_pointer` | a counterexample to `PointerReachesFrame` | as above |
| `terminal` | `CharactersStay`, `StrayOnlyBelowLastLine`, `TextReadsBack`, `NumberReadsBack`, `TypeOK` | 2 lines of 2 characters, a scanline longer than the line, up to 7 characters (`MaxDrawn`), lines beyond the screen (`MaxRow`); numbers with leading, inner and hexadecimal digits; a character without a glyph among letters and digits |
| `boot_x64` | `ReservesWithinRegion`, `GivesUpOnlyIfMapGrew`, `LoaderStartsStub`, `TypeOK` | pages of 2 bytes, `KernelAddress` on page 16, words of 64, each of which the file size may be; 7 maps of 1 to 5 entries that end at, hold, or lie above `KernelAddress`, the first entry above it too; at most 2 events and 2 failures; changes of up to 2 entries, so that an allocation and an event can add 4 where 2 fit in the slack |
| `boot_x64_reserve` | a counterexample to `ReservesAtKernelAddress` | as above, without events or failures |
| `kernel` | `CleanBootDiesOnlyBeforeCli`, `KernelIsTold`, `OnlyBgcolorUnset`, `DynamicMemoryIsFree`, `CleanBootReachesIdle` | a kernel file of two pages, 9 pages of RAM in every placement, 2 memory maps, a frame buffer of two pages, one failing call, events that make the firmware refuse the exit; 61 pages of addresses, so that `dynamic_memory`, eight windows behind the temp region, still lies below the stack |
| `interrupts` | `GatesLeadToRoutines`, `TornOnlyBetweenStores` | 2 gates, half words of 16 values so that the limit just fits, 3 addresses that share parts, junk that is all ones or looks usable, a GDT with two code segments |

Deadlock is checked where the system cannot stop (`page_tables`).  The others may
stop: the stub ends, the kernel faults or spins, the bounded histories run out.

Three runs show disagreements with the code:

- `efi_stub_overrun`: the PML4 gets one page and two are cleared
  (`EFI_STUB.c:414`).  The kernel's file has been read before, so if the firmware
  put the kernel directly behind the PML4 its first page is zero when it is
  entered.  `KernelIsLoadedOrFollowsPML4` shows that this is the only way to lose
  it.
- `temp_mapping_pointer`: `TempMap` maps entry 1 and returns a pointer to page 8
  (`physical.c:61`).  `FreeTempMap` divides by 8 again, so releasing works, but an
  access through the pointer does not reach the frame.
- `boot_x64_reserve`: the pages that BOOTX64 reserves "at 0xffff00000000"
  (`efi/src/main.c:163`) are wherever the unset `ReserveBuffer` (line 182) leads.

What else the runs show.  The reserve loop tests the start of the map's first
entry (line 189); for an entry above `KernelAddress` the subtraction wraps to a
large number, and the smaller of the two numbers saves it: no request exceeds
the file.  In a boot without failures whose PML4 spared the kernel, nothing stops
the kernel but an interrupt before `cli`, which can only come when the firmware
refused to end boot services; `CleanBootDiesOnlyBeforeCli` names the two statements
at which it can.  A stray or mistaken call of the frame allocator endangers the one
frame it was made with.
`bgcolor` is the one static that is read before it is set.  A gate is marked
present before its address is complete; replacing one routine by another shows
the processor a mixed address between the first assignment and the sixth, and
only there.

Fairness.  `EfiStub` states `WF_vars(Stub)`, `BootX64` `WF_vars(Loader)` and
`Kernel` `WF_allVars(StubCode \/ KernelCode)`: the one processor goes on executing
the program it runs, and an event handler returns to it.  Every firmware call
returns, successfully or not.  The firmware's events and the interrupts get no
fairness; that there are finitely many of them (`MaxEvents`, `MaxFailures`) only
bounds the instance, since weak fairness lets the program go on between them.
`LoaderStartsStub` says that BOOTX64 starts the stub, gives up, or is led astray by
an unset pointer, and waits without having started anything only if a call has
failed; `CleanBootReachesIdle` that a boot without failures ends in the kernel's idle
loop, unless the page cleared behind the PML4 mattered or an interrupt came because
boot services still ran.  `StubEnds` says that under this assumption `efi_main` reaches the
kernel, returns, faults, or is lost in a wild pointer, and never hangs in a loop.

## 4. Proofs

`PageTablesProofs` proves, for every fan-out of at least 2, every set of pages
and every initial memory: `TypeCorrect`, `TreeCorrect`, `PrivacyCorrect`,
`WritesConfined` and `Refinement`.  All rest on one inductive invariant, `IInv`:

- `PageRoles`: a table serves one level and is neither free nor a data page;
- `TreeShaped`: entries lead one level down, no two lead to the same table, and
  every table is reached;
- `PTsMapDataOrThemselves`: final entries are data pages or the PT itself;
- `WalkOnPath`: the table at hand is the one the MMU would find.

The refinement needs all of it: that linking a table is invisible needs that the
new page was no table before (`PageRoles`) and is empty; that the final entry
changes one translation needs that no table has two parents (`LinksUnique`) and
that four equal indices mean equal pages (`EntriesDetermineThePage`).

`BootProofs` is about the stub and the kernel it boots, for every size of page,
window, file, image, stack and frame buffer, every set of physical pages, every
placement that the firmware chooses, every memory map whose descriptors do not
overlap, and any number of failing calls.  Over the stub's `Spec` it proves
`StubTypeCorrect`, `ScanCorrect`, `EachPageMappedOnce`, `WindowCorrect`,
`ExitCorrect`, `LoadedCorrect` and `HandOverCorrect`; over `BootSpec`, which goes on
into the kernel, `ToldCorrect`, `UnsetCorrect`, `DynamicMemoryCorrect` and
`CleanBootCorrect`.  `StubInv` is inductive:

- `TypeInv`: types, and that counters and addresses are numbers;
- `ScanInv`: after `n` descriptors, `MaxAddress` is 0 or the end of one of them,
  and each starts at or below it.  A region that starts below the maximum is then
  the one that set it, or lies below that one as a whole;
- `PlacesInv`: `CurrentPage` and the fields of `KernelArgs` are the running totals
  of the sizes placed so far;
- `ControlInv`: which loops have run, how far the current one is, and that a call
  in progress is that loop's;
- `OccupiedInv`: a virtual page is mapped only if a loop has come to it;
- `ShownInv`: if no call has failed, each page that a loop has passed shows the
  physical page it should;
- `KeyInv` and `LoadedInv`: how `MapKey` can expire, and what the kernel's pages
  hold at each part.

`EachPageMappedOnce` needs `OccupiedInv`, and that the five regions do not meet,
for any sizes (`LayoutFits`, `LoopsApart`, `FreshPage`): arithmetic on roundings, by
which each region starts behind the end of the one before and the temp region at a
multiple of the window.  `HandOverCorrect` adds `ShownInv` and
the division of byte offsets into pages.  For the kernel, `KernelInv` says which
statics have been set from which fields.  `ToldCorrect` rests on `OffsetsAre` and
`ArgIsField`: the recursion that lays a structure out has exactly one solution, and
no two fields of `KERNEL_ARGS` get the same offset.  `CleanBootCorrect` combines
both (`WellMapped`): each page that `kernel()` touches is one that a loop mapped, so
that a step into a fault can only be the interrupt.  `DynamicMemoryCorrect` needs
`DynamicMemoryAssumption` for the room below the stack.

Six more theorems of `BootProofs` join parts of the system or say how far a
property reaches:

- `StubKeepsContract`: `Spec => AS!Spec`.  The stub is a user that `AddressSpace`
  allows.  It makes no call during another and asks only for virtual pages that
  exist and physical pages of `Data`.  `PageTables` implements `AddressSpace`
  (`Refinement`) as long as the pages for tables are none of the pages being mapped,
  which is so while allocations succeed; then what is proved of the stub over the
  abstract tables holds over the real ones.  `Data` has to include pages beyond RAM:
  after a failed `AllocatePages` a loop counts on from whatever its variable holds.
- `WindowAligned`: the window of the temp region is the pages of exactly one page
  table, entry `n` at page `n`, which `TempMapping` takes for granted.  Its one
  hypothesis is that `HIGHER_HALF_START` is a multiple of 2 MiB, and it is
  one of 2^47.
- `LoadedExactly` and `OverrunCorrect`: the page that `InitPageMap` clears beyond its
  own decides a boot without failures.  If it belongs to the kernel's file, it is
  zero when the kernel is entered and the kernel never gets beyond its entry; if it
  does not, the file is intact and, by `CleanBootCorrect`, only an interrupt before
  `cli` can stop the kernel.  They add
  `ClearedInv`, nothing overwrites the zeros, and `SingleInv`, a virtual page has one
  mapping.
- `Advances`: every step of the stub goes on to a later part of `efi_main` or makes
  `Remaining` smaller, the steps that the current loop has left; an event of the
  firmware changes neither.  This is the safety half of `StubEnds`.
- `BootRunsTheStub`: seen through the stub's variables a boot is a run of the stub,
  so that the theorems about `Spec`'s steps hold of `BootSpec` too.

`GetMemoryMapProofs` proves `TypeCorrect`, `SlackCorrect` and `ReturnedMapCorrect`
for every slack and every number of descriptors that an allocation adds.  The
invariant adds `GrowthBounded`: since the size was asked for, the map has grown by
no more than the events have added (`grown`) and the function's own allocation.

`BootX64Proofs` proves `TypeCorrect`, `ReserveCorrect` and `GivesUpCorrect`.  The
invariant says that the size passed around is that of the map at hand
(`SizeOfMap`) and that every request so far is good (`GoodRequests`).  The lemmas
are about subtraction modulo `Word`: it does not wrap for a region that starts at or
below `KernelAddress` and ends above it (`NoWrap`); for any other region the smaller
of the two numbers keeps the request within the file.  `Advances` is the safety half
of `LoaderStartsStub`: the reserve loop walks a copy of the map that no event
changes, and every other step goes on to a later part.

`FrameMapProofs` proves `TypeCorrect`, `ExclusiveCorrect`, `AccountedCorrect` and
`FrameSetRefinement` for every size of the map, every initial junk and whatever
numbers callers pass, from the lemmas that a frame is determined by its byte and bit
and that a number whose bit strays is no frame of the map.

`TempMappingProofs` proves `TypeCorrect`, `SelfMapCorrect`, `LoansCorrect` and
`SpinCorrect` for every window of more than 8 pages.  The inductive invariant says that entry 1 is
the only one in use besides the table's own, and that the TLB agrees with the
table save for entry 1 between the two halves of `FreeTempMap`.  `PointerAlwaysMisses`
puts the run `temp_mapping_pointer` in general terms: for every entry of more than one
byte, no pointer in use leads to any page.

`InterruptsProofs` proves `GatesCorrect` and `TornCorrect` for every width of a half
word, every table that fits the 16-bit limit and every initial content of `.bss`.
Its inductive invariant has three parts that the properties themselves lack:
`StoredSoFar`, the members before the current assignment hold their parts of the
address; `YetToStore`, the ones from it on still hold those of the routine that is
being replaced; and `SetGates`, a gate that is set and not in progress has all seven
members of its routine.  That the processor then finds the address is arithmetic: dividing
twice by `Half` is dividing by its square (`DivideTwice`, from the uniqueness of
division), and three digits make up the number they were taken from
(`Recompose`).  `LimitCoversTable` adds that the limit reaches each gate's last
byte.

`TerminalProofs` proves `TypeCorrect`, `StayCorrect`, `StrayCorrect`, `TextCorrect` and
`NumberCorrect` for every resolution, scanline and font size, every terminated
string and every number.  `IInv` adds `CursorAhead`, the cursor is behind or below
every character drawn; two cells share no pixel because a pixel's index divides in
one way only (`CellsApart`).  `PrintInv` adds `CallInv`, which ties the call in
progress to its codes: a glyph has been drawn for each visible code up to the
position, and the rest is still to print; `Rank` counts the visible ones.  That the
digits read as the number is an induction over the divisions of the loop.  It is
made over sets instead of predicates: the numbers for which a claim fails would
have a least one (`LeastNatural`, from `WFMin`).  So `numstring`'s recursion is shown
to have a solution whose codes are the last digits of the number divided again and
again (`Divides`), and reading them forwards undoes the divisions (`DigitsOfNumber`).
`DigitsFit` adds that a number below the K-th power of the base has at most K digits.
`numstring` has 10 bytes in `PrintNum` and 16 in `PrintHex`, and the loops do not look
at its size: every `uint32_t` and every `uint64_t` just fits.

Assumptions are the named `ASSUME`s of the modules; TLC evaluates them in the
runs.  The ones that say something of the machine rather than of types:

- `EfiStub`: `MemoryMapsAssumption`, descriptors do not overlap; `LayoutAssumption`,
  the stub's image lies below the higher half, and for every file up to
  `MaxFileSize` and every end of memory the regions fit below the stack.  With
  the real sizes the higher half has room for far more than a machine's memory;
  `SizesAssumption`, page 0 is RAM that the firmware keeps;
- `Kernel`: `ArgsAssumption`, `KernelArgs` lies in the stub's image;
  `DynamicMemoryAssumption`, eight windows behind any temp region is still below the
  stack (16 MiB of 128 TiB);
- `BootX64`: `MemoryMapsAssumption`, regions are aligned and end below 2^64;
- `Interrupts`: the table fits the limit; `GDTAssumption`, the firmware's GDT has a
  64-bit code segment at 0x10; `TempMapping`: the window has more pages
  than a pointer has bytes;
- `Terminal`: `ScreenAssumption`, a character is as wide as high and fits on a line,
  scanlines are no shorter than the screen is wide, and the frame buffer holds all
  of them; `TextAssumption`, strings are terminated.

Only model-checked: `StubEnds`, `LoaderStartsStub` and `CleanBootReachesIdle`,
liveness under fairness, which is out of this prover's reach.  The two theorems
`Advances` leave to TLC only that a program which has not ended can take a step.
That `KernelIsLoaded` and `ReservesAtKernelAddress` fail are TLC's counterexamples too;
for the pointer of `TempMap` the failure itself is a theorem.

## 5. Not modelled

Of the repository's lines, nearly all are not FurOS64's own: gnu-efi with its
tools and applications, three copies of the UEFI headers, and the generated
bitmaps of the font.  The programs themselves are some 1200 lines in about
a dozen files; the models cover every function of them that has state, also
where nobody calls it yet.  Left out:

- gnu-efi (`efi/lib`, `efi/include`): vendored.  The boot services, and the
  outcomes of `FileDevicePath`, are modelled from their use.
- `EFIStatusToStr`, `EFIMemTypeToString` and everything printed: texts, no state.
- Font data (`font_mononoki.c`), colours.
- `strcmp`, `memcpy` and the port I/O functions: no callers; one loop or one
  instruction each.  `ISRHandler` and `IRQHandler` have empty bodies; `gdt.c` and
  `virtual.c` are empty files.
- The contents of the memory map beyond starts, sizes and, in `BootX64`, types.
- The 64-bit wrap-around of addresses in `EfiStub`: `LayoutAssumption` says that the
  regions fit between `HIGHER_HALF_START` and the stack.  A file size beyond
  `MaxFileSize`, which only a failed call can leave behind, ends in `"wild"`.
- What a bit that `AllocFrame` sets beyond the frame map does to the frame buffer, the
  temp region's table or the stack it lies in.
- The GDT, beyond the selectors of its code segments.
- Build and run scripts.

## 6. Plan

Done: all modules of section 2; every safety property of the runs that expect to
pass is proved in section 4, and `EfiStub` and `PageTables` meet in `AddressSpace`, which
one is proved to use as intended and the other to implement.  What could be added:

1. `Terminal` composed with `Kernel`, so that its pixels are looked up in the address
   space that the stub built.

-------------------------------- MODULE Kernel --------------------------------
(***************************************************************************)
(* A whole boot from the stub's first call to the kernel's idle loop:      *)
(* kernel() of main.c, with initVga, initTerminal, InitMemoryManagment and *)
(* the first PrintString, runs on the address space and the KernelArgs     *)
(* that EfiStub leaves.                                                    *)
(*                                                                         *)
(* The kernel is a raw binary: its .bss is not in the file and nobody      *)
(* clears the pages it lies on, so that its static variables start with    *)
(* any value, whatever their initialisers say.  The value of a static is   *)
(* modelled as the field of KERNEL_ARGS that it came from.  Until "cli"    *)
(* the processor takes interrupts if boot services are still running, and  *)
(* their handlers are not mapped.                                          *)
(***************************************************************************)
EXTENDS EfiStub, Functions

CONSTANTS
  ArgsPage   \* page of the stub's image that holds KernelArgsStruct

ASSUME ArgsAssumption == ArgsPage \in ImagePages

\* Behind any temp region there is room for eight times its window, and a page,
\* below the stack.
ASSUME DynamicMemoryAssumption ==
  \A f \in 0 .. MaxFileSize, e \in Ends :
    LET offset == (PagesFor(f) + Slack + PagesFor(e \div Bits) * Stride) * PageSize
    IN HigherHalf + NextWindow(offset + FrameBufferSize) \div PageSize + 8 * Fan
         < TopPage - StackPages

VARIABLES
  kpc,       \* the statement of kernel() to run next
  statics,   \* where the value of each static in .bss came from
  unset      \* history: statics that were read before they were set

kernelVars == <<kpc, statics, unset>>
allVars == <<vars, kernelVars>>

-----------------------------------------------------------------------------
(* KERNEL_ARGS: written by the stub with its declaration of the structure,  *)
(* read by the kernel with main.c's.                                        *)

StubLayout ==
  <<"framebuffer", "framebuffersize", "VerticalResolution",
    "HorizontalResolution", "PixelsPerScanline", "MemoryMapSize",
    "DescriptorSize", "MapKey", "DescriptorVersion", "MemoryMap", "FrameMap",
    "FrameMapSize", "TempMappingRegion">>

\* Mutant: the declaration in include/kernel_args.h, with a pointer to the
\* memory map's descriptor and without TempMappingRegion.
HeaderLayout ==
  <<"framebuffer", "framebuffersize", "VerticalResolution",
    "HorizontalResolution", "PixelsPerScanline", "MemoryMapDescriptor",
    "FrameMap", "FrameMapSize">>

KernelLayout ==
  <<"framebuffer", "framebuffersize", "VerticalResolution",
    "HorizontalResolution", "PixelsPerScanline", "MemoryMapSize",
    "DescriptorSize", "MapKey", "DescriptorVersion", "MemoryMap", "FrameMap",
    "FrameMapSize", "TempMappingRegion">>

\* sizeof the field: uint32_t or a word.
SizeOf(f) ==
  IF f \in {"VerticalResolution", "HorizontalResolution", "PixelsPerScanline",
            "DescriptorVersion"} THEN 4 ELSE 8

\* Offsets of a structure's fields, each aligned to its own size.
Offsets(struct) ==
  LET at[n \in 1 .. Len(struct)] ==
        IF n = 1 THEN 0
        ELSE LET end == at[n - 1] + SizeOf(struct[n - 1])
                 size == SizeOf(struct[n])
             IN ((end + size - 1) \div size) * size
  IN [f \in Range(struct) |-> at[CHOOSE n \in 1 .. Len(struct) : struct[n] = f]]

StubOffsets == Offsets(StubLayout)

KernelOffsets == Offsets(KernelLayout)

\* What the kernel finds in each field it reads: the field that the stub wrote
\* there, or nothing in particular.
Received ==
  [f \in Range(KernelLayout) |->
     LET here == {g \in Range(StubLayout) :
                    StubOffsets[g] = KernelOffsets[f] /\ SizeOf(g) = SizeOf(f)}
     IN IF here = {} THEN "junk" ELSE CHOOSE g \in here : TRUE]

Arg(f) == IF f \in DOMAIN Received THEN Received[f] ELSE "junk"

Statics ==
  {"KernelArgs", "framebuffer", "size", "pixel_per_scanline", "x", "y",
   "max_vertical", "max_horizontal", "bgcolor", "memory_map",
   "memory_map_size", "descriptor_size", "frame_map", "frame_map_size",
   "temp_mapping_region", "dynamic_memory"}

-----------------------------------------------------------------------------
(* Memory as the kernel sees it *)

Mapped(v) == space[v] # {}

\* .bss starts on the page behind the file's last one.
BssPage == HigherHalf + PagesFor(KernelFileSize)

\* The kernel's instructions are there.
CodeThere ==
  \A n \in 0 .. (PagesFor(KernelFileSize) - 1) :
    \E m \in space[HigherHalf + n] : m.frame \in Phys /\ content[m.frame] = "file"

\* Pages of the frame buffer at a pointer that came from field f.  No page is
\* mapped at a pointer that came from elsewhere: TopPage stands for it.
PixelPages(f) ==
  IF f = "framebuffer"
  THEN {HigherHalf + (KernelArgs.framebuffer + n) \div PageSize :
          n \in 0 .. (FrameBufferSize - 1)}
  ELSE {TopPage}

-----------------------------------------------------------------------------
(* kernel(), call by call *)

\* Mutant: initTerminal is not called.
OrderWithoutTerminal == <<"entry", "cli", "fill", "vga", "memory", "print", "idle">>

Order == <<"entry", "cli", "fill", "vga", "terminal", "memory", "print", "idle">>

Following(k) == Order[1 + CHOOSE n \in 1 .. (Len(Order) - 1) : Order[n] = k]

\* Run part k: it reads some statics, sets others and touches some pages
\* besides .bss, the stack and KernelArgs.  An access to a page that is not
\* mapped is a fault that nobody handles.
Execute(k, reads, sets, pages) ==
  /\ pc = "running"
  /\ kpc = k
  /\ statics' = [s \in Statics |-> IF s \in DOMAIN sets THEN sets[s] ELSE statics[s]]
  /\ unset' = unset \cup {s \in reads : statics[s] = "junk"}
  /\ kpc' = IF \A v \in pages \cup {BssPage, TopPage - 1, ImageBase + ArgsPage} : Mapped(v)
            THEN Following(k) ELSE "fault"
  /\ UNCHANGED vars

\* RDI is saved in KernelArgs.  Without its code nobody knows what runs.
Entry ==
  \/ CodeThere /\ Execute("entry", {}, [KernelArgs |-> "RDI"], {})
  \/ /\ pc = "running" /\ kpc = "entry" /\ ~CodeThere
     /\ kpc' = "wild"
     /\ UNCHANGED <<vars, statics, unset>>

Cli == Execute("cli", {}, <<>>, {})

\* A quarter of the frame buffer is coloured.
Fill == Execute("fill", {"KernelArgs"}, <<>>, PixelPages(Arg("framebuffer")))

InitVga ==
  Execute("vga", {"KernelArgs"},
          [framebuffer |-> Arg("framebuffer"), size |-> Arg("framebuffersize"),
           pixel_per_scanline |-> Arg("PixelsPerScanline")],
          PixelPages(Arg("framebuffer")))

InitTerminal ==
  Execute("terminal", {"KernelArgs"},
          [x |-> "0", y |-> "0", max_vertical |-> Arg("VerticalResolution"),
           max_horizontal |-> Arg("HorizontalResolution")], {})

\* Mutant: dynamic memory starts with the temp region.
DynamicMemoryAtRegion == HigherHalf + KernelArgs.TempMappingRegion \div PageSize

\* temp_mapping_region + 0x1000 * 512, on a pointer to 8-byte elements.
DynamicMemory == HigherHalf + KernelArgs.TempMappingRegion \div PageSize + 8 * Fan

InitMemoryManagment ==
  Execute("memory", {"KernelArgs"},
          [memory_map |-> Arg("MemoryMap"), memory_map_size |-> Arg("MemoryMapSize"),
           descriptor_size |-> Arg("DescriptorSize"), frame_map |-> Arg("FrameMap"),
           frame_map_size |-> Arg("FrameMapSize"),
           temp_mapping_region |-> Arg("TempMappingRegion"),
           dynamic_memory |-> Arg("TempMappingRegion")], {})

PrintHello ==
  Execute("print",
          {"x", "y", "max_horizontal", "bgcolor", "framebuffer", "pixel_per_scanline"},
          <<>>, PixelPages(statics["framebuffer"]))

\* Boot services still run: an interrupt before cli finds neither its gate nor
\* its handler mapped.
Interrupt ==
  /\ pc = "running"
  /\ kpc \in {"entry", "cli"}
  /\ ~exited
  /\ kpc' = "fault"
  /\ UNCHANGED <<vars, statics, unset>>

KernelInit ==
  /\ Init
  /\ kpc = "entry"
  /\ statics = [s \in Statics |-> "junk"]
  /\ unset = {}

KernelCode ==
  \/ Entry \/ Cli \/ Fill \/ InitVga \/ InitTerminal \/ InitMemoryManagment
  \/ PrintHello

StubCode == Stub /\ UNCHANGED kernelVars

Boot ==
  \/ StubCode \/ KernelCode \/ Interrupt
  \/ FirmwareEvent /\ UNCHANGED kernelVars

\* One processor, which executes the stub and then the kernel.
BootSpec ==
  KernelInit /\ [][Boot]_allVars /\ WF_allVars(StubCode \/ KernelCode)

-----------------------------------------------------------------------------
(* Properties *)

\* Clearing the PML4 has hit the kernel's file.
Overrun ==
  /\ pc \notin {"load", "info", "allocate", "read", "gop", "pml4"}
  /\ base.pml4 + 1 \in FilePages

Dead == {"fault", "wild"}

\* If no call failed and clearing the PML4 spared the kernel, the kernel finds
\* its code, its .bss, its stack, its arguments and every pixel of the frame
\* buffer mapped where it looks for them.  Only one step can still end it: an
\* interrupt before cli, when the firmware has refused to end boot services.
CleanBootDiesOnlyBeforeCli ==
  [][failures' = 0 /\ ~Overrun' /\ kpc' \in Dead =>
       kpc \in Dead \/ (kpc \in {"entry", "cli"} /\ ~exited)]_allVars

Told ==
  [framebuffer |-> "framebuffer", size |-> "framebuffersize",
   pixel_per_scanline |-> "PixelsPerScanline",
   max_vertical |-> "VerticalResolution", max_horizontal |-> "HorizontalResolution",
   memory_map |-> "MemoryMap", memory_map_size |-> "MemoryMapSize",
   descriptor_size |-> "DescriptorSize", frame_map |-> "FrameMap",
   frame_map_size |-> "FrameMapSize", temp_mapping_region |-> "TempMappingRegion"]

\* The declarations of KERNEL_ARGS in the two programs agree: what each static
\* of the kernel is set from is what the stub stored for it.
KernelIsTold ==
  kpc = "idle" => \A s \in DOMAIN Told : statics[s] = Told[s]

\* .bss is not cleared.  The one static that is read before it is set is
\* bgcolor: its zero is an initialiser that never reaches memory, and the
\* background of the text has whatever colour the page held.
OnlyBgcolorUnset == unset \subseteq {"bgcolor"}

\* dynamic_memory lies below the stack, and nothing is mapped from there up to
\* the stack: not what the stub placed, nor any page that a pointer of TempMap
\* can lie on.
DynamicMemoryIsFree ==
  kpc = "idle" =>
    /\ DynamicMemory < TopPage - StackPages
    /\ \A v \in DynamicMemory .. (TopPage - StackPages - 1) : ~Mapped(v)

\* A boot without failures, whose PML4 is not placed right below the stub, the
\* firmware's pages or the kernel, ends in the kernel's idle loop, unless an
\* interrupt comes because boot services still run.
CleanBootReachesIdle ==
  <>(\/ kpc = "idle" \/ failures > 0 \/ pc = "wild" \/ Overrun
     \/ kpc = "fault" /\ ~exited)

=============================================================================

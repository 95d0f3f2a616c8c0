----------------------------- MODULE PageTables -----------------------------
(***************************************************************************)
(* The four-level page tables that the EFI stub builds for the kernel:     *)
(* GetTable, MMap and MakeTempRegion of efi/src/EFI_STUB.c.                *)
(*                                                                         *)
(* A call walks PML4, PDPT, PD and PT.  Each GetTable on the way is one    *)
(* step: it follows a present entry, or takes a page from the firmware,    *)
(* clears it and links it, or returns the firmware's error, which makes    *)
(* the caller return before it has written the page's own entry.           *)
(*                                                                         *)
(* Addresses are page numbers (VIRT >> 12).  Fan is the number of entries  *)
(* of a table, 512 in the code, so VIRT >> 21 is one more division by Fan. *)
(***************************************************************************)
EXTENDS Naturals

CONSTANTS
  Frames,  \* physical pages
  Data,    \* pages mapped on the kernel's behalf: image, kernel, stack, ...
  Root,    \* the page of the PML4, allocated and cleared by efi_main
  Page0,   \* physical page 0, the address bits of a cleared entry
  Fan,     \* entries of a table
  Virt,    \* virtual pages that calls may name
  Junk,    \* what a page may hold before the firmware hands it out
  Self,    \* the "physical page" MakeTempRegion maps: the PT it writes
  Idle     \* no call in progress

VARIABLES
  mem,     \* contents of the physical pages, read as tables
  free,    \* pages the firmware may still hand out
  pages,   \* history: the pages taken as tables of each level
  level,   \* level of the table at hand, 4 (PML4) .. 1 (PT); 0 between calls
  table,   \* the table at hand: PML4, PDPT, PD or PT
  arg,     \* arguments of the call in progress
  status   \* status of the last call, "busy" during one

vars == <<mem, free, pages, level, table, arg, status>>

-----------------------------------------------------------------------------
(* Page-table entries: 64-bit words as an address and a set of flag bits.  *)

Entries == 0 .. (Fan - 1)

Flags == {"P", "W", "PCD"}

PTE == [frame : Frames, flags : SUBSET Flags]

Table == [Entries -> PTE]

ZeroPTE == [frame |-> Page0, flags |-> {}]

\* Mutant: the clearing loop stops one entry short.
ShortTable ==
  [e \in Entries |-> IF e = Fan - 1 THEN [frame |-> Page0, flags |-> {"P"}] ELSE ZeroPTE]

ZeroTable == [e \in Entries |-> ZeroPTE]

\* Mutant: the present bit is not looked at.
PresentAlways(t, e) == TRUE

\* table[entry] & PTE_PRESENT
Present(t, e) == "P" \in mem[t][e].flags

\* table[entry] |= 3
WithPW(pte) == [frame |-> pte.frame, flags |-> pte.flags \cup {"P", "W"}]

\* Mutant: EntryPD is taken with the shift of EntryPDPT.
EntryWrongShift(l, v) ==
  <<v % Fan,
    ((v \div Fan) \div Fan) % Fan,
    ((v \div Fan) \div Fan) % Fan,
    (((v \div Fan) \div Fan) \div Fan) % Fan>>[l]

\* VIRT >> 12 & 0x1ff, VIRT >> 21 & 0x1ff, ... : the entry at each level
Entry(l, v) ==
  <<v % Fan,
    (v \div Fan) % Fan,
    ((v \div Fan) \div Fan) % Fan,
    (((v \div Fan) \div Fan) \div Fan) % Fan>>[l]

Args == [virt : Virt, phys : Data \cup {Self}, cached : BOOLEAN]

ASSUME FanAssumption == Fan \in Nat \ {0, 1}

ASSUME VirtAssumption == Virt \subseteq 0 .. (Fan * Fan * Fan * Fan - 1)

ASSUME FramesAssumption ==
  /\ Data \subseteq Frames
  /\ Root \in Frames \ Data
  /\ Page0 \in Frames \ Data
  /\ Page0 # Root
  /\ Self \notin Frames

ASSUME JunkAssumption == Junk \subseteq Table

ASSUME IdleAssumption == Idle \notin Args

-----------------------------------------------------------------------------
(* What the MMU finds once CR3 holds Root: the tables on the way to v, and *)
(* the set of the one entry that maps v, or the empty set.                 *)

PDPTOf(v) == mem[Root][Entry(4, v)].frame
PDOf(v) == mem[PDPTOf(v)][Entry(3, v)].frame
PTOf(v) == mem[PDOf(v)][Entry(2, v)].frame

HasPDPT(v) == Present(Root, Entry(4, v))
HasPD(v) == HasPDPT(v) /\ Present(PDPTOf(v), Entry(3, v))
HasPT(v) == HasPD(v) /\ Present(PDOf(v), Entry(2, v))

Translate(v) ==
  IF HasPT(v) /\ Present(PTOf(v), Entry(1, v))
  THEN {mem[PTOf(v)][Entry(1, v)]}
  ELSE {}

-----------------------------------------------------------------------------
Init ==
  /\ \E m \in [Frames -> Junk] : mem = [m EXCEPT ![Root] = ZeroTable]
  /\ free = Frames \ (Data \cup {Root, Page0})
  /\ pages = [l \in 1 .. 4 |-> IF l = 4 THEN {Root} ELSE {}]
  /\ level = 0
  /\ table = Root
  /\ arg = Idle
  /\ status = "none"

Call(a) ==
  /\ level = 0
  /\ level' = 4
  /\ table' = Root
  /\ arg' = a
  /\ status' = "busy"
  /\ UNCHANGED <<mem, free, pages>>

Return(s) ==
  /\ level' = 0
  /\ table' = Root
  /\ arg' = Idle
  /\ status' = s

MMap(virt, phys, cached) ==
  Call([virt |-> virt, phys |-> phys, cached |-> cached])

\* The same walk as MMap; only the entry it ends with differs.
MakeTempRegion(virt) ==
  Call([virt |-> virt, phys |-> Self, cached |-> FALSE])

-----------------------------------------------------------------------------
(* GetTable at level l, with the caller's "|= 3" on the entry it used.     *)

\* The entry is present: its address is the next table.
FollowEntry(l) ==
  LET e == Entry(l, arg.virt) IN
  /\ level = l
  /\ Present(table, e)
  /\ mem' = [mem EXCEPT ![table][e] = WithPW(@)]
  /\ table' = mem[table][e].frame
  /\ level' = l - 1
  /\ UNCHANGED <<free, pages, arg, status>>

\* AllocatePages returns page f, which is cleared and linked.
LinkNewTable(l, f) ==
  LET e == Entry(l, arg.virt) IN
  /\ level = l
  /\ ~Present(table, e)
  /\ mem' = [mem EXCEPT ![f] = ZeroTable,
                        ![table][e] = WithPW([frame |-> f, flags |-> {}])]
  /\ free' = free \ {f}
  /\ pages' = [pages EXCEPT ![l - 1] = @ \cup {f}]
  /\ table' = f
  /\ level' = l - 1
  /\ UNCHANGED <<arg, status>>

\* AllocatePages fails and so does the call; the tables stay as they are.
AllocationFails(l) ==
  /\ level = l
  /\ ~Present(table, Entry(l, arg.virt))
  /\ Return("error")
  /\ UNCHANGED <<mem, free, pages>>

GetTable(l) ==
  \/ FollowEntry(l)
  \/ \E f \in free : LinkNewTable(l, f)
  \/ AllocationFails(l)

\* Mutants: the temp region's entry keeps a PHYS that was never set, or
\* points to the PML4 instead of the PT.
FinalFrameUnset == arg.phys
FinalFramePML4 == IF arg.phys = Self THEN Root ELSE arg.phys

FinalFrame == IF arg.phys = Self THEN table ELSE arg.phys

\* The entry of the page itself: PHYS & ~0xfff | 3, plus bit 4 if Cached.
FinalPTE ==
  [frame |-> FinalFrame,
   flags |-> {"P", "W"} \cup (IF arg.cached THEN {"PCD"} ELSE {})]

WritePTEntry ==
  /\ level = 1
  /\ mem' = [mem EXCEPT ![table][Entry(1, arg.virt)] = FinalPTE]
  /\ Return("EFI_SUCCESS")
  /\ UNCHANGED <<free, pages>>

Walk == (\E l \in 2 .. 4 : GetTable(l)) \/ WritePTEntry

Next ==
  \/ \E v \in Virt, p \in Data, c \in BOOLEAN : MMap(v, p, c)
  \/ \E v \in Virt : MakeTempRegion(v)
  \/ Walk

Spec == Init /\ [][Next]_vars

-----------------------------------------------------------------------------
(* Properties *)

\* Every variable has its type; in particular each entry that MMap and
\* MakeTempRegion write holds the address of a physical page.
TypeOK ==
  /\ mem \in [Frames -> Table]
  /\ free \subseteq Frames
  /\ pages \in [1 .. 4 -> SUBSET Frames]
  /\ level \in 0 .. 4
  /\ table \in Frames
  /\ arg \in Args \cup {Idle}
  /\ status \in {"none", "busy", "EFI_SUCCESS", "error"}

\* Every present entry above the PTs leads to a table of the level below.
LinksGoDown ==
  \A l \in 2 .. 4 : \A t \in pages[l], e \in Entries :
    Present(t, e) => mem[t][e].frame \in pages[l - 1]

\* No two entries lead to the same table.
LinksUnique ==
  \A l \in 2 .. 4 : \A t, u \in pages[l], e, g \in Entries :
    Present(t, e) /\ Present(u, g) /\ mem[t][e].frame = mem[u][g].frame
      => t = u /\ e = g

\* No table is lost: some entry leads to it.
TablesLinked ==
  \A l \in 2 .. 4 : \A f \in pages[l - 1] :
    \E t \in pages[l], e \in Entries : Present(t, e) /\ mem[t][e].frame = f

\* The tables form a tree: GetTable neither loses a page it took from the
\* firmware, nor shares one between two entries, nor ever follows what an
\* uncleared page happened to hold, not even when a call fails half-way.
TreeShaped == LinksGoDown /\ LinksUnique /\ TablesLinked

\* Roles of the physical pages: a table serves one level, and no table is a
\* data page, page 0 or a page the firmware could hand out again.
PageRoles ==
  /\ pages[4] = {Root}
  /\ \A i, j \in 1 .. 4 : i # j => pages[i] \cap pages[j] = {}
  /\ \A i \in 1 .. 4 : pages[i] \cap (free \cup Data \cup {Page0}) = {}
  /\ free \cap (Data \cup {Page0}) = {}

\* The entries of a PT map data pages or, in a temp region, the PT itself.
PTsMapDataOrThemselves ==
  \A t \in pages[1], e \in Entries :
    Present(t, e) => mem[t][e].frame \in Data \cup {t}

\* During a call, "table" is the table that the MMU would find for the page
\* at this level, all entries above it being present.
WalkOnPath ==
  /\ level = 0 => arg = Idle /\ status # "busy"
  /\ level # 0 => arg \in Args /\ status = "busy"
  /\ level = 4 => table = Root
  /\ level = 3 => HasPDPT(arg.virt) /\ table = PDPTOf(arg.virt)
  /\ level = 2 => HasPD(arg.virt) /\ table = PDOf(arg.virt)
  /\ level = 1 => HasPT(arg.virt) /\ table = PTOf(arg.virt)

\* The inductive invariant of the proofs.
IInv ==
  TypeOK /\ PageRoles /\ TreeShaped /\ PTsMapDataOrThemselves /\ WalkOnPath

\* A page table shows up in the address space only where MakeTempRegion put
\* it, and then it is the very table that maps its own 2 MiB window: a write
\* through temp_mapping_region can only change translations of the window.
TablesStayPrivate ==
  \A v \in Virt : \A m \in Translate(v) :
    m.frame \notin Data => m.frame = PTOf(v)

\* A step writes at most pages that are page tables when it ends: never the
\* image, the kernel, the stack or a page the firmware has not handed out.
OnlyTablesWritten ==
  [][\A f \in Frames : mem'[f] # mem[f] => \E l \in 1 .. 4 : f \in pages'[l]]_vars

\* MMap and MakeTempRegion implement the one-page-at-a-time address space:
\* linking an empty table and failing half-way down are invisible, and the
\* final entry changes the translation of the requested page alone.
AS == INSTANCE AddressSpace WITH space <- [v \in Virt |-> Translate(v)]

ImplementsAddressSpace == AS!Spec

=============================================================================

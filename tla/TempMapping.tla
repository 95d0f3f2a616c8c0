----------------------------- MODULE TempMapping -----------------------------
(***************************************************************************)
(* TempMap, FreeTempMap and RefreshPages of physical.c, with the MMU.      *)
(*                                                                         *)
(* temp_mapping_region is a window of Fan pages whose page table is mapped *)
(* at the window's own first page: the kernel edits the table through the  *)
(* window.  TempMap writes entry i and returns temp_mapping_region plus    *)
(* i * 0x1000 elements of 8 bytes, which is page 8 * i of the window, and  *)
(* FreeTempMap divides the page by 8 again.                                *)
(*                                                                         *)
(* Pages of the window are numbered from 0.  The MMU may walk the table at *)
(* any time and keep what it finds until CR3 is reloaded; it never keeps   *)
(* an entry that is not present.                                           *)
(***************************************************************************)
EXTENDS Naturals

CONSTANTS
  Fan,      \* 512, entries of the table
  Size,     \* 8, sizeof(uint64_t)
  Frames,   \* physical pages that callers may map
  Table,    \* the physical page of the table itself
  Page0,    \* the address bits of a cleared entry
  None      \* nothing cached

ASSUME WindowAssumption ==
  /\ Size \in Nat \ {0}
  /\ Fan \in Nat
  /\ Fan > Size
  /\ Page0 \in Frames
  /\ Table \notin Frames
  /\ None \notin [frame : Frames \cup {Table}, present : BOOLEAN]

VARIABLES
  temp_mapping_region,  \* the table's entries, as the window shows them
  tlb,      \* what the MMU has cached for each page of the window
  lent,     \* history: <<pointer, frame>> of the mappings in use
  pc        \* what the kernel is doing

vars == <<temp_mapping_region, tlb, lent, pc>>

Entries == 0 .. (Fan - 1)
Pages == Entries

PTE == [frame : Frames \cup {Table}, present : BOOLEAN]

Present(n) == temp_mapping_region[n].present

\* As MakeTempRegion leaves it: a new table that maps itself and no more.
Init ==
  /\ temp_mapping_region =
       [n \in Entries |-> IF n = 0 THEN [frame |-> Table, present |-> TRUE]
                                  ELSE [frame |-> Page0, present |-> FALSE]]
  /\ tlb = [n \in Pages |-> None]
  /\ lent = {}
  /\ pc = "idle"

\* The page the processor reaches at page n, from the TLB or the table.
Reaches(n, f) ==
  IF tlb[n] # None THEN tlb[n].frame = f
  ELSE Present(n) /\ temp_mapping_region[n].frame = f

-----------------------------------------------------------------------------
(* The MMU *)

Walk(n) ==
  /\ Present(n)
  /\ tlb' = [tlb EXCEPT ![n] = temp_mapping_region[n]]
  /\ UNCHANGED <<temp_mapping_region, lent, pc>>

Evict(n) ==
  /\ tlb' = [tlb EXCEPT ![n] = None]
  /\ UNCHANGED <<temp_mapping_region, lent, pc>>

-----------------------------------------------------------------------------
(* The kernel.  The table is read and written through page 0 of the window. *)

\* temp_mapping_region[i] with i = 1 for good: the loop never advances it, and
\* with interrupts off nobody else can clear the entry the loop waits for.
TempMapSpins(physical_address) ==
  /\ pc = "idle"
  /\ Reaches(0, Table)
  /\ Present(1)
  /\ pc' = "spin"
  /\ UNCHANGED <<temp_mapping_region, tlb, lent>>

\* Mutant: the offset is scaled by the size of an element twice.
PointerScaledTwice(n) == n * Size * Size

\* temp_mapping_region + n * 0x1000, on a pointer to elements of Size bytes.
Pointer(n) == n * Size

\* Entry 1 is free: write it and return the pointer.
TempMap(physical_address) ==
  /\ pc = "idle"
  /\ Reaches(0, Table)
  /\ ~Present(1)
  /\ temp_mapping_region' =
       [temp_mapping_region EXCEPT ![1] = [frame |-> physical_address, present |-> TRUE]]
  /\ lent' = lent \cup {<<Pointer(1), physical_address>>}
  /\ UNCHANGED <<tlb, pc>>

\* Mutant: the index of the page before.
IndexOffByOne(virtual_address) == ((virtual_address % Fan) - 1) \div Size

\* ((virtual_address >> 12) & 0x1ff) / 8
Index(virtual_address) == (virtual_address % Fan) \div Size

\* Mutant: the entry is left present.
NotCleared(pte) == [frame |-> pte.frame, present |-> pte.present]

\* &= ~(uint64_t)0x1
Cleared(pte) == [frame |-> pte.frame, present |-> FALSE]

\* A caller gives a pointer of TempMap's back.
FreeTempMap(loan) ==
  /\ pc = "idle"
  /\ Reaches(0, Table)
  /\ temp_mapping_region' =
       [temp_mapping_region EXCEPT ![Index(loan[1])] = Cleared(@)]
  /\ lent' = lent \ {loan}
  /\ pc' = "refresh"
  /\ UNCHANGED tlb

\* Mutant: CR3 is not reloaded.
NotFlushed == tlb

Flushed == [n \in Pages |-> None]

\* CR3 is reloaded: the TLB forgets everything, no entry being global.
RefreshPages ==
  /\ pc = "refresh"
  /\ tlb' = Flushed
  /\ pc' = "idle"
  /\ UNCHANGED <<temp_mapping_region, lent>>

Next ==
  \/ \E n \in Pages : Walk(n) \/ Evict(n)
  \/ \E f \in Frames : TempMap(f) \/ TempMapSpins(f)
  \/ \E loan \in lent : FreeTempMap(loan)
  \/ RefreshPages

Spec == Init /\ [][Next]_vars

-----------------------------------------------------------------------------
(* Properties *)

\* Types: no pointer given out lies outside the window, no entry written
\* holds anything but a page and a present bit.
TypeOK ==
  /\ temp_mapping_region \in [Entries -> PTE]
  /\ tlb \in [Pages -> PTE \cup {None}]
  /\ lent \subseteq Pages \X Frames
  /\ pc \in {"idle", "spin", "refresh"}

\* Page 0 of the window shows the table at every moment: TempMap and
\* FreeTempMap depend on it and no FreeTempMap can clear it, as long as
\* pointers come from TempMap.
SelfMapKept == Present(0) /\ Reaches(0, Table)

\* Outside FreeTempMap, the window shows exactly the frames in use, each at
\* the entry that FreeTempMap finds from its pointer: no freed frame stays
\* reachable through the TLB, and no entry is lost or used twice.
WindowShowsLoans ==
  pc # "refresh" =>
    \A n \in Pages \ {0}, f \in Frames \cup {Table} :
      Reaches(n, f) <=> \E loan \in lent : Index(loan[1]) = n /\ loan[2] = f

\* TempMap hangs only if a mapping is still in use: a kernel that frees each
\* mapping before it makes the next never hangs.
SpinsOnlyWhileLent == pc = "spin" => lent # {}

\* The pointer that TempMap returned leads to the frame it was asked to map.
PointerReachesFrame ==
  pc # "refresh" => \A loan \in lent : Reaches(loan[1], loan[2])

\* The inductive invariant: entry 1 is the only one in use besides the table's
\* own, and what the TLB holds is what the table says, save for entry 1
\* between the two halves of FreeTempMap.
IInv ==
  /\ TypeOK
  /\ temp_mapping_region[0] = [frame |-> Table, present |-> TRUE]
  /\ \A n \in Entries : n > 1 => ~Present(n)
  /\ lent = IF Present(1) THEN {<<1 * Size, temp_mapping_region[1].frame>>} ELSE {}
  /\ pc = "spin" => Present(1)
  /\ pc = "refresh" => ~Present(1)
  /\ \A n \in Pages :
       tlb[n] # None =>
         \/ Present(n) /\ tlb[n] = temp_mapping_region[n]
         \/ n = 1 /\ pc = "refresh"

=============================================================================

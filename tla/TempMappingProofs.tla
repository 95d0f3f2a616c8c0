------------------------- MODULE TempMappingProofs -------------------------
(***************************************************************************)
(* The temp region works as long as pointers come from TempMap, for any    *)
(* size of table and entry and any set of frames.  The argument is IInv:   *)
(* the table has at most one entry in use besides its own, and the TLB is  *)
(* behind the table only between the two halves of FreeTempMap.            *)
(***************************************************************************)
EXTENDS TempMapping, TLAPS

\* FreeTempMap finds entry 1 from the pointer that TempMap made from it.
LEMMA IndexInvertsPointer == Index(1 * Size) = 1
<1>1. Size \in Nat /\ Size > 0 /\ 1 * Size = Size /\ Size < Fan /\ Fan \in Nat
  BY WindowAssumption
<1>2. Size % Fan = Size
  BY <1>1
<1>3. Size \div Size = 1
  BY <1>1
<1> QED BY <1>1, <1>2, <1>3 DEF Index

\* Entries 0 and 1 exist, and so does the page that TempMap points to.
LEMMA SmallEntries == 0 \in Entries /\ 1 \in Entries /\ 1 * Size \in Pages
BY WindowAssumption DEF Entries, Pages

\* The table as MakeTempRegion leaves it satisfies the invariant.
LEMMA InitIInv == Init => IInv
BY SmallEntries, WindowAssumption
   DEF Init, IInv, TypeOK, PTE, Present, Entries, Pages

\* The MMU may cache or forget a present entry at any time.
LEMMA MMUIInv ==
  ASSUME IInv, NEW n \in Pages, Walk(n) \/ Evict(n)
  PROVE  IInv'
BY WindowAssumption DEF IInv, TypeOK, Walk, Evict, Present, Pages, PTE

\* TempMap fills entry 1, which the TLB cannot hold since it was not present.
LEMMA TempMapIInv ==
  ASSUME IInv, NEW f \in Frames, TempMap(f)
  PROVE  IInv'
<1> DEFINE new == [frame |-> f, present |-> TRUE]
<1>1. new \in PTE /\ new.present /\ new.frame = f
  BY DEF PTE
<1>2. temp_mapping_region' = [temp_mapping_region EXCEPT ![1] = new]
  BY DEF TempMap
<1> HIDE DEF new
<1>3. /\ temp_mapping_region' \in [Entries -> PTE]
      /\ temp_mapping_region'[1] = new
      /\ \A n \in Entries : n # 1 => temp_mapping_region'[n] = temp_mapping_region[n]
  BY <1>1, <1>2, SmallEntries DEF IInv, TypeOK
<1>4. lent' = {<<1 * Size, f>>} /\ UNCHANGED <<tlb, pc>> /\ pc = "idle" /\ ~Present(1)
  BY DEF TempMap, Pointer, IInv
<1>5. TypeOK'
  BY <1>3, <1>4, SmallEntries DEF IInv, TypeOK
<1>6. \A n \in Pages : tlb[n] # None => n # 1 /\ Present(n) /\ tlb[n] = temp_mapping_region[n]
  BY <1>4 DEF IInv
<1> QED BY <1>1, <1>3, <1>4, <1>5, <1>6, SmallEntries DEF IInv, Present, Pages

\* FreeTempMap clears entry 1 and no other.
LEMMA FreeIInv ==
  ASSUME IInv, NEW loan \in lent, FreeTempMap(loan)
  PROVE  IInv'
<1> DEFINE new == Cleared(temp_mapping_region[1])
<1>1. Present(1) /\ loan = <<1 * Size, temp_mapping_region[1].frame>>
  BY DEF IInv
<1>2. Index(loan[1]) = 1
  BY <1>1, IndexInvertsPointer
<1>3. new \in PTE /\ ~new.present
  BY SmallEntries DEF Cleared, IInv, TypeOK, PTE
<1>4. temp_mapping_region' = [temp_mapping_region EXCEPT ![1] = new]
  BY <1>2 DEF FreeTempMap
<1> HIDE DEF new
<1>5. /\ temp_mapping_region' \in [Entries -> PTE]
      /\ temp_mapping_region'[1] = new
      /\ \A n \in Entries : n # 1 => temp_mapping_region'[n] = temp_mapping_region[n]
  BY <1>3, <1>4, SmallEntries DEF IInv, TypeOK
<1>6. lent' = {} /\ UNCHANGED tlb /\ pc' = "refresh" /\ pc = "idle"
  BY <1>1 DEF FreeTempMap, IInv
<1>7. TypeOK'
  BY <1>5, <1>6 DEF IInv, TypeOK
<1> QED BY <1>3, <1>5, <1>6, <1>7, SmallEntries DEF IInv, Present, Pages

\* Every step keeps the invariant.
LEMMA NextIInv == IInv /\ [Next]_vars => IInv'
<1> SUFFICES ASSUME IInv, [Next]_vars PROVE IInv'
  OBVIOUS
<1>1. ASSUME NEW f \in Frames, TempMapSpins(f)
      PROVE  IInv'
  BY <1>1 DEF IInv, TypeOK, TempMapSpins, Present
<1>2. CASE RefreshPages
  BY <1>2 DEF IInv, TypeOK, RefreshPages, Flushed, Present
<1>3. CASE UNCHANGED vars
  BY <1>3 DEF IInv, TypeOK, vars, Present
<1> QED BY <1>1, <1>2, <1>3, MMUIInv, TempMapIInv, FreeIInv DEF Next

\* The inductive invariant holds in every reachable state.
LEMMA Inductive == Spec => []IInv
BY InitIInv, NextIInv, PTL DEF Spec

\* TempMap gives out no pointer outside the window, and no entry of the table or
\* the TLB holds anything but a page and a present bit.
THEOREM TypeCorrect == Spec => []TypeOK
<1>1. IInv => TypeOK
  BY DEF IInv
<1> QED BY <1>1, Inductive, PTL

\* Page 0 of the window always shows the table itself.
THEOREM SelfMapCorrect == Spec => []SelfMapKept
<1>1. IInv => SelfMapKept
  BY SmallEntries DEF IInv, SelfMapKept, Reaches, Present, Pages
<1> QED BY <1>1, Inductive, PTL

\* Outside FreeTempMap the window shows exactly the frames in use.
THEOREM LoansCorrect == Spec => []WindowShowsLoans
<1>1. IInv => WindowShowsLoans
  <2> SUFFICES ASSUME IInv, pc # "refresh", NEW n \in Pages \ {0},
                      NEW f \in Frames \cup {Table}
               PROVE  Reaches(n, f) <=>
                        \E loan \in lent : Index(loan[1]) = n /\ loan[2] = f
    BY DEF WindowShowsLoans
  <2>1. Reaches(n, f) <=> Present(n) /\ temp_mapping_region[n].frame = f
    BY DEF IInv, Reaches
  <2>2. CASE n = 1
    <3>1. CASE Present(1)
      <4> DEFINE l0 == <<1 * Size, temp_mapping_region[1].frame>>
      <4>1. lent = {l0}
        BY <3>1 DEF IInv
      <4>2. Index(l0[1]) = 1 /\ l0[2] = temp_mapping_region[1].frame
        BY IndexInvertsPointer
      <4> HIDE DEF l0
      <4> QED BY <2>1, <2>2, <3>1, <4>1, <4>2
    <3>2. CASE ~Present(1)
      BY <2>1, <2>2, <3>2 DEF IInv
    <3> QED BY <3>1, <3>2
  <2>3. CASE n # 1
    <3>1. ~Present(n)
      BY <2>3, WindowAssumption DEF IInv, Pages, Entries
    <3>2. \A loan \in lent : Index(loan[1]) = 1
      BY IndexInvertsPointer DEF IInv
    <3> QED BY <2>1, <2>3, <3>1, <3>2
  <2> QED BY <2>2, <2>3
<1> QED BY <1>1, Inductive, PTL

\* TempMap never hangs in a kernel that frees each mapping before the next.
THEOREM SpinCorrect == Spec => []SpinsOnlyWhileLent
<1>1. IInv => SpinsOnlyWhileLent
  BY DEF IInv, SpinsOnlyWhileLent
<1> QED BY <1>1, Inductive, PTL

\* The page that a pointer of TempMap leads to is not mapped at all.
PointerLeadsNowhere == \A loan \in lent, f \in Frames \cup {Table} : ~Reaches(loan[1], f)

\* With entries of more than one byte, no pointer that TempMap returns ever
\* leads to a page: the pointer is Size times too far into the window, where
\* nothing is mapped.  So the disagreement with PointerReachesFrame is no matter
\* of bad luck.
THEOREM PointerAlwaysMisses ==
  ASSUME Size # 1
  PROVE  Spec => []PointerLeadsNowhere
<1>1. IInv => PointerLeadsNowhere
  <2> SUFFICES ASSUME IInv, NEW loan \in lent, NEW f \in Frames \cup {Table}
               PROVE  ~Reaches(loan[1], f)
    BY DEF PointerLeadsNowhere
  <2>1. Size \in Nat /\ Size > 1 /\ 1 * Size = Size /\ Size \in Entries /\ Size \in Pages
    BY WindowAssumption DEF Entries, Pages
  <2>2. loan[1] = Size
    BY <2>1 DEF IInv
  <2>3. ~Present(Size) /\ tlb[Size] = None
    BY <2>1 DEF IInv
  <2> QED BY <2>2, <2>3 DEF Reaches
<1> QED BY <1>1, Inductive, PTL

=============================================================================

-------------------------- MODULE PageTablesProofs --------------------------
(***************************************************************************)
(* Proofs about PageTables, for every fan-out, set of pages and initial    *)
(* memory.  IInv says that the tables are a tree whose nodes are private   *)
(* pages and that the walk in progress follows it.  An invariant on the    *)
(* translations alone would not be inductive: to know that a new link or a *)
(* new final entry touches one translation only, one needs that no table   *)
(* has two parents (LinksUnique) and that the page just taken is no table  *)
(* yet (PageRoles).                                                        *)
(***************************************************************************)
EXTENDS PageTables, TLAPS

\* The four indices of an address are entries of a table: VIRT >> 12 & 0x1ff
\* and its siblings never reach beyond the 512 entries.
LEMMA EntryType ==
  ASSUME NEW l \in 1 .. 4, NEW v \in Virt
  PROVE  Entry(l, v) \in Entries
<1>1. v \in Nat
  BY VirtAssumption, FanAssumption
<1>2. \A n \in Nat : n % Fan \in Entries /\ n \div Fan \in Nat
  BY FanAssumption DEF Entries
<1> QED BY <1>1, <1>2 DEF Entry

\* A number is determined by its quotient and remainder.
LEMMA SameQuotientAndRest ==
  ASSUME NEW n \in Nat, NEW m \in Nat,
         n \div Fan = m \div Fan, n % Fan = m % Fan
  PROVE  n = m
BY FanAssumption

\* A division by Fan brings a number below the next smaller power of Fan.
LEMMA DivBound ==
  ASSUME NEW n \in Nat, NEW m \in Nat, n < Fan * m
  PROVE  n \div Fan < m /\ n \div Fan \in Nat
BY FanAssumption

\* Two pages with the same four indices are the same page: the shifts of MMap
\* lose no bit of a canonical address, so no two pages share a final entry.
LEMMA EntriesDetermineThePage ==
  ASSUME NEW v \in Virt, NEW w \in Virt,
         \A l \in 1 .. 4 : Entry(l, v) = Entry(l, w)
  PROVE  v = w
<1> DEFINE q(n) == n \div Fan
<1> HIDE DEF q
<1>1. /\ v \in Nat /\ v < Fan * (Fan * (Fan * Fan))
      /\ w \in Nat /\ w < Fan * (Fan * (Fan * Fan))
  BY VirtAssumption, FanAssumption
<1>2. \A n \in Virt : 
      /\ q(n) \in Nat /\ q(n) < Fan * (Fan * Fan)
      /\ q(q(n)) \in Nat /\ q(q(n)) < Fan * Fan
      /\ q(q(q(n))) \in Nat /\ q(q(q(n))) < Fan
  <2> TAKE n \in Virt
  <2>1. n \in Nat /\ n < Fan * (Fan * (Fan * Fan))
    BY VirtAssumption, FanAssumption
  <2>2. q(n) \in Nat /\ q(n) < Fan * (Fan * Fan)
    BY <2>1, DivBound, FanAssumption DEF q
  <2>3. q(q(n)) \in Nat /\ q(q(n)) < Fan * Fan
    BY <2>2, DivBound, FanAssumption DEF q
  <2>4. q(q(q(n))) \in Nat /\ q(q(q(n))) < Fan
    BY <2>3, DivBound, FanAssumption DEF q
  <2> QED BY <2>2, <2>3, <2>4
<1>3. /\ v % Fan = w % Fan
      /\ q(v) % Fan = q(w) % Fan
      /\ q(q(v)) % Fan = q(q(w)) % Fan
      /\ q(q(q(v))) % Fan = q(q(q(w))) % Fan
  BY DEF Entry, q
<1>4. q(q(q(v))) = q(q(q(w)))
  <2>1. \A n \in Nat : n < Fan => n % Fan = n
    BY FanAssumption
  <2> QED BY <1>2, <1>3, <2>1
<1>5. q(q(v)) = q(q(w))
  BY <1>2, <1>3, <1>4, SameQuotientAndRest DEF q
<1>6. q(v) = q(w)
  BY <1>2, <1>3, <1>5, SameQuotientAndRest DEF q
<1> QED BY <1>1, <1>3, <1>6, SameQuotientAndRest DEF q

-----------------------------------------------------------------------------
\* The cleared PML4 satisfies the inductive invariant, whatever the other
\* pages of memory hold.
LEMMA InitIInv == Init => IInv
<1> SUFFICES ASSUME Init PROVE IInv
  OBVIOUS
<1>1. ZeroTable \in Table
  BY FramesAssumption DEF ZeroTable, Table, ZeroPTE, PTE
<1>2. mem \in [Frames -> Table] /\ mem[Root] = ZeroTable
  BY <1>1, JunkAssumption, FramesAssumption DEF Init
<1>3. TypeOK
  BY <1>2, FramesAssumption DEF Init, TypeOK
<1>4. \A e \in Entries : ~Present(Root, e)
  BY <1>2 DEF Present, ZeroTable, ZeroPTE
<1>5. PageRoles
  BY FramesAssumption DEF Init, PageRoles
<1>6. TreeShaped
  BY <1>4 DEF Init, TreeShaped, LinksGoDown, LinksUnique, TablesLinked
<1>7. PTsMapDataOrThemselves /\ WalkOnPath
  BY DEF Init, PTsMapDataOrThemselves, WalkOnPath
<1> QED BY <1>3, <1>5, <1>6, <1>7 DEF IInv

\* Entering MMap or MakeTempRegion preserves the invariant.
LEMMA CallIInv ==
  ASSUME IInv, NEW a \in Args, Call(a)
  PROVE  IInv'
<1>1. TypeOK'
  BY FramesAssumption DEF IInv, TypeOK, Call
<1>2. PageRoles' /\ TreeShaped' /\ PTsMapDataOrThemselves'
  BY DEF IInv, Call, PageRoles, TreeShaped, LinksGoDown, LinksUnique,
         TablesLinked, PTsMapDataOrThemselves, Present
<1>3. WalkOnPath'
  BY DEF Call, WalkOnPath
<1> QED BY <1>1, <1>2, <1>3 DEF IInv

\* Returning because AllocatePages failed preserves the invariant: GetTable
\* links nothing before it has a page.
LEMMA FailIInv ==
  ASSUME IInv, NEW l \in 2 .. 4, AllocationFails(l)
  PROVE  IInv'
<1>1. TypeOK'
  BY FramesAssumption DEF IInv, TypeOK, AllocationFails, Return
<1>2. PageRoles' /\ TreeShaped' /\ PTsMapDataOrThemselves'
  BY DEF IInv, AllocationFails, PageRoles, TreeShaped, LinksGoDown,
         LinksUnique, TablesLinked, PTsMapDataOrThemselves, Present
<1>3. WalkOnPath'
  BY DEF AllocationFails, Return, WalkOnPath
<1> QED BY <1>1, <1>2, <1>3 DEF IInv


\* The tables that the MMU passes on the way to a page are tables of their
\* levels.
LEMMA Path ==
  ASSUME IInv, NEW v \in Virt
  PROVE  /\ HasPDPT(v) => PDPTOf(v) \in pages[3]
         /\ HasPD(v) => PDOf(v) \in pages[2]
         /\ HasPT(v) => PTOf(v) \in pages[1]
<1>1. \A l \in 2 .. 4 : \A t \in pages[l], e \in Entries :
        Present(t, e) => mem[t][e].frame \in pages[l - 1]
  BY DEF IInv, TreeShaped, LinksGoDown
<1>2. \A l \in 1 .. 4 : Entry(l, v) \in Entries
  BY EntryType
<1>3. Root \in pages[4]
  BY DEF IInv, PageRoles
<1>4. HasPDPT(v) => PDPTOf(v) \in pages[3]
  BY <1>1, <1>2, <1>3 DEF HasPDPT, PDPTOf
<1>5. HasPD(v) => PDOf(v) \in pages[2]
  BY <1>1, <1>2, <1>4 DEF HasPD, PDOf
<1>6. HasPT(v) => PTOf(v) \in pages[1]
  BY <1>1, <1>2, <1>5 DEF HasPT, PTOf
<1> QED BY <1>4, <1>5, <1>6

\* During a call the table at hand is a table of the level of the walk, and
\* the entry used in it exists.
LEMMA TableAtHand ==
  ASSUME IInv, level # 0
  PROVE  /\ level \in 1 .. 4
         /\ arg \in Args /\ arg.virt \in Virt
         /\ Entry(level, arg.virt) \in Entries
         /\ table \in pages[level]
<1>1. level \in 1 .. 4
  BY DEF IInv, TypeOK
<1>2. arg \in Args /\ arg.virt \in Virt
  BY DEF IInv, WalkOnPath, Args
<1>3. table \in pages[level]
  BY <1>1, <1>2, Path DEF IInv, WalkOnPath, PageRoles
<1> QED BY <1>1, <1>2, <1>3, EntryType

\* Following a present entry changes no address and no present bit of any
\* entry: "|= 3" can only add the write bit, and only in the table at hand.
LEMMA FollowEffect ==
  ASSUME IInv, NEW l \in 2 .. 4, FollowEntry(l)
  PROVE  /\ mem' \in [Frames -> Table]
         /\ \A t \in Frames, e \in Entries :
              /\ mem'[t][e].frame = mem[t][e].frame
              /\ Present(t, e)' <=> Present(t, e)
              /\ t \notin pages[l] => mem'[t][e] = mem[t][e]
         /\ \A t \in Frames : t # table => mem'[t] = mem[t]
<1> DEFINE e0 == Entry(l, arg.virt)
<1>1. table \in pages[l] /\ e0 \in Entries /\ Present(table, e0)
  BY TableAtHand DEF FollowEntry
<1> HIDE DEF e0
<1>2. mem \in [Frames -> Table] /\ table \in Frames
  BY DEF IInv, TypeOK
<1>3. WithPW(mem[table][e0]) =
        [frame |-> mem[table][e0].frame, flags |-> mem[table][e0].flags \cup {"P", "W"}]
  BY DEF WithPW
<1>4. mem' = [mem EXCEPT ![table] = [mem[table] EXCEPT ![e0] = WithPW(mem[table][e0])]]
  BY DEF FollowEntry, e0
<1>5. WithPW(mem[table][e0]) \in PTE
  BY <1>1, <1>2, <1>3 DEF Table, PTE, Flags
<1>6. mem' \in [Frames -> Table]
  BY <1>1, <1>2, <1>4, <1>5 DEF Table
<1>7. \A t \in Frames, e \in Entries :
        /\ mem'[t][e].frame = mem[t][e].frame
        /\ Present(t, e)' <=> Present(t, e)
        /\ t \notin pages[l] => mem'[t][e] = mem[t][e]
  BY <1>1, <1>2, <1>3, <1>4 DEF Table, Present
<1>8. \A t \in Frames : t # table => mem'[t] = mem[t]
  BY <1>2, <1>4
<1> QED BY <1>6, <1>7, <1>8

\* Following a present entry preserves the invariant.
LEMMA FollowIInv ==
  ASSUME IInv, NEW l \in 2 .. 4, FollowEntry(l)
  PROVE  IInv'
<1> DEFINE e0 == Entry(l, arg.virt)
<1>1. /\ table \in pages[l] /\ e0 \in Entries /\ arg \in Args /\ arg.virt \in Virt
      /\ level = l /\ Present(table, e0)
  BY TableAtHand DEF FollowEntry
<1> HIDE DEF e0
<1>5. mem' \in [Frames -> Table]
  BY FollowEffect
<1>6. \A t \in Frames, e \in Entries :
        /\ mem'[t][e].frame = mem[t][e].frame
        /\ Present(t, e)' <=> Present(t, e)
  BY FollowEffect
<1>7. mem[table][e0].frame \in pages[l - 1]
  BY <1>1 DEF IInv, TreeShaped, LinksGoDown
<1>8. UNCHANGED <<free, pages, arg, status>> /\ level' = l - 1
      /\ table' = mem[table][e0].frame
  BY DEF FollowEntry, e0
<1>9. \A i \in 1 .. 4 : pages[i] \subseteq Frames
  BY DEF IInv, TypeOK
<1>10. TypeOK'
  BY <1>5, <1>7, <1>8, <1>9 DEF IInv, TypeOK
<1>11. PageRoles'
  BY <1>8 DEF IInv, PageRoles
<1>12. TreeShaped'
  <2>1. LinksGoDown'
    BY <1>6, <1>8, <1>9 DEF IInv, TreeShaped, LinksGoDown
  <2>2. LinksUnique'
    BY <1>6, <1>8, <1>9 DEF IInv, TreeShaped, LinksUnique
  <2>3. TablesLinked'
    BY <1>6, <1>8, <1>9 DEF IInv, TreeShaped, TablesLinked
  <2> QED BY <2>1, <2>2, <2>3 DEF TreeShaped
<1>13. PTsMapDataOrThemselves'
  BY <1>6, <1>8, <1>9 DEF IInv, PTsMapDataOrThemselves
<1>14. WalkOnPath'
  <2> DEFINE v == arg.virt
  <2>1. \A k \in 1 .. 4 : Entry(k, v) \in Entries
    BY <1>1, EntryType
  <2>2. HasPDPT(v) => HasPDPT(v)' /\ PDPTOf(v)' = PDPTOf(v)
    BY <1>6, <1>8, <2>1, FramesAssumption DEF HasPDPT, PDPTOf
  <2>3. HasPD(v) => HasPD(v)' /\ PDOf(v)' = PDOf(v)
    BY <1>1, <1>6, <1>8, <1>9, <2>1, <2>2, Path DEF HasPD, PDOf
  <2>4. CASE l = 4
    <3>1. table = Root
      BY <1>1, <2>4 DEF IInv, WalkOnPath
    <3>2. HasPDPT(v) /\ PDPTOf(v) = mem[table][e0].frame
      BY <1>1, <2>4, <3>1 DEF HasPDPT, PDPTOf, e0
    <3> QED BY <1>1, <1>8, <2>2, <2>4, <3>2 DEF IInv, WalkOnPath
  <2>5. CASE l = 3
    <3>1. HasPDPT(v) /\ table = PDPTOf(v)
      BY <1>1, <2>5 DEF IInv, WalkOnPath
    <3>2. HasPD(v) /\ PDOf(v) = mem[table][e0].frame
      BY <1>1, <2>5, <3>1 DEF HasPD, PDOf, e0
    <3> QED BY <1>1, <1>8, <2>3, <2>5, <3>2 DEF IInv, WalkOnPath
  <2>6. CASE l = 2
    <3>1. HasPD(v) /\ table = PDOf(v)
      BY <1>1, <2>6 DEF IInv, WalkOnPath
    <3>2. HasPT(v) /\ PTOf(v) = mem[table][e0].frame
      BY <1>1, <2>6, <3>1 DEF HasPT, PTOf, e0
    <3>3. HasPT(v)' /\ PTOf(v)' = PTOf(v)
      BY <1>1, <1>6, <1>8, <1>9, <2>1, <2>3, <3>1, <3>2, Path DEF HasPT, PTOf
    <3> QED BY <1>1, <1>8, <2>6, <3>2, <3>3 DEF IInv, WalkOnPath
  <2> QED BY <2>4, <2>5, <2>6
<1> QED BY <1>10, <1>11, <1>12, <1>13, <1>14 DEF IInv


\* What linking a new table does to memory: the new page is all zeros, one
\* entry of the table at hand leads to it, and all else is as it was.
LEMMA LinkEffect ==
  ASSUME IInv, NEW l \in 2 .. 4, NEW f \in free, LinkNewTable(l, f),
         NEW e0, e0 = Entry(l, arg.virt)
  PROVE  /\ mem' \in [Frames -> Table]
         /\ \A e \in Entries : ~Present(f, e)'
         /\ "P" \in mem'[table][e0].flags /\ mem'[table][e0].frame = f
         /\ \A t \in Frames, e \in Entries :
              t # f /\ (t # table \/ e # e0) => mem'[t][e] = mem[t][e]
         /\ \A t \in Frames : t # f /\ t # table => mem'[t] = mem[t]
<1> DEFINE link == [frame |-> f, flags |-> {"P", "W"}]
<1>1. table \in pages[l] /\ e0 \in Entries
  BY TableAtHand DEF LinkNewTable
<1>2. mem \in [Frames -> Table] /\ table \in Frames /\ f \in Frames
  BY DEF IInv, TypeOK
<1>3. f # table
  BY <1>1 DEF IInv, PageRoles
<1>4. mem' = [mem EXCEPT ![f] = ZeroTable, ![table][e0] = link]
  BY DEF LinkNewTable, WithPW
<1> HIDE DEF link
<1>5. link \in PTE /\ ZeroTable \in Table
  BY <1>2, FramesAssumption DEF link, PTE, Flags, ZeroTable, Table, ZeroPTE
<1>6. mem' \in [Frames -> Table]
  BY <1>1, <1>2, <1>3, <1>4, <1>5 DEF Table
<1>7. /\ mem'[f] = ZeroTable
      /\ mem'[table][e0] = link
      /\ \A t \in Frames, e \in Entries :
           t # f /\ (t # table \/ e # e0) => mem'[t][e] = mem[t][e]
      /\ \A t \in Frames : t # f /\ t # table => mem'[t] = mem[t]
  BY <1>1, <1>2, <1>3, <1>4 DEF Table
<1> QED BY <1>6, <1>7 DEF Present, ZeroTable, ZeroPTE, link

\* Linking a new table preserves the invariant: the page was free, so no
\* other entry leads to it.
LEMMA LinkIInv ==
  ASSUME IInv, NEW l \in 2 .. 4, NEW f \in free, LinkNewTable(l, f)
  PROVE  IInv'
<1> DEFINE e0 == Entry(l, arg.virt)
<1>1. /\ table \in pages[l] /\ e0 \in Entries /\ arg \in Args /\ arg.virt \in Virt
      /\ level = l /\ ~Present(table, e0)
  BY TableAtHand DEF LinkNewTable
<1>2. mem \in [Frames -> Table] /\ table \in Frames /\ f \in Frames
  BY DEF IInv, TypeOK
<1>3. \A i \in 1 .. 4 : pages[i] \subseteq Frames /\ f \notin pages[i]
  BY DEF IInv, TypeOK, PageRoles
<1>4. /\ mem' \in [Frames -> Table]
      /\ \A e \in Entries : ~Present(f, e)'
      /\ "P" \in mem'[table][e0].flags /\ mem'[table][e0].frame = f
      /\ \A t \in Frames, e \in Entries :
           t # f /\ (t # table \/ e # e0) => mem'[t][e] = mem[t][e]
  BY LinkEffect
<1> HIDE DEF e0
<1>10. /\ \A e \in Entries : ~Present(f, e)'
       /\ "P" \in mem'[table][e0].flags /\ mem'[table][e0].frame = f
       /\ \A t \in Frames, e \in Entries :
            t # f /\ (t # table \/ e # e0) =>
              (Present(t, e)' <=> Present(t, e)) /\ mem'[t][e].frame = mem[t][e].frame
  BY <1>4 DEF Present
<1>11. /\ free' = free \ {f} /\ UNCHANGED <<arg, status>> /\ level' = l - 1
       /\ table' = f
       /\ pages' = [pages EXCEPT ![l - 1] = pages[l - 1] \cup {f}]
  BY DEF LinkNewTable
<1>12. pages \in [1 .. 4 -> SUBSET Frames]
  BY DEF IInv, TypeOK
<1>13. \A i \in 1 .. 4 : pages'[i] = IF i = l - 1 THEN pages[i] \cup {f} ELSE pages[i]
  BY <1>11, <1>12
<1>14. TypeOK'
  BY <1>2, <1>4, <1>11, <1>12 DEF IInv, TypeOK
<1>15. PageRoles'
  BY <1>2, <1>3, <1>11, <1>13 DEF IInv, PageRoles
<1>16. table \notin pages[l - 1] /\ \A i \in 1 .. 4 : i # l => table \notin pages[i]
  BY <1>1 DEF IInv, PageRoles
<1>17. LinksGoDown'
  <2> SUFFICES ASSUME NEW k \in 2 .. 4, NEW t \in pages'[k], NEW e \in Entries,
                      Present(t, e)'
               PROVE  mem'[t][e].frame \in pages'[k - 1]
    BY DEF LinksGoDown
  <2>1. t # f
    BY <1>10
  <2>2. t \in pages[k] /\ t \in Frames
    BY <1>3, <1>13, <2>1
  <2>3. CASE t = table /\ e = e0
    BY <1>1, <1>10, <1>13, <1>16, <2>2, <2>3
  <2>4. CASE t # table \/ e # e0
    BY <1>10, <1>13, <2>1, <2>2, <2>4 DEF IInv, TreeShaped, LinksGoDown
  <2> QED BY <2>3, <2>4
<1>18. LinksUnique'
  <2> SUFFICES ASSUME NEW k \in 2 .. 4, NEW t \in pages'[k], NEW u \in pages'[k],
                      NEW e \in Entries, NEW g \in Entries,
                      Present(t, e)', Present(u, g)',
                      mem'[t][e].frame = mem'[u][g].frame
               PROVE  t = u /\ e = g
    BY DEF LinksUnique
  <2>1. t # f /\ u # f
    BY <1>10
  <2>2. t \in pages[k] /\ u \in pages[k] /\ t \in Frames /\ u \in Frames
    BY <1>3, <1>13, <2>1
  <2>3. \A x \in pages[k], h \in Entries : Present(x, h) => mem[x][h].frame # f
    BY <1>3 DEF IInv, TreeShaped, LinksGoDown
  <2>4. CASE (t = table /\ e = e0) \/ (u = table /\ g = e0)
    BY <1>10, <2>1, <2>2, <2>3, <2>4
  <2>5. CASE (t # table \/ e # e0) /\ (u # table \/ g # e0)
    BY <1>10, <2>1, <2>2, <2>5 DEF IInv, TreeShaped, LinksUnique
  <2> QED BY <2>4, <2>5
<1>19. TablesLinked'
  <2> SUFFICES ASSUME NEW k \in 2 .. 4, NEW h \in pages'[k - 1]
               PROVE  \E t \in pages'[k], e \in Entries :
                        Present(t, e)' /\ mem'[t][e].frame = h
    BY DEF TablesLinked
  <2>1. CASE h = f
    <3>1. k = l
      BY <1>3, <1>13, <2>1
    <3> QED BY <1>1, <1>10, <1>13, <2>1, <3>1 DEF Present
  <2>2. CASE h # f
    <3>1. h \in pages[k - 1]
      BY <1>13, <2>2
    <3>2. PICK t \in pages[k], e \in Entries : Present(t, e) /\ mem[t][e].frame = h
      BY <3>1 DEF IInv, TreeShaped, TablesLinked
    <3>3. t \in Frames /\ t # f /\ (t # table \/ e # e0)
      BY <1>1, <1>3, <3>2
    <3> QED BY <1>10, <1>13, <3>2, <3>3
  <2> QED BY <2>1, <2>2
<1>20. PTsMapDataOrThemselves'
  <2> SUFFICES ASSUME NEW t \in pages'[1], NEW e \in Entries, Present(t, e)'
               PROVE  mem'[t][e].frame \in Data \cup {t}
    BY DEF PTsMapDataOrThemselves
  <2>1. t # f
    BY <1>10
  <2>2. t \in pages[1] /\ t \in Frames /\ t # table
    BY <1>3, <1>13, <1>16, <2>1
  <2> QED BY <1>10, <2>1, <2>2 DEF IInv, PTsMapDataOrThemselves
<1>21. WalkOnPath'
  <2> DEFINE v == arg.virt
  <2>1. \A k \in 1 .. 4 : Entry(k, v) \in Entries
    BY <1>1, EntryType
  <2>2. l # 4 => HasPDPT(v) /\ HasPDPT(v)' /\ PDPTOf(v)' = PDPTOf(v)
    <3>1. l # 4 => HasPDPT(v)
      BY <1>1 DEF IInv, WalkOnPath, HasPD
    <3>2. l # 4 => Root # table /\ Root # f /\ Root \in Frames
      BY <1>3, <1>16 DEF IInv, PageRoles
    <3> QED BY <1>10, <1>11, <2>1, <3>1, <3>2 DEF HasPDPT, PDPTOf
  <2>3. l = 2 => HasPD(v) /\ HasPD(v)' /\ PDOf(v)' = PDOf(v)
    <3>1. l = 2 => HasPD(v)
      BY <1>1 DEF IInv, WalkOnPath
    <3>2. l = 2 => PDPTOf(v) \in pages[3]
      BY <1>1, <2>2, Path
    <3>3. l = 2 => PDPTOf(v) # table /\ PDPTOf(v) # f /\ PDPTOf(v) \in Frames
      BY <1>3, <1>16, <3>2
    <3> QED BY <1>10, <1>11, <2>1, <2>2, <3>1, <3>3 DEF HasPD, PDOf
  <2>4. CASE l = 4
    <3>1. table = Root
      BY <1>1, <2>4 DEF IInv, WalkOnPath
    <3>2. HasPDPT(v)' /\ PDPTOf(v)' = f
      BY <1>10, <1>11, <2>4, <3>1 DEF HasPDPT, PDPTOf, e0, Present
    <3> QED BY <1>1, <1>11, <2>4, <3>2 DEF IInv, WalkOnPath
  <2>5. CASE l = 3
    <3>1. table = PDPTOf(v)
      BY <1>1, <2>5 DEF IInv, WalkOnPath
    <3>2. HasPD(v)' /\ PDOf(v)' = f
      BY <1>10, <1>11, <2>2, <2>5, <3>1 DEF HasPD, PDOf, e0, Present
    <3> QED BY <1>1, <1>11, <2>5, <3>2 DEF IInv, WalkOnPath
  <2>6. CASE l = 2
    <3>1. table = PDOf(v)
      BY <1>1, <2>6 DEF IInv, WalkOnPath
    <3>2. HasPT(v)' /\ PTOf(v)' = f
      BY <1>10, <1>11, <2>3, <2>6, <3>1 DEF HasPT, PTOf, e0, Present
    <3> QED BY <1>1, <1>11, <2>6, <3>2 DEF IInv, WalkOnPath
  <2> QED BY <2>4, <2>5, <2>6
<1> QED BY <1>14, <1>15, <1>17, <1>18, <1>19, <1>20, <1>21 DEF IInv, TreeShaped


\* What writing the final entry does to memory: one entry of a PT.
LEMMA WriteEffect ==
  ASSUME IInv, WritePTEntry, NEW e0, e0 = Entry(1, arg.virt)
  PROVE  /\ mem' \in [Frames -> Table]
         /\ FinalPTE \in PTE /\ mem'[table][e0] = FinalPTE
         /\ FinalPTE.frame \in Data \cup {table}
         /\ "P" \in FinalPTE.flags
         /\ \A t \in Frames, e \in Entries :
              t # table \/ e # e0 => mem'[t][e] = mem[t][e]
         /\ \A t \in Frames : t # table => mem'[t] = mem[t]
<1>1. table \in pages[1] /\ e0 \in Entries /\ arg \in Args
  BY TableAtHand DEF WritePTEntry
<1>2. mem \in [Frames -> Table] /\ table \in Frames
  BY DEF IInv, TypeOK
<1>3. mem' = [mem EXCEPT ![table][e0] = FinalPTE]
  BY DEF WritePTEntry
<1>4. /\ FinalPTE \in PTE /\ FinalPTE.frame \in Data \cup {table}
      /\ "P" \in FinalPTE.flags
  BY <1>1, <1>2, FramesAssumption DEF FinalPTE, FinalFrame, PTE, Flags, Args
<1> HIDE DEF FinalPTE
<1>5. mem' \in [Frames -> Table]
  BY <1>1, <1>2, <1>3, <1>4 DEF Table
<1>6. /\ mem'[table][e0] = FinalPTE
      /\ \A t \in Frames, e \in Entries :
           t # table \/ e # e0 => mem'[t][e] = mem[t][e]
      /\ \A t \in Frames : t # table => mem'[t] = mem[t]
  BY <1>1, <1>2, <1>3 DEF Table
<1> QED BY <1>4, <1>5, <1>6

\* Writing the final entry of MMap or MakeTempRegion preserves the invariant.
LEMMA WriteIInv ==
  ASSUME IInv, WritePTEntry
  PROVE  IInv'
<1> DEFINE e0 == Entry(1, arg.virt)
<1>1. table \in pages[1] /\ e0 \in Entries
  BY TableAtHand DEF WritePTEntry
<1>2. /\ mem' \in [Frames -> Table]
      /\ mem'[table][e0].frame \in Data \cup {table}
      /\ \A t \in Frames, e \in Entries :
           t # table \/ e # e0 => mem'[t][e] = mem[t][e]
  BY WriteEffect
<1> HIDE DEF e0
<1>3. UNCHANGED <<free, pages>> /\ Return("EFI_SUCCESS")
  BY DEF WritePTEntry
<1>4. TypeOK'
  BY <1>2, <1>3, FramesAssumption DEF IInv, TypeOK, Return
<1>5. PageRoles'
  BY <1>3 DEF IInv, PageRoles
<1>6. \A k \in 2 .. 4 : \A t \in pages[k], e \in Entries : mem'[t][e] = mem[t][e]
  BY <1>1, <1>2 DEF IInv, TypeOK, PageRoles
<1>7. TreeShaped'
  <2>1. LinksGoDown'
    BY <1>3, <1>6 DEF IInv, TreeShaped, LinksGoDown, Present
  <2>2. LinksUnique'
    BY <1>3, <1>6 DEF IInv, TreeShaped, LinksUnique, Present
  <2>3. TablesLinked'
    BY <1>3, <1>6 DEF IInv, TreeShaped, TablesLinked, Present
  <2> QED BY <2>1, <2>2, <2>3 DEF TreeShaped
<1>8. PTsMapDataOrThemselves'
  <2> SUFFICES ASSUME NEW t \in pages[1], NEW e \in Entries, Present(t, e)'
               PROVE  mem'[t][e].frame \in Data \cup {t}
    BY <1>3 DEF PTsMapDataOrThemselves
  <2>1. CASE t = table /\ e = e0
    BY <1>2, <2>1
  <2>2. CASE t # table \/ e # e0
    BY <1>2, <2>2 DEF IInv, TypeOK, PTsMapDataOrThemselves, Present
  <2> QED BY <2>1, <2>2
<1>9. WalkOnPath'
  BY <1>3 DEF Return, WalkOnPath
<1> QED BY <1>4, <1>5, <1>7, <1>8, <1>9 DEF IInv

\* Every step of the page-table code preserves the inductive invariant.
LEMMA NextIInv == IInv /\ [Next]_vars => IInv'
<1> SUFFICES ASSUME IInv, [Next]_vars PROVE IInv'
  OBVIOUS
<1>1. ASSUME NEW v \in Virt, NEW p \in Data, NEW c \in BOOLEAN, MMap(v, p, c)
      PROVE  IInv'
  <2>1. [virt |-> v, phys |-> p, cached |-> c] \in Args
    BY DEF Args
  <2> QED BY <1>1, <2>1, CallIInv DEF MMap
<1>2. ASSUME NEW v \in Virt, MakeTempRegion(v)
      PROVE  IInv'
  <2>1. [virt |-> v, phys |-> Self, cached |-> FALSE] \in Args
    BY DEF Args
  <2> QED BY <1>2, <2>1, CallIInv DEF MakeTempRegion
<1>3. ASSUME NEW l \in 2 .. 4, GetTable(l)
      PROVE  IInv'
  BY <1>3, FollowIInv, LinkIInv, FailIInv DEF GetTable
<1>4. CASE WritePTEntry
  BY <1>4, WriteIInv
<1>5. CASE UNCHANGED vars
  <2>1. TypeOK' /\ PageRoles'
    BY <1>5 DEF vars, IInv, TypeOK, PageRoles
  <2>2. TreeShaped' /\ PTsMapDataOrThemselves'
    BY <1>5 DEF vars, IInv, TreeShaped, LinksGoDown, LinksUnique,
                TablesLinked, PTsMapDataOrThemselves, Present
  <2>3. WalkOnPath'
    BY <1>5 DEF vars, IInv, WalkOnPath, HasPDPT, HasPD, HasPT, PDPTOf, PDOf,
                PTOf, Present
  <2> QED BY <2>1, <2>2, <2>3 DEF IInv
<1> QED BY <1>1, <1>2, <1>3, <1>4, <1>5 DEF Next, Walk

\* The inductive invariant holds in every reachable state.
LEMMA Inductive == Spec => []IInv
BY InitIInv, NextIInv, PTL DEF Spec

\* Every entry that GetTable, MMap and MakeTempRegion write holds the address
\* of a physical page and known flags, for every fan-out and every memory.
THEOREM TypeCorrect == Spec => []TypeOK
<1>1. IInv => TypeOK
  BY DEF IInv
<1> QED BY <1>1, Inductive, PTL

\* GetTable keeps the tables a tree: none is lost, shared or uncleared.
THEOREM TreeCorrect == Spec => []TreeShaped
<1>1. IInv => TreeShaped
  BY DEF IInv
<1> QED BY <1>1, Inductive, PTL

\* The only page table that MMap and MakeTempRegion let the kernel see is the
\* one that maps the window it is seen through.
THEOREM PrivacyCorrect == Spec => []TablesStayPrivate
<1>1. IInv => TablesStayPrivate
  <2> SUFFICES ASSUME IInv, NEW v \in Virt, NEW m \in Translate(v), m.frame \notin Data
               PROVE  m.frame = PTOf(v)
    BY DEF TablesStayPrivate
  <2>1. HasPT(v) /\ Present(PTOf(v), Entry(1, v)) /\ m = mem[PTOf(v)][Entry(1, v)]
    BY DEF Translate
  <2>2. PTOf(v) \in pages[1] /\ Entry(1, v) \in Entries
    BY <2>1, Path, EntryType
  <2> QED BY <2>1, <2>2 DEF IInv, PTsMapDataOrThemselves
<1> QED BY <1>1, Inductive, PTL


\* GetTable, MMap and MakeTempRegion write no page but page tables.
THEOREM WritesConfined == Spec => OnlyTablesWritten
<1> DEFINE Confined ==
      \A f \in Frames : mem'[f] # mem[f] => \E l \in 1 .. 4 : f \in pages'[l]
<1>1. IInv /\ [Next]_vars => [Confined]_vars
  <2> SUFFICES ASSUME IInv, Next PROVE Confined
    OBVIOUS
  <2>1. CASE UNCHANGED mem
    BY <2>1
  <2>2. ASSUME NEW l \in 2 .. 4, FollowEntry(l)
        PROVE  Confined
    <3>1. table \in pages[l] /\ UNCHANGED pages
      BY <2>2, TableAtHand DEF FollowEntry
    <3> QED BY <2>2, <3>1, FollowEffect
  <2>3. ASSUME NEW l \in 2 .. 4, NEW f \in free, LinkNewTable(l, f)
        PROVE  Confined
    <3>1. table \in pages[l]
      BY <2>3, TableAtHand DEF LinkNewTable
    <3>2. \A t \in Frames : t # f /\ t # table => mem'[t] = mem[t]
      BY <2>3, LinkEffect
    <3>3. table \in pages'[l] /\ f \in pages'[l - 1]
      BY <2>3, <3>1 DEF LinkNewTable, IInv, TypeOK
    <3> QED BY <3>2, <3>3
  <2>4. CASE WritePTEntry
    <3>1. table \in pages[1] /\ UNCHANGED pages
      BY <2>4, TableAtHand DEF WritePTEntry
    <3>2. \A t \in Frames : t # table => mem'[t] = mem[t]
      BY <2>4, WriteEffect
    <3> QED BY <3>1, <3>2
  <2> QED BY <2>1, <2>2, <2>3, <2>4
          DEF Next, Walk, GetTable, MMap, MakeTempRegion, Call, AllocationFails
<1> QED BY <1>1, Inductive, PTL DEF Spec, OnlyTablesWritten

-----------------------------------------------------------------------------
\* Following a present entry changes no translation.
LEMMA FollowInvisible ==
  ASSUME IInv, NEW l \in 2 .. 4, FollowEntry(l), NEW w \in Virt
  PROVE  Translate(w)' = Translate(w)
<1>1. \A t \in Frames, e \in Entries :
        /\ mem'[t][e].frame = mem[t][e].frame
        /\ Present(t, e)' <=> Present(t, e)
        /\ t \notin pages[l] => mem'[t][e] = mem[t][e]
  BY FollowEffect
<1>2. \A i \in 1 .. 4 : pages[i] \subseteq Frames
  BY DEF IInv, TypeOK
<1>3. \A k \in 1 .. 4 : Entry(k, w) \in Entries
  BY EntryType
<1>4. (HasPDPT(w)' <=> HasPDPT(w)) /\ PDPTOf(w)' = PDPTOf(w)
  BY <1>1, <1>3, FramesAssumption DEF HasPDPT, PDPTOf
<1>5. (HasPD(w)' <=> HasPD(w)) /\ (HasPDPT(w) => PDOf(w)' = PDOf(w))
  BY <1>1, <1>2, <1>3, <1>4, Path DEF HasPD, PDOf
<1>6. (HasPT(w)' <=> HasPT(w)) /\ (HasPD(w) => PTOf(w)' = PTOf(w))
  BY <1>1, <1>2, <1>3, <1>5, Path DEF HasPT, PTOf, HasPD
<1>7. CASE HasPT(w)
  <2>1. PTOf(w) \in pages[1] /\ PTOf(w) \notin pages[l]
    BY <1>7, Path DEF IInv, PageRoles
  <2>2. PTOf(w)' = PTOf(w) /\ HasPT(w)'
    BY <1>6, <1>7 DEF HasPT
  <2>3. mem'[PTOf(w)][Entry(1, w)] = mem[PTOf(w)][Entry(1, w)]
    BY <1>1, <1>2, <1>3, <2>1
  <2> QED BY <1>7, <2>2, <2>3 DEF Translate, Present
<1>8. CASE ~HasPT(w)
  BY <1>6, <1>8 DEF Translate
<1> QED BY <1>7, <1>8

\* Linking an empty table changes no translation: the entry was not present
\* before, and leads to no present entry after.
LEMMA LinkInvisible ==
  ASSUME IInv, NEW l \in 2 .. 4, NEW f \in free, LinkNewTable(l, f), NEW w \in Virt
  PROVE  Translate(w)' = Translate(w)
<1> DEFINE e0 == Entry(l, arg.virt)
<1>1. /\ \A e \in Entries : ~Present(f, e)'
      /\ mem'[table][e0].frame = f
      /\ \A t \in Frames, e \in Entries :
           t # f /\ (t # table \/ e # e0) => mem'[t][e] = mem[t][e]
  BY LinkEffect
<1>2. table \in pages[l] /\ ~Present(table, e0)
  BY TableAtHand DEF LinkNewTable
<1> HIDE DEF e0
<1>3. \A i \in 1 .. 4 : /\ pages[i] \subseteq Frames /\ f \notin pages[i]
                        /\ i # l => table \notin pages[i]
  BY <1>2 DEF IInv, TypeOK, PageRoles
<1>4. \A k \in 1 .. 4 : Entry(k, w) \in Entries
  BY EntryType
\* At the level of the new link the walk stays, stops as before, or is now
\* led into the empty table f.
<1>5. \A k \in 1 .. 4 : \A t \in pages[k], e \in Entries :
        \/ mem'[t][e] = mem[t][e]
        \/ k = l /\ ~Present(t, e) /\ mem'[t][e].frame = f
  BY <1>1, <1>2, <1>3
<1>6. Root \in pages[4]
  BY DEF IInv, PageRoles
<1>7. \/ mem'[Root][Entry(4, w)] = mem[Root][Entry(4, w)]
      \/ l = 4 /\ ~HasPDPT(w) /\ PDPTOf(w)' = f
  BY <1>4, <1>5, <1>6 DEF HasPDPT, PDPTOf
<1>8. CASE PDPTOf(w)' = f /\ ~HasPDPT(w)
  <2>1. ~Present(PDPTOf(w), Entry(3, w))'
    BY <1>1, <1>4, <1>8 DEF Present
  <2> QED BY <1>8, <2>1 DEF Translate, HasPT, HasPD
<1>9. CASE mem'[Root][Entry(4, w)] = mem[Root][Entry(4, w)]
  <2>1. PDPTOf(w)' = PDPTOf(w) /\ (HasPDPT(w)' <=> HasPDPT(w))
    BY <1>9 DEF PDPTOf, HasPDPT, Present
  <2>2. CASE ~HasPDPT(w)
    BY <2>1, <2>2 DEF Translate, HasPT, HasPD
  <2>3. CASE HasPDPT(w)
    <3> DEFINE x == mem[PDPTOf(w)][Entry(3, w)]
               y == mem[PDOf(w)][Entry(2, w)]
    <3>1. PDPTOf(w) \in pages[3]
      BY <2>3, Path
    <3>2. \/ mem'[PDPTOf(w)][Entry(3, w)] = x
          \/ ~Present(PDPTOf(w), Entry(3, w)) /\ mem'[PDPTOf(w)][Entry(3, w)].frame = f
      BY <1>4, <1>5, <3>1
    <3>3. CASE ~HasPD(w) /\ mem'[PDPTOf(w)][Entry(3, w)].frame = f
      <4>1. PDOf(w)' = f
        BY <2>1, <3>3 DEF PDOf
      <4>2. ~Present(PDOf(w), Entry(2, w))'
        BY <1>1, <1>4, <4>1 DEF Present
      <4> QED BY <3>3, <4>2 DEF Translate, HasPT
    <3>4. CASE mem'[PDPTOf(w)][Entry(3, w)] = x
      <4>1. PDOf(w)' = PDOf(w) /\ (HasPD(w)' <=> HasPD(w))
        BY <2>1, <3>4 DEF PDOf, HasPD, Present
      <4>2. CASE ~HasPD(w)
        BY <4>1, <4>2 DEF Translate, HasPT
      <4>3. CASE HasPD(w)
        <5>1. PDOf(w) \in pages[2]
          BY <4>3, Path
        <5>2. \/ mem'[PDOf(w)][Entry(2, w)] = y
              \/ ~Present(PDOf(w), Entry(2, w)) /\ mem'[PDOf(w)][Entry(2, w)].frame = f
          BY <1>4, <1>5, <5>1
        <5>3. CASE ~HasPT(w) /\ mem'[PDOf(w)][Entry(2, w)].frame = f
          <6>1. PTOf(w)' = f
            BY <4>1, <5>3 DEF PTOf
          <6>2. ~Present(PTOf(w), Entry(1, w))'
            BY <1>1, <1>4, <6>1 DEF Present
          <6> QED BY <5>3, <6>2 DEF Translate
        <5>4. CASE mem'[PDOf(w)][Entry(2, w)] = y
          <6>1. PTOf(w)' = PTOf(w) /\ (HasPT(w)' <=> HasPT(w))
            BY <4>1, <5>4 DEF PTOf, HasPT, Present
          <6>2. CASE ~HasPT(w)
            BY <6>1, <6>2 DEF Translate
          <6>3. CASE HasPT(w)
            <7>1. PTOf(w) \in pages[1]
              BY <6>3, Path
            <7>2. mem'[PTOf(w)][Entry(1, w)] = mem[PTOf(w)][Entry(1, w)]
              BY <1>4, <1>5, <7>1
            <7> QED BY <6>1, <6>3, <7>2 DEF Translate, Present
          <6> QED BY <6>2, <6>3
        <5> QED BY <5>2, <5>3, <5>4 DEF HasPT
      <4> QED BY <4>2, <4>3
    <3> QED BY <3>2, <3>3, <3>4 DEF HasPD
  <2> QED BY <2>2, <2>3
<1> QED BY <1>7, <1>8, <1>9

\* The final entry changes the translation of the requested page and of no
\* other, because no other page has the same path.
LEMMA WriteMapsOnePage ==
  ASSUME IInv, WritePTEntry, NEW w \in Virt
  PROVE  Translate(w)' = IF w = arg.virt THEN {FinalPTE} ELSE Translate(w)
<1> DEFINE v == arg.virt
           e0 == Entry(1, v)
<1>1. /\ mem'[table][e0] = FinalPTE /\ "P" \in FinalPTE.flags
      /\ \A t \in Frames, e \in Entries :
           t # table \/ e # e0 => mem'[t][e] = mem[t][e]
  BY WriteEffect
<1>2. table \in pages[1] /\ HasPT(v) /\ table = PTOf(v) /\ v \in Virt
  BY TableAtHand DEF WritePTEntry, IInv, WalkOnPath
<1> HIDE DEF FinalPTE
<1>3. \A k \in 2 .. 4 : \A t \in pages[k], e \in Entries : mem'[t][e] = mem[t][e]
  BY <1>1, <1>2 DEF IInv, TypeOK, PageRoles
<1>4. \A k \in 1 .. 4 : Entry(k, w) \in Entries /\ Entry(k, v) \in Entries
  BY <1>2, EntryType
<1>5. PDPTOf(w)' = PDPTOf(w) /\ (HasPDPT(w)' <=> HasPDPT(w))
  BY <1>3, <1>4 DEF IInv, PageRoles, PDPTOf, HasPDPT, Present
<1>6. (HasPD(w)' <=> HasPD(w)) /\ (HasPD(w) => PDOf(w)' = PDOf(w))
  BY <1>3, <1>4, <1>5, Path DEF PDOf, HasPD, Present
<1>7. (HasPT(w)' <=> HasPT(w)) /\ (HasPT(w) => PTOf(w)' = PTOf(w))
  BY <1>3, <1>4, <1>6, Path DEF PTOf, HasPT, Present
<1>8. CASE w = v
  BY <1>1, <1>2, <1>7, <1>8 DEF Translate, Present
<1>9. CASE w # v
  <2>1. CASE ~HasPT(w)
    BY <1>7, <1>9, <2>1 DEF Translate
  <2>2. CASE HasPT(w)
    <3>1. PTOf(w) # table \/ Entry(1, w) # e0
      <4> SUFFICES ASSUME PTOf(w) = PTOf(v), Entry(1, w) = Entry(1, v)
                   PROVE  FALSE
        BY <1>2
      <4> USE DEF IInv, TreeShaped, LinksUnique
      <4>1. PDOf(w) = PDOf(v) /\ Entry(2, w) = Entry(2, v)
        BY <1>2, <1>4, <2>2, Path DEF HasPT, PTOf
      <4>2. PDPTOf(w) = PDPTOf(v) /\ Entry(3, w) = Entry(3, v)
        BY <1>2, <1>4, <2>2, <4>1, Path DEF HasPT, HasPD, PDOf
      <4>3. Entry(4, w) = Entry(4, v)
        BY <1>2, <1>4, <2>2, <4>2 DEF PageRoles, HasPT, HasPD, HasPDPT, PDPTOf
      <4> QED BY <1>2, <1>9, <4>1, <4>2, <4>3, EntriesDetermineThePage
    <3>2. PTOf(w) \in Frames
      BY <2>2, Path DEF IInv, TypeOK
    <3>3. mem'[PTOf(w)][Entry(1, w)] = mem[PTOf(w)][Entry(1, w)]
      BY <1>1, <1>4, <3>1, <3>2
    <3> QED BY <1>7, <1>9, <2>2, <3>3 DEF Translate, Present
  <2> QED BY <2>1, <2>2
<1> QED BY <1>8, <1>9


\* The cleared PML4 is the empty address space.
LEMMA InitRefines == Init => AS!Init
<1> SUFFICES ASSUME Init PROVE AS!Init
  OBVIOUS
<1>1. mem[Root] = ZeroTable
  BY FramesAssumption, JunkAssumption DEF Init
<1>2. ASSUME NEW v \in Virt PROVE Translate(v) = {}
  <2>1. ~HasPDPT(v)
    BY <1>1, EntryType DEF HasPDPT, Present, ZeroTable, ZeroPTE
  <2> QED BY <2>1 DEF Translate, HasPT, HasPD
<1>3. [v \in Virt |-> Translate(v)] = [v \in Virt |-> {}]
  BY <1>2
<1> QED BY <1>3 DEF Init, AS!Init

\* Every step of the page-table code is a step of the address space or is
\* invisible in it.
LEMMA StepRefines == IInv /\ [Next]_vars => [AS!Next]_AS!vars
<1> SUFFICES ASSUME IInv, [Next]_vars PROVE [AS!Next]_AS!vars
  OBVIOUS
<1> DEFINE space == [v \in Virt |-> Translate(v)]
<1>1. ASSUME UNCHANGED mem PROVE space' = space
  BY <1>1 DEF Translate, HasPT, HasPD, HasPDPT, PTOf, PDOf, PDPTOf, Present
<1>2. ASSUME NEW a \in Args, Call(a)
      PROVE  AS!Request(a)
  <2>1. status # "busy"
    BY <1>2 DEF Call, IInv, WalkOnPath
  <2> QED BY <1>1, <1>2, <2>1 DEF Call, AS!Request
<1>3. ASSUME NEW v \in Virt, NEW p \in Data, NEW c \in BOOLEAN, MMap(v, p, c)
      PROVE  AS!Next
  <2>1. [virt |-> v, phys |-> p, cached |-> c] \in Args
    BY DEF Args
  <2> QED BY <1>2, <1>3, <2>1 DEF MMap, AS!Next, AS!Args, Args
<1>4. ASSUME NEW v \in Virt, MakeTempRegion(v)
      PROVE  AS!Next
  <2>1. [virt |-> v, phys |-> Self, cached |-> FALSE] \in Args
    BY DEF Args
  <2> QED BY <1>2, <1>4, <2>1 DEF MakeTempRegion, AS!Next, AS!Args, Args
<1>5. ASSUME NEW l \in 2 .. 4, FollowEntry(l)
      PROVE  UNCHANGED AS!vars
  <2>1. space' = space
    BY <1>5, FollowInvisible
  <2> QED BY <1>5, <2>1 DEF FollowEntry, AS!vars
<1>6. ASSUME NEW l \in 2 .. 4, NEW f \in free, LinkNewTable(l, f)
      PROVE  UNCHANGED AS!vars
  <2>1. space' = space
    BY <1>6, LinkInvisible
  <2> QED BY <1>6, <2>1 DEF LinkNewTable, AS!vars
<1>7. ASSUME NEW l \in 2 .. 4, AllocationFails(l)
      PROVE  AS!Next
  <2>1. status = "busy"
    BY <1>7 DEF AllocationFails, IInv, WalkOnPath
  <2>2. AS!Fail
    BY <1>1, <1>7, <2>1 DEF AllocationFails, Return, AS!Fail
  <2> QED BY <2>2 DEF AS!Next
<1>8. ASSUME WritePTEntry
      PROVE  AS!Next
  <2>1. status = "busy" /\ arg \in Args /\ arg.virt \in Virt /\ table \in pages[1]
    BY <1>8, TableAtHand DEF WritePTEntry, IInv, WalkOnPath
  <2>2. FinalPTE \in PTE
    BY <1>8, WriteEffect
  <2>3. table \notin Data
    BY <2>1 DEF IInv, PageRoles
  <2>4. AS!Wanted(arg, FinalPTE)
    BY <2>3 DEF FinalPTE, FinalFrame, AS!Wanted
  <2>5. space' = [space EXCEPT ![arg.virt] = {FinalPTE}]
    BY <1>8, <2>1, WriteMapsOnePage
  <2>6. status' = "EFI_SUCCESS" /\ arg' = Idle
    BY <1>8 DEF WritePTEntry, Return
  <2>7. AS!Succeed(FinalPTE)
    BY <2>1, <2>4, <2>5, <2>6 DEF AS!Succeed
  <2> QED BY <2>2, <2>7 DEF AS!Next, AS!Mapping, PTE, Flags
<1>9. CASE UNCHANGED vars
  BY <1>1, <1>9 DEF vars, AS!vars
<1> QED BY <1>3, <1>4, <1>5, <1>6, <1>7, <1>8, <1>9 DEF Next, Walk, GetTable

\* GetTable, MMap and MakeTempRegion implement the address space.
THEOREM Refinement == Spec => ImplementsAddressSpace
BY InitRefines, StepRefines, Inductive, PTL
   DEF Spec, ImplementsAddressSpace, AS!Spec


=============================================================================

----------------------------- MODULE BootProofs -----------------------------
(***************************************************************************)
(* The boot, from the stub's first call to the kernel's idle loop: what    *)
(* the stub's scan of the memory map finds, that its layout of the higher  *)
(* half has no collisions, that what it tells the kernel is true, and that *)
(* the kernel finds what it needs, for all sizes of pages, tables and      *)
(* files, every memory map and every placement of the allocated pages.     *)
(***************************************************************************)
EXTENDS Kernel, TLAPS

-----------------------------------------------------------------------------
(* The scan for the end of memory *)

BeforeScan ==
  {"load", "info", "allocate", "read", "gop", "pml4", "image", "kernel", "stack"}

AfterScan == {"framemap", "framebuffer", "temp", "exit", "jump", "running"}

\* After n descriptors, MaxAddress is at or above the start of each of them,
\* and is 0 or the end of one of them.
Scanned(n) ==
  /\ n \in 0 .. Len(map)
  /\ \A j \in 1 .. n : map[j].start <= MaxAddress
  /\ \/ MaxAddress = 0
     \/ \E j \in 1 .. n : MaxAddress = map[j].start + map[j].pages

\* The firmware's maps, and the empty one that a failed GetMemoryMap may show.
Scannable == MemoryMaps \cup {<<>>}

ScanInv ==
  /\ MaxAddress \in Nat
  /\ pc \in BeforeScan => MaxAddress = 0
  /\ pc \in AfterScan \cup {"scan"} => map \in Scannable
  /\ pc = "scan" => Scanned(i) /\ status # "busy"
  /\ pc \in AfterScan => Scanned(Len(map))

\* Descriptors have the fields they should have.
LEMMA Descriptors ==
  ASSUME NEW m \in Scannable
  PROVE  /\ Len(m) \in Nat
         /\ \A k \in 1 .. Len(m) : m[k].start \in Nat /\ m[k].pages \in Nat \ {0}
<1> DEFINE D == [start : Nat, pages : Nat \ {0}]
<1>1. m \in Seq(D)
  <2>1. CASE m \in MemoryMaps
    BY <2>1, MemoryMapsAssumption
  <2>2. CASE m = <<>>
    BY <2>2
  <2> QED BY <2>1, <2>2 DEF Scannable
<1> HIDE DEF D
<1>2. Len(m) \in Nat /\ \A k \in 1 .. Len(m) : m[k] \in D
  BY <1>1
<1> QED BY <1>2 DEF D

\* Nothing has been scanned in the initial state.
LEMMA InitScanInv == Init => ScanInv
BY DEF Init, ScanInv, BeforeScan, AfterScan

\* A step of the scan loop keeps the invariant: a descriptor that starts above
\* MaxAddress raises it to the descriptor's end.
LEMMA ScanStep ==
  ASSUME ScanInv, Scan
  PROVE  ScanInv'
<1>1. /\ pc = "scan" /\ map \in Scannable /\ Scanned(i) /\ MaxAddress \in Nat
      /\ i < Len(map) /\ i' = i + 1 /\ UNCHANGED <<pc, map, status>> /\ status # "busy"
  BY DEF Scan, ScanInv, asVars, layout, ram
<1>2. /\ Len(map) \in Nat
      /\ \A k \in 1 .. Len(map) : map[k].start \in Nat /\ map[k].pages \in Nat \ {0}
  BY <1>1, Descriptors
<1>3. /\ i \in Nat /\ i + 1 \in 1 .. Len(map)
      /\ map[i + 1].start \in Nat /\ map[i + 1].pages \in Nat
  BY <1>1, <1>2 DEF Scanned
<1>4. \A j \in 1 .. i : map[j].start \in Nat
  BY <1>1, <1>2, <1>3
<1>5. \A j \in 1 .. (i + 1) : j \in 1 .. i \/ j = i + 1
  BY <1>3
<1>6. CASE map[i + 1].start > MaxAddress
  <2>1. MaxAddress' = map[i + 1].start + map[i + 1].pages
    BY <1>1, <1>6 DEF Scan, MaxEnd
  <2>2. Scanned(i)'
    BY <1>1, <1>3, <1>4, <1>5, <1>6, <2>1 DEF Scanned
  <2> QED BY <1>1, <1>3, <2>1, <2>2 DEF ScanInv, BeforeScan, AfterScan
<1>7. CASE ~(map[i + 1].start > MaxAddress)
  <2>1. MaxAddress' = MaxAddress
    BY <1>1, <1>7 DEF Scan, MaxEnd
  <2>2. Scanned(i)'
    BY <1>1, <1>3, <1>4, <1>5, <1>7, <2>1 DEF Scanned
  <2> QED BY <1>1, <2>1, <2>2 DEF ScanInv, BeforeScan, AfterScan
<1> QED BY <1>6, <1>7

\* No other part of efi_main touches what the scan has found.
LEMMA NextScanInv == ScanInv /\ [Next]_vars => ScanInv'
<1> SUFFICES ASSUME ScanInv, [Next]_vars PROVE ScanInv'
  OBVIOUS
<1> USE DEF ScanInv, BeforeScan, AfterScan, memmap
<1>1. CASE OpenKernel \/ GetKernelInfo \/ AllocateKernel \/ ReadKernel
           \/ LocateGop \/ InitPageMap
  BY <1>1 DEF AfterWriting, OpenKernel, GetKernelInfo, AllocateKernel, ReadKernel,
              LocateGop, InitPageMap
<1>2. CASE CallMMap
  <2>1. pc \in {"image", "kernel", "stack", "framemap", "framebuffer"}
    BY <1>2 DEF CallMMap, Loops
  <2> QED BY <1>2, <2>1 DEF CallMMap, Scanned
<1>3. CASE EndImage \/ EndKernel
  BY <1>3 DEF EndImage, EndKernel, EndLoop
<1>4. CASE EndStack
  <2>1. CASE pc' = "wild"
    BY <1>4, <2>1 DEF EndStack, EndLoop
  <2>2. CASE pc' = "scan"
    <3>1. map' \in Scannable /\ i' = 0 /\ MaxAddress' = 0 /\ status' # "busy"
      BY <1>4, <2>2 DEF EndStack, EndLoop, asVars, Scannable
    <3>2. Len(map') \in Nat
      BY <3>1, Descriptors
    <3> QED BY <2>2, <3>1, <3>2 DEF Scanned
  <2> QED BY <1>4, <2>1, <2>2 DEF EndStack
<1>5. CASE Scan
  BY <1>5, ScanStep
<1>6. CASE AllocateFrameMap
  BY <1>6 DEF AllocateFrameMap, Scanned
<1>7. CASE EndFrameMap \/ EndFrameBuffer
  BY <1>7 DEF EndFrameMap, EndFrameBuffer, EndLoop, Scanned
<1>8. CASE GetFinalMemoryMap \/ ExitBootServices \/ Jump
  BY <1>8 DEF GetFinalMemoryMap, ExitBootServices, Jump, Scanned
<1>9. CASE FirmwareEvent \/ UNCHANGED vars
  BY <1>9 DEF FirmwareEvent, vars, asVars, Scanned
<1>10. CASE MMapReturns
  BY <1>10 DEF MMapReturns, Scanned, AS!Succeed, AS!Fail
<1> QED BY <1>1, <1>2, <1>3, <1>4, <1>5, <1>6, <1>7, <1>8, <1>9, <1>10
        DEF Next, Stub

\* MaxAddress is the end of some descriptor d.  One that starts below it is d
\* or, being disjoint from d, lies below d as a whole; so whatever memory the
\* frame map misses belongs to a region that starts exactly at MaxAddress.
THEOREM ScanCorrect == Spec => []ScanMissesOnlyAdjacent
<1>1. ScanInv => ScanMissesOnlyAdjacent
  <2> SUFFICES ASSUME ScanInv, pc \in AfterScan, NEW n \in 1 .. Len(map)
               PROVE  \/ map[n].start + map[n].pages <= MaxAddress
                      \/ map[n].start = MaxAddress
    BY DEF ScanMissesOnlyAdjacent, AfterScan
  <2>1. map \in Scannable /\ Scanned(Len(map)) /\ MaxAddress \in Nat
    BY DEF ScanInv
  <2>2. /\ \A j, k \in 1 .. Len(map) :
             j # k => \/ map[j].start + map[j].pages <= map[k].start
                      \/ map[k].start + map[k].pages <= map[j].start
    <3>1. CASE map \in MemoryMaps
      BY <3>1, MemoryMapsAssumption
    <3>2. CASE map = <<>>
      BY <3>2
    <3> QED BY <2>1, <3>1, <3>2 DEF Scannable
  <2>3. \A j \in 1 .. Len(map) : map[j].start \in Nat /\ map[j].pages \in Nat \ {0}
    BY <2>1, Descriptors
  <2>4. CASE MaxAddress = 0
    BY <2>1, <2>3, <2>4 DEF Scanned
  <2>5. CASE \E j \in 1 .. Len(map) : MaxAddress = map[j].start + map[j].pages
    <3>1. PICK j \in 1 .. Len(map) : MaxAddress = map[j].start + map[j].pages
      BY <2>5
    <3>2. map[n].start <= MaxAddress
      BY <2>1 DEF Scanned
    <3>3. CASE j = n
      BY <2>3, <3>1, <3>3
    <3>4. CASE j # n
      BY <2>2, <2>3, <3>1, <3>2, <3>4
    <3> QED BY <3>3, <3>4
  <2> QED BY <2>1, <2>4, <2>5 DEF Scanned
<1> QED BY <1>1, InitScanInv, NextScanInv, PTL DEF Spec

-----------------------------------------------------------------------------
(* Sizes in pages *)

\* Quotient and rest of a division.
LEMMA Division ==
  ASSUME NEW a \in Nat, NEW b \in Nat \ {0}
  PROVE  /\ a \div b \in Nat
         /\ a % b \in 0 .. (b - 1)
         /\ a = b * (a \div b) + (a % b)
  OBVIOUS

\* There is only one way to divide.
LEMMA DivisionUnique ==
  ASSUME NEW b \in Nat \ {0}, NEW q \in Nat, NEW r \in 0 .. (b - 1),
         NEW p \in Nat, NEW s \in 0 .. (b - 1),
         b * q + r = b * p + s
  PROVE  q = p /\ r = s
<1>1. ASSUME q < p PROVE FALSE
  <2>1. b * (p - q) >= b
    BY <1>1
  <2> QED BY <2>1
<1>2. ASSUME p < q PROVE FALSE
  <2>1. b * (q - p) >= b
    BY <1>2
  <2> QED BY <2>1
<1> QED BY <1>1, <1>2

\* Whole pages in front can be taken out of a division.
LEMMA DivideOffset ==
  ASSUME NEW n \in Nat, NEW a \in Nat, NEW b \in Nat \ {0}
  PROVE  (n * b + a) \div b = n + (a \div b) /\ (n * b + a) % b = a % b
<1> DEFINE x == n * b + a
           q == a \div b
           r == a % b
           p == x \div b
           s == x % b
<1>1. q \in Nat /\ r \in 0 .. (b - 1) /\ a = b * q + r
  BY Division
<1>2. x \in Nat
  OBVIOUS
<1>3. p \in Nat /\ s \in 0 .. (b - 1) /\ x = b * p + s
  BY <1>2, Division, Zenon
<1> HIDE DEF q, r, p, s
<1>4. x = b * (n + q) + r
  BY <1>1
<1> HIDE DEF x
<1>5. n + q \in Nat
  BY <1>1
<1>6. p = n + q /\ s = r
  BY <1>1, <1>3, <1>4, <1>5, DivisionUnique
<1> QED BY <1>6 DEF p, q, r, s, x

\* A number of pages, in pages.
LEMMA WholePages ==
  ASSUME NEW n \in Nat
  PROVE  /\ (n * PageSize) \div PageSize = n /\ (n * PageSize) % PageSize = 0
         /\ n * PageSize \in Nat
<1>1. PageSize \in Nat \ {0}
  BY SizesAssumption
<1> DEFINE b == PageSize
<1> HIDE DEF b
<1>2. b \in Nat \ {0}
  BY <1>1 DEF b
<1>3. (n * b + 0) \div b = n + (0 \div b) /\ (n * b + 0) % b = 0 % b
  BY <1>2, DivideOffset
<1>4. n * b + 0 = n * b /\ 0 \div b = 0 /\ 0 % b = 0 /\ n * b \in Nat /\ n + 0 = n
  BY <1>2
<1> QED BY <1>3, <1>4 DEF b

\* PagesFor rounds up.
LEMMA RoundsUp ==
  ASSUME NEW size \in Nat
  PROVE  /\ PagesFor(size) \in Nat
         /\ size <= PagesFor(size) * PageSize
         /\ PagesFor(size) * PageSize < size + PageSize
<1> DEFINE b == PageSize
           x == size + b - 1
           p == x \div b
           s == x % b
<1>1. b \in Nat \ {0} /\ x \in Nat
  BY SizesAssumption
<1>2. p \in Nat /\ s \in 0 .. (b - 1) /\ x = b * p + s
  BY <1>1, Division, Zenon
<1>3. PagesFor(size) = p
  BY DEF PagesFor
<1> HIDE DEF p, s, b
<1>4. b * p = p * b /\ b * p \in Nat
  BY <1>1, <1>2
<1>5. size <= p * b /\ p * b < size + b
  BY <1>1, <1>2, <1>4
<1> QED BY <1>2, <1>3, <1>5 DEF b

\* n pages hold a region if and only if n is at least its size in pages.
LEMMA FewestPages ==
  ASSUME NEW size \in Nat, NEW n \in Nat
  PROVE  size <= n * PageSize <=> PagesFor(size) <= n
<1> DEFINE b == PageSize
           p == PagesFor(size)
<1>1. b \in Nat \ {0} /\ p \in Nat /\ size <= p * b /\ p * b < size + b
  BY SizesAssumption, RoundsUp
<1> HIDE DEF b, p
<1>2. ASSUME p <= n PROVE size <= n * b
  <2>1. p * b <= n * b /\ p * b \in Nat /\ n * b \in Nat
    BY <1>1, <1>2
  <2> QED BY <1>1, <2>1
<1>3. ASSUME size <= n * b PROVE p <= n
  <2>1. ASSUME p > n PROVE FALSE
    <3>1. (p - n) * b >= b
      BY <1>1, <2>1
    <3>2. (p - n) * b = p * b - n * b /\ p * b \in Nat /\ n * b \in Nat
      BY <1>1
    <3> QED BY <1>1, <1>3, <3>1, <3>2
  <2> QED BY <1>1, <2>1
<1> QED BY <1>2, <1>3 DEF b, p

\* A loop that counts offsets i in steps of a page visits the pages 0, 1, ...
\* and every page of the region.
LEMMA LoopCounts ==
  ASSUME NEW j \in Nat, NEW size \in Nat, j % PageSize = 0
  PROVE  /\ j \div PageSize \in Nat
         /\ j < size <=> j \div PageSize < PagesFor(size)
         /\ (j + PageSize) \div PageSize = (j \div PageSize) + 1
         /\ (j + PageSize) % PageSize = 0
<1> DEFINE b == PageSize
           n == j \div b
           p == PagesFor(size)
<1>1. b \in Nat \ {0}
  BY SizesAssumption
<1>2. n \in Nat /\ j = b * n + (j % b) /\ j % b = 0
  BY <1>1, Division, Zenon
<1>3. p \in Nat /\ (size <= n * b <=> p <= n)
  BY <1>2, FewestPages, RoundsUp, Zenon
<1> HIDE DEF n, b, p
<1>4. j = n * b /\ j + b = (n + 1) * b /\ n + 1 \in Nat
  BY <1>1, <1>2
<1>5. ((n + 1) * b) \div b = n + 1 /\ ((n + 1) * b) % b = 0
  BY <1>4, WholePages DEF b
<1>6. j < size <=> n < p
  BY <1>2, <1>3, <1>4
<1> QED BY <1>2, <1>4, <1>5, <1>6 DEF n, b, p

\* The temp region starts a whole number of pages behind everything before it.
LEMMA WindowBehind ==
  ASSUME NEW n \in Nat
  PROVE  LET r == NextWindow(n * PageSize + FrameBufferSize) IN
         /\ r \in Nat /\ r % PageSize = 0 /\ r \div PageSize \in Nat
         /\ n + PagesFor(FrameBufferSize) <= r \div PageSize
<1> DEFINE b == PageSize
           s == FrameBufferSize
           w == Fan * b
           x == n * b + s
           q == x \div w
           m == (q + 1) * Fan
           r == NextWindow(x)
<1>1. b \in Nat \ {0} /\ Fan \in Nat \ {0} /\ s \in Nat
  BY SizesAssumption
<1>2. w \in Nat \ {0} /\ x \in Nat
  BY <1>1
<1>3. q \in Nat /\ x = w * q + (x % w) /\ x % w \in 0 .. (w - 1)
  BY <1>2, Division, Zenon
<1>4. r = (q + 1) * w
  BY DEF NextWindow
<1> HIDE DEF q, r, w, b, s
<1>5. x < (q + 1) * w
  <2>1. (q + 1) * w = w * q + w /\ w * q \in Nat
    BY <1>2, <1>3
  <2> HIDE DEF x
  <2> QED BY <1>2, <1>3, <2>1
<1>6. m \in Nat /\ (q + 1) * w = m * b
  BY <1>1, <1>3 DEF w
<1> HIDE DEF m
<1>7. r = m * b /\ r \in Nat /\ r \div b = m /\ r % b = 0
  BY <1>4, <1>6, WholePages DEF b
<1>8. n <= m
  <2>1. ASSUME n > m PROVE FALSE
    <3>1. n * b >= m * b /\ n * b \in Nat /\ m * b \in Nat
      BY <1>1, <1>6, <2>1
    <3> QED BY <1>1, <1>5, <1>6, <3>1
  <2> QED BY <1>6, <2>1
<1>9. s <= (m - n) * b
  <2>1. (m - n) * b = m * b - n * b /\ n * b \in Nat /\ m * b \in Nat
    BY <1>1, <1>6
  <2> QED BY <1>1, <1>5, <1>6, <2>1
<1>10. PagesFor(s) <= m - n /\ PagesFor(s) \in Nat
  <2>1. m - n \in Nat
    BY <1>6, <1>8
  <2> QED BY <1>1, <1>9, <2>1, FewestPages, RoundsUp DEF b
<1>11. n + PagesFor(s) <= m
  BY <1>6, <1>10
<1> QED BY <1>6, <1>7, <1>11 DEF b, s, r

-----------------------------------------------------------------------------
(* Types *)

Args == [FrameMap : Nat, FrameMapSize : Nat, framebuffer : Nat, TempMappingRegion : Nat]

TypeInv ==
  /\ TypeOK
  /\ KernelArgs \in Args
  /\ FileSize \in 0 .. MaxFileSize
  /\ MaxAddress \in Ends

\* The sizes that the stub computes are natural numbers.
LEMMA SizesAreNat ==
  ASSUME TypeInv
  PROVE  /\ PagesFor(FileSize) \in Nat /\ KernelPagesCount \in Nat
         /\ SizeOfFrameMap \in Nat /\ PagesFor(SizeOfFrameMap) \in Nat
         /\ PagesFor(SizeOfFrameMap) * Stride * PageSize \in Nat
         /\ NextWindow(CurrentPage + FrameBufferSize) \in Nat
<1>1. /\ {PageSize, Fan, Bits, Stride} \subseteq Nat \ {0} /\ Slack \in Nat
      /\ FrameBufferSize \in Nat
      /\ FileSize \in Nat /\ MaxAddress \in Nat /\ CurrentPage \in Nat
  BY SizesAssumption DEF TypeInv, TypeOK
<1>2. PagesFor(FileSize) \in Nat
  BY <1>1, RoundsUp
<1>3. KernelPagesCount \in Nat
  BY <1>1, <1>2 DEF KernelPagesCount
<1>4. SizeOfFrameMap \in Nat
  BY <1>1, Division DEF SizeOfFrameMap
<1>5. PagesFor(SizeOfFrameMap) \in Nat
  BY <1>4, RoundsUp
<1>6. PagesFor(SizeOfFrameMap) * Stride * PageSize \in Nat
  BY <1>1, <1>5
<1>7. NextWindow(CurrentPage + FrameBufferSize) \in Nat
  <2> DEFINE w == Fan * PageSize
             x == CurrentPage + FrameBufferSize
             q == x \div w
  <2>1. w \in Nat \ {0} /\ x \in Nat
    BY <1>1
  <2>2. q \in Nat
    BY <2>1, Division, Zenon
  <2>3. NextWindow(x) = (q + 1) * w
    BY DEF NextWindow
  <2> HIDE DEF q, w, x
  <2>4. (q + 1) * w \in Nat
    BY <2>1, <2>2
  <2> QED BY <2>3, <2>4 DEF x
<1> QED BY <1>2, <1>3, <1>4, <1>5, <1>6, <1>7

Regions == {"kernel", "pml4", "stack", "framemap"}

\* The types of the variables that allocations set.
BaseOK ==
  base \in [Regions -> Anywhere] /\ {base.kernel, base.pml4, base.stack} \subseteq Phys

\* An allocation sets one variable, to a page of RAM or to what it held.
LEMMA AllocateType ==
  ASSUME TypeOK, NEW r \in Regions, NEW n, NEW stale \in SUBSET Anywhere,
         r = "framemap" \/ stale = Initialised,
         AllocatePages(r, n, stale)
  PROVE  /\ free' \subseteq Phys /\ BaseOK'
         /\ failures' \in {failures, failures + 1} /\ failures' \in Nat
         /\ \A q \in Regions \ {r} : base'[q] = base[q]
<1>1. /\ free \subseteq Phys /\ failures \in Nat /\ BaseOK
      /\ Initialised \subseteq Phys /\ Phys \subseteq Anywhere
  BY SizesAssumption DEF TypeOK, Regions, BaseOK, Initialised
<1>2. PICK p \in Anywhere : base' = [base EXCEPT ![r] = p] /\ (p \in Phys \/ r = "framemap")
  BY <1>1 DEF AllocatePages, Places
<1>3. BaseOK' /\ \A q \in Regions \ {r} : base'[q] = base[q]
  BY <1>1, <1>2 DEF BaseOK, Regions
<1>4. free' \subseteq Phys /\ failures' \in {failures, failures + 1}
  BY <1>1 DEF AllocatePages
<1> QED BY <1>1, <1>3, <1>4

LEMMA InitTypeInv == Init => TypeInv
<1> SUFFICES ASSUME Init PROVE TypeInv
  OBVIOUS
<1>1. space \in [Virt -> SUBSET AS!Mapping] /\ status = "none"
  BY DEF Init, AS!Init
<1>2. BaseOK
  BY SizesAssumption DEF Init, Regions, BaseOK
<1>3. MaxAddress \in Ends /\ KernelArgs \in Args /\ FileSize \in 0 .. MaxFileSize
  BY SizesAssumption DEF Init, Ends, Args
<1> QED BY <1>1, <1>2, <1>3 DEF Init, TypeInv, TypeOK, Parts, Regions, BaseOK

\* One step per part of efi_main.
LEMMA NextTypeInv == TypeInv /\ ScanInv /\ [Next]_vars => TypeInv'
<1> SUFFICES ASSUME TypeInv, ScanInv, [Next]_vars PROVE TypeInv'
  OBVIOUS
<1> USE DEF TypeInv, TypeOK, Parts, asVars, ram, layout, memmap
<1>1. CASE OpenKernel \/ LocateGop
  BY <1>1 DEF OpenKernel, LocateGop, OneMoreFailure
<1>2. CASE GetKernelInfo
  <2>1. KernelFileSize \in 0 .. MaxFileSize /\ 0 .. MaxFileSize \subseteq Nat
    BY SizesAssumption
  <2> QED BY <1>2, <2>1 DEF GetKernelInfo, OneMoreFailure
<1>3. CASE AllocateKernel
  <2>1. AllocatePages("kernel", KernelPagesCount \div PageSize, Initialised)
    BY <1>3 DEF AllocateKernel
  <2>2. free' \subseteq Phys /\ BaseOK' /\ failures' \in Nat
    BY <2>1, AllocateType, SizesAssumption DEF Regions, Initialised
  <2> QED BY <1>3, <2>2 DEF AllocateKernel, Regions, BaseOK
<1>4. CASE ReadKernel
  <2>1. pc' \in {"wild", "gop"}
    BY <1>4 DEF ReadKernel, AfterWriting
  <2> QED BY <1>4, <2>1 DEF ReadKernel, OneMoreFailure
<1>5. CASE InitPageMap
  <2>1. AllocatePages("pml4", 1, Initialised)
    BY <1>5 DEF InitPageMap
  <2>2. free' \subseteq Phys /\ BaseOK' /\ failures' \in Nat
    BY <2>1, AllocateType, SizesAssumption DEF Regions, Initialised
  <2>3. content' \in [Phys -> {"other", "file", "zero"}] /\ pc' \in {"wild", "image"}
    BY <1>5 DEF InitPageMap, AfterWriting
  <2> QED BY <1>5, <2>2, <2>3 DEF InitPageMap, Regions, BaseOK
<1>6. CASE CallMMap
  BY <1>6 DEF CallMMap, AS!Request
<1>7. CASE MMapReturns
  <2>1. i' \in Nat /\ failures' \in Nat
    BY <1>7, SizesAssumption DEF MMapReturns, NextOffset, OneMoreFailure
  <2>2. space' \in [Virt -> SUBSET AS!Mapping] /\ status' \in {"EFI_SUCCESS", "error"}
    BY <1>7 DEF MMapReturns, AS!Succeed, AS!Fail
  <2>3. key' \in {"none", "fresh", "own", "firmware", "garbage"}
    BY <1>7 DEF MMapReturns, KeyAfterAllocation
  <2> QED BY <1>7, <2>1, <2>2, <2>3 DEF MMapReturns
<1>8. CASE EndImage
  BY <1>8 DEF EndImage, EndLoop
<1>9. CASE EndKernel
  <2>1. AllocatePages("stack", StackPages, Initialised)
    BY <1>9 DEF EndKernel
  <2>2. free' \subseteq Phys /\ BaseOK' /\ failures' \in Nat
    BY <2>1, AllocateType, SizesAssumption DEF Regions, Initialised
  <2>3. CurrentPage' \in Nat
    BY <1>9, SizesAreNat DEF EndKernel, BehindKernel
  <2> QED BY <1>9, <2>2, <2>3 DEF EndKernel, EndLoop, Regions, BaseOK
<1>10. CASE EndStack
  BY <1>10 DEF EndStack, EndLoop, OneMoreFailure
<1>11. CASE Scan
  <2>1. i \in Nat /\ i + 1 \in 1 .. Len(map) /\ map \in MemoryMaps
    <3>1. map \in Scannable /\ Scanned(i) /\ i < Len(map)
      BY <1>11 DEF Scan, ScanInv
    <3>2. i \in Nat /\ i + 1 \in 1 .. Len(map)
      BY <3>1, Descriptors DEF Scanned
    <3>3. map # <<>>
      BY <3>2
    <3> QED BY <3>1, <3>2, <3>3 DEF Scannable
  <2>2. /\ map[i + 1].start + map[i + 1].pages \in Ends
        /\ map[i + 1].start + map[i + 1].pages \in Nat
    BY <2>1, Descriptors DEF Ends, Scannable
  <2>3. MaxAddress' \in Ends /\ MaxAddress' \in Nat
    BY <1>11, <2>2 DEF Scan, MaxEnd
  <2> QED BY <1>11, <2>1, <2>3 DEF Scan
<1>12. CASE AllocateFrameMap
  <2>1. AllocatePages("framemap", PagesFor(SizeOfFrameMap), Anywhere)
    BY <1>12 DEF AllocateFrameMap, FrameMapUnset
  <2>2. free' \subseteq Phys /\ BaseOK' /\ failures' \in Nat
    BY <2>1, AllocateType DEF Regions
  <2>3. key' \in {"none", "fresh", "own", "firmware", "garbage"}
    BY <1>12 DEF AllocateFrameMap, KeyAfterAllocation
  <2> QED BY <1>12, <2>2, <2>3 DEF AllocateFrameMap, Regions, BaseOK
<1>13. CASE EndFrameMap
  <2>1. CurrentPage' \in Nat
    BY <1>13, SizesAreNat DEF EndFrameMap
  <2>2. KernelArgs' \in Args
    BY <1>13, SizesAreNat DEF EndFrameMap, Saved, Args
  <2> QED BY <1>13, <2>1, <2>2 DEF EndFrameMap, EndLoop
<1>14. CASE EndFrameBuffer
  <2>1. CurrentPage' \in Nat
    BY <1>14, SizesAreNat DEF EndFrameBuffer
  <2>2. KernelArgs' \in Args
    BY <1>14, SizesAreNat DEF EndFrameBuffer, Args
  <2> QED BY <1>14, <2>1, <2>2 DEF EndFrameBuffer, EndLoop, AS!Request
<1>15. CASE GetFinalMemoryMap
  BY <1>15 DEF GetFinalMemoryMap, FinalKey, OneMoreFailure
<1>16. CASE ExitBootServices \/ Jump
  <2>1. CASE ExitBootServices
    <3>1. exited' \in BOOLEAN
      BY <2>1, Zenon DEF ExitBootServices
    <3> QED BY <2>1, <3>1 DEF ExitBootServices
  <2>2. CASE Jump
    <3>1. pc' \in {"running", "fault"}
      BY <2>2 DEF Jump
    <3> QED BY <2>2, <3>1 DEF Jump
  <2> QED BY <1>16, <2>1, <2>2
<1>17. CASE FirmwareEvent \/ UNCHANGED vars
  BY <1>17 DEF FirmwareEvent, vars
<1> QED BY <1>1, <1>2, <1>3, <1>4, <1>5, <1>6, <1>7, <1>8, <1>9, <1>10, <1>11,
           <1>12, <1>13, <1>14, <1>15, <1>16, <1>17
        DEF Next, Stub

\* Whatever calls fail, the variables of efi_main hold values of their types: the
\* kernel, the PML4 and the stack are pages of RAM, the frame map can be anywhere,
\* and the address space shows only pages that the loops name and the temp
\* region's table.
THEOREM StubTypeCorrect == Spec => []TypeOK
<1>1. TypeInv => TypeOK
  BY DEF TypeInv
<1> QED BY <1>1, InitScanInv, NextScanInv, InitTypeInv, NextTypeInv, PTL DEF Spec

-----------------------------------------------------------------------------
(* The layout *)

LoopNames == {"image", "kernel", "stack", "framemap", "framebuffer"}

KernelPages == PagesFor(FileSize) + Slack
FrameMapPages == PagesFor(SizeOfFrameMap)
BufferAt == KernelPages + FrameMapPages * Stride
RegionAt == NextWindow(BufferAt * PageSize + FrameBufferSize) \div PageSize
StackAt == TopPage - StackPages

\* Of each of the five loops: its first virtual and physical page and its size
\* in pages.
First ==
  [image |-> ImageBase, kernel |-> HigherHalf, stack |-> StackAt,
   framemap |-> HigherHalf + KernelPages, framebuffer |-> HigherHalf + BufferAt]

Source ==
  [image |-> ImageBase, kernel |-> base.kernel, stack |-> base.stack,
   framemap |-> base.framemap, framebuffer |-> FrameBufferBase]

Count ==
  [image |-> PagesFor(ImageSize), kernel |-> KernelPages, stack |-> StackPages,
   framemap |-> FrameMapPages, framebuffer |-> PagesFor(FrameBufferSize)]

Final == {"exit", "jump", "running", "fault"}
Before == {"load", "info", "allocate", "read", "gop", "pml4"}

\* The parts of efi_main behind each loop.
After ==
  [image |-> {"kernel", "stack", "scan", "framemap", "framebuffer", "temp"} \cup Final,
   kernel |-> {"stack", "scan", "framemap", "framebuffer", "temp"} \cup Final,
   stack |-> {"scan", "framemap", "framebuffer", "temp"} \cup Final,
   framemap |-> {"framebuffer", "temp"} \cup Final,
   framebuffer |-> {"temp"} \cup Final]

\* The pages of loop l that MMap has been called for.
Progress(l) ==
  IF pc = l THEN i \div PageSize ELSE IF pc \in After[l] THEN Count[l] ELSE 0

\* Where the loops are, and what they have asked MMap for.
ControlInv ==
  /\ status = "busy" => pc \in LoopNames \cup {"temp"}
  /\ pc \in Before => i = 0
  /\ pc \in LoopNames => i % PageSize = 0 /\ Progress(pc) <= Count[pc]
  /\ pc \in LoopNames /\ status = "busy" =>
       /\ Progress(pc) < Count[pc]
       /\ arg.virt = First[pc] + Progress(pc)
       /\ arg.phys = Source[pc] + Progress(pc)
  /\ pc = "temp" /\ status = "busy" =>
       arg.virt = HigherHalf + RegionAt /\ arg.phys = Self

\* CurrentPage and KernelArgs are the running total of the parts before.
PlacesInv ==
  /\ pc \in Before \cup {"image", "kernel"} => CurrentPage = 0
  /\ pc \in {"stack", "scan", "framemap"} => CurrentPage = KernelPages * PageSize
  /\ pc = "framebuffer" => CurrentPage = BufferAt * PageSize
  /\ pc \in After["framemap"] =>
       /\ KernelArgs.FrameMap = KernelPages * PageSize
       /\ KernelArgs.FrameMapSize = SizeOfFrameMap
  /\ pc \in After["framebuffer"] =>
       /\ KernelArgs.framebuffer = BufferAt * PageSize
       /\ KernelArgs.TempMappingRegion = RegionAt * PageSize

RegionMade == pc \in Final \/ (pc = "temp" /\ status # "busy")

Lost == {"wild", "returned"}

\* Only pages that a loop has come to are mapped, and the temp region.
OccupiedInv ==
  pc \notin Lost => \A v \in Virt : space[v] # {} =>
    \/ \E l \in LoopNames : v \in First[l] .. (First[l] + Progress(l) - 1)
    \/ RegionMade /\ v = HigherHalf + RegionAt

\* If no call has failed, each of them shows the page it should.
ShownInv ==
  pc \notin Lost /\ failures = 0 =>
    /\ \A l \in LoopNames : \A k \in 0 .. (Progress(l) - 1) :
         \E m \in space[First[l] + k] : m.frame = Source[l] + k
    /\ RegionMade => \E m \in space[HigherHalf + RegionAt] : m.frame = PTPage

\* After the second GetMemoryMap only the firmware spoils the key.
KeyInv ==
  /\ pc \in Final => key \in {"fresh", "firmware", "garbage"}
  /\ pc \in Final \ {"exit"} => (exited <=> key = "fresh")

LoadedInv ==
  failures = 0 =>
    /\ pc \notin Lost \cup {"load", "info"} => FileSize = KernelFileSize
    /\ pc \notin Lost \cup {"load", "info", "allocate"} =>
         \A p \in base.kernel .. (base.kernel + KernelPages - 1) : p \in Phys \ free
    /\ pc \in {"gop", "pml4"} => \A p \in FilePages : content[p] = "file"
    /\ pc \in LoopNames \cup {"scan", "temp"} \cup Final =>
         \A p \in FilePages : content[p] = "file" \/ p = base.pml4 + 1
    /\ pc \in After["kernel"] => StackPages > 0

\* The parts of the layout, in pages: each ends where the next one starts or
\* before, and there is room for the window of the temp region below the stack.
LEMMA LayoutFits ==
  ASSUME TypeInv
  PROVE  /\ KernelPages \in Nat /\ KernelPages > 0 /\ FrameMapPages \in Nat
         /\ BufferAt \in Nat /\ RegionAt \in Nat /\ StackAt \in Nat
         /\ PagesFor(ImageSize) \in Nat /\ PagesFor(FrameBufferSize) \in Nat
         /\ ImageBase + PagesFor(ImageSize) <= HigherHalf
         /\ KernelPages + FrameMapPages <= BufferAt
         /\ BufferAt + PagesFor(FrameBufferSize) <= RegionAt
         /\ HigherHalf + RegionAt + Fan <= StackAt
<1>1. /\ Stride \in Nat \ {0} /\ Slack \in Nat \ {0} /\ PageSize \in Nat \ {0}
      /\ TopPage \in Nat /\ StackPages \in Nat /\ HigherHalf \in Nat /\ Fan \in Nat \ {0}
  BY SizesAssumption
<1>2. PagesFor(FileSize) \in Nat /\ FrameMapPages \in Nat
  BY SizesAreNat DEF FrameMapPages
<1>3. PagesFor(ImageSize) \in Nat /\ PagesFor(FrameBufferSize) \in Nat
  BY RoundsUp, SizesAssumption
<1>4. KernelPages \in Nat /\ KernelPages > 0
  BY <1>1, <1>2 DEF KernelPages
<1>5. FrameMapPages <= FrameMapPages * Stride /\ FrameMapPages * Stride \in Nat
  BY <1>1, <1>2
<1>6. BufferAt \in Nat /\ KernelPages + FrameMapPages <= BufferAt
  BY <1>2, <1>4, <1>5 DEF BufferAt
<1>7. RegionAt \in Nat /\ BufferAt + PagesFor(FrameBufferSize) <= RegionAt
  BY <1>6, WindowBehind DEF RegionAt
<1>8. HigherHalf + RegionAt + Fan <= StackAt
  <2>1. FileSize \in 0 .. MaxFileSize /\ MaxAddress \in Ends
    BY DEF TypeInv
  <2> QED BY <2>1, LayoutAssumption
          DEF RegionAt, BufferAt, KernelPages, FrameMapPages, SizeOfFrameMap, StackAt
<1>9. StackAt \in Nat
  <2>1. StackAt \in Int
    BY <1>1 DEF StackAt
  <2> QED BY <1>1, <1>7, <1>8, <2>1
<1>10. ImageBase + PagesFor(ImageSize) <= HigherHalf
  BY LayoutAssumption
<1> QED BY <1>2, <1>3, <1>4, <1>6, <1>7, <1>8, <1>9, <1>10

\* The five loops have pages of their own, and the temp region's window too.
LEMMA LoopsApart ==
  ASSUME TypeInv
  PROVE  /\ \A l \in LoopNames :
              /\ First[l] \in Nat /\ Count[l] \in Nat /\ Source[l] \in Nat
              /\ First[l] + Count[l] <= TopPage
              /\ \/ First[l] + Count[l] <= HigherHalf + RegionAt
                 \/ HigherHalf + RegionAt + Fan <= First[l]
         /\ \A l, k \in LoopNames :
              l # k => \/ First[l] + Count[l] <= First[k]
                       \/ First[k] + Count[k] <= First[l]
         /\ (HigherHalf + RegionAt) .. (HigherHalf + RegionAt + Fan) \subseteq Virt
<1>1. /\ TopPage \in Nat /\ StackPages \in Nat /\ HigherHalf \in Nat /\ Fan \in Nat \ {0}
      /\ ImageBase \in Nat /\ FrameBufferBase \in Nat
  BY SizesAssumption
<1>2. StackAt + StackPages = TopPage
  BY <1>1 DEF StackAt
<1>3. base.kernel \in Nat /\ base.stack \in Nat /\ base.framemap \in Nat
  BY SizesAssumption DEF TypeInv, TypeOK
<1>4. \A l \in LoopNames :
        /\ First[l] \in Nat /\ Count[l] \in Nat /\ Source[l] \in Nat
        /\ First[l] + Count[l] <= TopPage
        /\ \/ First[l] + Count[l] <= HigherHalf + RegionAt
           \/ HigherHalf + RegionAt + Fan <= First[l]
  BY <1>1, <1>2, <1>3, LayoutFits DEF LoopNames, First, Count, Source
<1>5. \A l, k \in LoopNames :
        l # k => \/ First[l] + Count[l] <= First[k]
                 \/ First[k] + Count[k] <= First[l]
  BY <1>1, <1>2, LayoutFits DEF LoopNames, First, Count
<1>6. (HigherHalf + RegionAt) .. (HigherHalf + RegionAt + Fan) \subseteq Virt
  BY <1>1, <1>2, LayoutFits DEF Virt
<1> QED BY <1>4, <1>5, <1>6

\* The loop that the stub is in starts where the layout says it does.
LEMMA LoopRows ==
  ASSUME TypeInv, PlacesInv, pc \in LoopNames
  PROVE  /\ Loops[pc].virt = First[pc] /\ Loops[pc].phys = Source[pc]
         /\ Loops[pc].size \in Nat /\ PagesFor(Loops[pc].size) = Count[pc]
<1>1. /\ KernelPages \in Nat /\ BufferAt \in Nat /\ SizeOfFrameMap \in Nat
      /\ StackPages \in Nat /\ ImageSize \in Nat /\ FrameBufferSize \in Nat
  BY LayoutFits, SizesAreNat, SizesAssumption
<1>2. \A n \in Nat : PagesFor(n * PageSize) = n /\ n * PageSize \in Nat
  <2> TAKE n \in Nat
  <2> DEFINE b == PageSize
             s == n * b
             p == PagesFor(s)
  <2>1. b \in Nat \ {0} /\ s \in Nat
    BY SizesAssumption
  <2>2. p \in Nat /\ s <= p * b /\ p * b < s + b
    BY <2>1, RoundsUp
  <2>3. p <= n
    <3>1. s <= n * PageSize
      BY <2>1
    <3> HIDE DEF s
    <3> QED BY <2>1, <3>1, FewestPages, Zenon
  <2> HIDE DEF b, p
  <2>4. ASSUME p < n PROVE FALSE
    <3>1. (n - p) * b > 0 /\ (n - p) * b = n * b - p * b
      BY <2>1, <2>2, <2>4
    <3> QED BY <2>1, <2>2, <3>1
  <2> QED BY <2>1, <2>2, <2>3, <2>4 DEF p, b
<1>3. KernelPagesCount = KernelPages * PageSize
  BY DEF KernelPagesCount, KernelPages
<1>4. CASE pc = "image"
  BY <1>1, <1>4 DEF Loops, First, Source, Count
<1>5. CASE pc = "kernel"
  BY <1>1, <1>2, <1>3, <1>5 DEF Loops, First, Source, Count
<1>6. CASE pc = "stack"
  BY <1>1, <1>2, <1>6 DEF Loops, First, Source, Count, StackAt
<1>7. CASE pc = "framemap"
  <2>1. CurrentPage \div PageSize = KernelPages
    BY <1>1, <1>7, WholePages DEF PlacesInv
  <2> QED BY <1>1, <1>7, <2>1 DEF Loops, First, Source, Count, FrameMapPages
<1>8. CASE pc = "framebuffer"
  <2>1. CurrentPage \div PageSize = BufferAt
    BY <1>1, <1>8, WholePages DEF PlacesInv
  <2> QED BY <1>1, <1>8, <2>1 DEF Loops, First, Source, Count
<1> QED BY <1>4, <1>5, <1>6, <1>7, <1>8 DEF LoopNames

\* The layout depends on two numbers only.
LEMMA Steady ==
  ASSUME UNCHANGED <<FileSize, MaxAddress>>
  PROVE  /\ KernelPages' = KernelPages /\ SizeOfFrameMap' = SizeOfFrameMap
         /\ BufferAt' = BufferAt /\ RegionAt' = RegionAt
         /\ First' = First /\ Count' = Count
<1>1. KernelPages' = KernelPages /\ SizeOfFrameMap' = SizeOfFrameMap
  BY DEF KernelPages, SizeOfFrameMap, PagesFor
<1>2. FrameMapPages' = FrameMapPages
  BY <1>1 DEF FrameMapPages, PagesFor
<1>3. BufferAt' = BufferAt
  BY <1>1, <1>2 DEF BufferAt
<1>4. RegionAt' = RegionAt
  BY <1>3 DEF RegionAt, NextWindow
<1> QED BY <1>1, <1>2, <1>3, <1>4 DEF First, Count, StackAt

\* The temp region is placed where the layout says.
LEMMA RegionIsThere ==
  ASSUME TypeInv
  PROVE  /\ NextWindow(BufferAt * PageSize + FrameBufferSize) = RegionAt * PageSize
         /\ (RegionAt * PageSize) \div PageSize = RegionAt
<1> DEFINE r == NextWindow(BufferAt * PageSize + FrameBufferSize)
           b == PageSize
<1>1. r \in Nat /\ r % PageSize = 0 /\ RegionAt \in Nat
  BY LayoutFits, WindowBehind
<1>2. RegionAt = r \div PageSize
  BY DEF RegionAt
<1>3. b \in Nat \ {0}
  BY SizesAssumption
<1> HIDE DEF r, b
<1>4. r = b * (r \div b) + (r % b)
  BY <1>1, <1>3, Division, Zenon
<1>5. r = b * RegionAt
  BY <1>1, <1>2, <1>3, <1>4 DEF b
<1>6. r = RegionAt * PageSize
  BY <1>1, <1>3, <1>5 DEF b
<1> QED BY <1>1, <1>6, WholePages DEF r

LEMMA InitLayout == Init => ControlInv /\ PlacesInv
BY DEF Init, AS!Init, ControlInv, PlacesInv, Before, LoopNames, After, Final

\* CurrentPage advances from part to part as the layout does.
LEMMA NextPlacesInv == TypeInv /\ ScanInv /\ PlacesInv /\ [Next]_vars => PlacesInv'
<1> SUFFICES ASSUME TypeInv, ScanInv, PlacesInv, [Next]_vars PROVE PlacesInv'
  OBVIOUS
<1> USE DEF PlacesInv, After, Before, Final, layout, memmap
<1>1. CASE GetKernelInfo \/ Scan
  <2>1. CASE GetKernelInfo
    BY <2>1 DEF GetKernelInfo
  <2>2. CASE Scan
    <3>1. KernelPages' = KernelPages
      BY <2>2 DEF Scan, KernelPages, PagesFor
    <3> QED BY <2>2, <3>1 DEF Scan
  <2> QED BY <1>1, <2>1, <2>2
<1>2. CASE ~(GetKernelInfo \/ Scan)
  <2>1. UNCHANGED <<FileSize, MaxAddress>>
    BY <1>2 DEF Next, Stub, OpenKernel, AllocateKernel, ReadKernel, LocateGop,
       InitPageMap, CallMMap, MMapReturns, EndImage, EndKernel, EndStack,
       AllocateFrameMap, EndFrameMap, EndFrameBuffer, GetFinalMemoryMap,
       ExitBootServices, Jump, FirmwareEvent, vars
  <2>2. /\ KernelPages' = KernelPages /\ SizeOfFrameMap' = SizeOfFrameMap
        /\ BufferAt' = BufferAt /\ RegionAt' = RegionAt
    BY <2>1, Steady
  <2>3. CASE OpenKernel \/ AllocateKernel \/ ReadKernel \/ LocateGop \/ InitPageMap
    BY <2>3 DEF AfterWriting, OpenKernel, AllocateKernel, ReadKernel, LocateGop, InitPageMap
  <2>4. CASE CallMMap \/ MMapReturns \/ FirmwareEvent \/ UNCHANGED vars
    BY <2>2, <2>4 DEF CallMMap, MMapReturns, FirmwareEvent, vars
  <2>5. CASE EndImage
    BY <2>5 DEF EndImage, EndLoop
  <2>6. CASE EndKernel
    <3>1. KernelPagesCount = KernelPages * PageSize
      BY DEF KernelPagesCount, KernelPages
    <3>2. KernelPagesCount \in Nat
      BY SizesAreNat
    <3>3. CurrentPage' = KernelPages * PageSize
      BY <2>6, <3>1, <3>2 DEF EndKernel, EndLoop, BehindKernel
    <3> QED BY <2>2, <2>6, <3>3 DEF EndKernel
  <2>7. CASE EndStack
    BY <2>2, <2>7 DEF EndStack, EndLoop
  <2>8. CASE AllocateFrameMap
    BY <2>2, <2>8 DEF AllocateFrameMap
  <2>9. CASE EndFrameMap
    <3>1. CurrentPage = KernelPages * PageSize /\ pc' = "framebuffer"
      BY <2>9 DEF EndFrameMap, EndLoop
    <3>2. CurrentPage' = CurrentPage + FrameMapPages * Stride * PageSize
      BY <2>9 DEF EndFrameMap, FrameMapPages
    <3>3. CurrentPage' = BufferAt * PageSize
      <4> DEFINE b == PageSize
                 k == KernelPages
                 f == FrameMapPages
      <4>1. b \in Nat /\ k \in Nat /\ f \in Nat /\ Stride \in Nat
        BY LayoutFits, SizesAssumption
      <4>2. BufferAt = k + f * Stride
        BY DEF BufferAt
      <4> HIDE DEF b, k, f
      <4>3. k * b + f * Stride * b = (k + f * Stride) * b
        BY <4>1
      <4> QED BY <3>1, <3>2, <4>2, <4>3 DEF b, k, f
    <3>4. /\ KernelArgs'.FrameMap = CurrentPage
          /\ KernelArgs'.FrameMapSize = SizeOfFrameMap
      BY <2>9 DEF EndFrameMap, Saved
    <3> QED BY <2>2, <3>1, <3>3, <3>4
  <2>10. CASE EndFrameBuffer
    <3>1. CurrentPage = BufferAt * PageSize /\ pc = "framebuffer" /\ pc' = "temp"
      BY <2>10 DEF EndFrameBuffer, EndLoop
    <3>2. KernelArgs' = [FrameMap |-> KernelArgs.FrameMap,
                         FrameMapSize |-> KernelArgs.FrameMapSize,
                         framebuffer |-> CurrentPage,
                         TempMappingRegion |-> NextWindow(CurrentPage + FrameBufferSize)]
      BY <2>10 DEF EndFrameBuffer
    <3>3. NextWindow(CurrentPage + FrameBufferSize) = RegionAt * PageSize
      BY <3>1, RegionIsThere
    <3> QED BY <2>2, <3>1, <3>2, <3>3
  <2>11. CASE GetFinalMemoryMap \/ ExitBootServices \/ Jump
    BY <2>2, <2>11 DEF GetFinalMemoryMap, ExitBootServices, Jump
  <2> QED BY <1>2, <2>3, <2>4, <2>5, <2>6, <2>7, <2>8, <2>9, <2>10, <2>11
          DEF Next, Stub
<1> QED BY <1>1, <1>2

\* A loop starts at its first page.
LEMMA LoopStarts ==
  TypeInv /\ pc \in LoopNames /\ i = 0 =>
    i % PageSize = 0 /\ Progress(pc) = 0 /\ 0 <= Count[pc]
<1> SUFFICES ASSUME TypeInv, pc \in LoopNames, i = 0
             PROVE  i % PageSize = 0 /\ Progress(pc) = 0 /\ 0 <= Count[pc]
  OBVIOUS
<1>1. 0 * PageSize = 0 /\ 0 \in Nat
  BY SizesAssumption
<1>2. 0 % PageSize = 0 /\ 0 \div PageSize = 0
  BY <1>1, WholePages
<1>3. Count[pc] \in Nat
  BY LoopsApart
<1> QED BY <1>2, <1>3 DEF Progress

\* The offset i of a loop counts whole pages, up to the loop's size.
LEMMA LoopProgress ==
  ASSUME TypeInv, PlacesInv, ControlInv, pc \in LoopNames
  PROVE  /\ Progress(pc) \in Nat /\ Progress(pc) = i \div PageSize
         /\ i < Loops[pc].size <=> Progress(pc) < Count[pc]
         /\ (i + PageSize) \div PageSize = Progress(pc) + 1
         /\ (i + PageSize) % PageSize = 0
<1>1. i % PageSize = 0 /\ i \in Nat
  BY DEF ControlInv, TypeInv, TypeOK
<1>2. Loops[pc].size \in Nat /\ PagesFor(Loops[pc].size) = Count[pc]
  BY LoopRows
<1>3. Progress(pc) = i \div PageSize
  BY DEF Progress
<1> DEFINE size == Loops[pc].size
<1> HIDE DEF size
<1>4. /\ i \div PageSize \in Nat
      /\ i < size <=> i \div PageSize < PagesFor(size)
      /\ (i + PageSize) \div PageSize = (i \div PageSize) + 1
      /\ (i + PageSize) % PageSize = 0
  BY <1>1, <1>2, LoopCounts DEF size
<1> QED BY <1>2, <1>3, <1>4 DEF size

\* A loop ends when all of its pages have been mapped.
LEMMA LoopEnds ==
  ASSUME TypeInv, PlacesInv, ControlInv, NEW l \in LoopNames, EndLoop(l)
  PROVE  pc = l /\ Progress(l) = Count[l] /\ status # "busy" /\ i' = 0
<1>1. pc = l /\ status # "busy" /\ i' = 0 /\ i >= Loops[pc].size
  BY DEF EndLoop
<1>2. /\ Progress(pc) \in Nat /\ Count[pc] \in Nat /\ Progress(pc) <= Count[pc]
      /\ i \in Nat /\ Loops[pc].size \in Nat
      /\ i < Loops[pc].size <=> Progress(pc) < Count[pc]
  BY <1>1, LoopProgress, LoopsApart, LoopRows DEF ControlInv, TypeInv, TypeOK
<1>3. ~(i < Loops[pc].size)
  BY <1>1, <1>2
<1> QED BY <1>1, <1>2, <1>3

\* One step per part of efi_main.
LEMMA NextControlInv ==
  TypeInv /\ TypeInv' /\ ScanInv /\ PlacesInv /\ ControlInv /\ [Next]_vars => ControlInv'
<1> SUFFICES ASSUME TypeInv, TypeInv', ScanInv, PlacesInv, ControlInv, [Next]_vars
             PROVE  ControlInv'
  OBVIOUS
<1> USE DEF LoopNames, Before, asVars
<1>0. ASSUME pc' \in LoopNames, i' = 0, status' # "busy" PROVE ControlInv'
  <2>1. (TypeInv /\ pc \in LoopNames /\ i = 0 =>
           i % PageSize = 0 /\ Progress(pc) = 0 /\ 0 <= Count[pc])'
    BY LoopStarts, PTL
  <2>2. i' % PageSize = 0 /\ Progress(pc)' = 0 /\ 0 <= Count'[pc']
    BY <1>0, <2>1
  <2> QED BY <1>0, <2>2 DEF ControlInv
<1>1. CASE OpenKernel \/ GetKernelInfo \/ AllocateKernel \/ ReadKernel \/ LocateGop
  BY <1>1 DEF OpenKernel, GetKernelInfo, AllocateKernel, ReadKernel, LocateGop,
     AfterWriting, ControlInv
<1>2. CASE InitPageMap
  <2>1. pc' \in {"wild", "image"} /\ i' = i /\ i = 0 /\ status' # "busy"
    BY <1>2 DEF AfterWriting, InitPageMap, ControlInv
  <2>2. CASE pc' = "wild"
    BY <2>1, <2>2 DEF ControlInv
  <2> QED BY <1>0, <2>1, <2>2
<1>3. CASE CallMMap
  <2>1. pc \in LoopNames /\ pc' = pc /\ i' = i /\ i < Loops[pc].size
    BY <1>3 DEF CallMMap, Loops
  <2>2. /\ arg'.virt = Loops[pc].virt + (i \div PageSize)
        /\ arg'.phys = Loops[pc].phys + (i \div PageSize)
    BY <1>3 DEF CallMMap, AS!Request
  <2>3. Loops[pc].virt = First[pc] /\ Loops[pc].phys = Source[pc]
    BY <2>1, LoopRows
  <2>4. Progress(pc) = i \div PageSize /\ Progress(pc) < Count[pc]
    BY <2>1, LoopProgress
  <2>5. First' = First /\ Count' = Count /\ Source' = Source /\ Progress(pc)' = Progress(pc)
    <3>1. UNCHANGED <<FileSize, MaxAddress, base>>
      BY <1>3 DEF CallMMap, layout, memmap, ram
    <3> QED BY <2>1, <3>1, Steady DEF Source, Progress
  <2>6. i % PageSize = 0 /\ Progress(pc) <= Count[pc]
    BY <2>1 DEF ControlInv
  <2> QED BY <2>1, <2>2, <2>3, <2>4, <2>5, <2>6 DEF ControlInv
<1>4. CASE MMapReturns
  <2>1. status = "busy" /\ status' # "busy" /\ pc' = pc /\ i' = i + PageSize
    BY <1>4 DEF MMapReturns, AS!Succeed, AS!Fail, NextOffset
  <2>2. pc \in LoopNames \cup {"temp"}
    BY <2>1 DEF ControlInv
  <2>3. CASE pc \in LoopNames
    <3>1. Count' = Count
      BY <1>4, Steady DEF MMapReturns, layout, memmap
    <3>2. Progress(pc) < Count[pc] /\ Progress(pc) \in Nat /\ Count[pc] \in Nat
      BY <2>1, <2>3, LoopProgress, LoopsApart DEF ControlInv
    <3>3. (i + PageSize) \div PageSize = Progress(pc) + 1 /\ (i + PageSize) % PageSize = 0
      BY <2>3, LoopProgress
    <3>4. Progress(pc)' = Progress(pc) + 1
      BY <2>1, <3>3 DEF Progress
    <3> QED BY <2>1, <2>3, <3>1, <3>2, <3>3, <3>4 DEF ControlInv
  <2> QED BY <2>1, <2>2, <2>3 DEF ControlInv
<1>5. CASE EndImage \/ EndKernel
  BY <1>0, <1>5 DEF EndImage, EndKernel, EndLoop
<1>6. CASE EndStack \/ Scan
  BY <1>6 DEF EndStack, EndLoop, Scan, ControlInv, ScanInv
<1>7. CASE AllocateFrameMap
  BY <1>0, <1>7 DEF AllocateFrameMap, ScanInv
<1>8. CASE EndFrameMap
  BY <1>0, <1>8 DEF EndFrameMap, EndLoop
<1>9. CASE EndFrameBuffer
  <2>1. /\ pc = "framebuffer" /\ pc' = "temp" /\ UNCHANGED <<FileSize, MaxAddress>>
    BY <1>9 DEF EndFrameBuffer, EndLoop, memmap
  <2>2. /\ arg'.virt = HigherHalf + (NextWindow(CurrentPage + FrameBufferSize) \div PageSize)
        /\ arg'.phys = Self
    BY <1>9 DEF EndFrameBuffer, AS!Request
  <2>3. arg'.virt = HigherHalf + RegionAt
    BY <2>1, <2>2, RegionIsThere DEF PlacesInv
  <2> QED BY <2>1, <2>2, <2>3, Steady DEF ControlInv
<1>10. CASE GetFinalMemoryMap \/ ExitBootServices \/ Jump
  <2>1. status' # "busy"
    BY <1>10 DEF GetFinalMemoryMap, ExitBootServices, Jump, ControlInv
  <2>2. pc' \in {"exit", "jump", "running", "fault"}
    BY <1>10 DEF GetFinalMemoryMap, ExitBootServices, Jump
  <2> QED BY <2>1, <2>2 DEF ControlInv
<1>11. CASE FirmwareEvent \/ UNCHANGED vars
  <2>1. UNCHANGED <<pc, i, status, arg, FileSize, MaxAddress, base>>
    BY <1>11 DEF FirmwareEvent, vars, layout, memmap, ram
  <2>2. /\ First' = First /\ Count' = Count /\ Source' = Source /\ RegionAt' = RegionAt
        /\ Progress(pc)' = Progress(pc)
    BY <2>1, Steady DEF Source, Progress
  <2> QED BY <2>1, <2>2 DEF ControlInv
<1> QED BY <1>1, <1>2, <1>3, <1>4, <1>5, <1>6, <1>7, <1>8, <1>9, <1>10, <1>11
        DEF Next, Stub

\* No loop runs past its end.
LEMMA ProgressBound ==
  ASSUME TypeInv, PlacesInv, ControlInv, NEW l \in LoopNames
  PROVE  Progress(l) \in 0 .. Count[l]
<1>1. Count[l] \in Nat
  BY LoopsApart
<1>2. CASE pc = l
  BY <1>1, <1>2, LoopProgress DEF ControlInv
<1>3. CASE pc # l
  BY <1>1, <1>3 DEF Progress
<1> QED BY <1>2, <1>3

\* The page of the call in progress is not mapped yet.
LEMMA FreshPage ==
  ASSUME TypeInv, PlacesInv, ControlInv, OccupiedInv, status = "busy"
  PROVE  arg.virt \in Virt /\ space[arg.virt] = {}
<1>1. \A l \in LoopNames : First[l] \in Nat /\ Count[l] \in Nat /\ Progress(l) \in 0 .. Count[l]
  BY LoopsApart, ProgressBound
<1>2. ~RegionMade /\ pc \notin Lost /\ pc \in LoopNames \cup {"temp"}
  BY DEF RegionMade, Final, Lost, LoopNames, ControlInv
<1>3. \A v \in Virt : space[v] # {} =>
        \E l \in LoopNames : v \in First[l] .. (First[l] + Progress(l) - 1)
  BY <1>2 DEF OccupiedInv
<1>4. CASE pc \in LoopNames
  <2>1. arg.virt = First[pc] + Progress(pc) /\ Progress(pc) < Count[pc]
    BY <1>4 DEF ControlInv
  <2>2. First[pc] + Count[pc] <= TopPage /\ TopPage \in Nat
    BY <1>4, LoopsApart, SizesAssumption
  <2>3. arg.virt \in Virt
    BY <1>1, <1>4, <2>1, <2>2 DEF Virt
  <2>4. ASSUME NEW l \in LoopNames, arg.virt \in First[l] .. (First[l] + Progress(l) - 1)
        PROVE  FALSE
    <3>1. CASE l = pc
      BY <1>1, <1>4, <2>1, <2>4, <3>1
    <3>2. CASE l # pc
      <4>1. First[l] + Count[l] <= First[pc] \/ First[pc] + Count[pc] <= First[l]
        BY <1>4, <3>2, LoopsApart
      <4> QED BY <1>1, <1>4, <2>1, <2>4, <4>1
    <3> QED BY <3>1, <3>2
  <2> QED BY <1>3, <2>3, <2>4
<1>5. CASE pc = "temp"
  <2>1. arg.virt = HigherHalf + RegionAt
    BY <1>5 DEF ControlInv
  <2>2. HigherHalf + RegionAt \in Nat /\ Fan \in Nat \ {0}
    BY LayoutFits, SizesAssumption
  <2>3. arg.virt \in Virt
    BY <2>1, <2>2, LoopsApart
  <2>4. ASSUME NEW l \in LoopNames, arg.virt \in First[l] .. (First[l] + Progress(l) - 1)
        PROVE  FALSE
    <3>1. \/ First[l] + Count[l] <= HigherHalf + RegionAt
          \/ HigherHalf + RegionAt + Fan <= First[l]
      BY LoopsApart
    <3> QED BY <1>1, <2>1, <2>2, <2>4, <3>1
  <2> QED BY <1>3, <2>3, <2>4
<1> QED BY <1>2, <1>4, <1>5

\* What is mapped stays accounted for in a step that maps nothing.
LEMMA KeepsSpace ==
  ASSUME OccupiedInv, ShownInv, space' = space, pc \notin Lost,
         failures' = 0 => failures = 0,
         \A l \in LoopNames :
           /\ Progress(l)' = Progress(l) /\ Progress(l) \in Nat /\ First[l] \in Nat
           /\ Progress(l) # 0 => First'[l] = First[l] /\ Source'[l] = Source[l],
         RegionMade' <=> RegionMade,
         RegionMade => RegionAt' = RegionAt
  PROVE  OccupiedInv' /\ ShownInv'
<1>1. \A l \in LoopNames, v \in Virt :
        v \in First[l] .. (First[l] + Progress(l) - 1) =>
          v \in First'[l] .. (First'[l] + Progress(l)' - 1)
  OBVIOUS
<1>2. OccupiedInv'
  BY <1>1 DEF OccupiedInv
<1>3. ASSUME pc' \notin Lost, failures' = 0 PROVE
        /\ \A l \in LoopNames : \A k \in 0 .. (Progress(l)' - 1) :
             \E m \in space[First'[l] + k] : m.frame = Source'[l] + k
        /\ RegionMade' => \E m \in space[HigherHalf + RegionAt'] : m.frame = PTPage
  <2>1. /\ \A l \in LoopNames : \A k \in 0 .. (Progress(l) - 1) :
             \E m \in space[First[l] + k] : m.frame = Source[l] + k
        /\ RegionMade => \E m \in space[HigherHalf + RegionAt] : m.frame = PTPage
    BY <1>3 DEF ShownInv
  <2>2. ASSUME NEW l \in LoopNames, NEW k \in 0 .. (Progress(l)' - 1)
        PROVE  \E m \in space[First'[l] + k] : m.frame = Source'[l] + k
    <3>1. k \in 0 .. (Progress(l) - 1) /\ First'[l] = First[l] /\ Source'[l] = Source[l]
      BY <2>2
    <3> QED BY <2>1, <3>1
  <2> QED BY <2>1, <2>2
<1>4. ShownInv'
  BY <1>3 DEF ShownInv
<1> QED BY <1>2, <1>4

\* A call that succeeds adds one page, the one its loop has come to.
LEMMA SuccessAdds ==
  ASSUME TypeInv, PlacesInv, ControlInv, OccupiedInv, ShownInv,
         MMapReturns, NEW m \in AS!Mapping, AS!Succeed(m), failures' = failures
  PROVE  OccupiedInv' /\ ShownInv'
<1>1. /\ status = "busy" /\ status' # "busy" /\ pc' = pc /\ i' = i + PageSize
      /\ space' = [space EXCEPT ![arg.virt] = {m}]
      /\ UNCHANGED <<FileSize, MaxAddress, base>>
  BY DEF MMapReturns, AS!Succeed, NextOffset, layout, memmap, ram
<1>2. First' = First /\ Count' = Count /\ Source' = Source /\ RegionAt' = RegionAt
  BY <1>1, Steady DEF Source
<1>3. pc \in LoopNames \cup {"temp"} /\ pc \notin Lost /\ ~RegionMade
  BY <1>1 DEF ControlInv, LoopNames, Lost, RegionMade, Final
<1>4. arg.virt \in Virt /\ space[arg.virt] = {} /\ space \in [Virt -> SUBSET AS!Mapping]
  BY <1>1, FreshPage DEF TypeInv, TypeOK
<1>5. \A l \in LoopNames : First[l] \in Nat /\ Progress(l) \in Nat
  BY LoopsApart, ProgressBound
<1>6. \A l \in LoopNames : l # pc => Progress(l)' = Progress(l)
  BY <1>1, <1>2 DEF Progress
<1>7. \A l \in LoopNames : l = pc => Progress(l)' = Progress(l) + 1
  BY <1>1, LoopProgress DEF Progress
<1>8. RegionMade' <=> pc = "temp"
  BY <1>1, <1>3 DEF RegionMade, LoopNames, Final
<1>9. \A v \in Virt : v # arg.virt => space'[v] = space[v]
  BY <1>1, <1>4
<1>10. space'[arg.virt] = {m}
  BY <1>1, <1>4
<1>11. \/ pc \in LoopNames /\ arg.virt = First[pc] + Progress(pc)
       \/ pc = "temp" /\ arg.virt = HigherHalf + RegionAt
  BY <1>1, <1>3 DEF ControlInv
<1>12. OccupiedInv'
  <2> SUFFICES ASSUME NEW v \in Virt, space'[v] # {}
               PROVE  \/ \E l \in LoopNames : v \in First[l] .. (First[l] + Progress(l)' - 1)
                      \/ pc = "temp" /\ v = HigherHalf + RegionAt
    BY <1>2, <1>8 DEF OccupiedInv
  <2>1. CASE v = arg.virt
    BY <1>5, <1>7, <1>11, <2>1
  <2>2. CASE v # arg.virt
    <3>1. PICK l \in LoopNames : v \in First[l] .. (First[l] + Progress(l) - 1)
      BY <1>3, <1>9, <2>2 DEF OccupiedInv
    <3>2. Progress(l)' = Progress(l) \/ Progress(l)' = Progress(l) + 1
      BY <1>6, <1>7
    <3>3. v \in First[l] .. (First[l] + Progress(l)' - 1)
      BY <1>5, <3>1, <3>2
    <3> QED BY <3>3
  <2> QED BY <2>1, <2>2
<1>13. ShownInv'
  <2> SUFFICES ASSUME failures' = 0
               PROVE  /\ \A l \in LoopNames : \A k \in 0 .. (Progress(l)' - 1) :
                           \E n \in space'[First[l] + k] : n.frame = Source[l] + k
                      /\ pc = "temp" => \E n \in space'[HigherHalf + RegionAt] :
                                          n.frame = PTPage
    BY <1>2, <1>8 DEF ShownInv
  <2>1. \A l \in LoopNames : \A k \in 0 .. (Progress(l) - 1) :
          \E n \in space[First[l] + k] : n.frame = Source[l] + k
    BY <1>3 DEF ShownInv
  <2>2. \A l \in LoopNames : \A k \in 0 .. (Progress(l) - 1) : First[l] + k \in Virt
    <3>1. \A l \in LoopNames : First[l] + Count[l] <= TopPage /\ Count[l] \in Nat
                               /\ Progress(l) <= Count[l]
      BY LoopsApart, ProgressBound
    <3>2. TopPage \in Nat
      BY SizesAssumption
    <3> QED BY <1>5, <3>1, <3>2 DEF Virt
  <2>3. \A l \in LoopNames : \A k \in 0 .. (Progress(l) - 1) :
          \E n \in space'[First[l] + k] : n.frame = Source[l] + k
    BY <1>4, <1>9, <2>1, <2>2
  <2>4. CASE pc = "temp"
    <3>1. m.frame = PTPage
      <4>1. arg.phys = Self /\ m.frame \in Data \cup {PTPage}
        BY <1>1, <2>4 DEF ControlInv, AS!Mapping
      <4> QED BY <4>1 DEF AS!Succeed, AS!Wanted
    <3>2. \A l \in LoopNames : Progress(l)' = Progress(l)
      BY <1>6, <2>4 DEF LoopNames
    <3> QED BY <1>10, <1>11, <2>3, <2>4, <3>1, <3>2 DEF LoopNames
  <2>5. CASE pc \in LoopNames
    <3>1. m.frame = Source[pc] + Progress(pc)
      <4>1. arg.phys = Source[pc] + Progress(pc) /\ Source[pc] \in Nat
        BY <1>1, <2>5, LoopsApart DEF ControlInv
      <4>2. arg.phys # Self
        BY <1>5, <2>5, <4>1, SizesAssumption
      <4> QED BY <4>1, <4>2 DEF AS!Succeed, AS!Wanted
    <3>2. ASSUME NEW l \in LoopNames, NEW k \in 0 .. (Progress(l)' - 1)
          PROVE  \E n \in space'[First[l] + k] : n.frame = Source[l] + k
      <4>1. CASE k \in 0 .. (Progress(l) - 1)
        BY <2>3, <4>1
      <4>2. CASE k \notin 0 .. (Progress(l) - 1)
        <5>1. l = pc /\ k = Progress(pc)
          BY <1>5, <1>6, <1>7, <2>5, <3>2, <4>2
        <5> QED BY <1>3, <1>10, <1>11, <2>5, <3>1, <5>1 DEF LoopNames
      <4> QED BY <4>1, <4>2
    <3>3. pc # "temp"
      BY <2>5 DEF LoopNames
    <3> QED BY <3>2, <3>3
  <2> QED BY <1>3, <2>4, <2>5
<1> QED BY <1>12, <1>13

LEMMA InitSpaceInv == Init => OccupiedInv /\ ShownInv
<1> SUFFICES ASSUME Init PROVE OccupiedInv /\ ShownInv
  OBVIOUS
<1>1. pc = "load" /\ \A v \in Virt : space[v] = {}
  BY DEF Init, AS!Init
<1>2. \A l \in LoopNames : Progress(l) = 0
  BY <1>1 DEF Progress, LoopNames, After, Final
<1>3. ~RegionMade
  BY <1>1 DEF RegionMade, Final
<1>4. OccupiedInv
  BY <1>1 DEF OccupiedInv
<1>5. ShownInv
  BY <1>2, <1>3 DEF ShownInv
<1> QED BY <1>4, <1>5

\* The steps of efi_main between the calls of MMap: a loop that starts has no
\* pages yet, and one that ends has all of them.
LEMMA NextSpaceInv ==
  TypeInv /\ ScanInv /\ PlacesInv /\ ControlInv /\ OccupiedInv /\ ShownInv /\ [Next]_vars
    => OccupiedInv' /\ ShownInv'
<1> SUFFICES ASSUME TypeInv, ScanInv, PlacesInv, ControlInv, OccupiedInv, ShownInv, [Next]_vars
             PROVE  OccupiedInv' /\ ShownInv'
  OBVIOUS
<1>0. /\ 0 \div PageSize = 0 /\ failures \in Nat
      /\ \A l \in LoopNames : Progress(l) \in Nat /\ First[l] \in Nat
  <2>1. 0 * PageSize = 0
    BY SizesAssumption
  <2>2. 0 \div PageSize = 0
    BY <2>1, WholePages
  <2> QED BY <2>2, LoopsApart, ProgressBound DEF TypeInv, TypeOK
<1>1. CASE pc' \in Lost
  BY <1>1 DEF OccupiedInv, ShownInv
<1>2. CASE /\ OpenKernel \/ GetKernelInfo \/ AllocateKernel \/ ReadKernel
              \/ LocateGop \/ InitPageMap
           /\ pc' \notin Lost
  <2>1. space' = space /\ pc \in Before /\ pc' \in Before \cup {"image"} /\ i' = i
    BY <1>2 DEF AfterWriting, OpenKernel, GetKernelInfo, AllocateKernel, ReadKernel, LocateGop,
       InitPageMap, AfterWriting, Before, Lost, asVars
  <2>2. i = 0 /\ pc \notin Lost
    BY <2>1 DEF ControlInv, Before, Lost
  <2>3. \A l \in LoopNames : Progress(l) = 0 /\ Progress(l)' = 0
    BY <1>0, <2>1, <2>2 DEF Progress, LoopNames, After, Final, Before
  <2>4. ~RegionMade /\ ~RegionMade'
    BY <2>1 DEF RegionMade, Final, Before
  <2>5. OccupiedInv'
    <3>1. \A v \in Virt : space[v] = {}
      BY <1>0, <2>2, <2>3, <2>4 DEF OccupiedInv
    <3> QED BY <2>1, <3>1 DEF OccupiedInv
  <2>6. ShownInv'
    BY <2>3, <2>4 DEF ShownInv
  <2> QED BY <2>5, <2>6
<1>3. CASE CallMMap \/ FirmwareEvent \/ UNCHANGED vars
  <2>1. UNCHANGED <<pc, i, space, FileSize, MaxAddress, base, failures>>
    BY <1>3 DEF CallMMap, AS!Request, FirmwareEvent, vars, layout, memmap, ram, asVars
  <2>2. First' = First /\ Count' = Count /\ Source' = Source /\ RegionAt' = RegionAt
    BY <2>1, Steady DEF Source
  <2>3. \A l \in LoopNames : Progress(l)' = Progress(l)
    BY <2>1, <2>2 DEF Progress
  <2>4. RegionMade' <=> RegionMade
    <3>1. CASE CallMMap
      BY <3>1, <2>1 DEF CallMMap, Loops, RegionMade, Final
    <3>2. CASE FirmwareEvent \/ UNCHANGED vars
      BY <3>2 DEF FirmwareEvent, vars, asVars, RegionMade
    <3> QED BY <1>3, <3>1, <3>2
  <2>5. CASE pc \in Lost
    BY <2>1, <2>5 DEF OccupiedInv, ShownInv
  <2> QED BY <1>0, <2>1, <2>2, <2>3, <2>4, <2>5, KeepsSpace
<1>4. CASE MMapReturns
  <2>1. CASE failures' = failures
    <3>1. PICK m \in AS!Mapping : AS!Succeed(m)
      BY <1>0, <1>4, <2>1 DEF MMapReturns, OneMoreFailure
    <3> QED BY <1>4, <2>1, <3>1, SuccessAdds
  <2>2. CASE failures' # failures
    <3>1. /\ failures' = failures + 1 /\ space' = space /\ status = "busy"
          /\ pc' = pc /\ i' = i + PageSize /\ UNCHANGED <<FileSize, MaxAddress>>
      BY <1>4, <2>2 DEF MMapReturns, OneMoreFailure, AS!Fail, NextOffset, layout, memmap
    <3>2. First' = First /\ Count' = Count /\ RegionAt' = RegionAt
      BY <3>1, Steady
    <3>3. ShownInv'
      BY <1>0, <3>1 DEF ShownInv
    <3>4. \A l \in LoopNames : Progress(l)' = Progress(l) \/ Progress(l)' = Progress(l) + 1
      BY <3>1, <3>2, LoopProgress DEF Progress
    <3>5. ~RegionMade /\ pc \notin Lost
      BY <3>1 DEF ControlInv, RegionMade, LoopNames, Final, Lost
    <3>6. \A l \in LoopNames, v \in Virt :
            v \in First[l] .. (First[l] + Progress(l) - 1) =>
              v \in First[l] .. (First[l] + Progress(l)' - 1)
      BY <1>0, <3>4
    <3>7. OccupiedInv'
      BY <3>1, <3>2, <3>5, <3>6 DEF OccupiedInv
    <3> QED BY <3>3, <3>7
  <2> QED BY <2>1, <2>2
<1>5. CASE EndImage \/ EndKernel
  <2>1. PICK l \in {"image", "kernel"} : EndLoop(l)
    BY <1>5 DEF EndImage, EndKernel
  <2>2. pc = l /\ Progress(l) = Count[l] /\ i' = 0
    BY <2>1, LoopEnds DEF LoopNames
  <2>3. /\ space' = space /\ UNCHANGED <<FileSize, MaxAddress>>
        /\ pc' = (IF l = "image" THEN "kernel" ELSE "stack")
        /\ failures' = 0 => failures = 0
    BY <1>0, <1>5, <2>2 DEF EndImage, EndKernel, EndLoop, AllocatePages, asVars, layout, memmap
  <2>4. First' = First /\ Count' = Count
    BY <2>3, Steady
  <2>5. Source'["image"] = Source["image"] /\ Source'["kernel"] = Source["kernel"]
    <3>1. base'.kernel = base.kernel
      BY <1>5 DEF EndImage, EndKernel, AllocatePages, ram, TypeInv, TypeOK
    <3> QED BY <3>1 DEF Source
  <2>6. \A k \in LoopNames : Progress(k)' = Progress(k)
    BY <1>0, <2>2, <2>3, <2>4 DEF Progress, LoopNames, After, Final
  <2>7. \A k \in LoopNames \ {"image", "kernel"} : Progress(k) = 0
    BY <2>2 DEF Progress, LoopNames, After, Final
  <2>8. ~RegionMade /\ ~RegionMade' /\ pc \notin Lost
    BY <2>2, <2>3 DEF RegionMade, Final, Lost
  <2>9. \A k \in LoopNames : Progress(k) # 0 => First'[k] = First[k] /\ Source'[k] = Source[k]
    BY <2>4, <2>5, <2>7
  <2> QED BY <1>0, <2>3, <2>6, <2>8, <2>9, KeepsSpace
<1>6. CASE EndStack /\ pc' \notin Lost
  <2>1. EndLoop("stack")
    BY <1>6 DEF EndStack
  <2>2. pc = "stack" /\ Progress("stack") = Count["stack"]
    BY <2>1, LoopEnds DEF LoopNames
  <2>3. /\ space' = space /\ UNCHANGED <<FileSize, MaxAddress, base>> /\ pc' = "scan"
        /\ failures' = 0 => failures = 0
    BY <1>0, <1>6 DEF EndStack, OneMoreFailure, asVars, layout, memmap, ram, Lost
  <2>4. First' = First /\ Count' = Count /\ Source' = Source
    BY <2>3, Steady DEF Source
  <2>5. \A k \in LoopNames : Progress(k)' = Progress(k)
    BY <1>0, <2>2, <2>3, <2>4 DEF Progress, LoopNames, After, Final
  <2>6. ~RegionMade /\ ~RegionMade' /\ pc \notin Lost
    BY <2>2, <2>3 DEF RegionMade, Final, Lost
  <2> QED BY <1>0, <2>3, <2>4, <2>5, <2>6, KeepsSpace
<1>7. CASE Scan \/ AllocateFrameMap
  <2>1. /\ pc = "scan" /\ space' = space /\ FileSize' = FileSize
        /\ pc' = "scan" \/ (pc' = "framemap" /\ i' = 0)
        /\ failures' = 0 => failures = 0
    BY <1>0, <1>7 DEF Scan, AllocateFrameMap, AllocatePages, asVars, layout
  <2>2. \A k \in {"image", "kernel", "stack"} :
          First'[k] = First[k] /\ Count'[k] = Count[k] /\ Source'[k] = Source[k]
    <3>1. base'.kernel = base.kernel /\ base'.stack = base.stack
      BY <1>7 DEF Scan, AllocateFrameMap, AllocatePages, ram, TypeInv, TypeOK
    <3>2. KernelPages' = KernelPages
      BY <2>1 DEF KernelPages, PagesFor
    <3> QED BY <3>1, <3>2 DEF First, Count, Source, StackAt
  <2>3. \A k \in LoopNames : Progress(k)' = Progress(k)
    BY <1>0, <2>1, <2>2 DEF Progress, LoopNames, After, Final
  <2>4. \A k \in LoopNames \ {"image", "kernel", "stack"} : Progress(k) = 0
    BY <2>1 DEF Progress, LoopNames, After, Final
  <2>5. ~RegionMade /\ ~RegionMade' /\ pc \notin Lost
    BY <2>1 DEF RegionMade, Final, Lost
  <2>6. \A k \in LoopNames : Progress(k) # 0 => First'[k] = First[k] /\ Source'[k] = Source[k]
    BY <2>2, <2>4
  <2> QED BY <1>0, <2>1, <2>3, <2>5, <2>6, KeepsSpace
<1>8. CASE EndFrameMap \/ EndFrameBuffer
  <2>1. PICK l \in {"framemap", "framebuffer"} : EndLoop(l)
    BY <1>8 DEF EndFrameMap, EndFrameBuffer
  <2>2. pc = l /\ Progress(l) = Count[l] /\ i' = 0
    BY <2>1, LoopEnds DEF LoopNames
  <2>3. /\ space' = space /\ UNCHANGED <<FileSize, MaxAddress, base, failures>>
        /\ \/ l = "framemap" /\ pc' = "framebuffer"
           \/ l = "framebuffer" /\ pc' = "temp" /\ status' = "busy"
    BY <1>8, <2>2 DEF EndFrameMap, EndFrameBuffer, EndLoop, AS!Request, asVars, memmap, ram
  <2>4. First' = First /\ Count' = Count /\ Source' = Source
    BY <2>3, Steady DEF Source
  <2>5. \A k \in LoopNames : Progress(k)' = Progress(k)
    BY <1>0, <2>2, <2>3, <2>4 DEF Progress, LoopNames, After, Final
  <2>6. ~RegionMade /\ ~RegionMade' /\ pc \notin Lost
    BY <2>2, <2>3 DEF RegionMade, Final, Lost
  <2> QED BY <1>0, <2>3, <2>4, <2>5, <2>6, KeepsSpace
<1>9. CASE GetFinalMemoryMap \/ ExitBootServices \/ Jump
  <2>1. UNCHANGED <<space, status, FileSize, MaxAddress, base>>
    BY <1>9 DEF GetFinalMemoryMap, ExitBootServices, Jump, asVars, layout, memmap, ram
  <2>2. /\ pc \in {"temp", "exit", "jump"} /\ pc' \in Final
        /\ status # "busy"
        /\ failures' = 0 => failures = 0
    BY <1>0, <1>9 DEF GetFinalMemoryMap, ExitBootServices, Jump, OneMoreFailure, Final,
       ControlInv, LoopNames
  <2>3. First' = First /\ Count' = Count /\ Source' = Source /\ RegionAt' = RegionAt
    BY <2>1, Steady DEF Source
  <2>4. \A k \in LoopNames : Progress(k)' = Progress(k)
    BY <2>2, <2>3 DEF Progress, LoopNames, After, Final
  <2>5. RegionMade /\ RegionMade' /\ pc \notin Lost
    BY <2>2 DEF RegionMade, Final, Lost, ControlInv, LoopNames
  <2> QED BY <1>0, <2>1, <2>2, <2>3, <2>4, <2>5, KeepsSpace
<1> QED BY <1>1, <1>2, <1>3, <1>4, <1>5, <1>6, <1>7, <1>8, <1>9 DEF Next, Stub

-----------------------------------------------------------------------------
(* The map's key, and the kernel's file *)

\* Between the second GetMemoryMap and the switch the stub allocates nothing.
LEMMA NextKeyInv == TypeInv /\ ControlInv /\ KeyInv /\ [Next]_vars => KeyInv'
<1> SUFFICES ASSUME TypeInv, ControlInv, KeyInv, [Next]_vars PROVE KeyInv'
  OBVIOUS
<1> USE DEF KeyInv, Final
<1>1. exited \in BOOLEAN /\ failures \in Nat
  BY DEF TypeInv, TypeOK
<1>2. CASE OpenKernel \/ GetKernelInfo \/ AllocateKernel \/ ReadKernel \/ LocateGop
           \/ InitPageMap \/ EndImage \/ EndKernel \/ EndStack \/ Scan \/ AllocateFrameMap
           \/ EndFrameMap \/ EndFrameBuffer
  <2>1. pc' \notin Final
    BY <1>2 DEF AfterWriting, OpenKernel, GetKernelInfo, AllocateKernel, ReadKernel, LocateGop,
       InitPageMap, EndImage, EndKernel, EndStack, Scan, AllocateFrameMap,
       EndFrameMap, EndFrameBuffer
  <2> QED BY <2>1
<1>3. CASE MMapReturns \/ CallMMap
  <2>1. pc' \notin Final
    BY <1>3 DEF MMapReturns, AS!Succeed, AS!Fail, CallMMap, Loops, ControlInv, LoopNames
  <2> QED BY <2>1
<1>4. CASE GetFinalMemoryMap
  BY <1>4 DEF GetFinalMemoryMap, FinalKey
<1>5. CASE ExitBootServices
  <2>1. pc = "exit" /\ pc' = "jump" /\ key' = key
    BY <1>5 DEF ExitBootServices
  <2>2. exited' <=> key = "fresh"
    BY <1>5, Zenon DEF ExitBootServices
  <2> QED BY <2>1, <2>2
<1>6. CASE Jump
  BY <1>6 DEF Jump
<1>7. CASE FirmwareEvent
  BY <1>7 DEF FirmwareEvent
<1>8. CASE UNCHANGED vars
  BY <1>8 DEF vars
<1> QED BY <1>2, <1>3, <1>4, <1>5, <1>6, <1>7, <1>8 DEF Next, Stub

LEMMA InitMoreInv == Init => KeyInv /\ LoadedInv
BY DEF Init, KeyInv, LoadedInv, Final, Lost, LoopNames, After

\* AllocatePages without a failure: n pages that were free no longer are.
LEMMA AllocateTakes ==
  ASSUME TypeInv, NEW r \in Regions, NEW n \in Nat, NEW stale \in SUBSET Anywhere,
         AllocatePages(r, n, stale), failures' = 0
  PROVE  /\ failures = 0 /\ n > 0 /\ free' \subseteq free
         /\ base'[r] .. (base'[r] + n - 1) \subseteq free \ free'
         /\ \A q \in Regions \ {r} : base'[q] = base[q]
<1>1. failures \in Nat /\ base \in [Regions -> Anywhere]
  BY DEF TypeInv, TypeOK, Regions
<1>2. PICK p \in Places(n) :
        /\ free' = free \ (p .. (p + n - 1))
        /\ base' = [base EXCEPT ![r] = p]
        /\ UNCHANGED failures
  BY <1>1 DEF AllocatePages
<1>3. n > 0 /\ p .. (p + n - 1) \subseteq free
  BY <1>2 DEF Places
<1>4. base'[r] = p /\ \A q \in Regions \ {r} : base'[q] = base[q]
  BY <1>1, <1>2
<1> QED BY <1>2, <1>3, <1>4

\* Read fills no more pages than FileSize asks for, and all of a file's.
LEMMA ReadFits ==
  ASSUME TypeInv
  PROVE  /\ BytesRead \in Nat /\ PagesFor(BytesRead) \in Nat
         /\ PagesFor(BytesRead) <= PagesFor(FileSize)
         /\ FileSize = KernelFileSize => BytesRead = KernelFileSize
<1>1. FileSize \in Nat /\ KernelFileSize \in Nat
  BY SizesAssumption DEF TypeInv, TypeOK
<1>2. BytesRead \in Nat /\ BytesRead <= FileSize
  BY <1>1 DEF BytesRead
<1>3. PagesFor(FileSize) \in Nat /\ PagesFor(BytesRead) \in Nat
      /\ FileSize <= PagesFor(FileSize) * PageSize
  BY <1>1, <1>2, RoundsUp
<1>4. PagesFor(FileSize) * PageSize \in Nat
  BY <1>3, SizesAssumption
<1>5. BytesRead <= PagesFor(FileSize) * PageSize
  BY <1>1, <1>2, <1>3, <1>4
<1>6. PagesFor(BytesRead) <= PagesFor(FileSize)
  BY <1>2, <1>3, <1>5, FewestPages
<1> QED BY <1>2, <1>3, <1>6 DEF BytesRead

\* The kernel's pages are taken before the PML4's, and only the page behind
\* the PML4 can be cleared of what Read put there.
LEMMA NextLoadedInv ==
  TypeInv /\ ScanInv /\ ControlInv /\ LoadedInv /\ [Next]_vars => LoadedInv'
<1> SUFFICES ASSUME TypeInv, ScanInv, ControlInv, LoadedInv, [Next]_vars, failures' = 0,
                    pc' \notin Lost
             PROVE  LoadedInv'
  BY DEF LoadedInv, LoopNames, Lost, Final, After
<1>0. failures = 0 /\ failures \in Nat
  <2>1. failures \in Nat
    BY DEF TypeInv, TypeOK
  <2> QED BY <2>1 DEF Next, Stub, vars, OneMoreFailure, AllocatePages,
       OpenKernel, GetKernelInfo, AllocateKernel, ReadKernel, LocateGop, InitPageMap,
       CallMMap, MMapReturns, EndImage, EndKernel, EndStack, Scan, AllocateFrameMap,
       EndFrameMap, EndFrameBuffer, GetFinalMemoryMap, ExitBootServices, Jump, FirmwareEvent
<1>1. KernelPages \in Nat /\ PagesFor(FileSize) \in Nat /\ PagesFor(FileSize) <= KernelPages
  <2>1. PagesFor(FileSize) \in Nat /\ Slack \in Nat
    BY SizesAreNat, SizesAssumption
  <2> QED BY <2>1 DEF KernelPages
<1>2. base \in [Regions -> Anywhere] /\ Anywhere \subseteq Nat
  BY SizesAssumption DEF TypeInv, TypeOK, Regions
<1> DEFINE Kernel0 == base.kernel .. (base.kernel + KernelPages - 1)
<1>3. FilePages \subseteq Kernel0
  <2>1. base.kernel \in Nat
    BY <1>2 DEF Regions
  <2> QED BY <1>1, <2>1, ReadFits DEF FilePages
<1> USE DEF LoopNames, Lost, Final, After
<1>4. CASE OpenKernel
  BY <1>4 DEF OpenKernel, LoadedInv
<1>5. CASE GetKernelInfo
  <2>1. FileSize' = KernelFileSize /\ pc' = "allocate"
    BY <1>0, <1>5 DEF GetKernelInfo, OneMoreFailure
  <2> QED BY <2>1 DEF LoadedInv
<1>6. CASE AllocateKernel
  <2>1. AllocatePages("kernel", KernelPagesCount \div PageSize, Initialised)
    BY <1>6 DEF AllocateKernel
  <2>2. KernelPagesCount \div PageSize = KernelPages
    <3>1. KernelPagesCount = KernelPages * PageSize
      BY DEF KernelPagesCount, KernelPages
    <3> QED BY <1>1, <3>1, WholePages
  <2>3. AllocatePages("kernel", KernelPages, Initialised)
    BY <2>1, <2>2
  <2>4. /\ free \subseteq Phys
        /\ base'["kernel"] .. (base'["kernel"] + KernelPages - 1) \subseteq free \ free'
    <3>1. "kernel" \in Regions /\ Initialised \in SUBSET Anywhere
      BY SizesAssumption DEF Regions, Initialised
    <3> QED BY <1>1, <2>3, <3>1, AllocateTakes DEF TypeInv, TypeOK
  <2>5. pc' = "read" /\ pc = "allocate" /\ FileSize' = FileSize
    BY <1>6 DEF AllocateKernel, layout
  <2>6. KernelPages' = KernelPages /\ FileSize = KernelFileSize
    BY <1>0, <2>5 DEF KernelPages, PagesFor, LoadedInv
  <2> QED BY <2>4, <2>5, <2>6 DEF LoadedInv
<1>7. CASE ReadKernel
  <2>1. /\ content' = [p \in Phys |-> IF p \in FilePages THEN "file" ELSE content[p]]
        /\ UNCHANGED <<free, base, FileSize>> /\ pc = "read" /\ pc' = "gop"
    BY <1>0, <1>7 DEF ReadKernel, AfterWriting, OneMoreFailure, layout
  <2>2. KernelPages' = KernelPages /\ FilePages' = FilePages
    BY <2>1 DEF KernelPages, PagesFor, FilePages, BytesRead
  <2>3. \A p \in Kernel0 : p \in Phys \ free
    BY <1>0, <2>1 DEF LoadedInv
  <2>4. \A p \in FilePages : content'[p] = "file"
    BY <1>3, <2>1, <2>3
  <2>5. FileSize = KernelFileSize
    BY <1>0, <2>1 DEF LoadedInv
  <2> HIDE DEF Kernel0
  <2> QED BY <2>1, <2>2, <2>3, <2>4, <2>5 DEF LoadedInv, Kernel0
<1>8. CASE InitPageMap
  <2>1. /\ pc = "pml4" /\ pc' = "image" /\ FileSize' = FileSize
        /\ content' = [p \in Phys |-> IF p \in Cleared(base'.pml4) THEN "zero" ELSE content[p]]
    BY <1>8 DEF InitPageMap, AfterWriting, layout
  <2>2. /\ base'["pml4"] .. (base'["pml4"] + 1 - 1) \subseteq free \ free' /\ free' \subseteq free
        /\ base'["kernel"] = base["kernel"]
    <3>1. AllocatePages("pml4", 1, Initialised)
      BY <1>8 DEF InitPageMap
    <3>2. "pml4" \in Regions /\ "kernel" \in Regions \ {"pml4"} /\ Initialised \in SUBSET Anywhere
      BY SizesAssumption DEF Regions, Initialised
    <3> QED BY <3>1, <3>2, AllocateTakes
  <2>3. base'.pml4 \in free /\ base'.pml4 \in Nat
    <3>1. base'.pml4 \in Phys
      <4>1. AllocatePages("pml4", 1, Initialised)
        BY <1>8 DEF InitPageMap
      <4> QED BY <4>1, AllocateType, SizesAssumption DEF Regions, TypeInv, Initialised, BaseOK
    <3>2. base'.pml4 \in Nat
      BY <1>2, <3>1, SizesAssumption
    <3>3. base'.pml4 \in base'.pml4 .. (base'.pml4 + 1 - 1)
      BY <3>2
    <3> QED BY <2>2, <3>2, <3>3
  <2>4. KernelPages' = KernelPages /\ FilePages' = FilePages
    BY <2>1, <2>2 DEF KernelPages, PagesFor, FilePages, BytesRead
  <2>5. (\A p \in Kernel0 : p \in Phys \ free) /\ FileSize = KernelFileSize
    BY <1>0, <2>1 DEF LoadedInv
  <2>6. \A p \in FilePages : content[p] = "file" /\ p \in Phys /\ p # base'.pml4
    BY <1>0, <1>3, <2>1, <2>3, <2>5 DEF LoadedInv
  <2>7. \A p \in FilePages : content'[p] = "file" \/ p = base'.pml4 + 1
    <3>1. Cleared(base'.pml4) \subseteq {base'.pml4, base'.pml4 + 1}
      BY <2>3 DEF Cleared
    <3> QED BY <2>1, <2>6, <3>1
  <2> HIDE DEF Kernel0
  <2> QED BY <2>1, <2>2, <2>4, <2>5, <2>7 DEF LoadedInv, Kernel0
<1>9. CASE LocateGop \/ FirmwareEvent \/ UNCHANGED vars
  <2>1. /\ UNCHANGED <<FileSize, free, base, content>>
        /\ pc' = pc \/ (pc = "gop" /\ pc' = "pml4")
    BY <1>9 DEF LocateGop, FirmwareEvent, vars, layout, ram
  <2>2. KernelPages' = KernelPages /\ FilePages' = FilePages
    BY <2>1 DEF KernelPages, PagesFor, FilePages, BytesRead
  <2> QED BY <1>0, <2>1, <2>2 DEF LoadedInv
<1>10. CASE EndKernel \/ AllocateFrameMap
  <2>1. /\ FileSize' = FileSize /\ content' = content
        /\ pc \in {"kernel", "scan"} /\ pc' \in {"stack", "framemap"}
        /\ pc = "scan" \/ pc' = "stack"
    BY <1>10 DEF EndKernel, EndLoop, AllocateFrameMap, layout
  <2>2. /\ free' \subseteq free /\ base'["kernel"] = base["kernel"]
        /\ base'["pml4"] = base["pml4"]
        /\ pc' = "stack" => StackPages > 0
    <3>1. CASE EndKernel
      <4>1. AllocatePages("stack", StackPages, Initialised) /\ StackPages \in Nat
        BY <3>1, SizesAssumption DEF EndKernel
      <4>2. "stack" \in Regions /\ {"kernel", "pml4"} \subseteq Regions \ {"stack"}
            /\ Initialised \in SUBSET Anywhere
        BY SizesAssumption DEF Regions, Initialised
      <4> QED BY <4>1, <4>2, AllocateTakes
    <3>2. CASE AllocateFrameMap
      <4>1. AllocatePages("framemap", PagesFor(SizeOfFrameMap), Anywhere)
            /\ PagesFor(SizeOfFrameMap) \in Nat
        BY <3>2, SizesAreNat DEF AllocateFrameMap, FrameMapUnset
      <4>2. "framemap" \in Regions /\ {"kernel", "pml4"} \subseteq Regions \ {"framemap"}
        BY DEF Regions
      <4>3. pc' # "stack"
        BY <3>2 DEF AllocateFrameMap
      <4> QED BY <4>1, <4>2, <4>3, AllocateTakes
    <3> QED BY <1>10, <3>1, <3>2
  <2>3. KernelPages' = KernelPages /\ FilePages' = FilePages
    BY <2>1, <2>2 DEF KernelPages, PagesFor, FilePages, BytesRead
  <2> QED BY <1>0, <2>1, <2>2, <2>3 DEF LoadedInv
<1>11. CASE CallMMap \/ MMapReturns \/ EndImage \/ EndStack \/ Scan \/ EndFrameMap
            \/ EndFrameBuffer \/ GetFinalMemoryMap \/ ExitBootServices \/ Jump
  <2>1. UNCHANGED <<FileSize, free, base, content>>
    BY <1>11 DEF CallMMap, MMapReturns, EndImage, EndStack, Scan, EndFrameMap,
       EndFrameBuffer, GetFinalMemoryMap, ExitBootServices, Jump, ram, layout
  <2>2. /\ pc \in LoopNames \cup {"scan", "temp"} \cup Final
        /\ pc' \in LoopNames \cup {"scan", "temp"} \cup Final
        /\ pc' \in After["kernel"] => pc \in After["kernel"]
    <3>1. CASE MMapReturns
      BY <3>1 DEF MMapReturns, AS!Succeed, AS!Fail, ControlInv
    <3>2. CASE CallMMap
      BY <3>2 DEF CallMMap, Loops
    <3>3. CASE EndImage \/ EndStack \/ Scan \/ EndFrameMap
               \/ EndFrameBuffer \/ GetFinalMemoryMap \/ ExitBootServices \/ Jump
      BY <3>3 DEF EndImage, EndStack, Scan, EndFrameMap, EndLoop,
         EndFrameBuffer, GetFinalMemoryMap, ExitBootServices, Jump
    <3> QED BY <1>11, <3>1, <3>2, <3>3
  <2>3. KernelPages' = KernelPages /\ FilePages' = FilePages
    BY <2>1 DEF KernelPages, PagesFor, FilePages, BytesRead
  <2> QED BY <1>0, <2>1, <2>2, <2>3 DEF LoadedInv
<1> QED BY <1>4, <1>5, <1>6, <1>7, <1>8, <1>9, <1>10, <1>11 DEF Next, Stub

-----------------------------------------------------------------------------
(* What the stub achieves *)

\* The inductive invariant of efi_main.
StubInv ==
  /\ TypeInv /\ ScanInv
  /\ PlacesInv /\ ControlInv /\ OccupiedInv /\ ShownInv
  /\ KeyInv /\ LoadedInv

LEMMA InitStubInv == Init => StubInv
BY InitTypeInv, InitScanInv, InitLayout, InitSpaceInv, InitMoreInv DEF StubInv

LEMMA NextStubInv == StubInv /\ [Next]_vars => StubInv'
<1> SUFFICES ASSUME StubInv, [Next]_vars PROVE StubInv'
  OBVIOUS
<1>1. TypeInv' /\ ScanInv'
  BY NextTypeInv, NextScanInv DEF StubInv
<1>2. PlacesInv' /\ ControlInv'
  BY <1>1, NextPlacesInv, NextControlInv DEF StubInv
<1>3. OccupiedInv' /\ ShownInv'
  BY NextSpaceInv DEF StubInv
<1>4. KeyInv' /\ LoadedInv'
  BY NextKeyInv, NextLoadedInv DEF StubInv
<1> QED BY <1>1, <1>2, <1>3, <1>4 DEF StubInv

LEMMA StubInvariant == Spec => []StubInv
BY InitStubInv, NextStubInv, PTL DEF Spec

\* Only MMapReturns changes the address space, and the page it maps is fresh:
\* the five computations of the layout never collide, whatever calls fail.
THEOREM EachPageMappedOnce == Spec => MapsEachPageOnce
<1>1. StubInv /\ [Next]_vars => [\A v \in Virt : space'[v] # space[v] => space[v] = {}]_vars
  <2> SUFFICES ASSUME StubInv, Next, NEW v \in Virt, space'[v] # space[v]
               PROVE  space[v] = {}
    OBVIOUS
  <2>1. MMapReturns
    BY DEF Next, Stub, asVars, AS!Request, OpenKernel, GetKernelInfo, AllocateKernel,
       ReadKernel, LocateGop, InitPageMap, CallMMap, EndImage, EndKernel, EndStack,
       Scan, AllocateFrameMap, EndFrameMap, EndFrameBuffer, GetFinalMemoryMap,
       ExitBootServices, Jump, FirmwareEvent
  <2>2. PICK m \in AS!Mapping : AS!Succeed(m)
    BY <2>1 DEF MMapReturns, AS!Fail
  <2>3. status = "busy" /\ space' = [space EXCEPT ![arg.virt] = {m}]
    BY <2>2 DEF AS!Succeed
  <2>4. v = arg.virt
    BY <2>3 DEF StubInv, TypeInv, TypeOK
  <2> QED BY <2>3, <2>4, FreshPage DEF StubInv
<1> QED BY <1>1, StubInvariant, PTL DEF Spec, MapsEachPageOnce

\* What a loop asks MMap for is a page that it can name.
LEMMA LoopAsksForData ==
  ASSUME TypeInv, NEW l \in LoopNames, NEW k \in Nat, k < Count[l]
  PROVE  First[l] + k \in Virt /\ Source[l] + k \in Data
<1>1. First[l] + k \in Virt
  <2>1. First[l] \in Nat /\ Count[l] \in Nat /\ First[l] + Count[l] <= TopPage
    BY LoopsApart
  <2> QED BY <2>1, SizesAssumption DEF Virt
<1>2. CASE l = "image"
  <2>1. k \in ImagePages
    BY <1>2, LayoutFits DEF Count, ImagePages
  <2> QED BY <1>1, <1>2, <2>1 DEF Source, Data, ImageFrames
<1>3. CASE l = "framebuffer"
  <2>1. FrameBufferBase + k \in FrameBufferPages
    BY <1>3, LayoutFits, SizesAssumption DEF Count, FrameBufferPages
  <2> QED BY <1>1, <1>3, <2>1 DEF Source, Data
<1>4. CASE l \in {"kernel", "stack", "framemap"}
  <2>1. Count[l] \in AllocatedSizes
    <3>1. FileSize \in 0 .. MaxFileSize /\ MaxAddress \in Ends
      BY DEF TypeInv
    <3>2. CASE l = "kernel"
      BY <3>1, <3>2 DEF Count, KernelPages, AllocatedSizes
    <3>3. CASE l = "stack"
      BY <3>3 DEF Count, AllocatedSizes
    <3>4. CASE l = "framemap"
      BY <3>1, <3>4 DEF Count, FrameMapPages, SizeOfFrameMap, AllocatedSizes
    <3> QED BY <1>4, <3>2, <3>3, <3>4
  <2>2. k \in 0 .. (Count[l] - 1)
    BY LoopsApart
  <2>3. Source[l] \in Anywhere
    BY <1>4 DEF Source, TypeInv, TypeOK
  <2> DEFINE c == Count[l]
             s == Source[l]
  <2> HIDE DEF c, s
  <2>4. k \in UNION {0 .. (d - 1) : d \in AllocatedSizes}
    BY <2>1, <2>2 DEF c
  <2>5. s + k \in Data
    BY <2>3, <2>4 DEF Data, s
  <2> QED BY <1>1, <2>5 DEF s
<1> QED BY <1>2, <1>3, <1>4 DEF LoopNames

\* The stub uses the page tables as AddressSpace allows: it never makes a call
\* during another, and asks only for virtual pages that exist and for physical
\* pages of Data or the table itself, whatever calls fail.
THEOREM StubKeepsContract == Spec => AS!Spec
<1>1. Init => AS!Init
  BY DEF Init
<1>2. StubInv /\ [Next]_vars => [AS!Next]_AS!vars
  <2> SUFFICES ASSUME StubInv, [Next]_vars PROVE [AS!Next]_AS!vars
    OBVIOUS
  <2>1. CASE CallMMap
    <3> DEFINE a == [virt |-> Loops[pc].virt + i \div PageSize,
                     phys |-> Loops[pc].phys + i \div PageSize,
                     cached |-> Loops[pc].cached]
               k == Progress(pc)
    <3>1. pc \in LoopNames /\ i < Loops[pc].size /\ AS!Request(a)
      BY <2>1 DEF CallMMap, Loops, LoopNames
    <3>2. k \in Nat /\ k = i \div PageSize /\ k < Count[pc]
      BY <3>1, LoopProgress DEF StubInv
    <3>3. First[pc] + k \in Virt /\ Source[pc] + k \in Data
      BY <3>1, <3>2, LoopAsksForData DEF StubInv
    <3>4. Loops[pc].virt = First[pc] /\ Loops[pc].phys = Source[pc]
      BY <3>1, LoopRows DEF StubInv
    <3>5. Loops[pc].cached \in BOOLEAN
      <4>1. \A l \in LoopNames : Loops[l].cached = TRUE \/ Loops[l].cached = FALSE
        BY DEF Loops, LoopNames
      <4> QED BY <3>1, <4>1
    <3>6. a \in AS!Args
      <4> HIDE DEF k
      <4>1. a = [virt |-> First[pc] + k, phys |-> Source[pc] + k,
                 cached |-> Loops[pc].cached]
        BY <3>2, <3>4
      <4> HIDE DEF a
      <4> QED BY <3>3, <3>5, <4>1 DEF AS!Args
    <3> QED BY <3>1, <3>6 DEF AS!Next
  <2>2. CASE MMapReturns
    BY <2>2 DEF MMapReturns, AS!Next
  <2>3. CASE EndFrameBuffer
    <3> DEFINE a == [virt |-> HigherHalf + RegionAt, phys |-> Self, cached |-> FALSE]
    <3>1. CurrentPage = BufferAt * PageSize
      BY <2>3 DEF EndFrameBuffer, EndLoop, StubInv, PlacesInv
    <3>2. NextWindow(CurrentPage + FrameBufferSize) \div PageSize = RegionAt
      BY <3>1 DEF RegionAt
    <3>3. AS!Request(a)
      BY <2>3, <3>2 DEF EndFrameBuffer
    <3>4. HigherHalf + RegionAt \in Virt
      <4>1. /\ HigherHalf \in Nat /\ Fan \in Nat /\ RegionAt \in Nat
            /\ (HigherHalf + RegionAt) .. (HigherHalf + RegionAt + Fan) \subseteq Virt
        BY LayoutFits, LoopsApart, SizesAssumption DEF StubInv
      <4> QED BY <4>1
    <3>5. a \in AS!Args
      BY <3>4 DEF AS!Args
    <3> QED BY <3>3, <3>5 DEF AS!Next
  <2>4. CASE ~(CallMMap \/ MMapReturns \/ EndFrameBuffer)
    BY <2>4 DEF Next, Stub, vars, asVars, AS!vars, OpenKernel, GetKernelInfo,
       AllocateKernel, ReadKernel, LocateGop, InitPageMap, EndImage, EndKernel,
       EndStack, Scan, AllocateFrameMap, EndFrameMap, GetFinalMemoryMap,
       ExitBootServices, Jump, FirmwareEvent
  <2> QED BY <2>1, <2>2, <2>3, <2>4
<1> QED BY <1>1, <1>2, StubInvariant, PTL DEF Spec, AS!Spec

\* A page between the temp region's table and the stack is not mapped.
LEMMA GapIsFree ==
  ASSUME StubInv, pc \in {"temp", "exit", "jump", "running"},
         NEW v \in Nat, v > HigherHalf + RegionAt, v < StackAt
  PROVE  v \in Virt /\ space[v] = {}
<1>1. /\ TopPage \in Nat /\ StackPages \in Nat /\ StackAt + StackPages = TopPage
      /\ StackAt \in Nat /\ HigherHalf + RegionAt \in Nat
  <2>1. StackAt \in Nat /\ RegionAt \in Nat
    BY LayoutFits DEF StubInv
  <2> QED BY <2>1, SizesAssumption DEF StackAt
<1>2. v \in Virt
  BY <1>1 DEF Virt
<1>3. ASSUME NEW l \in LoopNames, v \in First[l] .. (First[l] + Progress(l) - 1)
      PROVE  FALSE
  <2>1. First[l] \in Nat /\ Count[l] \in Nat /\ Progress(l) \in 0 .. Count[l]
    BY LoopsApart, ProgressBound DEF StubInv
  <2>2. v >= First[l] /\ v < First[l] + Count[l]
    BY <1>3, <2>1
  <2>3. First[l] + Count[l] <= HigherHalf + RegionAt \/ First[l] = StackAt
    <3>1. /\ ImageBase \in Nat /\ HigherHalf \in Nat
      BY SizesAssumption
    <3> QED BY <3>1, LayoutFits DEF LoopNames, First, Count, StubInv
  <2> QED BY <1>1, <2>1, <2>2, <2>3
<1>4. v # HigherHalf + RegionAt /\ pc \notin Lost
  BY <1>1 DEF Lost
<1> QED BY <1>2, <1>3, <1>4 DEF StubInv, OccupiedInv

\* The window of the temp region holds nothing but its table, however large the
\* kernel, the frame map and the frame buffer are.
THEOREM WindowCorrect == Spec => []WindowIsFresh
<1>1. StubInv => WindowIsFresh
  <2> SUFFICES ASSUME StubInv, pc \in {"temp", "exit", "jump", "running"},
                      NEW n \in 1 .. (Fan - 1)
               PROVE  space[HigherHalf + KernelArgs.TempMappingRegion \div PageSize + n] = {}
    BY DEF WindowIsFresh
  <2>1. KernelArgs.TempMappingRegion = RegionAt * PageSize
    BY DEF StubInv, PlacesInv, After, Final
  <2>2. KernelArgs.TempMappingRegion \div PageSize = RegionAt
    BY <2>1, RegionIsThere DEF StubInv
  <2>3. /\ HigherHalf \in Nat /\ Fan \in Nat /\ RegionAt \in Nat /\ StackAt \in Nat
        /\ HigherHalf + RegionAt + Fan <= StackAt
    BY SizesAssumption, LayoutFits DEF StubInv
  <2> DEFINE v == HigherHalf + RegionAt + n
  <2>4. v \in Nat /\ v > HigherHalf + RegionAt /\ v < StackAt
    BY <2>3
  <2> HIDE DEF v
  <2>5. space[v] = {}
    BY <2>4, GapIsFree
  <2> QED BY <2>2, <2>5 DEF v
<1> QED BY <1>1, StubInvariant, PTL

\* The window's pages are the Fan pages of one page table, in its order.
WindowIsOneTable ==
  pc \in {"temp", "exit", "jump", "running"} =>
    LET first == HigherHalf + KernelArgs.TempMappingRegion \div PageSize IN
    \A n \in 0 .. (Fan - 1) :
      (first + n) \div Fan = first \div Fan /\ (first + n) % Fan = n

\* If the higher half starts at a page table's first page, as 0xffff800000000000
\* does, so does the temp region, wherever kernel, frame map and frame buffer
\* end: entry n of the table that TempMap edits is page n of the window.
THEOREM WindowAligned ==
  ASSUME HigherHalf % Fan = 0
  PROVE  Spec => []WindowIsOneTable
<1>1. StubInv => WindowIsOneTable
  <2> DEFINE b == PageSize
             w == Fan * b
             x == BufferAt * b + FrameBufferSize
             q == x \div w
             h == HigherHalf \div Fan
             t == h + q + 1
  <2> SUFFICES ASSUME StubInv, pc \in {"temp", "exit", "jump", "running"},
                      NEW n \in 0 .. (Fan - 1)
               PROVE  LET first == HigherHalf + KernelArgs.TempMappingRegion \div PageSize IN
                      (first + n) \div Fan = first \div Fan /\ (first + n) % Fan = n
    BY DEF WindowIsOneTable
  <2>1. KernelArgs.TempMappingRegion \div PageSize = RegionAt
    <3>1. KernelArgs.TempMappingRegion = RegionAt * PageSize
      BY DEF StubInv, PlacesInv, After, Final
    <3> QED BY <3>1, RegionIsThere DEF StubInv
  <2>2. /\ b \in Nat \ {0} /\ Fan \in Nat \ {0} /\ HigherHalf \in Nat
        /\ FrameBufferSize \in Nat /\ BufferAt \in Nat /\ n \in Nat /\ n < Fan
    BY SizesAssumption, LayoutFits DEF StubInv
  <2>3. w \in Nat \ {0} /\ x \in Nat
    BY <2>2
  <2>4. q \in Nat
    BY <2>3, Division, Zenon
  <2>5. h \in Nat /\ HigherHalf = Fan * h + (HigherHalf % Fan)
    BY <2>2, Division, Zenon
  <2>6. RegionAt = (q + 1) * Fan
    <3>1. NextWindow(x) = (q + 1) * w
      BY DEF NextWindow
    <3> HIDE DEF q
    <3>2. (q + 1) * w = ((q + 1) * Fan) * b /\ (q + 1) * Fan \in Nat
      BY <2>2, <2>4
    <3> DEFINE m == (q + 1) * Fan
    <3> HIDE DEF m
    <3>3. (m * b) \div b = m
      BY <3>2, WholePages DEF m
    <3> QED BY <3>1, <3>2, <3>3 DEF RegionAt, m
  <2> HIDE DEF q, h
  <2>7. t \in Nat /\ HigherHalf + RegionAt = t * Fan
    BY <2>2, <2>4, <2>5, <2>6
  <2> HIDE DEF t
  <2>8. /\ (t * Fan + n) \div Fan = t + (n \div Fan) /\ (t * Fan + n) % Fan = n % Fan
        /\ (t * Fan + 0) \div Fan = t + (0 \div Fan)
    <3>1. t \in Nat /\ Fan \in Nat \ {0} /\ n \in Nat /\ 0 \in Nat
      BY <2>2, <2>7
    <3>2. (t * Fan + n) \div Fan = t + (n \div Fan) /\ (t * Fan + n) % Fan = n % Fan
      BY <3>1, DivideOffset, Zenon
    <3>3. (t * Fan + 0) \div Fan = t + (0 \div Fan)
      BY <3>1, DivideOffset, Zenon
    <3> QED BY <3>2, <3>3
  <2>9. n \div Fan = 0 /\ n % Fan = n /\ 0 \div Fan = 0 /\ t + 0 = t
        /\ t * Fan + 0 = t * Fan
    BY <2>2, <2>7
  <2> QED BY <2>1, <2>7, <2>8, <2>9
<1> QED BY <1>1, StubInvariant, PTL

\* ExitBootServices is refused only if the firmware changed the map itself or
\* did not give it.
THEOREM ExitCorrect == Spec => []ExitRefusedOnlyByFirmware
<1>1. StubInv => ExitRefusedOnlyByFirmware
  BY DEF StubInv, KeyInv, Final, ExitRefusedOnlyByFirmware
<1> QED BY <1>1, StubInvariant, PTL

\* Without failures, and unless the kernel lies right behind the PML4, its file
\* is intact when it is entered: Read fills pages that InitPageMap, whose own
\* page comes from the same allocator, can reach only by clearing too much.
THEOREM LoadedCorrect == Spec => []KernelIsLoadedOrFollowsPML4
<1>1. StubInv => KernelIsLoadedOrFollowsPML4
  BY DEF StubInv, LoadedInv, Final, KernelIsLoadedOrFollowsPML4
<1> QED BY <1>1, StubInvariant, PTL

\* InitPageMap's zeros are never overwritten.
ClearedInv ==
  pc \in LoopNames \cup {"scan", "temp"} \cup Final =>
    \A p \in Cleared(base.pml4) : p \in Phys => content[p] = "zero"

LEMMA InitClearedInv == Init => ClearedInv
BY DEF Init, ClearedInv, LoopNames, Final

\* Nothing after InitPageMap writes a page of RAM or moves the PML4.
LEMMA NextClearedInv == TypeInv /\ ClearedInv /\ [Next]_vars => ClearedInv'
<1> SUFFICES ASSUME TypeInv, ClearedInv, [Next]_vars PROVE ClearedInv'
  OBVIOUS
<1> USE DEF LoopNames, Final
<1>1. CASE InitPageMap
  <2>1. Cleared(base.pml4)' = Cleared(base'.pml4)
    BY DEF Cleared
  <2> QED BY <1>1, <2>1 DEF InitPageMap, ClearedInv
<1>2. CASE OpenKernel \/ GetKernelInfo \/ AllocateKernel \/ ReadKernel \/ LocateGop
  BY <1>2 DEF OpenKernel, GetKernelInfo, AllocateKernel, ReadKernel, LocateGop,
     AfterWriting, ClearedInv
<1>3. ASSUME UNCHANGED <<base, content>>,
             pc' \in LoopNames \cup {"scan", "temp"} \cup Final =>
               pc \in LoopNames \cup {"scan", "temp"} \cup Final
      PROVE  ClearedInv'
  BY <1>3 DEF ClearedInv, Cleared
<1>4. CASE CallMMap \/ MMapReturns \/ FirmwareEvent \/ UNCHANGED vars
  BY <1>3, <1>4 DEF CallMMap, MMapReturns, FirmwareEvent, vars, ram
<1>5. CASE EndImage \/ EndStack \/ EndFrameMap \/ EndFrameBuffer
  BY <1>3, <1>5 DEF EndImage, EndStack, EndFrameMap, EndFrameBuffer, EndLoop, ram
<1>6. CASE Scan \/ GetFinalMemoryMap \/ ExitBootServices \/ Jump
  BY <1>3, <1>6 DEF Scan, GetFinalMemoryMap, ExitBootServices, Jump, ram
<1>7. CASE EndKernel \/ AllocateFrameMap
  <2>1. base'.pml4 = base.pml4 /\ content' = content
    <3>1. CASE EndKernel
      <4>1. AllocatePages("stack", StackPages, Initialised) /\ content' = content
        BY <3>1 DEF EndKernel
      <4> QED BY <4>1, AllocateType, SizesAssumption DEF Regions, TypeInv, Initialised, BaseOK
    <3>2. CASE AllocateFrameMap
      <4>1. /\ AllocatePages("framemap", PagesFor(SizeOfFrameMap), Anywhere)
            /\ content' = content
        BY <3>2 DEF AllocateFrameMap, FrameMapUnset
      <4> QED BY <4>1, AllocateType DEF Regions, TypeInv
    <3> QED BY <1>7, <3>1, <3>2
  <2>2. pc \in {"kernel", "scan"}
    BY <1>7 DEF EndKernel, AllocateFrameMap, EndLoop
  <2> QED BY <2>1, <2>2 DEF ClearedInv, Cleared
<1> QED BY <1>1, <1>2, <1>4, <1>5, <1>6, <1>7 DEF Next, Stub

\* If the page behind the PML4 belongs to the file, it is zero.
LEMMA OverrunZeroes ==
  ASSUME StubInv, ClearedInv, pc = "running", failures = 0, base.pml4 + 1 \in FilePages
  PROVE  content[base.pml4 + 1] = "zero"
<1> DEFINE p == base.pml4 + 1
<1>1. /\ base.kernel \in Nat /\ base.pml4 \in Nat /\ Slack \in Nat
      /\ PagesFor(FileSize) \in Nat
  BY SizesAreNat, SizesAssumption DEF StubInv, TypeInv, TypeOK
<1>2. p \in base.kernel .. (base.kernel + KernelPages - 1)
  BY <1>1, ReadFits DEF FilePages, KernelPages, StubInv
<1>3. \A q \in base.kernel .. (base.kernel + KernelPages - 1) : q \in Phys
  BY DEF StubInv, LoadedInv, Lost
<1>4. p \in Cleared(base.pml4)
  BY <1>1 DEF Cleared
<1> QED BY <1>2, <1>3, <1>4 DEF ClearedInv, Final

\* When the kernel is entered after a boot without failures, its file is intact
\* exactly if it does not lie behind the PML4.
LoadedUnlessBehindPML4 ==
  pc = "running" /\ failures = 0 =>
    ((\A p \in FilePages : content[p] = "file") <=> base.pml4 + 1 \notin FilePages)

\* The page that InitPageMap clears by mistake decides alone whether the kernel
\* is intact: if it belongs to the file it is lost for good, since nothing reads
\* the file again, and every other page of the file is as Read left it.
THEOREM LoadedExactly == Spec => []LoadedUnlessBehindPML4
<1>1. StubInv /\ ClearedInv => LoadedUnlessBehindPML4
  <2> SUFFICES ASSUME StubInv, ClearedInv, pc = "running", failures = 0
               PROVE  (\A p \in FilePages : content[p] = "file")
                        <=> base.pml4 + 1 \notin FilePages
    BY DEF LoadedUnlessBehindPML4
  <2>1. CASE base.pml4 + 1 \notin FilePages
    BY <2>1 DEF StubInv, LoadedInv, Final
  <2>2. CASE base.pml4 + 1 \in FilePages
    <3>1. content[base.pml4 + 1] = "zero"
      BY <2>2, OverrunZeroes
    <3> QED BY <2>2, <3>1
  <2> QED BY <2>1, <2>2
<1>2. StubInv => TypeInv
  BY DEF StubInv
<1> QED BY <1>1, <1>2, StubInvariant, InitClearedInv, NextClearedInv, PTL DEF Spec

\* An offset within a region of n pages lies on one of them.
LEMMA PageOfOffset ==
  ASSUME NEW n \in Nat, NEW o \in Nat, o < n * PageSize
  PROVE  o \div PageSize \in 0 .. (n - 1)
<1> DEFINE b == PageSize
           q == o \div b
           r == o % b
<1>1. b \in Nat \ {0}
  BY SizesAssumption
<1>2. q \in Nat /\ r \in 0 .. (b - 1) /\ o = b * q + r
  BY <1>1, Division, Zenon
<1> HIDE DEF q, r, b
<1>3. ASSUME q >= n PROVE FALSE
  <2>1. b * q >= n * b /\ b * q \in Nat /\ n * b \in Nat
    BY <1>1, <1>2, <1>3
  <2>2. o < n * b
    BY DEF b
  <2> QED BY <1>1, <1>2, <2>1, <2>2
<1> QED BY <1>2, <1>3 DEF q, b

\* Every byte of a region that a finished loop has mapped.
LEMMA RegionShown ==
  ASSUME NEW at \in Nat, NEW count \in Nat, NEW source \in Nat,
         NEW size \in Nat, size <= count * PageSize,
         \A k \in 0 .. (count - 1) :
           \E m \in space[HigherHalf + at + k] : m.frame = source + k
  PROVE  \A n \in 0 .. (size - 1) : MappedTo(at * PageSize + n, source + n \div PageSize)
<1> TAKE n \in 0 .. (size - 1)
<1> DEFINE k == n \div PageSize
<1>1. n \in Nat /\ n < count * PageSize
  <2>1. count * PageSize \in Nat
    BY WholePages
  <2> QED BY <2>1
<1>2. k \in 0 .. (count - 1)
  BY <1>1, PageOfOffset
<1>3. (at * PageSize + n) \div PageSize = at + k
  <2>1. PageSize \in Nat \ {0}
    BY SizesAssumption
  <2> QED BY <1>1, <2>1, DivideOffset, Zenon
<1> HIDE DEF k
<1>4. HigherHalf + (at + k) = HigherHalf + at + k
  BY <1>2, SizesAssumption
<1> QED BY <1>2, <1>3, <1>4 DEF MappedTo, k

\* At the switch all five loops have run to their ends.
LEMMA AllShown ==
  ASSUME StubInv, pc \in {"jump", "running"}, failures = 0
  PROVE  /\ \A l \in LoopNames : \A k \in 0 .. (Count[l] - 1) :
              \E m \in space[First[l] + k] : m.frame = Source[l] + k
         /\ \E m \in space[HigherHalf + RegionAt] : m.frame = PTPage
<1>1. \A l \in LoopNames : Progress(l) = Count[l]
  BY DEF Progress, LoopNames, After, Final
<1>2. RegionMade /\ pc \notin Lost
  BY DEF RegionMade, Final, Lost
<1> QED BY <1>1, <1>2 DEF StubInv, ShownInv

\* ... and show, at every offset that KernelArgs names, the right page.
LEMMA StubHandsOver == StubInv => HandOver
<1> SUFFICES ASSUME StubInv, pc = "running", failures = 0
             PROVE  /\ \A n \in 0 .. (KernelPagesCount - 1) :
                         MappedTo(n, base.kernel + n \div PageSize)
                    /\ \A n \in 0 .. (KernelArgs.FrameMapSize - 1) :
                         MappedTo(KernelArgs.FrameMap + n, base.framemap + n \div PageSize)
                    /\ \A n \in 0 .. (FrameBufferSize - 1) :
                         MappedTo(KernelArgs.framebuffer + n, FrameBufferBase + n \div PageSize)
                    /\ MappedTo(KernelArgs.TempMappingRegion, PTPage)
  BY DEF HandOver
<1>1. /\ KernelArgs.FrameMap = KernelPages * PageSize
      /\ KernelArgs.FrameMapSize = SizeOfFrameMap
      /\ KernelArgs.framebuffer = BufferAt * PageSize
      /\ KernelArgs.TempMappingRegion = RegionAt * PageSize
  BY DEF StubInv, PlacesInv, After, Final
<1>2. /\ KernelPages \in Nat /\ FrameMapPages \in Nat /\ BufferAt \in Nat
      /\ PagesFor(FrameBufferSize) \in Nat /\ SizeOfFrameMap \in Nat
      /\ FrameBufferSize \in Nat /\ FrameBufferBase \in Nat /\ HigherHalf \in Nat
      /\ base.kernel \in Nat /\ base.framemap \in Nat
  BY LayoutFits, SizesAreNat, SizesAssumption DEF StubInv, TypeInv, TypeOK
<1>3. \A k \in 0 .. (KernelPages - 1) :
        \E m \in space[HigherHalf + k] : m.frame = base.kernel + k
  <2>1. "kernel" \in LoopNames /\ First["kernel"] = HigherHalf
        /\ Source["kernel"] = base.kernel /\ Count["kernel"] = KernelPages
    BY DEF LoopNames, First, Source, Count
  <2> QED BY <2>1, AllShown
<1>4. \A k \in 0 .. (FrameMapPages - 1) :
        \E m \in space[HigherHalf + KernelPages + k] : m.frame = base.framemap + k
  <2>1. "framemap" \in LoopNames /\ First["framemap"] = HigherHalf + KernelPages
        /\ Source["framemap"] = base.framemap /\ Count["framemap"] = FrameMapPages
    BY DEF LoopNames, First, Source, Count
  <2> QED BY <2>1, AllShown
<1>5. \A k \in 0 .. (PagesFor(FrameBufferSize) - 1) :
        \E m \in space[HigherHalf + BufferAt + k] : m.frame = FrameBufferBase + k
  <2>1. "framebuffer" \in LoopNames /\ First["framebuffer"] = HigherHalf + BufferAt
        /\ Source["framebuffer"] = FrameBufferBase
        /\ Count["framebuffer"] = PagesFor(FrameBufferSize)
    BY DEF LoopNames, First, Source, Count
  <2> QED BY <2>1, AllShown
<1>6. \A n \in 0 .. (KernelPagesCount - 1) : MappedTo(n, base.kernel + n \div PageSize)
  <2> TAKE n \in 0 .. (KernelPagesCount - 1)
  <2>1. KernelPagesCount = KernelPages * PageSize /\ KernelPagesCount \in Nat
    BY SizesAreNat DEF KernelPagesCount, KernelPages, StubInv
  <2>2. n \in Nat /\ n < KernelPagesCount
    BY <2>1
  <2>3. n \div PageSize \in 0 .. (KernelPages - 1)
    BY <1>2, <2>1, <2>2, PageOfOffset
  <2> QED BY <1>3, <2>3 DEF MappedTo
<1>7. \A n \in 0 .. (SizeOfFrameMap - 1) :
        MappedTo(KernelPages * PageSize + n, base.framemap + n \div PageSize)
  <2>1. SizeOfFrameMap <= FrameMapPages * PageSize
    BY <1>2, RoundsUp DEF FrameMapPages
  <2> QED BY <1>2, <1>4, <2>1, RegionShown
<1>8. \A n \in 0 .. (FrameBufferSize - 1) :
        MappedTo(BufferAt * PageSize + n, FrameBufferBase + n \div PageSize)
  <2>1. FrameBufferSize <= PagesFor(FrameBufferSize) * PageSize
    BY <1>2, RoundsUp
  <2> QED BY <1>2, <1>5, <2>1, RegionShown
<1>9. MappedTo(RegionAt * PageSize, PTPage)
  <2>1. (RegionAt * PageSize) \div PageSize = RegionAt
    BY RegionIsThere DEF StubInv
  <2> QED BY <2>1, AllShown DEF MappedTo
<1> QED BY <1>1, <1>6, <1>7, <1>8, <1>9

\* A boot without failed calls hands over an address space in which everything
\* is where KernelArgs and the linker script say.
THEOREM HandOverCorrect == Spec => []HandOver
BY StubHandsOver, StubInvariant, PTL

\* The parts of efi_main in the order in which they run.
Rank ==
  [load |-> 0, info |-> 1, allocate |-> 2, read |-> 3, gop |-> 4, pml4 |-> 5,
   image |-> 6, kernel |-> 7, stack |-> 8, scan |-> 9, framemap |-> 10,
   framebuffer |-> 11, temp |-> 12, exit |-> 13, jump |-> 14,
   returned |-> 15, wild |-> 15, fault |-> 15, running |-> 15]

\* Steps that the current part has left: two for each page of a loop, one for
\* each descriptor of the scan.
Remaining ==
  IF pc \in LoopNames
  THEN 2 * (Count[pc] - Progress(pc)) - (IF status = "busy" THEN 1 ELSE 0)
  ELSE IF pc = "scan" THEN Len(map) - i
  ELSE IF pc = "temp" /\ status = "busy" THEN 1 ELSE 0

\* Every step of the stub goes on to a later part or brings the current one
\* nearer to its end, and the firmware's events take nothing of that back.
StubAdvances ==
  [][\/ Rank[pc'] > Rank[pc]
     \/ pc' = pc /\ Remaining \in Nat /\ Remaining' \in Nat /\ Remaining' < Remaining
     \/ FirmwareEvent /\ UNCHANGED <<pc, Remaining>>]_vars

\* The steps of a loop that is not over, and of MakeTempRegion's call.
LEMMA LoopAdvances ==
  ASSUME StubInv, StubInv', CallMMap \/ MMapReturns
  PROVE  pc' = pc /\ Remaining \in Nat /\ Remaining' \in Nat /\ Remaining' < Remaining
<1>1. pc' = pc /\ UNCHANGED <<FileSize, MaxAddress>>
  BY DEF CallMMap, MMapReturns, layout, memmap
<1>2. Count' = Count
  BY <1>1, Steady
<1>3. CASE CallMMap
  <2>1. /\ pc \in LoopNames /\ status # "busy" /\ status' = "busy" /\ i' = i
        /\ i < Loops[pc].size
    BY <1>3 DEF CallMMap, Loops, LoopNames, AS!Request
  <2>2. Progress(pc) \in Nat /\ Progress(pc) < Count[pc] /\ Progress(pc) = i \div PageSize
    BY <2>1, LoopProgress DEF StubInv
  <2>3. Progress(pc)' = Progress(pc)
    BY <1>1, <2>1, <2>2 DEF Progress
  <2>4. Count[pc] \in Nat /\ Count'[pc'] = Count[pc]
    BY <1>1, <1>2, <2>1, LoopsApart DEF StubInv
  <2>5. /\ Remaining = 2 * (Count[pc] - Progress(pc))
        /\ Remaining' = 2 * (Count[pc] - Progress(pc)) - 1
    BY <1>1, <2>1, <2>2, <2>3, <2>4 DEF Remaining
  <2> QED BY <1>1, <2>2, <2>4, <2>5
<1>4. CASE MMapReturns
  <2>1. status = "busy" /\ status' # "busy" /\ i' = i + PageSize
    BY <1>4 DEF MMapReturns, AS!Succeed, AS!Fail, NextOffset
  <2>2. pc \in LoopNames \cup {"temp"}
    BY <2>1 DEF StubInv, ControlInv
  <2>3. CASE pc = "temp"
    BY <1>1, <2>1, <2>3 DEF Remaining, LoopNames
  <2>4. CASE pc \in LoopNames
    <3>1. /\ Progress(pc) \in Nat /\ Progress(pc) < Count[pc]
          /\ (i + PageSize) \div PageSize = Progress(pc) + 1
      BY <2>1, <2>4, LoopProgress DEF StubInv, ControlInv
    <3>2. Progress(pc)' = Progress(pc) + 1
      BY <1>1, <2>1, <3>1 DEF Progress
    <3>3. Count[pc] \in Nat /\ Count'[pc'] = Count[pc]
      BY <1>1, <1>2, <2>4, LoopsApart DEF StubInv
    <3>4. /\ Remaining = 2 * (Count[pc] - Progress(pc)) - 1
          /\ Remaining' = 2 * (Count[pc] - (Progress(pc) + 1)) - 0
      BY <1>1, <2>1, <2>4, <3>2, <3>3 DEF Remaining
    <3> QED BY <1>1, <3>1, <3>3, <3>4
  <2> QED BY <2>2, <2>3, <2>4
<1> QED BY <1>3, <1>4

\* efi_main cannot run in circles, whatever calls fail: a bound on the steps
\* that are left, ordered first by part and then by what the part has to do,
\* goes down with every step.  With TLC's check that it cannot get stuck on the
\* way, this is why it ends.
THEOREM Advances == Spec => StubAdvances
<1>1. StubInv /\ StubInv' /\ [Next]_vars =>
        [\/ Rank[pc'] > Rank[pc]
         \/ pc' = pc /\ Remaining \in Nat /\ Remaining' \in Nat /\ Remaining' < Remaining
         \/ FirmwareEvent /\ UNCHANGED <<pc, Remaining>>]_vars
  <2> SUFFICES ASSUME StubInv, StubInv', Next
               PROVE  \/ Rank[pc'] > Rank[pc]
                      \/ /\ pc' = pc /\ Remaining \in Nat /\ Remaining' \in Nat
                         /\ Remaining' < Remaining
                      \/ FirmwareEvent /\ UNCHANGED <<pc, Remaining>>
    OBVIOUS
  <2>1. CASE CallMMap \/ MMapReturns
    BY <2>1, LoopAdvances
  <2>2. CASE Scan
    <3>1. pc = "scan" /\ pc' = pc /\ i < Len(map) /\ i' = i + 1 /\ map' = map
      BY <2>2 DEF Scan
    <3>2. i \in Nat /\ Len(map) \in Nat
      BY <3>1, Descriptors DEF StubInv, ScanInv, TypeInv, TypeOK
    <3>3. Remaining = Len(map) - i /\ Remaining' = Len(map) - (i + 1)
      BY <3>1 DEF Remaining, LoopNames
    <3> QED BY <3>1, <3>2, <3>3
  <2>3. CASE FirmwareEvent
    <3>1. UNCHANGED <<pc, i, status, FileSize, MaxAddress, map>>
      BY <2>3 DEF FirmwareEvent, asVars, layout, memmap
    <3>2. Count' = Count
      BY <3>1, Steady
    <3>3. Progress(pc)' = Progress(pc)
      BY <3>1, <3>2 DEF Progress
    <3>4. Remaining' = Remaining
      BY <3>1, <3>2, <3>3 DEF Remaining
    <3> QED BY <2>3, <3>1, <3>4
  <2>4. CASE OpenKernel \/ GetKernelInfo \/ AllocateKernel \/ ReadKernel \/ LocateGop
    BY <2>4 DEF OpenKernel, GetKernelInfo, AllocateKernel, ReadKernel, LocateGop,
       AfterWriting, Rank
  <2>5. CASE InitPageMap
    <3>1. pc = "pml4" /\ pc' \in {"wild", "image"}
      BY <2>5 DEF AfterWriting, InitPageMap
    <3> QED BY <3>1 DEF Rank
  <2>6. CASE EndImage \/ EndKernel \/ EndStack \/ EndFrameMap \/ EndFrameBuffer
    BY <2>6 DEF EndImage, EndKernel, EndStack, EndFrameMap, EndFrameBuffer, EndLoop, Rank
  <2>7. CASE AllocateFrameMap \/ GetFinalMemoryMap \/ ExitBootServices
    BY <2>7 DEF AllocateFrameMap, GetFinalMemoryMap, ExitBootServices, Rank
  <2>8. CASE Jump
    <3>1. pc = "jump" /\ pc' \in {"running", "fault"}
      BY <2>8 DEF Jump
    <3> QED BY <3>1 DEF Rank
  <2> QED BY <2>1, <2>2, <2>3, <2>4, <2>5, <2>6, <2>7, <2>8 DEF Next, Stub
<1> QED BY <1>1, StubInvariant, PTL DEF Spec, StubAdvances

-----------------------------------------------------------------------------
(* KERNEL_ARGS *)

\* The offsets of the fields of KERNEL_ARGS, in bytes.
FieldOffsets == <<0, 8, 16, 20, 24, 32, 40, 48, 56, 64, 72, 80, 88>>

\* The fields of the structure in the order of their declaration.
LEMMA Fields ==
  /\ Len(StubLayout) = 13 /\ KernelLayout = StubLayout
  /\ StubLayout[1] = "framebuffer" /\ StubLayout[2] = "framebuffersize"
  /\ StubLayout[3] = "VerticalResolution" /\ StubLayout[4] = "HorizontalResolution"
  /\ StubLayout[5] = "PixelsPerScanline" /\ StubLayout[6] = "MemoryMapSize"
  /\ StubLayout[7] = "DescriptorSize" /\ StubLayout[8] = "MapKey"
  /\ StubLayout[9] = "DescriptorVersion" /\ StubLayout[10] = "MemoryMap"
  /\ StubLayout[11] = "FrameMap" /\ StubLayout[12] = "FrameMapSize"
  /\ StubLayout[13] = "TempMappingRegion" /\ DOMAIN StubLayout = 1 .. 13
BY DEF StubLayout, KernelLayout

\* No two of them have the same name, or start at the same offset.
LEMMA FieldsDiffer ==
  \A j, k \in 1 .. 13 :
    /\ StubLayout[j] = StubLayout[k] => j = k
    /\ FieldOffsets[j] = FieldOffsets[k] => j = k
<1> SUFFICES ASSUME NEW j \in 1 .. 13, NEW k \in 1 .. 13
             PROVE  /\ StubLayout[j] = StubLayout[k] => j = k
                    /\ FieldOffsets[j] = FieldOffsets[k] => j = k
  OBVIOUS
<1>1. \/ j = 1 \/ j = 2 \/ j = 3 \/ j = 4 \/ j = 5 \/ j = 6 \/ j = 7 \/ j = 8 \/ j = 9
      \/ j = 10 \/ j = 11 \/ j = 12 \/ j = 13
  OBVIOUS
<1>2. \/ k = 1 \/ k = 2 \/ k = 3 \/ k = 4 \/ k = 5 \/ k = 6 \/ k = 7 \/ k = 8 \/ k = 9
      \/ k = 10 \/ k = 11 \/ k = 12 \/ k = 13
  OBVIOUS
<1>3. StubLayout[j] = StubLayout[k] => j = k
  BY <1>1, <1>2, Fields
<1>4. FieldOffsets[j] = FieldOffsets[k] => j = k
  BY <1>1, <1>2 DEF FieldOffsets
<1> QED BY <1>3, <1>4

\* The offsets that the compiler's alignment gives: the recursion of Offsets has
\* this solution, and no other.
LEMMA OffsetsAre ==
  \A n \in 1 .. 13 : StubOffsets[StubLayout[n]] = FieldOffsets[n]
<1> DEFINE S == StubLayout
           Place(at, n) ==
             IF n = 1 THEN 0
             ELSE LET end == at[n - 1] + SizeOf(S[n - 1])
                      size == SizeOf(S[n])
                  IN ((end + size - 1) \div size) * size
           At == CHOOSE at : at = [n \in 1 .. Len(S) |-> Place(at, n)]
           E == [n \in 1 .. 13 |-> FieldOffsets[n]]
<1>1. StubOffsets = [f \in Range(S) |-> At[CHOOSE n \in 1 .. Len(S) : S[n] = f]]
  BY DEF StubOffsets, Offsets
<1>2. Len(S) = 13
  BY Fields
<1>3. /\ SizeOf(S[1]) = 8 /\ SizeOf(S[2]) = 8 /\ SizeOf(S[3]) = 4 /\ SizeOf(S[4]) = 4
      /\ SizeOf(S[5]) = 4 /\ SizeOf(S[6]) = 8 /\ SizeOf(S[7]) = 8 /\ SizeOf(S[8]) = 8
      /\ SizeOf(S[9]) = 4 /\ SizeOf(S[10]) = 8 /\ SizeOf(S[11]) = 8 /\ SizeOf(S[12]) = 8
      /\ SizeOf(S[13]) = 8
  BY Fields DEF SizeOf
<1>4. /\ E[1] = 0 /\ E[2] = 8 /\ E[3] = 16 /\ E[4] = 20 /\ E[5] = 24 /\ E[6] = 32
      /\ E[7] = 40 /\ E[8] = 48 /\ E[9] = 56 /\ E[10] = 64 /\ E[11] = 72 /\ E[12] = 80
      /\ E[13] = 88
  BY DEF FieldOffsets
<1> HIDE DEF S
<1>5. \A n \in 1 .. 13 : Place(E, n) = E[n]
  <2> HIDE DEF E
  <2> QED BY <1>3, <1>4
<1>6. E = [n \in 1 .. Len(S) |-> Place(E, n)]
  <2> HIDE DEF Place
  <2> QED BY <1>2, <1>5
<1>7. At = [n \in 1 .. Len(S) |-> Place(At, n)]
  <2> HIDE DEF E
  <2> HIDE DEF Place
  <2> QED BY <1>6
<1> HIDE DEF At, E
<1>8. At = [n \in 1 .. 13 |-> Place(At, n)]
  BY <1>2, <1>7, Zenon
<1>9. /\ At[1] = Place(At, 1) /\ At[2] = Place(At, 2) /\ At[3] = Place(At, 3)
      /\ At[4] = Place(At, 4) /\ At[5] = Place(At, 5) /\ At[6] = Place(At, 6)
      /\ At[7] = Place(At, 7) /\ At[8] = Place(At, 8) /\ At[9] = Place(At, 9)
      /\ At[10] = Place(At, 10) /\ At[11] = Place(At, 11) /\ At[12] = Place(At, 12)
      /\ At[13] = Place(At, 13)
  <2> HIDE DEF Place
  <2> QED BY <1>8
<1>10. At[1] = 0 /\ At[2] = 8 /\ At[3] = 16 /\ At[4] = 20 /\ At[5] = 24 /\ At[6] = 32
  BY <1>3, <1>9
<1>11. At[7] = 40 /\ At[8] = 48 /\ At[9] = 56
  BY <1>3, <1>9, <1>10
<1>12. At[10] = 64 /\ At[11] = 72 /\ At[12] = 80 /\ At[13] = 88
  BY <1>3, <1>9, <1>11
<1>13. \A n \in 1 .. 13 : At[n] = FieldOffsets[n]
  BY <1>10, <1>11, <1>12 DEF FieldOffsets
<1>14. ASSUME NEW n \in 1 .. 13 PROVE StubOffsets[S[n]] = At[n]
  <2>1. S[n] \in Range(S)
    BY Fields DEF Range, S
  <2>2. (CHOOSE j \in 1 .. 13 : S[j] = S[n]) = n
    <3> DEFINE c == CHOOSE j \in 1 .. 13 : S[j] = S[n]
    <3>1. c \in 1 .. 13 /\ S[c] = S[n]
      OBVIOUS
    <3> HIDE DEF c
    <3>2. c = n
      BY <3>1, FieldsDiffer DEF S
    <3> QED BY <3>2 DEF c
  <2> QED BY <1>1, <1>2, <2>1, <2>2
<1> QED BY <1>13, <1>14 DEF S

\* The kernel finds each field where the stub has put it.
LEMMA ArgIsField ==
  ASSUME NEW n \in 1 .. 13
  PROVE  Arg(StubLayout[n]) = StubLayout[n]
<1> DEFINE f == StubLayout[n]
           here == {g \in Range(StubLayout) :
                      StubOffsets[g] = KernelOffsets[f] /\ SizeOf(g) = SizeOf(f)}
<1>1. Range(StubLayout) = {StubLayout[j] : j \in 1 .. 13}
  BY Fields DEF Range
<1>2. f \in Range(StubLayout) /\ KernelLayout = StubLayout
  BY <1>1, Fields
<1>3. Received[f] = IF here = {} THEN "junk" ELSE CHOOSE g \in here : TRUE
  <2>1. f \in Range(KernelLayout)
    BY <1>2
  <2> HIDE DEF f
  <2> QED BY <2>1, Zenon DEF Received
<1>4. here = {f}
  <2>1. KernelOffsets = StubOffsets
    BY <1>2, Zenon DEF KernelOffsets, StubOffsets
  <2>2. ASSUME NEW j \in 1 .. 13, StubOffsets[StubLayout[j]] = StubOffsets[f] PROVE j = n
    BY <2>2, OffsetsAre, FieldsDiffer
  <2> QED BY <1>1, <1>2, <2>1, <2>2
<1> HIDE DEF here, f
<1>5. Received[f] = f
  BY <1>3, <1>4
<1>6. f \in DOMAIN Received
  BY <1>2 DEF Received
<1> QED BY <1>5, <1>6 DEF Arg, f

-----------------------------------------------------------------------------
(* The kernel *)

AfterMemory == {"print", "idle"}
AfterTerminal == {"memory"} \cup AfterMemory
AfterVga == {"terminal"} \cup AfterTerminal
AfterEntry == {"cli", "fill", "vga"} \cup AfterVga

\* The kernel runs after the stub, and each static is set when its turn comes.
KernelInv ==
  /\ kpc \in {"entry", "fault", "wild"} \cup AfterEntry
  /\ pc # "running" => kpc = "entry"
  /\ kpc \in AfterEntry => statics["KernelArgs"] = "RDI"
  /\ kpc \in AfterVga =>
       /\ statics["framebuffer"] = "framebuffer" /\ statics["size"] = "framebuffersize"
       /\ statics["pixel_per_scanline"] = "PixelsPerScanline"
  /\ kpc \in AfterTerminal =>
       /\ statics["x"] = "0" /\ statics["y"] = "0"
       /\ statics["max_vertical"] = "VerticalResolution"
       /\ statics["max_horizontal"] = "HorizontalResolution"
  /\ kpc \in AfterMemory =>
       /\ statics["memory_map"] = "MemoryMap"
       /\ statics["memory_map_size"] = "MemoryMapSize"
       /\ statics["descriptor_size"] = "DescriptorSize"
       /\ statics["frame_map"] = "FrameMap" /\ statics["frame_map_size"] = "FrameMapSize"
       /\ statics["temp_mapping_region"] = "TempMappingRegion"
  /\ unset \subseteq {"bgcolor"}

\* The order of the calls in kernel().
LEMMA FollowingIs ==
  /\ Following("entry") = "cli" /\ Following("cli") = "fill" /\ Following("fill") = "vga"
  /\ Following("vga") = "terminal" /\ Following("terminal") = "memory"
  /\ Following("memory") = "print" /\ Following("print") = "idle"
BY DEF Following, Order

\* The arguments that the kernel reads are the ones that the stub wrote.
LEMMA ArgsAre ==
  /\ Arg("framebuffer") = "framebuffer" /\ Arg("framebuffersize") = "framebuffersize"
  /\ Arg("PixelsPerScanline") = "PixelsPerScanline"
  /\ Arg("VerticalResolution") = "VerticalResolution"
  /\ Arg("HorizontalResolution") = "HorizontalResolution"
  /\ Arg("MemoryMap") = "MemoryMap" /\ Arg("MemoryMapSize") = "MemoryMapSize"
  /\ Arg("DescriptorSize") = "DescriptorSize" /\ Arg("FrameMap") = "FrameMap"
  /\ Arg("FrameMapSize") = "FrameMapSize" /\ Arg("TempMappingRegion") = "TempMappingRegion"
<1>1. \A n \in 1 .. 13 : Arg(StubLayout[n]) = StubLayout[n]
  BY ArgIsField
<1>2. /\ Arg(StubLayout[1]) = StubLayout[1] /\ Arg(StubLayout[2]) = StubLayout[2]
      /\ Arg(StubLayout[3]) = StubLayout[3] /\ Arg(StubLayout[4]) = StubLayout[4]
      /\ Arg(StubLayout[5]) = StubLayout[5] /\ Arg(StubLayout[6]) = StubLayout[6]
      /\ Arg(StubLayout[7]) = StubLayout[7] /\ Arg(StubLayout[10]) = StubLayout[10]
      /\ Arg(StubLayout[11]) = StubLayout[11] /\ Arg(StubLayout[12]) = StubLayout[12]
      /\ Arg(StubLayout[13]) = StubLayout[13]
  BY <1>1
<1> QED BY <1>2, Fields

\* A part of kernel() goes on to the next one or faults; it sets the statics it
\* is meant to set, and reads none of the others before they are set.
LEMMA ExecuteDoes ==
  ASSUME NEW k, NEW reads, NEW sets, NEW pages, Execute(k, reads, sets, pages),
         \A s \in reads : statics[s] # "junk" \/ s = "bgcolor",
         unset \subseteq {"bgcolor"}
  PROVE  /\ pc = "running" /\ kpc = k /\ UNCHANGED vars
         /\ kpc' = Following(k) \/ kpc' = "fault"
         /\ \A s \in Statics \ DOMAIN sets : statics'[s] = statics[s]
         /\ \A s \in Statics \cap DOMAIN sets : statics'[s] = sets[s]
         /\ unset' \subseteq {"bgcolor"}
BY DEF Execute

LEMMA InitKernelInv == KernelInit => KernelInv
BY DEF KernelInit, KernelInv, AfterEntry, AfterVga, AfterTerminal, AfterMemory

\* A step of the boot is a step of the stub or leaves the stub's state alone.
LEMMA BootIsNext == [Boot]_allVars => [Next]_vars
BY DEF Boot, allVars, StubCode, Next, KernelCode, Interrupt, Entry, Cli, Fill, InitVga,
   InitTerminal, InitMemoryManagment, PrintHello, Execute

\* The stub takes no step once the kernel runs.
LEMMA StubStops ==
  ASSUME StubInv, pc = "running", [Next]_vars
  PROVE  pc' = "running" /\ UNCHANGED <<space, failures, base, content, FileSize, exited>>
<1>1. ~Stub
  <2>1. ~MMapReturns
    BY DEF MMapReturns, AS!Succeed, AS!Fail, StubInv, ControlInv, LoopNames
  <2>2. ~CallMMap
    BY DEF CallMMap, Loops
  <2> QED BY <2>1, <2>2 DEF Stub, OpenKernel, GetKernelInfo, AllocateKernel, ReadKernel,
          LocateGop, InitPageMap, EndImage, EndKernel, EndStack, Scan, AllocateFrameMap,
          EndFrameMap, EndFrameBuffer, EndLoop, GetFinalMemoryMap, ExitBootServices, Jump
<1> QED BY <1>1 DEF Next, FirmwareEvent, vars, asVars, ram, layout

LEMMA NextKernelInv == StubInv /\ KernelInv /\ [Boot]_allVars => KernelInv'
<1> SUFFICES ASSUME StubInv, KernelInv, [Boot]_allVars PROVE KernelInv'
  OBVIOUS
<1> USE DEF AfterEntry, AfterVga, AfterTerminal, AfterMemory
<1>0. unset \subseteq {"bgcolor"}
  BY DEF KernelInv
<1>1. CASE UNCHANGED kernelVars
  <2>1. pc = "running" => pc' = "running"
    BY BootIsNext, StubStops
  <2> QED BY <1>1, <2>1 DEF KernelInv, kernelVars
<1>2. CASE Entry
  <2>1. CASE ~CodeThere
    BY <1>2, <2>1 DEF Entry, KernelInv, vars, Execute
  <2>2. CASE CodeThere
    <3>1. Execute("entry", {}, [KernelArgs |-> "RDI"], {})
      BY <1>2, <2>2 DEF Entry
    <3>2. /\ pc = "running" /\ UNCHANGED vars /\ kpc' \in {"cli", "fault"}
          /\ \A s \in Statics \cap DOMAIN [KernelArgs |-> "RDI"] :
               statics'[s] = [KernelArgs |-> "RDI"][s]
          /\ unset' \subseteq {"bgcolor"}
      BY <1>0, <3>1, ExecuteDoes, FollowingIs
    <3>3. statics'["KernelArgs"] = "RDI"
      BY <3>2 DEF Statics
    <3> QED BY <3>2, <3>3 DEF KernelInv, vars
  <2> QED BY <2>1, <2>2
<1>3. CASE Cli
  <2>1. Execute("cli", {}, <<>>, {})
    BY <1>3 DEF Cli
  <2>2. /\ pc = "running" /\ kpc = "cli" /\ UNCHANGED vars /\ kpc' \in {"fill", "fault"}
        /\ \A s \in Statics \ DOMAIN <<>> : statics'[s] = statics[s]
        /\ unset' \subseteq {"bgcolor"}
    BY <1>0, <2>1, ExecuteDoes, FollowingIs
  <2>3. statics'["KernelArgs"] = statics["KernelArgs"]
    BY <2>2 DEF Statics
  <2> QED BY <2>2, <2>3 DEF KernelInv, vars
<1>4. CASE Fill
  <2>1. Execute("fill", {"KernelArgs"}, <<>>, PixelPages(Arg("framebuffer")))
    BY <1>4 DEF Fill
  <2>2. kpc = "fill" /\ statics["KernelArgs"] # "junk"
    BY <2>1 DEF Execute, KernelInv
  <2>3. /\ pc = "running" /\ UNCHANGED vars /\ kpc' \in {"vga", "fault"}
        /\ \A s \in Statics \ DOMAIN <<>> : statics'[s] = statics[s]
        /\ unset' \subseteq {"bgcolor"}
    BY <1>0, <2>1, <2>2, ExecuteDoes, FollowingIs
  <2>4. statics'["KernelArgs"] = statics["KernelArgs"]
    BY <2>3 DEF Statics
  <2> QED BY <2>2, <2>3, <2>4 DEF KernelInv, vars
<1>5. CASE InitVga
  <2> DEFINE sets == [framebuffer |-> Arg("framebuffer"), size |-> Arg("framebuffersize"),
                      pixel_per_scanline |-> Arg("PixelsPerScanline")]
  <2>1. Execute("vga", {"KernelArgs"}, sets, PixelPages(Arg("framebuffer")))
    BY <1>5 DEF InitVga
  <2>2. kpc = "vga" /\ statics["KernelArgs"] # "junk"
    BY <2>1 DEF Execute, KernelInv
  <2>3. /\ pc = "running" /\ UNCHANGED vars /\ kpc' \in {"terminal", "fault"}
        /\ \A s \in Statics \ DOMAIN sets : statics'[s] = statics[s]
        /\ \A s \in Statics \cap DOMAIN sets : statics'[s] = sets[s]
        /\ unset' \subseteq {"bgcolor"}
    <3> HIDE DEF sets
    <3> QED BY <1>0, <2>1, <2>2, ExecuteDoes, FollowingIs
  <2>4. /\ statics'["KernelArgs"] = statics["KernelArgs"]
        /\ statics'["framebuffer"] = "framebuffer" /\ statics'["size"] = "framebuffersize"
        /\ statics'["pixel_per_scanline"] = "PixelsPerScanline"
    BY <2>3, ArgsAre DEF Statics
  <2> QED BY <2>2, <2>3, <2>4 DEF KernelInv, vars
<1>6. CASE InitTerminal
  <2> DEFINE sets == [x |-> "0", y |-> "0", max_vertical |-> Arg("VerticalResolution"),
                      max_horizontal |-> Arg("HorizontalResolution")]
  <2>1. Execute("terminal", {"KernelArgs"}, sets, {})
    BY <1>6 DEF InitTerminal
  <2>2. kpc = "terminal" /\ statics["KernelArgs"] # "junk"
    BY <2>1 DEF Execute, KernelInv
  <2>3. /\ pc = "running" /\ UNCHANGED vars /\ kpc' \in {"memory", "fault"}
        /\ \A s \in Statics \ DOMAIN sets : statics'[s] = statics[s]
        /\ \A s \in Statics \cap DOMAIN sets : statics'[s] = sets[s]
        /\ unset' \subseteq {"bgcolor"}
    <3> HIDE DEF sets
    <3> QED BY <1>0, <2>1, <2>2, ExecuteDoes, FollowingIs
  <2>4. /\ \A s \in {"KernelArgs", "framebuffer", "size", "pixel_per_scanline"} :
             statics'[s] = statics[s]
        /\ statics'["x"] = "0" /\ statics'["y"] = "0"
        /\ statics'["max_vertical"] = "VerticalResolution"
        /\ statics'["max_horizontal"] = "HorizontalResolution"
    BY <2>3, ArgsAre DEF Statics
  <2> QED BY <2>2, <2>3, <2>4 DEF KernelInv, vars
<1>7. CASE InitMemoryManagment
  <2> DEFINE sets ==
               [memory_map |-> Arg("MemoryMap"), memory_map_size |-> Arg("MemoryMapSize"),
                descriptor_size |-> Arg("DescriptorSize"), frame_map |-> Arg("FrameMap"),
                frame_map_size |-> Arg("FrameMapSize"),
                temp_mapping_region |-> Arg("TempMappingRegion"),
                dynamic_memory |-> Arg("TempMappingRegion")]
  <2>1. Execute("memory", {"KernelArgs"}, sets, {})
    BY <1>7 DEF InitMemoryManagment
  <2>2. kpc = "memory" /\ statics["KernelArgs"] # "junk"
    BY <2>1 DEF Execute, KernelInv
  <2>3. /\ pc = "running" /\ UNCHANGED vars /\ kpc' \in {"print", "fault"}
        /\ \A s \in Statics \ DOMAIN sets : statics'[s] = statics[s]
        /\ \A s \in Statics \cap DOMAIN sets : statics'[s] = sets[s]
        /\ unset' \subseteq {"bgcolor"}
    <3> HIDE DEF sets
    <3> QED BY <1>0, <2>1, <2>2, ExecuteDoes, FollowingIs
  <2>4. \A s \in {"KernelArgs", "framebuffer", "size", "pixel_per_scanline", "x", "y",
                  "max_vertical", "max_horizontal"} : statics'[s] = statics[s]
    BY <2>3 DEF Statics
  <2>5. /\ statics'["memory_map"] = "MemoryMap"
        /\ statics'["memory_map_size"] = "MemoryMapSize"
        /\ statics'["descriptor_size"] = "DescriptorSize"
        /\ statics'["frame_map"] = "FrameMap" /\ statics'["frame_map_size"] = "FrameMapSize"
        /\ statics'["temp_mapping_region"] = "TempMappingRegion"
    BY <2>3, ArgsAre DEF Statics
  <2> QED BY <2>2, <2>3, <2>4, <2>5 DEF KernelInv, vars
<1>8. CASE PrintHello
  <2> DEFINE reads == {"x", "y", "max_horizontal", "bgcolor", "framebuffer",
                       "pixel_per_scanline"}
  <2>1. Execute("print", reads, <<>>, PixelPages(statics["framebuffer"]))
    BY <1>8 DEF PrintHello
  <2>2. kpc = "print" /\ \A s \in reads : statics[s] # "junk" \/ s = "bgcolor"
    BY <2>1 DEF Execute, KernelInv
  <2>3. /\ pc = "running" /\ UNCHANGED vars /\ kpc' \in {"idle", "fault"}
        /\ \A s \in Statics \ DOMAIN <<>> : statics'[s] = statics[s]
        /\ unset' \subseteq {"bgcolor"}
    BY <1>0, <2>1, <2>2, ExecuteDoes, FollowingIs
  <2>4. \A s \in Statics : statics'[s] = statics[s]
    BY <2>3
  <2> QED BY <2>2, <2>3, <2>4 DEF KernelInv, Statics, vars
<1>9. CASE Interrupt
  BY <1>9 DEF Interrupt, KernelInv, vars
<1> QED BY <1>1, <1>2, <1>3, <1>4, <1>5, <1>6, <1>7, <1>8, <1>9
        DEF Boot, StubCode, KernelCode, allVars

\* The stub and the kernel keep their invariants throughout a boot.
LEMMA BootInvariant == BootSpec => [](StubInv /\ KernelInv)
<1>1. KernelInit => StubInv /\ KernelInv
  BY InitStubInv, InitKernelInv DEF KernelInit
<1>2. StubInv /\ KernelInv /\ [Boot]_allVars => (StubInv /\ KernelInv)'
  BY BootIsNext, NextStubInv, NextKernelInv
<1> QED BY <1>1, <1>2, PTL DEF BootSpec

\* The two declarations of KERNEL_ARGS agree field by field, and every static of
\* the kernel is set from the field that belongs to it.
THEOREM ToldCorrect == BootSpec => []KernelIsTold
<1>1. KernelInv => KernelIsTold
  BY DEF KernelInv, KernelIsTold, Told, AfterEntry, AfterVga, AfterTerminal, AfterMemory
<1> QED BY <1>1, BootInvariant, PTL

\* Of the statics in the .bss that nobody clears, only bgcolor is read unset.
THEOREM UnsetCorrect == BootSpec => []OnlyBgcolorUnset
<1>1. KernelInv => OnlyBgcolorUnset
  BY DEF KernelInv, OnlyBgcolorUnset
<1> QED BY <1>1, BootInvariant, PTL

\* dynamic_memory lies below the stack, and nothing is mapped between them, for
\* every layout that leaves room for eight windows.
THEOREM DynamicMemoryCorrect == BootSpec => []DynamicMemoryIsFree
<1>1. StubInv /\ KernelInv => DynamicMemoryIsFree
  <2> SUFFICES ASSUME StubInv, KernelInv, kpc = "idle"
               PROVE  /\ DynamicMemory < TopPage - StackPages
                      /\ \A v \in DynamicMemory .. (TopPage - StackPages - 1) : space[v] = {}
    BY DEF DynamicMemoryIsFree, Mapped
  <2>1. pc = "running"
    BY DEF KernelInv
  <2>2. KernelArgs.TempMappingRegion = RegionAt * PageSize
    BY <2>1 DEF StubInv, PlacesInv, After, Final
  <2>3. DynamicMemory = HigherHalf + RegionAt + 8 * Fan
    BY <2>2, RegionIsThere DEF StubInv, DynamicMemory
  <2>4. HigherHalf + RegionAt \in Nat /\ 8 * Fan \in Nat \ {0}
    <3>1. HigherHalf \in Nat /\ Fan \in Nat \ {0} /\ RegionAt \in Nat
      BY SizesAssumption, LayoutFits DEF StubInv
    <3> QED BY <3>1
  <2>5. StackAt = TopPage - StackPages /\ StackAt \in Nat
    BY LayoutFits DEF StackAt, StubInv
  <2>6. HigherHalf + RegionAt + 8 * Fan < StackAt
    <3>1. FileSize \in 0 .. MaxFileSize /\ MaxAddress \in Ends
      BY DEF StubInv, TypeInv
    <3> QED BY <3>1, DynamicMemoryAssumption
            DEF RegionAt, BufferAt, KernelPages, FrameMapPages, SizeOfFrameMap, StackAt
  <2>7. ASSUME NEW v \in DynamicMemory .. (TopPage - StackPages - 1)
        PROVE  space[v] = {}
    <3>1. v \in Nat /\ v > HigherHalf + RegionAt /\ v < StackAt
      <4> HIDE DEF DynamicMemory
      <4> QED BY <2>3, <2>4, <2>5
    <3> QED BY <2>1, <3>1, GapIsFree
  <2> QED BY <2>3, <2>5, <2>6, <2>7
<1> QED BY <1>1, BootInvariant, PTL

\* If no call has failed, what the kernel touches is mapped when it is entered.
LEMMA WellMapped ==
  ASSUME StubInv, pc = "running", failures = 0
  PROVE  /\ \A v \in {BssPage, TopPage - 1, ImageBase + ArgsPage} : Mapped(v)
         /\ \A v \in PixelPages("framebuffer") : Mapped(v)
         /\ ~Overrun => CodeThere
<1>1. \A l \in LoopNames : \A k \in 0 .. (Count[l] - 1) :
        \E m \in space[First[l] + k] : m.frame = Source[l] + k
  BY AllShown
<1>2. /\ FileSize = KernelFileSize /\ StackPages > 0
      /\ \A p \in base.kernel .. (base.kernel + KernelPages - 1) : p \in Phys
      /\ \A p \in FilePages : content[p] = "file" \/ p = base.pml4 + 1
  BY DEF StubInv, LoadedInv, Lost, LoopNames, Final, After
<1>3. PagesFor(KernelFileSize) \in Nat /\ KernelPages = PagesFor(KernelFileSize) + Slack
      /\ Slack \in Nat \ {0} /\ HigherHalf \in Nat /\ ImageBase \in Nat
      /\ TopPage \in Nat /\ StackPages \in Nat /\ base.kernel \in Nat
  <2>1. PagesFor(KernelFileSize) \in Nat
    BY RoundsUp, SizesAssumption
  <2> QED BY <1>2, <2>1, SizesAssumption DEF KernelPages, StubInv, TypeInv, TypeOK
<1>4. \A k \in 0 .. (KernelPages - 1) :
        \E m \in space[HigherHalf + k] : m.frame = base.kernel + k
  <2>1. "kernel" \in LoopNames /\ First["kernel"] = HigherHalf
        /\ Source["kernel"] = base.kernel /\ Count["kernel"] = KernelPages
    BY DEF LoopNames, First, Source, Count
  <2> QED BY <1>1, <2>1
<1>5. Mapped(BssPage)
  <2>1. PagesFor(KernelFileSize) \in 0 .. (KernelPages - 1)
    BY <1>3
  <2> QED BY <1>4, <2>1 DEF Mapped, BssPage
<1>6. Mapped(TopPage - 1)
  <2>1. "stack" \in LoopNames /\ First["stack"] = TopPage - StackPages
        /\ Count["stack"] = StackPages
    BY DEF LoopNames, First, Count, StackAt
  <2>2. StackPages - 1 \in 0 .. (StackPages - 1)
    BY <1>2, <1>3
  <2>3. TopPage - StackPages + (StackPages - 1) = TopPage - 1
    BY <1>3
  <2> QED BY <1>1, <2>1, <2>2, <2>3 DEF Mapped
<1>7. Mapped(ImageBase + ArgsPage)
  <2>1. "image" \in LoopNames /\ First["image"] = ImageBase
        /\ Count["image"] = PagesFor(ImageSize)
    BY DEF LoopNames, First, Count
  <2>2. ArgsPage \in 0 .. (PagesFor(ImageSize) - 1)
    BY ArgsAssumption DEF ImagePages
  <2> QED BY <1>1, <2>1, <2>2 DEF Mapped
<1>8. \A v \in PixelPages("framebuffer") : Mapped(v)
  <2>1. \A n \in 0 .. (FrameBufferSize - 1) :
          MappedTo(KernelArgs.framebuffer + n, FrameBufferBase + n \div PageSize)
    BY StubHandsOver DEF HandOver
  <2> QED BY <2>1 DEF MappedTo, Mapped, PixelPages
<1>9. ASSUME ~Overrun PROVE CodeThere
  <2> SUFFICES ASSUME NEW n \in 0 .. (PagesFor(KernelFileSize) - 1)
               PROVE  \E m \in space[HigherHalf + n] :
                        m.frame \in Phys /\ content[m.frame] = "file"
    BY DEF CodeThere
  <2>1. PICK m \in space[HigherHalf + n] : m.frame = base.kernel + n
    <3>1. n \in 0 .. (KernelPages - 1)
      BY <1>3
    <3> QED BY <1>4, <3>1
  <2>2. /\ base.kernel + n \in FilePages
        /\ base.kernel + n \in base.kernel .. (base.kernel + KernelPages - 1)
    BY <1>2, <1>3, ReadFits DEF FilePages, StubInv
  <2>3. base.kernel + n # base.pml4 + 1
    BY <1>9, <2>2 DEF Overrun
  <2> QED BY <1>2, <2>1, <2>2, <2>3
<1> QED BY <1>5, <1>6, <1>7, <1>8, <1>9

\* The kernel of a clean boot dies of nothing but an interrupt before cli: each
\* of its calls touches only pages that WellMapped accounts for.
THEOREM CleanBootCorrect == BootSpec => CleanBootDiesOnlyBeforeCli
<1>1. StubInv /\ KernelInv /\ [Boot]_allVars =>
        [failures' = 0 /\ ~Overrun' /\ kpc' \in Dead =>
           kpc \in Dead \/ (kpc \in {"entry", "cli"} /\ ~exited)]_allVars
  <2> SUFFICES ASSUME StubInv, KernelInv, [Boot]_allVars, failures' = 0, ~Overrun',
                      kpc \notin Dead, ~(kpc \in {"entry", "cli"} /\ ~exited)
               PROVE  kpc' \notin Dead
    OBVIOUS
  <2>1. CASE pc # "running"
    <3>1. kpc = "entry"
      BY <2>1 DEF KernelInv
    <3>2. kpc' = kpc
      BY <2>1 DEF Boot, allVars, kernelVars, StubCode, KernelCode, Interrupt, Entry, Cli,
         Fill, InitVga, InitTerminal, InitMemoryManagment, PrintHello, Execute
    <3> QED BY <3>1, <3>2 DEF Dead
  <2>2. CASE pc = "running"
    <3>1. failures = 0 /\ ~Overrun
      <4>1. UNCHANGED <<failures, base, FileSize>> /\ pc' = pc
        BY <2>2, BootIsNext, StubStops
      <4> QED BY <4>1 DEF Overrun, FilePages, BytesRead, PagesFor
    <3>2. ~Interrupt
      BY DEF Interrupt
    <3>3. /\ \A v \in {BssPage, TopPage - 1, ImageBase + ArgsPage} : Mapped(v)
          /\ \A v \in PixelPages("framebuffer") : Mapped(v)
          /\ CodeThere
      BY <2>2, <3>1, WellMapped
    <3>4. ASSUME NEW k, NEW reads, NEW sets, NEW pages, Execute(k, reads, sets, pages),
                 \A v \in pages : Mapped(v)
          PROVE  kpc' = Following(k)
      BY <3>3, <3>4 DEF Execute
    <3>5. CASE UNCHANGED kpc
      BY <3>5
    <3>6. CASE Entry
      BY <3>3, <3>4, <3>6, FollowingIs DEF Entry, Dead
    <3>7. CASE Cli \/ InitTerminal \/ InitMemoryManagment
      BY <3>4, <3>7, FollowingIs DEF Cli, InitTerminal, InitMemoryManagment, Dead
    <3>8. CASE Fill \/ InitVga
      BY <3>3, <3>4, <3>8, FollowingIs, ArgsAre DEF Fill, InitVga, Dead
    <3>9. CASE PrintHello
      <4>1. kpc = "print"
        BY <3>9 DEF PrintHello, Execute
      <4>2. statics["framebuffer"] = "framebuffer"
        BY <4>1 DEF KernelInv, AfterVga, AfterTerminal, AfterMemory
      <4> QED BY <3>3, <3>4, <3>9, <4>2, FollowingIs DEF PrintHello, Dead
    <3> QED BY <3>2, <3>5, <3>6, <3>7, <3>8, <3>9
            DEF Boot, allVars, kernelVars, StubCode, KernelCode
  <2> QED BY <2>1, <2>2
<1> QED BY <1>1, BootInvariant, PTL DEF BootSpec, CleanBootDiesOnlyBeforeCli

\* A virtual page has at most one mapping.
SingleInv == \A v \in Virt : \A m, n \in space[v] : m = n

LEMMA InitSingleInv == Init => SingleInv
BY DEF Init, AS!Init, SingleInv

LEMMA NextSingleInv == TypeInv /\ SingleInv /\ [Next]_vars => SingleInv'
<1> SUFFICES ASSUME TypeInv, SingleInv, [Next]_vars, NEW v \in Virt
             PROVE  \A m, n \in space'[v] : m = n
  BY DEF SingleInv
<1>1. CASE space' = space
  BY <1>1 DEF SingleInv
<1>2. CASE \E m \in AS!Mapping : AS!Succeed(m)
  <2>1. PICK m : space' = [space EXCEPT ![arg.virt] = {m}]
    BY <1>2 DEF AS!Succeed
  <2>2. space'[v] = space[v] \/ space'[v] = {m}
    BY <2>1 DEF TypeInv, TypeOK
  <2> QED BY <2>2 DEF SingleInv
<1>3. space' = space \/ \E m \in AS!Mapping : AS!Succeed(m)
  BY DEF Next, Stub, vars, asVars, AS!Request, AS!Fail, MMapReturns, OpenKernel,
     GetKernelInfo, AllocateKernel, ReadKernel, LocateGop, InitPageMap, CallMMap,
     EndImage, EndKernel, EndStack, Scan, AllocateFrameMap, EndFrameMap,
     EndFrameBuffer, GetFinalMemoryMap, ExitBootServices, Jump, FirmwareEvent
<1> QED BY <1>1, <1>2, <1>3

\* A cleared page of the file is part of the kernel's instructions.
LEMMA OverrunHitsCode ==
  ASSUME StubInv, ClearedInv, SingleInv, pc = "running", failures = 0, Overrun
  PROVE  ~CodeThere
<1> DEFINE p == base.pml4 + 1
           n == p - base.kernel
<1>1. p \in FilePages /\ content[p] = "zero"
  BY OverrunZeroes DEF Overrun
<1>2. FileSize = KernelFileSize
  BY DEF StubInv, LoadedInv, Lost
<1>3. /\ base.kernel \in Nat /\ base.pml4 \in Nat /\ PagesFor(FileSize) \in Nat
      /\ Slack \in Nat /\ HigherHalf \in Nat /\ TopPage \in Nat
      /\ BytesRead = FileSize
  BY <1>2, ReadFits, SizesAreNat, SizesAssumption DEF StubInv, TypeInv, TypeOK
<1>4. /\ n \in 0 .. (PagesFor(FileSize) - 1) /\ n \in 0 .. (KernelPages - 1)
      /\ base.kernel + n = p
  BY <1>1, <1>3 DEF FilePages, KernelPages
<1> HIDE DEF n, p
<1>5. \E m \in space[HigherHalf + n] : m.frame = base.kernel + n
  <2>1. "kernel" \in LoopNames /\ First["kernel"] = HigherHalf
        /\ Source["kernel"] = base.kernel /\ Count["kernel"] = KernelPages
    BY DEF LoopNames, First, Source, Count
  <2> QED BY <1>4, <2>1, AllShown
<1>6. HigherHalf + n \in Virt
  <2>1. HigherHalf + KernelPages <= TopPage /\ KernelPages \in Nat
    <3>1. "kernel" \in LoopNames /\ First["kernel"] = HigherHalf
          /\ Count["kernel"] = KernelPages
      BY DEF LoopNames, First, Count
    <3> QED BY <3>1, LoopsApart DEF StubInv
  <2> QED BY <1>3, <1>4, <2>1 DEF Virt
<1>7. \A m \in space[HigherHalf + n] : m.frame = p
  BY <1>4, <1>5, <1>6 DEF SingleInv
<1>8. \A m \in space[HigherHalf + n] : content[m.frame] # "file"
  BY <1>1, <1>7
<1> QED BY <1>2, <1>4, <1>8 DEF CodeThere

\* A kernel that clearing the PML4 has hit never gets beyond its first
\* instruction: it goes wild there, or dies of an interrupt even before.
OverrunNeverRuns ==
  pc = "running" /\ failures = 0 /\ Overrun =>
    kpc \in {"entry", "wild"} \/ (kpc = "fault" /\ ~exited)

\* With CleanBootCorrect: interrupts apart, whether a boot without failures brings
\* up the kernel is decided by the place of the PML4 alone.
THEOREM OverrunCorrect == BootSpec => []OverrunNeverRuns
<1>1. KernelInit => OverrunNeverRuns /\ ClearedInv /\ SingleInv
  BY InitClearedInv, InitSingleInv DEF KernelInit, OverrunNeverRuns
<1>2. ASSUME StubInv, KernelInv, ClearedInv, SingleInv, OverrunNeverRuns, [Boot]_allVars
      PROVE  OverrunNeverRuns'
  <2> SUFFICES ASSUME pc' = "running", failures' = 0, Overrun'
               PROVE  kpc' \in {"entry", "wild"} \/ (kpc' = "fault" /\ ~exited')
    BY DEF OverrunNeverRuns
  <2>1. CASE pc # "running"
    <3>1. kpc = "entry"
      BY <1>2, <2>1 DEF KernelInv
    <3>2. kpc' = kpc
      BY <1>2, <2>1 DEF Boot, allVars, kernelVars, StubCode, KernelCode, Interrupt, Entry,
         Cli, Fill, InitVga, InitTerminal, InitMemoryManagment, PrintHello, Execute
    <3> QED BY <3>1, <3>2
  <2>2. CASE pc = "running"
    <3>1. failures = 0 /\ Overrun /\ exited' = exited
      <4>1. UNCHANGED <<failures, base, FileSize, exited>> /\ pc' = pc
        BY <1>2, <2>2, BootIsNext, StubStops
      <4> QED BY <4>1 DEF Overrun, FilePages, BytesRead, PagesFor
    <3>2. kpc \in {"entry", "wild"} \/ (kpc = "fault" /\ ~exited)
      BY <1>2, <2>2, <3>1 DEF OverrunNeverRuns
    <3>3. ~CodeThere
      BY <1>2, <2>2, <3>1, OverrunHitsCode
    <3>4. CASE Entry
      BY <3>3, <3>4 DEF Entry
    <3>5. ~(Cli \/ Fill \/ InitVga \/ InitTerminal \/ InitMemoryManagment \/ PrintHello)
      BY <3>2 DEF Cli, Fill, InitVga, InitTerminal, InitMemoryManagment, PrintHello, Execute
    <3>6. CASE Interrupt
      BY <3>1, <3>6 DEF Interrupt
    <3>7. CASE UNCHANGED kpc
      BY <3>1, <3>2, <3>7
    <3> QED BY <1>2, <3>4, <3>5, <3>6, <3>7
            DEF Boot, allVars, kernelVars, StubCode, KernelCode
  <2> QED BY <2>1, <2>2
<1>3. ASSUME StubInv, ClearedInv, SingleInv, [Boot]_allVars
      PROVE  ClearedInv' /\ SingleInv'
  BY <1>3, BootIsNext, NextClearedInv, NextSingleInv DEF StubInv
<1> QED BY <1>1, <1>2, <1>3, BootInvariant, PTL DEF BootSpec

\* The kernel never disturbs what the stub has set up: seen through the stub's
\* variables a boot is a run of the stub, so what is proved of the stub holds of
\* the boot as a whole.
THEOREM BootRunsTheStub == BootSpec => Init /\ [][Next]_vars
<1>1. KernelInit => Init
  BY DEF KernelInit
<1> QED BY <1>1, BootIsNext, PTL DEF BootSpec

=============================================================================

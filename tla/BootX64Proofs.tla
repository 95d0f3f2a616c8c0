---------------------------- MODULE BootX64Proofs ----------------------------
(***************************************************************************)
(* The reserve loop's wrapping arithmetic and the slack of BOOTX64, for    *)
(* every width of a word, size of a page and of a descriptor, for every    *)
(* family of memory maps and any number of events and failures.            *)
(***************************************************************************)
EXTENDS BootX64, TLAPS

-----------------------------------------------------------------------------
(* Arithmetic *)

\* Quotient and rest of a division.
LEMMA Division ==
  ASSUME NEW a \in Nat, NEW b \in Nat \ {0}
  PROVE  /\ a \div b \in Nat
         /\ a % b \in 0 .. (b - 1)
         /\ a = b * (a \div b) + (a % b)
  OBVIOUS

\* The distance between two multiples is a multiple.
LEMMA Multiples ==
  ASSUME NEW a \in Nat, NEW b \in Nat, NEW p \in Nat \ {0},
         a % p = 0, b % p = 0, b <= a
  PROVE  p * ((a - b) \div p) = a - b
<1> DEFINE q == a \div p
           s == b \div p
<1>1. q \in Nat /\ a = p * q /\ s \in Nat /\ b = p * s
  BY Division
<1> HIDE DEF q, s
<1>2. a - b = p * (q - s) /\ a - b \in Nat
  BY <1>1
<1>3. q - s \in Nat
  <2>1. ASSUME q < s PROVE FALSE
    <3>1. p * (s - q) >= p
      BY <1>1, <2>1
    <3>2. p * (s - q) = b - a
      BY <1>1
    <3> QED BY <3>1, <3>2
  <2> QED BY <1>1, <2>1
<1> DEFINE d == q - s
           r == (a - b) \div p
<1>4. r \in Nat /\ (a - b) % p \in 0 .. (p - 1) /\ a - b = p * r + ((a - b) % p)
  BY <1>2, Division
<1>5. d \in Nat /\ a - b = p * d
  BY <1>2, <1>3
<1> DEFINE m == (a - b) % p
<1>6. m \in 0 .. (p - 1) /\ p * d = p * r + m /\ r \in Nat
  BY <1>4, <1>5
<1> HIDE DEF d, m, r
<1>7. p * (d - r) = m
  BY <1>5, <1>6
<1>8. m = 0
  <2>1. CASE d <= r
    <3>1. p * (d - r) <= 0
      BY <1>5, <1>6, <2>1
    <3> QED BY <1>6, <1>7, <3>1
  <2>2. CASE d > r
    <3>1. p * (d - r) >= p
      BY <1>5, <1>6, <2>2
    <3> QED BY <1>6, <1>7, <3>1
  <2> QED BY <1>5, <1>6, <2>1, <2>2
<1> QED BY <1>5, <1>6, <1>8 DEF r

\* A map that does not fit has grown by more descriptors than the slack holds.
LEMMA TooLong ==
  ASSUME NEW n \in Nat, NEW q \in Nat, NEW s \in Nat, NEW d \in Nat \ {0},
         n * d > q * d + s
  PROVE  n > q + (s \div d)
<1> DEFINE k == s \div d
<1>1. k \in Nat /\ s >= d * k
  BY Division
<1> HIDE DEF k
<1>2. ASSUME n <= q + k PROVE FALSE
  <2>1. n * d <= (q + k) * d
    BY <1>1, <1>2
  <2>2. (q + k) * d = q * d + d * k
    BY <1>1
  <2>3. n * d \in Nat /\ q * d \in Nat /\ d * k \in Nat
    BY <1>1
  <2> QED BY <1>1, <2>1, <2>2, <2>3
<1>3. n > q + k
  BY <1>1, <1>2
<1> QED BY <1>3 DEF k

-----------------------------------------------------------------------------
(* A request of the reserve loop *)

\* Descriptors have the fields they should have.
LEMMA Descriptors ==
  ASSUME NEW m \in MemoryMaps
  PROVE  /\ Len(m) \in Nat
         /\ \A k \in 1 .. Len(m) :
              /\ m[k].start \in Nat /\ m[k].pages \in Nat
              /\ m[k].start % Page = 0
              /\ m[k].start + m[k].pages * Page < Word
<1> DEFINE D == [type : STRING, start : Nat, pages : Nat]
<1>1. m \in Seq(D)
  BY MemoryMapsAssumption
<1> HIDE DEF D
<1>2. Len(m) \in Nat /\ \A k \in 1 .. Len(m) : m[k] \in D
  BY <1>1
<1>3. \A k \in 1 .. Len(m) : m[k].start \in Nat /\ m[k].pages \in Nat
  BY <1>2 DEF D
<1> QED BY <1>2, <1>3, MemoryMapsAssumption

\* In a region that holds KernelAddress nothing wraps, and the pages from there on
\* end where the region does.
LEMMA NoWrap ==
  ASSUME NEW st \in Nat, NEW pg \in Nat, st % Page = 0,
         st + pg * Page < Word, st <= KernelAddress,
         (st + pg * Page) % Word >= KernelAddress
  PROVE  KernelAddress + ((pg - ((KernelAddress - st) % Word) \div Page) % Word) * Page
           = st + pg * Page
<1> DEFINE w == Word
           p == Page
           k == KernelAddress
<1>0. /\ w \in Nat \ {0} /\ p \in Nat \ {0}
      /\ k \in 0 .. (w - 1) /\ k % p = 0 /\ st % p = 0
      /\ st + pg * p < w /\ st <= k /\ (st + pg * p) % w >= k
  BY BootAssumption
<1> HIDE DEF w, p, k
<1> USE <1>0
<1> DEFINE end == st + pg * p
           a == k - st
           q == a \div p
           e == pg - q
<1>1. pg * p \in Nat /\ pg <= pg * p
  BY SMT
<1>2. end \in 0 .. (w - 1) /\ a \in 0 .. (w - 1)
  BY <1>1
<1>3. end % w = end /\ a % w = a
  <2> HIDE DEF end, a
  <2> QED BY <1>2
<1>4. end >= k
  BY <1>3
<1>5. p * q = a
  <2>1. k \in Nat
    BY <1>0
  <2> QED BY <1>0, <2>1, Multiples, Zenon
<1>6. q \in Nat
  <2>1. a \in Nat
    BY <1>2
  <2> QED BY <1>0, <2>1, Division, Zenon
<1> HIDE DEF q
<1>7. p * q <= p * pg
  BY <1>1, <1>4, <1>5
<1>8. q <= pg
  <2>1. ASSUME q > pg PROVE FALSE
    <3>1. p * (q - pg) >= p
      BY <1>6, <2>1
    <3>2. p * (q - pg) = p * q - p * pg
      BY <1>6
    <3>3. p * q \in Nat /\ p * pg \in Nat
      BY <1>6
    <3> QED BY <1>7, <3>1, <3>2, <3>3
  <2> QED BY <1>6, <2>1
<1>9. e \in 0 .. (w - 1)
  BY <1>1, <1>6, <1>8
<1>10. e % w = e
  <2> HIDE DEF e
  <2> QED BY <1>9
<1>11. e * p = pg * p - p * q
  BY <1>6
<1>12. k + e * p = end
  <2> HIDE DEF e
  <2> QED BY <1>1, <1>5, <1>11
<1> QED BY <1>3, <1>10, <1>12 DEF q, w, p, k

\* What a request r satisfies when the file has f pages' worth of bytes.
Good(r, f) ==
  /\ r.pages \in 0 .. (Word - 1)
  /\ r.pages <= f
  /\ r.entry.start <= KernelAddress =>
       KernelAddress + r.pages * Page <= r.entry.start + r.entry.pages * Page

\* Whatever the subtractions wrap to, the smaller of the two numbers is right:
\* for a region that holds KernelAddress neither wraps.
LEMMA RequestsAreGood ==
  ASSUME FileSize \in Nat, NEW d,
         d.start \in Nat, d.pages \in Nat, d.start % Page = 0,
         d.start + d.pages * Page < Word, Matches(d)
  PROVE  Good([entry |-> d, pages |-> ReserveSize(d)], ReserveFromFile)
<1> DEFINE f == ReserveFromFile
           g == ReserveFromMap(d)
           n == ReserveSize(d)
           r == [entry |-> d, pages |-> n]
<1>1. /\ Word \in Nat \ {0} /\ Page \in Nat \ {0}
      /\ KernelAddress \in 0 .. (Word - 1) /\ KernelAddress % Page = 0
  BY BootAssumption
<1>2. f \in Nat
  BY <1>1, Division DEF ReserveFromFile
<1>3. g \in 0 .. (Word - 1)
  <2> DEFINE k == ((KernelAddress - d.start) % Word) \div Page
             e == d.pages - k
  <2>1. (KernelAddress - d.start) % Word \in Nat
    BY <1>1
  <2>2. k \in Nat
    BY <1>1, <2>1, Division
  <2>3. g = e % Word
    BY DEF ReserveFromMap
  <2> HIDE DEF k
  <2>4. e \in Int
    BY <2>2
  <2> HIDE DEF e, g
  <2> QED BY <1>1, <2>3, <2>4
<1>4. n \in {f, g} /\ n <= f /\ n <= g
  <2>1. n = IF g > f THEN f ELSE g
    BY DEF ReserveSize
  <2> HIDE DEF f, g, n
  <2> QED BY <1>2, <1>3, <2>1
<1>5. ASSUME d.start <= KernelAddress
      PROVE  KernelAddress + n * Page <= d.start + d.pages * Page
  <2> DEFINE st == d.start
             pg == d.pages
  <2>1. (st + pg * Page) % Word >= KernelAddress
    BY DEF Matches
  <2>2. /\ g \in Nat
        /\ KernelAddress + g * Page = st + pg * Page
    <3> HIDE DEF st, pg
    <3>1. st \in Nat /\ pg \in Nat /\ st % Page = 0 /\ st + pg * Page < Word
      BY DEF st, pg
    <3>2. st <= KernelAddress
      BY <1>5 DEF st
    <3>3. KernelAddress + ((pg - ((KernelAddress - st) % Word) \div Page) % Word) * Page
            = st + pg * Page
      BY <2>1, <3>1, <3>2, NoWrap, Zenon
    <3> QED BY <1>3, <3>3 DEF ReserveFromMap, st, pg
  <2> HIDE DEF n, g
  <2>3. n \in Nat /\ n <= g
    BY <1>2, <1>3, <1>4 DEF f
  <2>4. n * Page <= g * Page
    BY <1>1, <2>2, <2>3
  <2>5. n * Page \in Nat /\ g * Page \in Nat
    BY <1>1, <2>2, <2>3
  <2> QED BY <1>1, <2>2, <2>4, <2>5 DEF st, pg
<1>6. r.entry = d /\ r.pages = n
  OBVIOUS
<1>7. n \in 0 .. (Word - 1)
  <2> HIDE DEF f, g, n
  <2> QED BY <1>1, <1>2, <1>3, <1>4
<1> HIDE DEF n
<1>8. Good(r, f)
  BY <1>4, <1>5, <1>6, <1>7 DEF Good
<1> QED BY <1>8 DEF n

-----------------------------------------------------------------------------
(* The inductive invariant *)

BeforeReserve == {"query", "pool", "fetch", "volume", "info"}

\* What MemoryMapSize is, at each stage of the two calls and in the loop.
SizeOfMap ==
  /\ pc = "pool" => MemoryMapSize = queried * DescriptorSize
  /\ pc = "fetch" => MemoryMapSize = queried * DescriptorSize + Slack
  /\ pc \in {"volume", "info", "reserve"} =>
       /\ MemoryMap \in MemoryMaps
       /\ MemoryMapSize = Len(MemoryMap) * DescriptorSize

GoodRequests ==
  /\ pc \in BeforeReserve => requests = {}
  /\ \A r \in requests : Good(r, ReserveFromFile)

IInv ==
  /\ TypeOK
  /\ firmware_map \in MemoryMaps
  /\ SizeOfMap
  /\ GoodRequests
  /\ GivesUpOnlyIfMapGrew

LEMMA InitIInv == Init => IInv
BY DEF Init, IInv, TypeOK, SizeOfMap, GoodRequests, GivesUpOnlyIfMapGrew,
       BeforeReserve

\* The firmware's map is one of the possible maps, with a length.
LEMMA Lengths ==
  ASSUME NEW m \in MemoryMaps
  PROVE  Len(m) \in Nat /\ Len(m) * DescriptorSize \in Nat
<1>1. Len(m) \in Nat /\ DescriptorSize \in Nat
  BY Descriptors, BootAssumption
<1> QED BY <1>1

\* Requests stay good as long as there are no new ones.
LEMMA RequestsKept ==
  ASSUME IInv, requests' = requests,
         FileSize' = FileSize \/ pc = "info",
         pc' \in BeforeReserve => pc \in BeforeReserve
  PROVE  GoodRequests'
BY DEF IInv, GoodRequests, BeforeReserve, ReserveFromFile

\* The steps up to the fetched map: there are no requests yet.
LEMMA MapIInv ==
  ASSUME IInv, QuerySize \/ AllocateMap \/ FetchMap
  PROVE  IInv'
<1> DEFINE s == DescriptorSize
           len == Len(firmware_map)
           k == Slack \div s
<1>0. /\ s \in Nat \ {0} /\ Slack \in Nat /\ len \in Nat /\ len * s \in Nat
      /\ queried \in Nat /\ queried * s \in Nat /\ failures \in Nat /\ MemoryMapSize \in Nat
  <2>1. s \in Nat \ {0} /\ Slack \in Nat
    BY BootAssumption
  <2>2. queried \in Nat /\ failures \in Nat /\ MemoryMapSize \in Nat
    BY DEF IInv, TypeOK
  <2> QED BY <2>1, <2>2, Lengths DEF IInv
<1>1. UNCHANGED <<i, kernelVars, stubVars, events>> /\ pc \in {"query", "pool", "fetch"}
  BY DEF QuerySize, AllocateMap, FetchMap
<1>2. GoodRequests'
  BY <1>1, RequestsKept DEF kernelVars, BeforeReserve
<1>3. failures' \in Nat /\ pc' \in {"pool", "fetch", "volume", "returned"}
  BY <1>0 DEF QuerySize, AllocateMap, FetchMap, OneMoreFailure
<1>4. firmware_map' \in MemoryMaps
  BY DEF QuerySize, AllocateMap, FetchMap, ChangedMaps, IInv
<1>5. MemoryMapSize' \in Nat /\ queried' \in Nat
  BY <1>0 DEF QuerySize, AllocateMap, FetchMap, PaddedSize
<1>6. TypeOK'
  BY <1>1, <1>3, <1>5 DEF IInv, TypeOK, kernelVars, stubVars
<1>7. SizeOfMap'
  BY <1>1 DEF IInv, SizeOfMap, QuerySize, AllocateMap, FetchMap, PaddedSize
<1>8. GivesUpOnlyIfMapGrew'
  <2> SUFFICES ASSUME pc' = "returned", failures' = 0
               PROVE  (len > queried + k)'
    BY DEF GivesUpOnlyIfMapGrew
  <2>1. /\ pc = "fetch" /\ UNCHANGED <<firmware_map, queried>>
        /\ len * s > MemoryMapSize
    BY <1>0 DEF QuerySize, AllocateMap, FetchMap, OneMoreFailure
  <2>2. MemoryMapSize = queried * s + Slack
    BY <2>1 DEF IInv, SizeOfMap
  <2>3. len > queried + k
    BY <1>0, <2>1, <2>2, TooLong, Zenon
  <2> QED BY <2>1, <2>3
<1> QED BY <1>2, <1>4, <1>6, <1>7, <1>8 DEF IInv

\* A turn of the reserve loop adds at most one request, and a good one.
LEMMA ReserveIInv ==
  ASSUME IInv, ReserveEntry
  PROVE  IInv'
<1> DEFINE n == i \div DescriptorSize + 1
           d == MemoryMap[n]
           r == [entry |-> d, pages |-> ReserveSize(d)]
<1>1. /\ pc = "reserve" /\ i < MemoryMapSize /\ i \in Nat /\ DescriptorSize \in Nat \ {0}
      /\ MemoryMap \in MemoryMaps /\ MemoryMapSize = Len(MemoryMap) * DescriptorSize
  BY BootAssumption DEF ReserveEntry, IInv, TypeOK, SizeOfMap
<1>2. n \in 1 .. Len(MemoryMap)
  <2> DEFINE k == i \div DescriptorSize
             s == DescriptorSize
             l == Len(MemoryMap)
  <2>1. k \in Nat /\ s * k <= i /\ i < l * s /\ l \in Nat /\ s \in Nat \ {0}
    <3>1. k \in Nat /\ i = s * k + (i % s) /\ i % s \in 0 .. (s - 1)
      BY <1>1, Division, Zenon
    <3> HIDE DEF k
    <3> QED BY <1>1, <3>1, Lengths
  <2> HIDE DEF k, s, l
  <2>2. ASSUME k >= l PROVE FALSE
    <3>1. s * k >= s * l /\ s * k \in Nat /\ s * l = l * s
      BY <2>1, <2>2
    <3> QED BY <1>1, <2>1, <3>1
  <2>3. k + 1 \in 1 .. l
    BY <2>1, <2>2
  <2> QED BY <2>3 DEF k, l
<1>3. /\ pc' \in {"reserve", "wild"} /\ requests' \in {requests, requests \cup {r}}
      /\ ~Matches(d) => requests' = requests
  BY <1>1 DEF ReserveEntry
<1>4. Matches(d) => Good(r, ReserveFromFile)
  <2> HIDE DEF d
  <2>1. /\ d.start \in Nat /\ d.pages \in Nat /\ d.start % Page = 0
        /\ d.start + d.pages * Page < Word
    BY <1>1, <1>2, Descriptors DEF d
  <2> QED BY <2>1, RequestsAreGood DEF IInv, TypeOK
<1>5. UNCHANGED <<mapVars, FileSize, stubVars, events, failures>> /\ i' = NextDescriptor
  BY DEF ReserveEntry
<1> HIDE DEF d, r
<1>6. GoodRequests'
  BY <1>3, <1>4, <1>5 DEF IInv, GoodRequests, BeforeReserve, ReserveFromFile, Good
<1>7. TypeOK'
  <2>1. \A q \in requests' : q.pages \in 0 .. (Word - 1)
    BY <1>6 DEF GoodRequests, Good
  <2>2. i' \in Nat
    BY <1>1, <1>5 DEF NextDescriptor
  <2> QED BY <1>3, <1>5, <2>1, <2>2 DEF IInv, TypeOK, mapVars, stubVars
<1> QED BY <1>1, <1>3, <1>5, <1>6, <1>7
        DEF IInv, SizeOfMap, GivesUpOnlyIfMapGrew, mapVars

\* The steps that neither ask for anything nor touch the map.
LEMMA OtherIInv ==
  ASSUME IInv,
         \/ OpenKernel \/ GetInfo \/ EndReserve \/ MakeDevicePath \/ LoadStub
         \/ StartStub \/ StubReturns
  PROVE  IInv'
<1>1. /\ UNCHANGED <<i, mapVars, requests, events>> /\ pc' # "returned"
      /\ FileSize' = FileSize \/ pc = "info"
      /\ pc' \in {"volume", "info", "reserve"} => pc \in {"volume", "info", "reserve"}
      /\ pc' \in {"info", "reserve", "path", "load", "start", "started", "waiting", "wild"}
      /\ pc' = "info" => pc = "volume"
  BY DEF OpenKernel, GetInfo, EndReserve, MakeDevicePath, LoadStub, StartStub,
         StubReturns, kernelVars
<1>2. FileSize' \in Nat /\ failures' \in Nat
  <2>1. Word - 1 \in Nat /\ KernelFileSize \in Nat
    BY BootAssumption
  <2>2. FileSize \in Nat /\ failures \in Nat
    BY DEF IInv, TypeOK
  <2>3. FileSize' = FileSize \/ FileSize' = KernelFileSize \/ FileSize' \in 0 .. (Word - 1)
    BY DEF OpenKernel, GetInfo, EndReserve, MakeDevicePath, LoadStub, StartStub,
           StubReturns, kernelVars
  <2>4. failures' = failures \/ failures' = failures + 1
    BY DEF OpenKernel, GetInfo, EndReserve, MakeDevicePath, LoadStub, StartStub,
           StubReturns, OneMoreFailure
  <2> QED BY <2>1, <2>2, <2>3, <2>4
<1>3. /\ DevicePath' \in {"NULL", "file only", "complete"}
      /\ EfiStubHandle' \in {"unset", "garbage", "stub"}
  BY DEF IInv, TypeOK, OpenKernel, GetInfo, EndReserve, MakeDevicePath, LoadStub,
         StartStub, StubReturns, stubVars
<1>4. TypeOK'
  BY <1>1, <1>2, <1>3 DEF IInv, TypeOK, mapVars
<1>5. GoodRequests'
  BY <1>1, RequestsKept DEF BeforeReserve
<1>6. SizeOfMap' /\ firmware_map' \in MemoryMaps
  BY <1>1 DEF IInv, SizeOfMap, mapVars
<1> QED BY <1>1, <1>4, <1>5, <1>6 DEF IInv, GivesUpOnlyIfMapGrew

\* An event changes the firmware's own map and nothing else.
LEMMA EventIInv ==
  ASSUME IInv, Event
  PROVE  IInv'
<1>1. /\ UNCHANGED <<pc, i, MemoryMap, MemoryMapSize, queried, kernelVars, stubVars, failures>>
      /\ firmware_map' \in MemoryMaps /\ pc # "returned" /\ events' = events + 1
  BY DEF Event, ChangedMaps
<1>2. TypeOK'
  <2>1. events \in Nat
    BY DEF IInv, TypeOK
  <2>2. events' \in Nat
    BY <1>1, <2>1
  <2> QED BY <1>1, <2>2 DEF IInv, TypeOK, kernelVars, stubVars
<1>3. GoodRequests'
  BY <1>1, RequestsKept DEF kernelVars
<1> QED BY <1>1, <1>2, <1>3 DEF IInv, SizeOfMap, GivesUpOnlyIfMapGrew

LEMMA NextIInv == IInv /\ [Next]_vars => IInv'
<1> SUFFICES ASSUME IInv, [Next]_vars PROVE IInv'
  OBVIOUS
<1>1. CASE UNCHANGED vars
  BY <1>1 DEF vars, mapVars, kernelVars, stubVars, IInv, TypeOK, SizeOfMap,
              GoodRequests, ReserveFromFile, GivesUpOnlyIfMapGrew
<1> QED BY <1>1, MapIInv, ReserveIInv, OtherIInv, EventIInv DEF Next, Loader

LEMMA Inductive == Spec => []IInv
BY InitIInv, NextIInv, PTL DEF Spec

-----------------------------------------------------------------------------
(* Theorems *)

\* The page counts that the reserve loop passes to AllocatePages are words.
THEOREM TypeCorrect == Spec => []TypeOK
<1>1. IInv => TypeOK
  BY DEF IInv
<1> QED BY <1>1, Inductive, PTL

\* Although the loop compares the wrong start and its subtractions may wrap, no
\* request is for more pages than the file has or than lie between KernelAddress
\* and the end of the region.
THEOREM ReserveCorrect == Spec => []ReservesWithinRegion
<1>1. IInv => ReservesWithinRegion
  BY DEF IInv, GoodRequests, Good, ReservesWithinRegion
<1> QED BY <1>1, Inductive, PTL

\* Without a failed call the loader gives up only if the map grew by more
\* descriptors than its 100 bytes of slack hold.
THEOREM GivesUpCorrect == Spec => []GivesUpOnlyIfMapGrew
<1>1. IInv => GivesUpOnlyIfMapGrew
  BY DEF IInv
<1> QED BY <1>1, Inductive, PTL

\* The parts of BOOTX64 in the order in which they run.
Rank ==
  [query |-> 0, pool |-> 1, fetch |-> 2, volume |-> 3, info |-> 4, reserve |-> 5,
   path |-> 6, load |-> 7, start |-> 8, started |-> 9,
   waiting |-> 10, returned |-> 10, wild |-> 10]

\* Bytes of the map that the reserve loop has still to visit.
Remaining == IF pc = "reserve" /\ i < MemoryMapSize THEN MemoryMapSize - i ELSE 0

\* Every step of the loader goes on to a later part or nearer to the end of the
\* map, and the firmware's events take nothing of that back.
LoaderAdvances ==
  [][\/ Rank[pc'] > Rank[pc]
     \/ pc' = pc /\ Remaining \in Nat /\ Remaining' \in Nat /\ Remaining' < Remaining
     \/ Event /\ UNCHANGED <<pc, Remaining>>]_vars

\* The loader cannot run in circles: the reserve loop walks a copy of the map
\* that no event changes, in steps of a whole descriptor.
THEOREM Advances == Spec => LoaderAdvances
<1>1. IInv /\ [Next]_vars =>
        [\/ Rank[pc'] > Rank[pc]
         \/ pc' = pc /\ Remaining \in Nat /\ Remaining' \in Nat /\ Remaining' < Remaining
         \/ Event /\ UNCHANGED <<pc, Remaining>>]_vars
  <2> SUFFICES ASSUME IInv, Next
               PROVE  \/ Rank[pc'] > Rank[pc]
                      \/ /\ pc' = pc /\ Remaining \in Nat /\ Remaining' \in Nat
                         /\ Remaining' < Remaining
                      \/ Event /\ UNCHANGED <<pc, Remaining>>
    OBVIOUS
  <2>1. CASE QuerySize \/ AllocateMap \/ FetchMap \/ OpenKernel \/ GetInfo
    BY <2>1 DEF QuerySize, AllocateMap, FetchMap, OpenKernel, GetInfo, Rank
  <2>2. CASE EndReserve \/ MakeDevicePath \/ LoadStub \/ StartStub \/ StubReturns
    <3>1. \/ pc = "reserve" /\ pc' = "path"
          \/ pc = "path" /\ pc' \in {"load", "wild"}
          \/ pc = "load" /\ pc' \in {"start", "wild"}
          \/ pc = "start" /\ pc' \in {"started", "waiting"}
          \/ pc = "started" /\ pc' = "waiting"
      BY <2>2 DEF EndReserve, MakeDevicePath, LoadStub, StartStub, StubReturns
    <3> QED BY <3>1 DEF Rank
  <2>3. CASE Event
    BY <2>3 DEF Event, Remaining
  <2>4. CASE ReserveEntry
    <3>1. /\ pc = "reserve" /\ i < MemoryMapSize /\ pc' \in {"reserve", "wild"}
          /\ i' = i + DescriptorSize /\ MemoryMapSize' = MemoryMapSize
      BY <2>4 DEF ReserveEntry, NextDescriptor, mapVars
    <3>2. i \in Nat /\ MemoryMapSize \in Nat /\ DescriptorSize \in Nat \ {0}
      BY BootAssumption DEF IInv, TypeOK
    <3>3. CASE pc' = "wild"
      BY <3>1, <3>3 DEF Rank
    <3>4. CASE pc' = pc
      BY <3>1, <3>2, <3>4 DEF Remaining
    <3> QED BY <3>1, <3>3, <3>4
  <2> QED BY <2>1, <2>2, <2>3, <2>4 DEF Next, Loader
<1> QED BY <1>1, Inductive, PTL DEF Spec, LoaderAdvances

=============================================================================

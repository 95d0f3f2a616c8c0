-------------------------- MODULE InterruptsProofs --------------------------
(***************************************************************************)
(* The gates of the interrupt table lead to the routines they were set to, *)
(* for every width of a half word, size of the table and initial junk.     *)
(***************************************************************************)
EXTENDS Interrupts, TLAPS

-----------------------------------------------------------------------------
(* Taking an address apart and putting it together *)

\* Quotient and rest of a division.
LEMMA Division ==
  ASSUME NEW a \in Nat, NEW b \in Nat \ {0}
  PROVE  /\ a \div b \in Nat
         /\ a % b \in 0 .. (b - 1)
         /\ a = b * (a \div b) + (a % b)
  OBVIOUS

\* There is only one way to divide.
LEMMA DivisionUnique ==
  ASSUME NEW b \in Nat \ {0}, NEW q \in Nat, NEW r \in 0 .. (b - 1),
         NEW p \in Nat, NEW s \in 0 .. (b - 1),
         b * q + r = b * p + s
  PROVE  q = p
<1>1. ASSUME q < p PROVE FALSE
  <2>1. b * (p - q) >= b
    BY <1>1
  <2> QED BY <2>1
<1>2. ASSUME p < q PROVE FALSE
  <2>1. b * (q - p) >= b
    BY <1>2
  <2> QED BY <2>1
<1> QED BY <1>1, <1>2

\* Dividing twice is dividing by the square.
LEMMA DivideTwice ==
  ASSUME NEW a \in Nat, NEW b \in Nat \ {0}
  PROVE  a \div (b * b) = (a \div b) \div b
<1> DEFINE q == a \div b
           r == a % b
           p == q \div b
           s == q % b
<1>1. q \in Nat /\ r \in 0 .. (b - 1) /\ a = b * q + r
  BY Division
<1>2. p \in Nat /\ s \in 0 .. (b - 1) /\ q = b * p + s
  BY <1>1, Division
<1> HIDE DEF q, r, p, s
<1>3. a = (b * b) * p + (b * s + r)
  BY <1>1, <1>2
<1>4. b * s + r \in 0 .. (b * b - 1)
  <2>1. b * s <= b * (b - 1)
    BY <1>2
  <2>2. b * s \in Nat
    BY <1>2
  <2>3. b * (b - 1) = b * b - b
    OBVIOUS
  <2> QED BY <1>1, <2>1, <2>2, <2>3
<1>5. b * b \in Nat \ {0}
  OBVIOUS
<1>6. PICK u \in Nat, v \in 0 .. (b * b - 1) :
        u = a \div (b * b) /\ a = (b * b) * u + v
  BY <1>5, Division
<1>7. u = p
  <2> DEFINE c == b * b
             w == b * s + r
  <2>1. /\ c \in Nat \ {0} /\ w \in 0 .. (c - 1) /\ v \in 0 .. (c - 1)
        /\ p \in Nat /\ c * u + v = c * p + w
    BY <1>2, <1>3, <1>4, <1>5, <1>6
  <2> HIDE DEF c, w
  <2> QED BY <2>1, DivisionUnique
<1> QED BY <1>6, <1>7 DEF p, q

\* Three digits make the number they were taken from.
LEMMA Recompose ==
  ASSUME NEW b \in Nat, NEW a \in Nat, NEW q \in Nat, NEW r \in Nat,
         NEW p \in Nat, NEW s \in Nat, a = b * q + r, q = b * p + s
  PROVE  a = r + b * s + (b * b) * p
<1>1. b * (b * p + s) = (b * b) * p + b * s
  OBVIOUS
<1> QED BY <1>1

\* The processor puts together exactly the address that SetIDTGate took apart,
\* and finds every other member as it wants it.
LEMMA GateLeadsToAddress ==
  ASSUME NEW a \in Addresses, NEW g \in [Members -> Nat],
         \A m \in Members : g[m] = Gate(a)[m]
  PROVE  Usable(g) /\ Target(g) = a
<1> DEFINE q == a \div Half
           r == a % Half
           p == q \div Half
           s == q % Half
           c == Half * Half
<1>0. a \in Nat /\ Half \in Nat \ {0}
  BY InterruptsAssumption
<1>1. a < c * c /\ c \in Nat \ {0}
  BY InterruptsAssumption
<1>2. /\ g[offset_1] = r /\ g[offset_2] = s
      /\ g[offset_3] = (a \div c) % c
      /\ Usable(g)
  BY GDTAssumption DEF Gate, SecondPart, Usable, Members, offset_1, offset_2, offset_3,
         selector, ist, type_attributes, zero
<1>3. q \in Nat /\ r \in Nat /\ a = Half * q + r
  <2>1. q \in Nat /\ r \in 0 .. (Half - 1) /\ a = Half * q + r
    BY <1>0, Division
  <2> HIDE DEF q, r
  <2> QED BY <1>0, <2>1
<1>4. p \in Nat /\ s \in Nat /\ q = Half * p + s
  <2> HIDE DEF q
  <2>1. p \in Nat /\ s \in 0 .. (Half - 1) /\ q = Half * p + s
    BY <1>0, <1>3, Division
  <2> HIDE DEF p, s
  <2> QED BY <1>0, <2>1
<1>5. a \div c = p
  BY <1>0, DivideTwice
<1> HIDE DEF q, r, p, s
<1>6. a = r + Half * s + c * p
  BY <1>0, <1>3, <1>4, Recompose
<1>7. Half * s \in Nat
  BY <1>0, <1>4
<1> HIDE DEF c
<1>8. p < c
  <2>1. ASSUME p >= c PROVE FALSE
    <3>1. c * p >= c * c
      BY <1>1, <1>4, <2>1
    <3> QED BY <1>0, <1>1, <1>3, <1>4, <1>6, <1>7, <3>1
  <2> QED BY <1>1, <1>4, <2>1
<1>9. p % c = p
  BY <1>1, <1>4, <1>8
<1> QED BY <1>2, <1>5, <1>6, <1>9 DEF Target, c

-----------------------------------------------------------------------------
(* The inductive invariant *)

\* The members stored so far hold their parts of the address in progress.
StoredSoFar ==
  store # Quiet =>
    \A m \in Members :
      m < store.next => interrupt_gate[store.entry][m] = Gate(store.address)[m]

\* The members still to be stored are those of the routine being replaced.
YetToStore ==
  store # Quiet /\ routines[store.entry] # None =>
    \A m \in Members :
      m >= store.next =>
        interrupt_gate[store.entry][m] = Gate(routines[store.entry])[m]

\* A gate that is set, and not being set again, is the gate of its routine.
SetGates ==
  \A n \in Entries :
    routines[n] # None /\ store.entry # n =>
      \A m \in Members : interrupt_gate[n][m] = Gate(routines[n])[m]

IInv ==
  /\ interrupt_gate \in [Entries -> [Members -> Nat]]
  /\ routines \in [Entries -> Addresses \cup {None}]
  /\ store = Quiet \/ store \in [entry : Entries, address : Addresses, next : 1 .. 7]
  /\ idtr \in {None, Limit}
  /\ StoredSoFar
  /\ YetToStore
  /\ SetGates

\* The limit of the table reaches the last byte of each of its gates.
LEMMA LimitCoversTable ==
  ASSUME NEW n \in Entries, idtr = Limit
  PROVE  Accepts(n)
<1> DEFINE size == IDT_ENTRIES * GateSize
<1>1. size \in Nat /\ size - 1 \in 0 .. (Half - 1) /\ Half \in Nat \ {0}
  BY InterruptsAssumption
<1>2. (n + 1) * GateSize <= size
  BY InterruptsAssumption DEF Entries
<1>3. (n + 1) * GateSize = n * GateSize + GateSize /\ n * GateSize \in Nat
  BY InterruptsAssumption DEF Entries
<1>4. Limit = (size - 1) % Half
  BY DEF Limit
<1> HIDE DEF size
<1>5. (size - 1) % Half = size - 1
  BY <1>1
<1> QED BY <1>1, <1>2, <1>3, <1>4, <1>5, InterruptsAssumption DEF Accepts

\* Every part of an address is a number.
LEMMA GateType ==
  ASSUME NEW a \in Addresses, NEW m \in Members
  PROVE  Gate(a)[m] \in Nat
<1>1. a \in Nat /\ Half \in Nat \ {0} /\ Half * Half \in Nat \ {0}
  BY InterruptsAssumption
<1>2. /\ a % Half \in Nat /\ SecondPart(a) \in Nat
      /\ (a \div (Half * Half)) % (Half * Half) \in Nat
  BY <1>1, Division DEF SecondPart
<1> QED BY <1>2 DEF Gate

LEMMA InitIInv == Init => IInv
<1> SUFFICES ASSUME Init PROVE IInv
  OBVIOUS
<1>1. interrupt_gate \in [Entries -> [Members -> Nat]]
  BY InterruptsAssumption DEF Init, Members
<1> QED BY <1>1 DEF Init, IInv, StoredSoFar, YetToStore, SetGates

LEMMA StoreIInv ==
  ASSUME IInv, StoreMember
  PROVE  IInv'
<1> DEFINE e == store.entry
           a == store.address
           k == store.next
<1>1. /\ store # Quiet /\ e \in Entries /\ a \in Addresses /\ k \in Members
      /\ e # None
  BY DEF IInv, StoreMember, Members, Entries, None
<1>2. /\ interrupt_gate' \in [Entries -> [Members -> Nat]]
      /\ interrupt_gate'[e][k] = Gate(a)[k]
      /\ \A m \in Members \ {k} : interrupt_gate'[e][m] = interrupt_gate[e][m]
      /\ \A n \in Entries \ {e} : interrupt_gate'[n] = interrupt_gate[n]
  BY <1>1, GateType DEF IInv, StoreMember, Member
<1>0. idtr' \in {None, Limit}'
  BY DEF IInv, StoreMember, Limit, None
<1>3. CASE k < 7
  <2>1. /\ store' = [entry |-> e, address |-> a, next |-> k + 1]
        /\ routines' = routines
    BY <1>3 DEF StoreMember
  <2>2. store' \in [entry : Entries, address : Addresses, next : 1 .. 7]
    BY <1>1, <1>3, <2>1 DEF Members
  <2>3. StoredSoFar'
    <3>1. \A m \in Members : m < k + 1 => m < k \/ m = k
      BY <1>1 DEF Members
    <3> QED BY <1>1, <1>2, <2>1, <3>1 DEF IInv, StoredSoFar
  <2>4. YetToStore'
    <3>1. \A m \in Members : m >= k + 1 => m >= k /\ m # k
      BY <1>1 DEF Members
    <3> QED BY <1>1, <1>2, <2>1, <3>1 DEF IInv, YetToStore
  <2>5. SetGates'
    BY <1>1, <1>2, <2>1 DEF IInv, SetGates
  <2> QED BY <1>0, <1>2, <2>1, <2>2, <2>3, <2>4, <2>5 DEF IInv
<1>4. CASE k = 7
  <2>1. store' = Quiet /\ routines' = [routines EXCEPT ![e] = a]
    BY <1>4 DEF StoreMember
  <2>2. \A m \in Members : interrupt_gate'[e][m] = Gate(a)[m]
    <3>1. \A m \in Members : m < k \/ m = k
      BY <1>4 DEF Members
    <3> QED BY <1>1, <1>2, <3>1 DEF IInv, StoredSoFar
  <2>3. SetGates'
    BY <1>1, <1>2, <2>1, <2>2 DEF IInv, SetGates
  <2> QED BY <1>0, <1>1, <1>2, <2>1, <2>3 DEF IInv, StoredSoFar, YetToStore
<1> QED BY <1>1, <1>3, <1>4 DEF Members

LEMMA NextIInv == IInv /\ [Next]_vars => IInv'
<1> SUFFICES ASSUME IInv, [Next]_vars PROVE IInv'
  OBVIOUS
<1>1. ASSUME NEW n \in Entries, NEW a \in Addresses, SetIDTGate(n, a)
      PROVE  IInv'
  <2>1. store = Quiet /\ store' = [entry |-> n, address |-> a, next |-> 1]
    BY <1>1 DEF SetIDTGate
  <2>2. StoredSoFar'
    BY <2>1 DEF StoredSoFar, Members
  <2>3. store.entry \notin Entries
    BY <2>1 DEF Quiet, None, Entries
  <2>4. SetGates'
    BY <1>1, <2>3 DEF IInv, SetGates, SetIDTGate
  <2>5. YetToStore'
    BY <1>1, <2>1, <2>3 DEF IInv, SetGates, YetToStore, SetIDTGate
  <2> QED BY <1>1, <2>1, <2>2, <2>4, <2>5 DEF IInv, SetIDTGate
<1>2. CASE StoreMember
  BY <1>2, StoreIInv
<1>3. CASE LoadIDT
  BY <1>3 DEF LoadIDT, IInv, Limit, StoredSoFar, YetToStore, SetGates
<1>4. ASSUME NEW n \in Entries, NEW h \in Handlers, RegisterInterruptHandler(n, h)
      PROVE  IInv'
  BY <1>4 DEF RegisterInterruptHandler, IInv, StoredSoFar, YetToStore, SetGates
<1>5. CASE UNCHANGED vars
  BY <1>5 DEF vars, IInv, StoredSoFar, YetToStore, SetGates
<1> QED BY <1>1, <1>2, <1>3, <1>4, <1>5 DEF Next

\* A gate that SetIDTGate has set leads to its address, all of it, for every
\* width, table and initial contents of .bss, and is within the loaded limit.
THEOREM GatesCorrect == Spec => []GatesLeadToRoutines
<1>1. IInv => GatesLeadToRoutines
  <2> SUFFICES ASSUME IInv, NEW n \in Entries, routines[n] # None, store.entry # n
               PROVE  /\ Usable(interrupt_gate[n]) /\ Target(interrupt_gate[n]) = routines[n]
                      /\ idtr # None => Accepts(n)
    BY DEF GatesLeadToRoutines
  <2>1. routines[n] \in Addresses /\ interrupt_gate[n] \in [Members -> Nat]
    BY DEF IInv
  <2>2. \A m \in Members : interrupt_gate[n][m] = Gate(routines[n])[m]
    BY DEF IInv, SetGates
  <2>3. idtr # None => Accepts(n)
    BY LimitCoversTable DEF IInv
  <2> QED BY <2>1, <2>2, <2>3, GateLeadsToAddress
<1> QED BY <1>1, InitIInv, NextIInv, PTL DEF Spec

\* While SetIDTGate replaces a routine, the processor finds the old address
\* before the first assignment and the new one after the sixth.  The first
\* follows from YetToStore, the second from StoredSoFar and from "zero", which
\* is the same in every gate.
THEOREM TornCorrect == Spec => []TornOnlyBetweenStores
<1>1. IInv => TornOnlyBetweenStores
  <2> SUFFICES ASSUME IInv, NEW n \in Entries,
                      store.entry = n, routines[n] # None, store.next \notin 2 .. 6
               PROVE  Target(interrupt_gate[n]) \in {routines[n], store.address}
    BY DEF TornOnlyBetweenStores
  <2>1. store # Quiet
    BY DEF Quiet, None, Entries
  <2>2. /\ store.address \in Addresses /\ store.next \in {1, 7}
        /\ routines[n] \in Addresses /\ interrupt_gate[n] \in [Members -> Nat]
    BY <2>1 DEF IInv
  <2>3. CASE store.next = 1
    <3>1. \A m \in Members : interrupt_gate[n][m] = Gate(routines[n])[m]
      BY <2>1, <2>3 DEF IInv, YetToStore, Members
    <3> QED BY <2>2, <3>1, GateLeadsToAddress
  <2>4. CASE store.next = 7
    <3>1. \A m \in Members : m < 7 \/ m = 7
      BY DEF Members
    <3>2. interrupt_gate[n][7] = Gate(store.address)[7]
      BY <2>1, <2>4 DEF IInv, YetToStore, Gate, Members, offset_1, offset_2,
             offset_3, selector, type_attributes
    <3>3. \A m \in Members : interrupt_gate[n][m] = Gate(store.address)[m]
      BY <2>1, <2>4, <3>1, <3>2 DEF IInv, StoredSoFar
    <3> QED BY <2>2, <3>3, GateLeadsToAddress
  <2> QED BY <2>2, <2>3, <2>4
<1> QED BY <1>1, InitIInv, NextIInv, PTL DEF Spec

=============================================================================

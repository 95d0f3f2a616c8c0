----------------------------- MODULE Interrupts -----------------------------
(***************************************************************************)
(* The kernel's interrupt table: SetIDTGate and LoadIDT of idt.c,          *)
(* ISRInstall and RegisterInterruptHandler of isr.c.                       *)
(*                                                                         *)
(* cli does not hold off exceptions and NMIs, so that the processor may    *)
(* look at a gate between any two of the seven stores of SetIDTGate.  The  *)
(* table lies in .bss, which nobody clears: gates start with any value.    *)
(* A half word counts to Half (2^16): an address is four of them.          *)
(***************************************************************************)
EXTENDS Integers

CONSTANTS
  Half,         \* 2^16
  IDT_ENTRIES,  \* 256, which is also ISR_ENTRIES
  GateSize,     \* sizeof(idt_gate_t): 16
  Addresses,    \* what callers pass as the address of a routine
  Handlers,     \* what callers register
  CodeSegments, \* selectors of 64-bit code segments in the GDT in force
  Junk          \* what a gate may hold before it is set

ASSUME InterruptsAssumption ==
  /\ Half \in Nat \ {0}
  /\ IDT_ENTRIES \in Nat \ {0} /\ GateSize \in Nat \ {0}
  /\ IDT_ENTRIES * GateSize <= Half
  /\ Addresses \subseteq 0 .. (Half * Half * (Half * Half) - 1)
  /\ Junk \subseteq [1 .. 7 -> Nat]

\* gdt.c is empty: the kernel keeps the firmware's GDT and takes it for granted
\* that the selector SetIDTGate writes, 0x10, names a 64-bit code segment there.
ASSUME GDTAssumption == 16 \in CodeSegments

Entries == 0 .. (IDT_ENTRIES - 1)

\* The members of idt_gate_t, numbered as they lie in a gate.
offset_1 == 1
selector == 2
ist == 3
type_attributes == 4
offset_2 == 5
offset_3 == 6
zero == 7
Members == 1 .. 7

VARIABLES
  interrupt_gate,      \* the table
  interrupt_handlers,
  idtr,                \* the processor's register: the table's limit, or none
  store,               \* SetIDTGate in progress: entry, address, next assignment
  routines             \* history: the address last set for each gate, or none

vars == <<interrupt_gate, interrupt_handlers, idtr, store, routines>>

None == -1

Quiet == [entry |-> None, address |-> 0, next |-> 0]

Init ==
  /\ interrupt_gate \in [Entries -> Junk]
  /\ interrupt_handlers = [n \in Entries |-> "junk"]
  /\ idtr = None
  /\ store = Quiet
  /\ routines = [n \in Entries |-> None]

-----------------------------------------------------------------------------
(* Setting a gate *)

\* Mutant: the second part is not shifted.
SecondPartUnshifted(address) == address % Half

\* (uint16_t)(address >> 16)
SecondPart(address) == (address \div Half) % Half

\* What SetIDTGate stores in each member.
Gate(address) ==
  [m \in Members |->
     IF m = offset_1 THEN address % Half
     ELSE IF m = selector THEN 16
     ELSE IF m = type_attributes THEN 142
     ELSE IF m = offset_2 THEN SecondPart(address)
     ELSE IF m = offset_3 THEN (address \div (Half * Half)) % (Half * Half)
     ELSE 0]

\* Mutant: from the last member to the first.
LastMemberFirst(n) == 8 - n

\* The member that the n-th assignment sets.
Member(n) == n

\* The caller passes an entry of the table; SetIDTGate does not check it.
SetIDTGate(entry, address) ==
  /\ store = Quiet
  /\ store' = [entry |-> entry, address |-> address, next |-> 1]
  /\ UNCHANGED <<interrupt_gate, interrupt_handlers, idtr, routines>>

\* The next of the seven assignments; the last one returns.
StoreMember ==
  /\ store # Quiet
  /\ LET m == Member(store.next) IN
       interrupt_gate' = [interrupt_gate EXCEPT ![store.entry] =
                            [@ EXCEPT ![m] = Gate(store.address)[m]]]
  /\ \/ /\ store.next < 7
        /\ store' = [entry |-> store.entry, address |-> store.address,
                     next |-> store.next + 1]
        /\ UNCHANGED routines
     \/ /\ store.next = 7
        /\ store' = Quiet
        /\ routines' = [routines EXCEPT ![store.entry] = store.address]
  /\ UNCHANGED <<interrupt_handlers, idtr>>

-----------------------------------------------------------------------------
(* Installing the table *)

\* interrupt_table_reg.size is a uint16_t.
Limit == (IDT_ENTRIES * GateSize - 1) % Half

\* ISRInstall only calls LoadIDT.
LoadIDT ==
  /\ store = Quiet
  /\ idtr' = Limit
  /\ UNCHANGED <<interrupt_gate, interrupt_handlers, store, routines>>

\* n is a uint8_t, so that it is always an entry.
RegisterInterruptHandler(n, handler) ==
  /\ store = Quiet
  /\ interrupt_handlers' = [interrupt_handlers EXCEPT ![n % IDT_ENTRIES] = handler]
  /\ UNCHANGED <<interrupt_gate, idtr, store, routines>>

Next ==
  \/ \E n \in Entries, a \in Addresses : SetIDTGate(n, a)
  \/ StoreMember
  \/ LoadIDT
  \/ \E n \in Entries, h \in Handlers : RegisterInterruptHandler(n, h)

Spec == Init /\ [][Next]_vars

-----------------------------------------------------------------------------
(* The processor *)

\* It accepts vector n if the whole gate lies within the limit.
Accepts(n) == n * GateSize + GateSize - 1 <= idtr

\* It takes the gate for one that leads somewhere: present, an interrupt gate,
\* on the current stack, into 64-bit code.
Usable(g) ==
  /\ g[type_attributes] = 142 /\ g[ist] = 0 /\ g[zero] = 0
  /\ g[selector] \in CodeSegments

\* Where it goes.
Target(g) == g[offset_1] + Half * g[offset_2] + (Half * Half) * g[offset_3]

-----------------------------------------------------------------------------
(* Properties *)

\* A vector whose gate was set, and is not being set again at this moment, takes
\* the processor to the address that was set last, all 64 bits of it, whatever
\* has been set, registered or installed since and whatever .bss held; the limit
\* that LoadIDT gives to lidt does not cut it off.
GatesLeadToRoutines ==
  \A n \in Entries :
    routines[n] # None /\ store.entry # n =>
      /\ Usable(interrupt_gate[n])
      /\ Target(interrupt_gate[n]) = routines[n]
      /\ idtr # None => Accepts(n)

\* SetIDTGate marks a gate as present before its address is complete.  While it
\* replaces one routine by another, an exception can find an address that is
\* neither of the two only from the first assignment to the sixth: the gate is
\* already right when "zero" is still to be stored.
TornOnlyBetweenStores ==
  \A n \in Entries :
    store.entry = n /\ routines[n] # None /\ store.next \notin 2 .. 6 =>
      Target(interrupt_gate[n]) \in {routines[n], store.address}

=============================================================================

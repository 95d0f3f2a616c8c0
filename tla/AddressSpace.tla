---------------------------- MODULE AddressSpace ----------------------------
(***************************************************************************)
(* What the stub's page-table code promises its caller: an address space   *)
(* that changes one page at a time.  A call that succeeds maps the page    *)
(* it was asked to map, as it was asked to, and leaves every other page    *)
(* as it was; a call that fails leaves all of them as they were.           *)
(***************************************************************************)
CONSTANTS
  Frames, Data,  \* physical pages, and those that callers own
  Virt,          \* virtual pages
  Self, Idle     \* see PageTables

VARIABLES
  space,   \* for each virtual page, the set of its mapping or {}
  arg,     \* arguments of the call in progress
  status   \* status of the last call, "busy" during one

vars == <<space, arg, status>>

Mapping == [frame : Frames, flags : SUBSET {"P", "W", "PCD"}]

Args == [virt : Virt, phys : Data \cup {Self}, cached : BOOLEAN]

Init ==
  /\ space = [v \in Virt |-> {}]
  /\ arg = Idle
  /\ status = "none"

Request(a) ==
  /\ status # "busy"
  /\ arg' = a
  /\ status' = "busy"
  /\ UNCHANGED space

\* A temp region shows a page that no caller owns.
Wanted(a, m) ==
  /\ IF a.phys = Self THEN m.frame \notin Data ELSE m.frame = a.phys
  /\ m.flags = {"P", "W"} \cup (IF a.cached THEN {"PCD"} ELSE {})

Succeed(m) ==
  /\ status = "busy"
  /\ Wanted(arg, m)
  /\ space' = [space EXCEPT ![arg.virt] = {m}]
  /\ status' = "EFI_SUCCESS"
  /\ arg' = Idle

Fail ==
  /\ status = "busy"
  /\ status' = "error"
  /\ arg' = Idle
  /\ UNCHANGED space

Next ==
  \/ \E a \in Args : Request(a)
  \/ \E m \in Mapping : Succeed(m)
  \/ Fail

Spec == Init /\ [][Next]_vars

=============================================================================

CONSTANTS
  Half = 16
  IDT_ENTRIES = 2
  GateSize = 8
  Addresses <- MCAddresses
  Handlers = {"h1", "h2"}
  CodeSegments = {8, 16}
  Junk <- MCJunk
SPECIFICATION Spec
INVARIANTS
  GatesLeadToRoutines
  TornOnlyBetweenStores

------------------------------ MODULE MCBootX64 ------------------------------
(* BootX64 with pages of 2 bytes, KernelAddress on page 16 and descriptors  *)
(* of 48 bytes, of which two fit in the slack of 100.                       *)
EXTENDS BootX64

Free(s, n) == [type |-> "EfiConventionalMemory", start |-> 2 * s, pages |-> n]
Used(s, n) == [type |-> "EfiLoaderData", start |-> 2 * s, pages |-> n]

\* No region reaches KernelAddress; one ends there; one holds it; others lie
\* above it; the first lies above it; maps that grow by one to four entries.
MCMemoryMaps ==
  {<<Free(0, 8)>>,
   <<Free(0, 16)>>,
   <<Free(0, 8), Free(12, 8)>>,
   <<Used(0, 2), Free(12, 5), Free(20, 4)>>,
   <<Free(20, 4), Free(12, 8), Used(0, 2)>>,
   <<Free(0, 2), Used(2, 2), Free(12, 5), Free(20, 4)>>,
   <<Free(0, 1), Used(1, 1), Free(2, 2), Free(12, 5), Free(20, 1)>>}
=============================================================================

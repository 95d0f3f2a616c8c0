----------------------------- MODULE MCEfiStub -----------------------------
(* EfiStub with pages of two units, tables of four entries and eight pages *)
(* of RAM: the firmware keeps the first and the last, the stub's image is  *)
(* the second, and five may be handed out for the kernel (two), the PML4,  *)
(* the stack and the frame map, in any places.                             *)
EXTENDS EfiStub

MCPhys == 0 .. 7
MCFirmware == {0, 7}

\* RAM, the frame buffer and a page behind everything.
MCAnywhere == MCPhys \cup {8, 20}

Region(s, n) == [start |-> s, pages |-> n]

\* One region; adjacent ones; a hole; descriptors out of order.
MCMemoryMaps ==
  {<<Region(0, 8)>>,
   <<Region(0, 3), Region(3, 2), Region(5, 3)>>,
   <<Region(0, 2), Region(4, 4)>>,
   <<Region(5, 3), Region(0, 1), Region(1, 3)>>}
=============================================================================

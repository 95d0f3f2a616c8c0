------------------------------ MODULE MCKernel ------------------------------
(* A whole boot with a kernel file of two pages on nine pages of RAM, of   *)
(* which the firmware keeps two and the image has one, and a frame buffer  *)
(* of two pages.                                                           *)
EXTENDS Kernel

MCPhys == 0 .. 8
MCFirmware == {0, 8}
MCAnywhere == MCPhys \cup {9, 20}

\* One region, and two with a hole, in descending order.
MCMemoryMaps ==
  {<<[start |-> 0, pages |-> 9]>>,
   <<[start |-> 5, pages |-> 4], [start |-> 0, pages |-> 2]>>}
=============================================================================

---------------------------- MODULE MCInterrupts ----------------------------
(* A table of two gates of eight bytes, and half words that count to 16, so *)
(* that the limit of 15 just fits.                                          *)
EXTENDS Interrupts

\* Two addresses that differ in every part, one that shares parts with each.
MCAddresses == {4660, 64177, 4081}

\* .bss full of ones, and a gate that looks usable.
MCJunk == {<<15, 15, 15, 15, 15, 255, 15>>, <<0, 16, 0, 142, 7, 0, 0>>}
=============================================================================

----------------------------- MODULE MCFrameMap -----------------------------
(* FrameMap with two bytes of two bits, an unmapped byte and a byte of the  *)
(* frame buffer behind them, and pages of two units.                        *)
EXTENDS FrameMap, TLC

CONSTANTS a, b

MCCallers == {a, b}

\* As addresses: each frame of the map, one in the gap and one that strays.
\* As frame numbers: the same, and one behind that.
MCAddresses == {0, 1, 2, 3, 4, 6, 8, 12}

MCBeyond == {3}

Symmetry == Permutations(MCCallers)
=============================================================================

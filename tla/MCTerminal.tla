----------------------------- MODULE MCTerminal -----------------------------
(* Terminal on a screen of two lines of two characters of two by two       *)
(* pixels, with a column of pixels that no character reaches and padding   *)
(* at the end of every scanline.                                           *)
EXTENDS Terminal

\* "A\n", "z A", ".", "{" and a char above 0x7f (no glyphs), text behind the
\* terminator, "9aZ".
MCStrings ==
  {<<65, 10, 0>>, <<122, 32, 65, 0>>, <<46, 123, 0>>, <<-5, 0>>, <<10, 0, 65, 0>>,
   <<57, 97, 90, 0>>}

MCNumbers == {0, 10, 255, 4096}
=============================================================================

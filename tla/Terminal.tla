------------------------------ MODULE Terminal ------------------------------
(***************************************************************************)
(* The kernel's text output: kernel() of main.c up to its first prints,    *)
(* initVga and PrintPixel of vga.c, initTerminal, PrintChar, PrintString,  *)
(* PrintNum and PrintHex of stdio.c, and strlen.                           *)
(*                                                                         *)
(* Characters are their codes.  A pixel of the frame buffer holds the      *)
(* number of the character that drew it last.  Nothing scrolls and nothing *)
(* checks y or the frame buffer's size: what PrintPixel writes beyond the  *)
(* frame buffer is collected in "stray".                                   *)
(***************************************************************************)
EXTENDS Integers, Sequences, SequencesExt, FiniteSetsExt

CONSTANTS
  FontWidth, FontHeight,                    \* FONT_WIDTH, FONT_HEIGHT: 40, 40
  VerticalResolution, HorizontalResolution, PixelsPerScanline,  \* from GOP
  FrameBufferPixels,  \* framebuffersize / 4
  Strings,            \* what callers print, as sequences of chars with a 0
  Numbers,            \* what callers print as numbers
  Unknown,            \* whatever lies behind font_data
  Garbage,            \* glyphs that an unset index may show, Unknown among them
  MaxDrawn, MaxRow    \* bounds on the characters drawn and on y

VARIABLES
  stage,   \* how far kernel() has come
  x, y, max_vertical, max_horizontal,
  screen,  \* for each pixel, who drew it: 0 nobody, n the n-th character
  stray,   \* pixels written outside the frame buffer
  drawn,   \* history: the characters drawn, with their places
  todo,    \* characters that the call in progress has still to print
  call     \* history: the call in progress or last done, and where it started

cursor == <<x, y, max_vertical, max_horizontal>>
vars == <<stage, cursor, screen, stray, drawn, todo, call>>

Pixels == 0 .. (FrameBufferPixels - 1)

\* A character is as high as it is wide, or PrintChar's loops, which exchange the
\* two, would not stay in its cell.  One fits on a line, GOP's scanlines are no
\* shorter than the screen is wide, and the frame buffer holds all of them.
ASSUME ScreenAssumption ==
  /\ FontWidth \in Nat \ {0} /\ FontHeight = FontWidth
  /\ {VerticalResolution, HorizontalResolution, PixelsPerScanline, FrameBufferPixels}
       \subseteq Nat
  /\ FontWidth <= HorizontalResolution /\ HorizontalResolution <= PixelsPerScanline
  /\ VerticalResolution * PixelsPerScanline <= FrameBufferPixels

\* Strings are terminated, numbers are unsigned, and an index into font_data
\* shows a glyph or what lies behind.
ASSUME TextAssumption ==
  /\ \A s \in Strings : s \in Seq(Int) /\ \E n \in 1 .. Len(s) : s[n] = 0
  /\ Numbers \subseteq Nat
  /\ Garbage \subseteq 0 .. 61 \cup {Unknown}

-----------------------------------------------------------------------------
(* Characters and numbers *)

\* Mutant: A is taken for no capital letter.
CapitalsFromB(c) == 65 < c /\ c < 91

IsCapital(c) == 64 < c /\ c < 91

\* The glyphs that PrintChar may pick for a char: 0-9, A-Z, a-z and the codes
\* after z count on from 36, of which font_data has 62.  For any other char
\* "printed" is not set and holds whatever the stack did.
Glyphs(c) ==
  IF IsCapital(c) THEN {c - 65 + 10}
  ELSE IF 47 < c /\ c < 58 THEN {c - 48}
  ELSE IF c > 96 THEN {IF c - 97 + 36 < 62 THEN c - 97 + 36 ELSE Unknown}
  ELSE Garbage

\* Codes before the first 0.
strlen(s) == Min({n \in 1 .. Len(s) : s[n] = 0}) - 1

\* Mutant: digits from 10 on are one code too far.
DigitCodeOffByOne(d) == IF d < 10 THEN d + 48 ELSE d + 56

\* numstring holds codes: '0' + digit, or 55 + digit for A to F.
DigitCode(d) == IF d < 10 THEN d + 48 ELSE d + 55

\* numstring as the loop fills it: the last digit first.
numstring(base, number) ==
  LET fill[n \in 0 .. number] ==
        IF n = 0 THEN <<>> ELSE <<DigitCode(n % base)>> \o fill[n \div base]
  IN fill[number]

\* What PrintNum (base 10) and PrintHex (base 16) print.
NumberCodes(base, number) ==
  IF number = 0 THEN <<48>> ELSE Reverse(numstring(base, number))

-----------------------------------------------------------------------------
Init ==
  /\ stage = "fill"
  /\ x = 0 /\ y = 0 /\ max_vertical = 0 /\ max_horizontal = 0
  /\ screen = [p \in Pixels |-> -1]
  /\ stray = {}
  /\ drawn = <<>>
  /\ todo = <<>>
  /\ call = [kind |-> "none", arg |-> 0, from |-> 0]

\* kernel() colours framebuffersize / 16 pixels, then initVga clears them all.
InitVga ==
  /\ stage = "fill"
  /\ screen' = [p \in Pixels |-> 0]
  /\ stage' = "vga"
  /\ UNCHANGED <<cursor, stray, drawn, todo, call>>

\* Mutant: the width is not divided by that of a character.
ColumnsUnscaled == HorizontalResolution

Columns == HorizontalResolution \div FontWidth

InitTerminal ==
  /\ stage = "vga"
  /\ x' = 0 /\ y' = 0
  /\ max_vertical' = VerticalResolution \div FontHeight
  /\ max_horizontal' = Columns
  /\ stage' = "run"
  /\ UNCHANGED <<screen, stray, drawn, todo, call>>

\* A call of PrintString, PrintNum or PrintHex that prints the codes cs.
Start(kind, a, cs) ==
  /\ stage = "run"
  /\ todo = <<>>
  /\ Len(drawn) + Len(cs) <= MaxDrawn
  /\ y <= MaxRow
  /\ todo' = cs
  /\ call' = [kind |-> kind, arg |-> a, from |-> Len(drawn)]
  /\ UNCHANGED <<stage, cursor, screen, stray, drawn>>

PrintString(string) == Start("string", string, SubSeq(string, 1, strlen(string)))
PrintNum(number) == Start("10", number, NumberCodes(10, number))
PrintHex(number) == Start("16", number, NumberCodes(16, number))

\* Index into the frame buffer of pixel (px, py).
PixelIndex(px, py) == px + py * PixelsPerScanline

\* The pixels of the character cell (cx, cy), as the two loops visit them.
Cell(cx, cy) ==
  {PixelIndex(i + cx * FontWidth, j + cy * FontHeight) :
     i \in 0 .. (FontHeight - 1), j \in 0 .. (FontWidth - 1)}

\* Mutant: the line is too long by one character.
WrapLate(nx, ny) ==
  IF nx > max_horizontal THEN x' = 0 /\ y' = ny + 1 ELSE x' = nx /\ y' = ny

\* The end of PrintChar: go to the next line when this one is full.
Wrap(nx, ny) ==
  IF nx >= max_horizontal THEN x' = 0 /\ y' = ny + 1 ELSE x' = nx /\ y' = ny

\* Mutant: the next character is drawn over this one.
SameColumn == x

NextColumn == x + 1

PrintSpace ==
  /\ todo # <<>> /\ Head(todo) = 32
  /\ Wrap(NextColumn, y)
  /\ todo' = Tail(todo)
  /\ UNCHANGED <<stage, max_vertical, max_horizontal, screen, stray, drawn, call>>

PrintNewline ==
  /\ todo # <<>> /\ Head(todo) = 10
  /\ Wrap(0, y + 1)
  /\ todo' = Tail(todo)
  /\ UNCHANGED <<stage, max_vertical, max_horizontal, screen, stray, drawn, call>>

PrintGlyph ==
  /\ todo # <<>> /\ Head(todo) \notin {10, 32}
  /\ \E g \in Glyphs(Head(todo)) : drawn' = Append(drawn, [x |-> x, y |-> y, glyph |-> g])
  /\ screen' = [p \in Pixels |-> IF p \in Cell(x, y) THEN Len(drawn') ELSE screen[p]]
  /\ stray' = stray \cup (Cell(x, y) \ Pixels)
  /\ Wrap(NextColumn, y)
  /\ todo' = Tail(todo)
  /\ UNCHANGED <<stage, max_vertical, max_horizontal, call>>

PrintChar == PrintSpace \/ PrintNewline \/ PrintGlyph

Next ==
  \/ InitVga \/ InitTerminal
  \/ \E s \in Strings : PrintString(s)
  \/ \E n \in Numbers : PrintNum(n) \/ PrintHex(n)
  \/ PrintChar

Spec == Init /\ [][Next]_vars

-----------------------------------------------------------------------------
(* Properties *)

\* Types; between characters the cursor is on a column of the screen.
TypeOK ==
  /\ stage \in {"fill", "vga", "run"}
  /\ x \in 0 .. (IF stage = "run" THEN max_horizontal - 1 ELSE 0)
  /\ y \in Nat
  /\ screen \in [Pixels -> -1 .. Len(drawn)]
  /\ stray \subseteq Nat
  /\ \A n \in DOMAIN drawn : drawn[n].glyph \in 0 .. 61 \cup {Unknown}

\* A character once drawn stays on the screen: no later one, wherever the
\* cursor has gone, touches any of its pixels, and none is drawn in part.
CharactersStay ==
  \A n \in DOMAIN drawn :
    \A p \in Cell(drawn[n].x, drawn[n].y) \cap Pixels : screen[p] = n

\* PrintPixel leaves the frame buffer only when the text has run past the last
\* line of the screen, and never sideways.
StrayOnlyBelowLastLine == stray # {} => y >= max_vertical

\* The glyphs that the last call drew.
Printed == SubSeq(drawn, call.from + 1, Len(drawn))

\* The chars of font_data's glyphs, in its order: 0-9, A-Z, a-z.
Font == [g \in 0 .. 61 |-> IF g < 10 THEN 48 + g ELSE IF g < 36 THEN 55 + g ELSE 61 + g]

\* How many of the first n chars are drawn: all but newlines and blanks.
Visible(cs, n) == {m \in 1 .. n : cs[m] \notin {10, 32}}
Rank(cs, n) == Cardinality(Visible(cs, n))

\* A string that has been printed can be read from the screen: a glyph for every
\* char before the terminator that is no blank or newline, each one behind or
\* below the one before it, and each the glyph of its char if the font has it.
\* Only in the place of a char that the font lacks may anything stand.
TextReadsBack ==
  todo = <<>> /\ call.kind = "string" =>
    LET length == strlen(call.arg)
    IN /\ Len(Printed) = Rank(call.arg, length)
       /\ \A n \in Visible(call.arg, length) : \A g \in 0 .. 61 :
            Font[g] = call.arg[n] => Printed[Rank(call.arg, n)].glyph = g
       /\ \A n \in 2 .. Len(Printed) :
            \/ Printed[n].y > Printed[n - 1].y
            \/ Printed[n].y = Printed[n - 1].y /\ Printed[n].x > Printed[n - 1].x

\* The number that a sequence of digits stands for.
Value(base, digits) ==
  LET v[n \in 0 .. Len(digits)] ==
        IF n = 0 THEN 0 ELSE v[n - 1] * base + digits[n]
  IN v[Len(digits)]

\* The glyphs that PrintNum and PrintHex drew read as the number, in base 10
\* and 16, and have no leading zero.
NumberReadsBack ==
  todo = <<>> /\ call.kind \in {"10", "16"} =>
    LET base == IF call.kind = "10" THEN 10 ELSE 16
        glyphs == [n \in DOMAIN Printed |-> Printed[n].glyph]
    IN /\ Value(base, glyphs) = call.arg
       /\ Len(glyphs) > 1 => glyphs[1] # 0

=============================================================================

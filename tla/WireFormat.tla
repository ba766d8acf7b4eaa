----------------------------- MODULE WireFormat -----------------------------
(***************************************************************************)
(* The bytes on the line from the server to the microcontroller: a sample  *)
(* as two bytes with bit 7 set, a rectangle as nine bytes with bit 6 set,  *)
(* and how UART0_ISR tells them from each other and from text.             *)
(*                                                                         *)
(* Bit operations are written as arithmetic on naturals: a shift is a      *)
(* product or \div, an & with low ones is %, an | of disjoint bits is +.   *)
(***************************************************************************)
EXTENDS Integers

\* The server's u16buf[i] >> 4 and the two bytes it becomes.
dat(u16) == u16 \div 16
FirstByte(d) == 128 + d \div 64
SecondByte(d) == 192 + (d % 64)

\* What UART0_ISR takes a byte for.
Kind(c) ==
  CASE (c \div 128) % 2 = 1 /\ (c \div 64) % 2 = 1 -> "second"
    [] (c \div 128) % 2 = 1 /\ (c \div 64) % 2 = 0 -> "first"
    [] c = 10 -> "line"
    [] c = 9 -> "command"
    [] OTHER -> "text"

\* audio_tmp << 6 | c & 0x3F, of which audio_tmp is a first byte & 0x3F.
SampleOf(c1, c2) == 64 * (c1 % 64) + (c2 % 64)

-----------------------------------------------------------------------------
\* drawrect_write_x .. drawrect_write_b on bytes that are 0x40.  A coordinate is
\* two bytes: x and y share the second, as do w and h.
\* (Mutant: two bits of y in the shared byte.)
SharedNarrow(x, y) == 64 + 8 * (x % 8) + ((y \div 64) % 4)
High6(x) == 64 + ((x \div 8) % 64)
Shared(x, y) == 64 + 8 * (x % 8) + ((y \div 64) % 8)
Low6(y) == 64 + (y % 64)
Color5(r) == 64 + (r % 32)
Color6(g) == 64 + (g % 64)

\* drawrect_read_x (and _w), drawrect_read_y (and _h), and the colours.
ReadX(c0, c1) == 8 * (c0 % 64) + ((c1 \div 8) % 8)
ReadY(c1, c2) == 64 * (c1 % 8) + (c2 % 64)
ReadColor5(c) == c % 32
ReadColor6(c) == c % 64

\* The bytes of one half of a rectangle.
Corner(x, y) == <<High6(x), Shared(x, y), Low6(y)>>

-----------------------------------------------------------------------------
(* Properties, of a sample u16, a corner x, y and a colour r, g. *)

U16 == 0 .. 65535
Coordinate == 0 .. 511
Red == 0 .. 31
Green == 0 .. 63

\* The receiver stores the 12 bits the server cut out of its 16, from a first and
\* a second byte that it cannot take for each other or for anything else.
SampleArrives(u16) ==
  LET d == dat(u16) IN
  /\ Kind(FirstByte(d)) = "first"
  /\ Kind(SecondByte(d)) = "second"
  /\ SampleOf(FirstByte(d), SecondByte(d)) = d
  /\ d \in 0 .. 4095

\* Nine bits of x and nine of y come back from three bytes.
CornerArrives(x, y) ==
  /\ ReadX(High6(x), Shared(x, y)) = x
  /\ ReadY(Shared(x, y), Low6(y)) = y

\* Five bits of red or blue and six of green come back.
ColorArrives(r, g) ==
  /\ ReadColor5(Color5(r)) = r
  /\ ReadColor6(Color6(g)) = g

\* No byte of a rectangle ends the command it is in, starts a sample or ends the
\* string it is stored in.
RectangleIsText(x, y, r, g) ==
  \A c \in {High6(x), Shared(x, y), Low6(y), Color5(r), Color6(g)} :
    Kind(c) = "text" /\ c # 0
=============================================================================

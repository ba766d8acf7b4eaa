------------------------------ MODULE MCFormats -----------------------------
(***************************************************************************)
(* Runs through the pure parts of the system, one number of 16 bits after  *)
(* the other; each operator's arguments are cut out of the number.         *)
(***************************************************************************)
EXTENDS WireFormat, MillisecondTimer, Termios, ReadLines, Mp3Bands

VARIABLE input

FormatsInit == input \in U16
FormatsNext == input' = (input + 1) % 65536
FormatsSpec == FormatsInit /\ [][FormatsNext]_input

(* A field of the input, written with the digits' bases before it.       *)
Digit(base, below) == (input \div below) % base
Pick(seq, below) == seq[Digit(Len(seq), below) + 1]

(* Every sample the server can send is stored as its upper 12 bits, and a  *)
(* rectangle's corners and colours come back from its nine bytes, none of  *)
(* which ends its command (server.cpp:246-251, labfinal.c:182-188,         *)
(* protocol.h:10-31).                                                      *)
AllBytesArrive ==
    LET x == input % 512
        y == input \div 128
        r == input % 32
        g == input % 64
    IN  /\ SampleArrives(input)
        /\ CornerArrives(x, y) /\ ColorArrives(r, g) /\ RectangleIsText(x, y, r, g)

(* Timeouts up to 8.1 seconds from eight moments of a second.              *)
TimerOnTime == TimerExact(125 * Digit(8, 1), input \div 8)

(* Options that a device may have, and settings asked for                  *)
(* (unix.cc:159-452).                                                      *)
Flag(name, below) == IF Digit(2, below) = 1 THEN {name} ELSE {}
Options == [flags |-> Flag("CMSPAR", 1) \cup Flag("PARENB", 2) \cup Flag("PARODD", 2)
                      \cup Flag("CSTOPB", 4) \cup Flag("IXON", 8) \cup Flag("CRTSCTS", 8)
                      \cup Flag("ICANON", 16) \cup Flag("INPCK", 16) \cup {"OPOST", "ECHO"},
            csize |-> 8, speed |-> Pick(<<9600, 38400>>, 8), custom |-> Digit(2, 32) = 1,
            base |-> 3000000, divisor |-> 7]
Asked == [parity |-> Pick(<<"none", "odd", "even", "mark", "space">>, 64),
          stopbits |-> Pick(<<"one", "one_point_five", "two">>, 320),
          flowcontrol |-> Pick(<<"none", "software", "hardware">>, 960),
          bytesize |-> 5 + Digit(4, 2880),
          baudrate |-> Pick(<<14400, 460800, 250000, 38400, 50>>, 11520)]
LinesAsAsked == LineAsAsked(Options, Asked)

(* Streams of up to five bytes, of ends of line and others, cut by calls   *)
(* with room for all or fewer, with one byte as the end of a line or two;  *)
(* the memory before the buffer ends in a byte that is no part of these    *)
(* two (serial.cc:162-236).                                                *)
Stream == [i \in 1..Digit(6, 1) |-> Pick(<<"a", "CR", "LF">>, <<6, 18, 54, 162, 486>>[i])]
AllLinesSplit == /\ LinesSplit(<<"LF", "LF">>, Stream, 1 + Digit(6, 1458), <<"LF">>)
                 /\ LinesSplit(<<"LF", "LF">>, Stream, 1 + Digit(6, 1458), <<"CR", "LF">>)

(* Every header's frame holds what it must and fits the decoder's buffers, *)
(* and the headers that compare equal to it sound as long (minimp3.h:49-61, *)
(* 250-300).                                                               *)
FramesFit == /\ \A h3 \in {0, 192} : FrameFits(input \div 256, input % 256, h3)
             /\ SoundsAlike(input \div 256, input % 256)

(* Every row of the tables of bands and every number of scale factors that *)
(* a header and a granule can select (minimp3.h:472-671).                  *)
TablesFit == LET h1 == 2 * Digit(128, 512)
             IN  /\ BandsCover(input \div 256, input % 256)
                 /\ (Mpeg1(h1) => input % 512 < 16) =>
                        \A ist \in {0, 1} : ScalefactorsFit(h1, input % 512, ist)
=============================================================================

------------------------------ MODULE Mp3Header -----------------------------
(***************************************************************************)
(* The four bytes of a frame's header and the side information behind them *)
(* (minimp3.h:60-77, 250-300, 504-592).  h1, h2, h3 are the bytes after    *)
(* the first, which is 0xff; a shift is \div, an & with low ones is %.     *)
(***************************************************************************)
EXTENDS Integers, Sequences

Bit(byte, k) == (byte \div 2^k) % 2

Mono(h3) == h3 \div 64 = 3
FreeFormat(h2) == h2 \div 16 = 0
Crc(h1) == Bit(h1, 0) = 0
Padding(h2) == Bit(h2, 1) = 1
Mpeg1(h1) == Bit(h1, 3) = 1
Mpeg25(h1) == Bit(h1, 4) = 0
LayerBits(h1) == (h1 \div 2) % 4
Layer(h1) == 4 - LayerBits(h1)
Bitrate(h2) == h2 \div 16
SampleRate(h2) == (h2 \div 4) % 4
Frame576(h1) == (h1 \div 2) % 8 = 1

hdr_valid(h1, h2) == /\ h1 \div 16 = 15 \/ h1 \div 2 = 113
                     /\ LayerBits(h1) # 0
                     /\ Bitrate(h2) # 15
                     /\ SampleRate(h2) # 3

(* hdr_compare(h, g), of which g's first byte is 0xff. *)
hdr_compare(h1, h2, g1, g2) == /\ hdr_valid(g1, g2)
                               /\ h1 \div 2 = g1 \div 2
                               /\ SampleRate(h2) = SampleRate(g2)
                               /\ FreeFormat(h2) = FreeFormat(g2)

halfrate == <<
    <<<<0,4,8,12,16,20,24,28,32,40,48,56,64,72,80>>,
      <<0,4,8,12,16,20,24,28,32,40,48,56,64,72,80>>,
      <<0,16,24,28,32,40,48,56,64,72,80,88,96,112,128>>>>,
    <<<<0,16,20,24,28,32,40,48,56,64,80,96,112,128,160>>,
      <<0,16,24,28,32,40,48,56,64,80,96,112,128,160,192>>,
      <<0,16,32,48,64,80,96,112,128,144,160,176,192,208,224>>>> >>
hdr_bitrate_kbps(h1, h2) ==
    2 * halfrate[IF Mpeg1(h1) THEN 2 ELSE 1][LayerBits(h1)][Bitrate(h2) + 1]

hdr_sample_rate_hz(h1, h2) ==
    <<44100, 48000, 32000>>[SampleRate(h2) + 1]
        \div (IF Mpeg1(h1) THEN 1 ELSE IF Mpeg25(h1) THEN 4 ELSE 2)

hdr_frame_samples(h1) == IF Layer(h1) = 1 THEN 384 ELSE IF Frame576(h1) THEN 576 ELSE 1152

(* A frame without its padding; 0 for free format. *)
hdr_frame_bytes(h1, h2) ==
    LET bytes == (hdr_frame_samples(h1) * hdr_bitrate_kbps(h1, h2) * 125)
                     \div hdr_sample_rate_hz(h1, h2)
    IN  IF Layer(h1) = 1 THEN bytes - (bytes % 4) ELSE bytes

hdr_padding(h1, h2) == IF ~ Padding(h2) THEN 0 ELSE IF Layer(h1) = 1 THEN 4 ELSE 1

(* The bits that L3_read_side_info takes: main_data_begin, private bits    *)
(* and scfsi, then for each granule and channel the same number, whichever *)
(* branch on the block type it goes through.                               *)
(* (Mutant: preflag is read of every version.) *)
GranuleBitsPreflag(h1, switched) ==
    12 + 9 + 8 + (IF Mpeg1(h1) THEN 4 ELSE 9) + 1
       + (IF switched THEN 2 + 1 + 10 + 3 + 3 + 3 ELSE 15 + 4 + 3)
       + 1 + 1 + 1
GranuleBits(h1, switched) ==
    12 + 9 + 8 + (IF Mpeg1(h1) THEN 4 ELSE 9) + 1
       + (IF switched THEN 2 + 1 + 10 + 3 + 3 + 3 ELSE 15 + 4 + 3)
       + (IF Mpeg1(h1) THEN 1 ELSE 0) + 1 + 1
SideBits(h1, h3, switched) ==
    LET channels == IF Mono(h3) THEN 1 ELSE 2
        gr_count == IF Mpeg1(h1) THEN 2 * channels ELSE channels
    IN  (IF Mpeg1(h1) THEN 9 + 7 + gr_count ELSE 8 + gr_count)
            + gr_count * GranuleBits(h1, switched)

HDR_SIZE == 4
CRC_SIZE == 2
MAX_L3_FRAME_PAYLOAD_BYTES == 2304

-----------------------------------------------------------------------------
(* Every valid header of layer 3 that is not free format gives a frame     *)
(* that holds its header, its checksum and its side information, which is  *)
(* of whole bytes whatever is in it, and whose rest fits into the room     *)
(* that the decoder has for it after a full reservoir                      *)
(* (minimp3.h:54-56).                                                      *)
FrameFits(h1, h2, h3) ==
    (hdr_valid(h1, h2) /\ Layer(h1) = 3 /\ ~ FreeFormat(h2)) =>
        LET bytes == hdr_frame_bytes(h1, h2) + hdr_padding(h1, h2)
        IN  /\ bytes - HDR_SIZE <= MAX_L3_FRAME_PAYLOAD_BYTES
            /\ hdr_frame_samples(h1) * 2 <= 2304
            /\ \A switched \in BOOLEAN :
                   /\ SideBits(h1, h3, switched) % 8 = 0
                   /\ 8 * HDR_SIZE + (IF Crc(h1) THEN 8 * CRC_SIZE ELSE 0)
                          + SideBits(h1, h3, switched) <= 8 * bytes

(* Every header that compares equal to a valid one, as the frames of a run *)
(* do, is of the same layer and has the same length of sound: as many       *)
(* samples at the same rate (minimp3.h:258-264).                           *)
SoundsAlike(h1, h2) == hdr_valid(h1, h2) =>
    \A g1 \in 224..255, g2 \in 0..255 : hdr_compare(h1, h2, g1, g2) =>
        /\ Layer(g1) = Layer(h1)
        /\ hdr_frame_samples(g1) = hdr_frame_samples(h1)
        /\ hdr_sample_rate_hz(g1, g2) = hdr_sample_rate_hz(h1, h2)
=============================================================================

------------------------------- MODULE Mp3Bands -----------------------------
(***************************************************************************)
(* The scale factor bands of a granule (minimp3.h:472-501, 533-561) and    *)
(* the counts of its scale factors (minimp3.h:595-671): the tables, the    *)
(* row that a header and a block select, and what the loops that walk them *)
(* rely on.                                                                *)
(***************************************************************************)
EXTENDS Mp3Header, SequencesExt

g_scf_long ==
    <<<<6,6,6,6,6,6,8,10,12,14,16,20,24,28,32,38,46,52,60,68,58,54,0>>,
      <<12,12,12,12,12,12,16,20,24,28,32,40,48,56,64,76,90,2,2,2,2,2,0>>,
      <<6,6,6,6,6,6,8,10,12,14,16,20,24,28,32,38,46,52,60,68,58,54,0>>,
      <<6,6,6,6,6,6,8,10,12,14,16,18,22,26,32,38,46,54,62,70,76,36,0>>,
      <<6,6,6,6,6,6,8,10,12,14,16,20,24,28,32,38,46,52,60,68,58,54,0>>,
      <<4,4,4,4,4,4,6,6,8,8,10,12,16,20,24,28,34,42,50,54,76,158,0>>,
      <<4,4,4,4,4,4,6,6,6,8,10,12,16,18,22,28,34,40,46,54,54,192,0>>,
      <<4,4,4,4,4,4,6,6,8,10,12,16,20,24,30,38,46,56,68,84,102,26,0>> >>

g_scf_short ==
    <<<<4,4,4,4,4,4,4,4,4,6,6,6,8,8,8,10,10,10,12,12,12,14,14,14,18,18,18,24,24,24,30,30,30,40,40,40,18,18,18,0>>,
      <<8,8,8,8,8,8,8,8,8,12,12,12,16,16,16,20,20,20,24,24,24,28,28,28,36,36,36,2,2,2,2,2,2,2,2,2,26,26,26,0>>,
      <<4,4,4,4,4,4,4,4,4,6,6,6,6,6,6,8,8,8,10,10,10,14,14,14,18,18,18,26,26,26,32,32,32,42,42,42,18,18,18,0>>,
      <<4,4,4,4,4,4,4,4,4,6,6,6,8,8,8,10,10,10,12,12,12,14,14,14,18,18,18,24,24,24,32,32,32,44,44,44,12,12,12,0>>,
      <<4,4,4,4,4,4,4,4,4,6,6,6,8,8,8,10,10,10,12,12,12,14,14,14,18,18,18,24,24,24,30,30,30,40,40,40,18,18,18,0>>,
      <<4,4,4,4,4,4,4,4,4,4,4,4,6,6,6,8,8,8,10,10,10,12,12,12,14,14,14,18,18,18,22,22,22,30,30,30,56,56,56,0>>,
      <<4,4,4,4,4,4,4,4,4,4,4,4,6,6,6,6,6,6,10,10,10,12,12,12,14,14,14,16,16,16,20,20,20,26,26,26,66,66,66,0>>,
      <<4,4,4,4,4,4,4,4,4,4,4,4,6,6,6,8,8,8,12,12,12,16,16,16,20,20,20,26,26,26,34,34,34,42,42,42,12,12,12,0>> >>

g_scf_mixed ==
    <<<<6,6,6,6,6,6,6,6,6,8,8,8,10,10,10,12,12,12,14,14,14,18,18,18,24,24,24,30,30,30,40,40,40,18,18,18,0>>,
      <<12,12,12,4,4,4,8,8,8,12,12,12,16,16,16,20,20,20,24,24,24,28,28,28,36,36,36,2,2,2,2,2,2,2,2,2,26,26,26,0>>,
      <<6,6,6,6,6,6,6,6,6,6,6,6,8,8,8,10,10,10,14,14,14,18,18,18,26,26,26,32,32,32,42,42,42,18,18,18,0>>,
      <<6,6,6,6,6,6,6,6,6,8,8,8,10,10,10,12,12,12,14,14,14,18,18,18,24,24,24,32,32,32,44,44,44,12,12,12,0>>,
      <<6,6,6,6,6,6,6,6,6,8,8,8,10,10,10,12,12,12,14,14,14,18,18,18,24,24,24,30,30,30,40,40,40,18,18,18,0>>,
      <<4,4,4,4,4,4,6,6,4,4,4,6,6,6,8,8,8,10,10,10,12,12,12,14,14,14,18,18,18,22,22,22,30,30,30,56,56,56,0>>,
      <<4,4,4,4,4,4,6,6,4,4,4,6,6,6,6,6,6,10,10,10,12,12,12,14,14,14,16,16,16,20,20,20,26,26,26,66,66,66,0>>,
      <<4,4,4,4,4,4,6,6,4,4,4,6,6,6,8,8,8,12,12,12,16,16,16,20,20,20,26,26,26,34,34,34,42,42,42,12,12,12,0>> >>

g_scf_partitions ==
    <<<<6,5,5,5,6,5,5,5,6,5,7,3,11,10,0,0,7,7,7,0,6,6,6,3,8,8,5,0>>,
      <<8,9,6,12,6,9,9,9,6,9,12,6,15,18,0,0,6,15,12,0,6,12,9,6,6,18,9,0>>,
      <<9,9,6,12,9,9,9,9,9,9,12,6,18,18,0,0,12,12,12,0,12,9,9,6,15,12,9,0>> >>

g_mod == <<5,5,4,4, 5,5,4,1, 4,3,1,1, 5,6,6,1, 4,4,4,1, 4,3,1,1>>

Blocks == {"long", "short", "mixed"}

(* HDR_GET_MY_SAMPLE_RATE less one, but 0 for the lowest two. *)
MySampleRate(h1, h2) == SampleRate(h2) + 3 * (Bit(h1, 3) + Bit(h1, 4))
sr_idx(h1, h2) == LET sr == MySampleRate(h1, h2) IN IF sr = 0 THEN 0 ELSE sr - 1

sfbtab(h1, h2, block) ==
    (CASE block = "long" -> g_scf_long
       [] block = "short" -> g_scf_short
       [] block = "mixed" -> g_scf_mixed)[sr_idx(h1, h2) + 1]

n_long_sfb(h1, block) ==
    CASE block = "long" -> 22
      [] block = "short" -> 0
      [] block = "mixed" -> IF Mpeg1(h1) THEN 8 ELSE 6
(* (Mutant: the short bands of a mixed block are one window too many.) *)
n_short_sfb_more(block) == CASE block = "long" -> 0 [] block = "short" -> 39 [] block = "mixed" -> 33
n_short_sfb(block) == CASE block = "long" -> 0 [] block = "short" -> 39 [] block = "mixed" -> 30

(* The lines of a mixed block that are long, 18 to a band of the filters. *)
LongLines(h1, h2) == 18 * (IF MySampleRate(h1, h2) = 2 THEN 4 ELSE 2)

SumOf(seq) == FoldLeft(+, 0, seq)
ProductOf(seq) == FoldLeft(LAMBDA a, b : a * b, 1, seq)

(* The row of counts for scalefac_compress: without MPEG1 the number falls *)
(* into one of the groups of g_mod, three for each value of ist.           *)
GroupEnd(ist, j) == SumOf([i \in 1..(j - 3 * ist) |->
                               ProductOf(SubSeq(g_mod, 12 * ist + 4 * i - 3, 12 * ist + 4 * i))])
Group(compress, ist) == LET sfc == compress \div (IF ist = 1 THEN 2 ELSE 1)
                        IN  CHOOSE j \in 3 * ist + 1 .. 6 :
                                /\ sfc < GroupEnd(ist, j)
                                /\ j > 3 * ist + 1 => sfc >= GroupEnd(ist, j - 1)
scf_count(h1, block, compress, ist) ==
    LET row == g_scf_partitions[CASE block = "long" -> 1 [] block = "mixed" -> 2 [] block = "short" -> 3]
        k == IF Mpeg1(h1) THEN 0 ELSE 4 * Group(compress, ist)
    IN  SubSeq(row, k + 1, k + 4)

-----------------------------------------------------------------------------
(* The bands of every kind of block are the 576 lines of a granule, in     *)
(* pairs, before the 0 that L3_huffman must not reach while big_values is  *)
(* at most 288; the bands' number is the one that the other loops take     *)
(* them by; and a mixed block's long bands are its long lines, except at   *)
(* 8 kHz.                                                                  *)
BandsCover(h1, h2) ==
    (hdr_valid(h1, h2) /\ Layer(h1) = 3) =>
        \A block \in Blocks :
            LET tab == sfbtab(h1, h2, block)
                n == n_long_sfb(h1, block) + n_short_sfb(block)
                bands == SelectSeq(tab, LAMBDA w : w > 0)
            IN  /\ SumOf(bands) = 576 /\ \A i \in DOMAIN bands : bands[i] % 2 = 0
                /\ bands = SubSeq(tab, 1, Len(bands)) /\ tab[Len(bands) + 1] = 0
                /\ MySampleRate(h1, h2) # 2 =>
                       /\ Len(bands) = n
                       /\ block = "mixed" =>
                              SumOf(SubSeq(bands, 1, n_long_sfb(h1, block))) = LongLines(h1, h2)

(* Whatever scalefac_compress is, its group exists, and the scale factors  *)
(* that are read, with three zeros behind them, are as many as the bands   *)
(* need and no more than iscf[40] holds.                                   *)
ScalefactorsFit(h1, compress, ist) ==
    \A block \in Blocks :
        LET total == SumOf(scf_count(h1, block, compress, ist))
        IN  /\ Mpeg1(h1) \/ compress \div (1 + ist) < GroupEnd(ist, 3 * ist + 3)
            /\ total + 3 >= n_long_sfb(h1, block) + n_short_sfb(block)
            /\ total + 3 <= 40
=============================================================================

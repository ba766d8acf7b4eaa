-------------------------- MODULE SoundLoaderProofs -------------------------
(***************************************************************************)
(* Proofs about the loading of sounds, for any number of files with any    *)
(* contents: the decoder stays within the file, the samples within their   *)
(* buffer, a frame is decoded from bytes that belong to it, a good file is *)
(* decoded whole, loading ends and a sound is its own file's.              *)
(***************************************************************************)
EXTENDS SoundLoader, NaturalsInduction, WellFoundedInduction, FiniteSetTheorems, TLAPS

(* A set of naturals that is not empty has a least member.                 *)
LEMMA LeastBelow == ASSUME NEW S \in SUBSET Nat, NEW x \in S
                    PROVE  Least(S) \in S /\ Least(S) <= x
<1> DEFINE R == {ss \in Nat \X Nat : ss[1] < ss[2]}
<1>1. IsWellFoundedOn(R, Nat)
  BY NatLessThanWellFounded DEF OpToRel
<1>2. PICK y \in S : \A z \in S : ~ (<<z, y>> \in R)
  <2> HIDE DEF R
  <2> QED BY <1>1, WFMin
<1>3. \A z \in S : y <= z
  <2> TAKE z \in S
  <2>1. ~ (<<z, y>> \in R)
    BY <1>2
  <2>2. z \in Nat /\ y \in Nat
    OBVIOUS
  <2>3. (z < y) => <<z, y>> \in R
    BY <2>2, Z3
  <2> QED BY <2>1, <2>2, <2>3
<1> QED BY <1>3 DEF Least

LEMMA LeastIn == ASSUME NEW S \in SUBSET Nat, S # {}
                 PROVE  Least(S) \in S
<1>1. PICK x : x \in S
  OBVIOUS
<1> QED BY <1>1, LeastBelow

(* A frame's size is a natural number, of free format or not. *)
LEMMA FrameAtType ==
    ASSUME NEW cells \in Seq(Cell), NEW p \in 0..Len(cells), NEW i \in Nat,
           p + i < Len(cells)
    PROVE  FrameAt(cells, p, i).fb \in Nat /\ FrameAt(cells, p, i).size \in Nat
<1> DEFINE h == cells[p + i + 1]
           free == FreeSizes(cells, p, i)
<1>1. h \in Cell
  OBVIOUS
<1>2. h.size \in Nat /\ h.pad \in Nat
  BY <1>1 DEF Cell
<1>3. free \in SUBSET Nat /\ \A b \in free : b > h.pad
  BY StreamAssumption DEF FreeSizes, HDR_SIZE
<1>4. free # {} => Least(free) \in Nat /\ Least(free) > h.pad
  BY <1>3, LeastIn
<1>5. Length(h, 0) \in Nat
  BY <1>2 DEF Length, hdr_frame_bytes
<1> HIDE DEF free, h
<1>6. CASE h.size # 0
  BY <1>2, <1>5, <1>6 DEF FrameAt, h
<1>7. CASE h.size = 0 /\ free = {}
  BY <1>2, <1>7 DEF FrameAt, h, free
<1>8. CASE h.size = 0 /\ free # {}
  BY <1>2, <1>4, <1>8 DEF FrameAt, h, free
<1> QED BY <1>6, <1>7, <1>8

(* What is found of a frame lies in the rest of the file. *)
LEMMA FindBounds ==
    ASSUME NEW cells \in Seq(Cell), NEW p \in 0..Len(cells)
    PROVE  LET find == mp3d_find_frame(cells, p)
           IN  /\ find.i \in Nat /\ find.size \in Nat /\ find.free \in Nat
               /\ find.i + find.size <= Len(cells) - p
               /\ find.size # 0 => p + find.i < Len(cells)
<1> DEFINE n == Len(cells) - p
           at == {i \in 0..(n - HDR_SIZE - 1) : Found(cells, p, i)}
           i == Least(at)
           frame == FrameAt(cells, p, i)
<1>1. n \in Nat
  OBVIOUS
<1>2. CASE at = {}
  BY <1>1, <1>2 DEF mp3d_find_frame, HDR_SIZE
<1>3. CASE at # {}
  <2>1. at \in SUBSET Nat
    OBVIOUS
  <2>2. i \in at
    BY <1>3, <2>1, LeastIn
  <2>3. i \in Nat /\ i < n /\ p + i < Len(cells) /\ Found(cells, p, i)
    BY <1>1, <2>2 DEF HDR_SIZE
  <2>4. frame.fb \in Nat /\ frame.size \in Nat
    BY <2>3, FrameAtType
  <2>5. i + frame.size <= n
    BY <2>3, <2>4 DEF Found
  <2>6. mp3d_find_frame(cells, p) =
            [i |-> i, size |-> frame.size,
             free |-> IF cells[p + i + 1].size = 0 THEN frame.fb ELSE 0]
    BY <1>3 DEF mp3d_find_frame
  <2> HIDE DEF i, frame, n
  <2>7. n = Len(cells) - p
    BY DEF n
  <2> QED BY <2>3, <2>4, <2>5, <2>6, <2>7
<1> QED BY <1>2, <1>3

(* mp3dec_t, as far as the bounds need it. *)
IsDecoder(d) == /\ d.free \in Nat
                /\ d = [header |-> d.header, free |-> d.free, reserv |-> d.reserv]

(* mp3dec_init and the copy of a header leave the rest of the decoder as   *)
(* it is.                                                                  *)
LEMMA HeaderUpdate ==
    ASSUME NEW d, IsDecoder(d), NEW h
    PROVE  IsDecoder([d EXCEPT !.header = h])
<1>1. d.free \in Nat /\ d = [header |-> d.header, free |-> d.free, reserv |-> d.reserv]
  BY DEF IsDecoder
<1>2. [d EXCEPT !.header = h] = [header |-> h, free |-> d.free, reserv |-> d.reserv]
  BY <1>1
<1> QED BY <1>1, <1>2 DEF IsDecoder

(* A call of the decoder takes no more than there is, and something when   *)
(* it gives samples.                                                       *)
LEMMA DecodeBounds ==
    ASSUME NEW cells \in Seq(Cell), NEW p \in 0..Len(cells), NEW d, NEW j,
           IsDecoder(d)
    PROVE  LET frame == mp3dec_decode_frame(d, cells, j, p)
           IN  /\ frame.bytes \in 0..(Len(cells) - p)
               /\ frame.channels \in 0..2
               /\ frame.channels # 0 => frame.bytes # 0
               /\ IsDecoder(frame.dec)
<1> DEFINE inrun == InRun(d, cells, p)
           find == mp3d_find_frame(cells, p)
           i == IF inrun THEN 0 ELSE find.i
           size == IF inrun THEN Length(cells[p + 1], d.free) ELSE find.size
           hdr == cells[p + i + 1]
           next == IF inrun THEN d ELSE [Init0 EXCEPT !.free = find.free]
           frame == mp3dec_decode_frame(d, cells, j, p)
<1>0. IsDecoder(next) /\ d.free \in Nat
  BY FindBounds DEF Init0, IsDecoder
<1>1. /\ i \in Nat /\ size \in Nat /\ i + size <= Len(cells) - p
      /\ size # 0 => p + i < Len(cells)
  <2>1. CASE inrun
    <3>1. p + 1 <= Len(cells)
      BY <2>1 DEF InRun, HDR_SIZE
    <3>2. cells[p + 1] \in Cell
      BY <3>1
    <3>3. Length(cells[p + 1], d.free) \in Nat
      <4>1. cells[p + 1].size \in Nat /\ cells[p + 1].pad \in Nat
        BY <3>2 DEF Cell
      <4> QED BY <4>1, <1>0 DEF Length, hdr_frame_bytes
    <3>4. Length(cells[p + 1], d.free) <= Len(cells) - p
      BY <2>1, <3>3 DEF InRun, HDR_SIZE
    <3> QED BY <2>1, <3>1, <3>3, <3>4
  <2>2. CASE ~ inrun
    BY <2>2, FindBounds
  <2> QED BY <2>1, <2>2
<1>2. size # 0 => hdr.channels \in 0..2
  <2> HIDE DEF i
  <2> SUFFICES ASSUME size # 0 PROVE hdr.channels \in 0..2
    OBVIOUS
  <2>1. hdr \in Cell
    BY <1>1
  <2> QED BY <2>1 DEF Cell
<1>3. /\ frame.bytes = i + size
      /\ frame.channels = 0 \/ (size # 0 /\ frame.channels = hdr.channels)
  <2> HIDE DEF find
  <2>1. CASE size = 0
    BY <2>1, <1>1 DEF mp3dec_decode_frame, DecodedFrom, DecodedAt, Located, Cleared, find
  <2>2. CASE size # 0
    BY <2>2 DEF mp3dec_decode_frame, DecodedFrom, DecodedAt, Located, Cleared, find
  <2> QED BY <2>1, <2>2
<1>5. IsDecoder(frame.dec)
  <2>1. \/ frame.dec = next
        \/ \E h : frame.dec = [next EXCEPT !.header = h]
        \/ \E h, r : frame.dec = [header |-> h, free |-> next.free, reserv |-> r]
    <3> HIDE DEF find
    <3> QED BY DEF mp3dec_decode_frame, DecodedFrom, DecodedAt, Located, Cleared, find, mp3dec_init
  <2> HIDE DEF next, frame
  <2>2. CASE frame.dec = next
    BY <1>0, <2>2
  <2>3. CASE \E h : frame.dec = [next EXCEPT !.header = h]
    <3>1. PICK h : frame.dec = [next EXCEPT !.header = h]
      BY <2>3
    <3>2. IsDecoder([next EXCEPT !.header = h])
      BY <1>0, HeaderUpdate
    <3> QED BY <3>1, <3>2
  <2>4. CASE \E h, r : frame.dec = [header |-> h, free |-> next.free, reserv |-> r]
    BY <1>0, <2>4 DEF IsDecoder
  <2> QED BY <2>1, <2>2, <2>3, <2>4
<1> HIDE DEF i, size, hdr, frame
<1>4. /\ frame.bytes \in 0..(Len(cells) - p)
      /\ frame.channels \in 0..2
      /\ frame.channels # 0 => frame.bytes # 0
  BY <1>1, <1>2, <1>3
<1> QED BY <1>4, <1>5 DEF frame

-----------------------------------------------------------------------------
(* The invariant: InBounds and LoadEnds with what the first frame's guess  *)
(* and each doubling leave of room, and whose samples info holds at each   *)
(* point of the loading.                                                   *)

Sound == [from : Int, size : Nat, opened : BOOLEAN]

LoaderInv ==
    /\ k \in Nat \ {0} /\ sounds \in Seq(Sound) /\ k = Len(sounds) + 1
    /\ phase \in {"open", "first", "rest", "store"}
    /\ IsDecoder(dec)
    /\ pos \in Nat /\ rounds \in Nat /\ rounds <= pos + 1
    /\ info.from \in Int /\ info.samples \in Nat
    /\ phase \in {"first", "rest"} =>
          file \in Seq(Cell) /\ pos <= Len(file) /\ rounds <= pos
    /\ phase = "first" => info = NoInfo
    /\ phase = "rest" => /\ info.from = k
                         /\ info = [from |-> info.from, samples |-> info.samples,
                                    channels |-> info.channels, hz |-> info.hz,
                                    layer |-> info.layer]
                         /\ allocated \in Nat /\ info.samples <= allocated
                         /\ MINIMP3_MAX_SAMPLES_PER_FRAME <= allocated
    /\ (phase = "store" /\ file # Unreadable) =>
          info.from = k \/ (info.from = 0 /\ info.samples = 0)
    /\ OwnSounds

(* Before the first file there is nothing to hold.                         *)
LEMMA InitInv == Init => LoaderInv
BY DEF Init, LoaderInv, IsDecoder, Init0, Garbage, NoInfo, OwnSounds

(* Opening a file clears info, or leaves it to a file that was not opened. *)
LEMMA OpenInv == LoaderInv /\ Open => LoaderInv'
<1> SUFFICES ASSUME LoaderInv, Open PROVE LoaderInv'
  OBVIOUS
<1>1. /\ pos' = 0 /\ rounds' = 0 /\ k' = k /\ sounds' = sounds
      /\ k \in 1..Len(Contents)
  BY DEF Open, LoaderInv
<1>2. OwnSounds'
  BY <1>1 DEF LoaderInv, OwnSounds
<1>3. CASE OpenReadable
  <2>1. PICK content \in Mapped :
            LET cells == content.cells
                whole == content.tag <= Len(cells)
            IN  /\ file' = IF whole THEN SubSeq(cells, content.tag + 1, Len(cells)) ELSE <<>>
                /\ dec' = IF whole THEN mp3dec_init(dec) ELSE dec
                /\ phase' = IF whole THEN "first" ELSE "store"
                /\ info' = ClearedInfo
    BY <1>3 DEF OpenReadable
  <2>2. content \in [tag : Nat, cells : Seq(Cell)]
    <3>1. Contents[k] \in SUBSET ({Unreadable} \cup [tag : Nat, cells : Seq(Cell)])
      BY <1>1, ContentsAssumption
    <3> QED BY <3>1 DEF Mapped
  <2>3. content.tag \in Nat /\ content.cells \in Seq(Cell)
    BY <2>2
  <2>4. file' \in Seq(Cell)
    BY <2>1, <2>3
  <2>5. IsDecoder(dec')
    BY <2>1, HeaderUpdate DEF LoaderInv, mp3dec_init
  <2>6. info' = NoInfo /\ phase' \in {"first", "store"}
    BY <2>1 DEF ClearedInfo
  <2> QED BY <1>1, <1>2, <2>4, <2>5, <2>6 DEF LoaderInv, NoInfo, IsDecoder
<1>4. CASE OpenFails
  BY <1>1, <1>2, <1>4 DEF OpenFails, LoaderInv, Garbage, NoInfo, IsDecoder
<1> QED BY <1>3, <1>4 DEF Open

(* A round of the first loop: it takes a byte or ends.                     *)
LEMMA FirstInv == LoaderInv /\ First => LoaderInv'
<1> SUFFICES ASSUME LoaderInv, First PROVE LoaderInv'
  OBVIOUS
<1> DEFINE frame == mp3dec_decode_frame(dec, file, k, pos)
<1>1. /\ phase = "first" /\ file \in Seq(Cell) /\ pos \in 0..Len(file) /\ rounds <= pos
      /\ IsDecoder(dec) /\ info = NoInfo
  BY DEF First, LoaderInv
<1>2. /\ frame.bytes \in 0..(Len(file) - pos) /\ frame.channels \in 0..2
      /\ frame.channels # 0 => frame.bytes # 0
      /\ IsDecoder(frame.dec)
  BY <1>1, DecodeBounds
<1>3. /\ dec' = frame.dec /\ pos' = pos + frame.bytes /\ rounds' = rounds + 1
      /\ file' = file /\ k' = k /\ sounds' = sounds
  BY DEF First
<1>4. /\ frame.channels = 0 => /\ info' = info /\ allocated' = allocated
                               /\ phase' = IF frame.bytes = 0 THEN "store" ELSE "first"
      /\ frame.channels # 0 =>
            /\ phase' = "rest"
            /\ info' = [from |-> k, samples |-> frame.channels, channels |-> frame.channels,
                        hz |-> frame.hdr.hz, layer |-> frame.hdr.layer]
            /\ allocated' = ((Len(file) - pos') \div frame.bytes) * frame.channels
                                + MINIMP3_MAX_SAMPLES_PER_FRAME
  BY DEF First, Ended
<1> HIDE DEF frame
<1>5. pos' \in Nat /\ pos' <= Len(file) /\ rounds' \in Nat /\ rounds' <= pos' + 1
  BY <1>1, <1>2, <1>3 DEF LoaderInv
<1>6. frame.bytes # 0 => rounds' <= pos'
  BY <1>1, <1>2, <1>3 DEF LoaderInv
<1>7. OwnSounds'
  BY <1>3 DEF LoaderInv, OwnSounds
<1>8. CASE frame.channels = 0
  BY <1>1, <1>2, <1>3, <1>4, <1>5, <1>6, <1>7, <1>8 DEF LoaderInv, NoInfo, IsDecoder
<1>9. CASE frame.channels # 0
  <2>1. (Len(file) - pos') \div frame.bytes \in Nat
    BY <1>2, <1>5, <1>9, <1>1
  <2>2. ((Len(file) - pos') \div frame.bytes) * frame.channels \in Nat
    <3> DEFINE q == (Len(file) - pos') \div frame.bytes
    <3>1. frame.channels = 1 \/ frame.channels = 2
      BY <1>2, <1>9
    <3> HIDE DEF q
    <3>2. q \in Nat
      BY <2>1 DEF q
    <3>3. q * frame.channels \in Nat
      BY <3>1, <3>2
    <3> QED BY <3>3 DEF q
  <2>3. allocated' \in Nat /\ MINIMP3_MAX_SAMPLES_PER_FRAME <= allocated'
    BY <1>4, <1>9, <2>2 DEF MINIMP3_MAX_SAMPLES_PER_FRAME
  <2>4. info'.samples <= allocated' /\ info'.samples \in Nat /\ info'.from = k
    BY <1>2, <1>4, <1>9, <2>3 DEF MINIMP3_MAX_SAMPLES_PER_FRAME
  <2>5. info' = [from |-> info'.from, samples |-> info'.samples, channels |-> info'.channels,
                 hz |-> info'.hz, layer |-> info'.layer]
    BY <1>4, <1>9
  <2> QED BY <1>1, <1>2, <1>3, <1>4, <1>5, <1>6, <1>7, <1>9, <2>3, <2>4, <2>5
          DEF LoaderInv, IsDecoder
<1> QED BY <1>8, <1>9

(* A round of the second loop: it makes room before it decodes.            *)
LEMMA RestInv == LoaderInv /\ Rest => LoaderInv'
<1> SUFFICES ASSUME LoaderInv, Rest PROVE LoaderInv'
  OBVIOUS
<1> DEFINE frame == mp3dec_decode_frame(dec, file, k, pos)
           counted == frame.channels # 0 /\ frame.hdr.hz = info.hz /\ frame.hdr.layer = info.layer
<1>1. /\ phase = "rest" /\ file \in Seq(Cell) /\ pos \in 0..Len(file) /\ rounds <= pos
      /\ IsDecoder(dec) /\ info.from = k /\ info.samples \in Nat /\ k \in Nat
      /\ allocated \in Nat /\ info.samples <= allocated
      /\ MINIMP3_MAX_SAMPLES_PER_FRAME <= allocated
  BY DEF Rest, LoaderInv
<1>2. /\ frame.bytes \in 0..(Len(file) - pos) /\ frame.channels \in 0..2
      /\ IsDecoder(frame.dec)
  BY <1>1, DecodeBounds
<1>3. /\ dec' = frame.dec /\ pos' = pos + frame.bytes /\ rounds' = rounds + 1
      /\ file' = file /\ k' = k /\ sounds' = sounds /\ allocated' = Grown
      /\ phase' \in {"rest", "store"}
      /\ phase' = "rest" => frame.bytes # 0
      /\ info' = IF counted
                 THEN [from |-> info.from, hz |-> info.hz, layer |-> info.layer,
                       samples |-> info.samples + frame.channels,
                       channels |-> IF info.channels = frame.channels
                                    THEN info.channels ELSE 0]
                 ELSE info
  BY DEF Rest, Ended
<1> HIDE DEF frame, counted
<1>4. pos' \in Nat /\ pos' <= Len(file) /\ rounds' \in Nat /\ rounds' <= pos' + 1
  BY <1>1, <1>2, <1>3 DEF LoaderInv
<1>5. frame.bytes # 0 => rounds' <= pos'
  BY <1>1, <1>2, <1>3 DEF LoaderInv
<1>6. OwnSounds'
  BY <1>3 DEF LoaderInv, OwnSounds
<1>7. /\ allocated' \in Nat /\ MINIMP3_MAX_SAMPLES_PER_FRAME <= allocated'
      /\ info.samples + MINIMP3_MAX_SAMPLES_PER_FRAME <= allocated'
  BY <1>1, <1>3 DEF Grown, MINIMP3_MAX_SAMPLES_PER_FRAME
<1>8. /\ info'.from = k
      /\ info'.samples \in Nat /\ info'.samples <= info.samples + MINIMP3_MAX_SAMPLES_PER_FRAME
      /\ info' = [from |-> info'.from, samples |-> info'.samples, channels |-> info'.channels,
                  hz |-> info'.hz, layer |-> info'.layer]
  <2>1. info = [from |-> info.from, samples |-> info.samples, channels |-> info.channels,
                hz |-> info.hz, layer |-> info.layer]
    BY <1>1 DEF LoaderInv
  <2>2. CASE counted
    BY <1>1, <1>2, <1>3, <2>1, <2>2 DEF MINIMP3_MAX_SAMPLES_PER_FRAME
  <2>3. CASE ~ counted
    BY <1>1, <1>3, <2>1, <2>3 DEF MINIMP3_MAX_SAMPLES_PER_FRAME
  <2> QED BY <2>2, <2>3
<1>9. info'.samples <= allocated'
  BY <1>1, <1>7, <1>8 DEF MINIMP3_MAX_SAMPLES_PER_FRAME
<1>10. info'.from \in Int /\ IsDecoder(dec')
  BY <1>1, <1>2, <1>3, <1>8
<1>11. CASE phase' = "rest"
  BY <1>1, <1>3, <1>4, <1>5, <1>6, <1>7, <1>8, <1>9, <1>10, <1>11 DEF LoaderInv
<1>12. CASE phase' = "store"
  BY <1>1, <1>3, <1>4, <1>6, <1>8, <1>10, <1>12 DEF LoaderInv
<1> QED BY <1>3, <1>11, <1>12

(* The sound that is stored is the one in info.                            *)
LEMMA StoreInv == LoaderInv /\ Store => LoaderInv'
<1> SUFFICES ASSUME LoaderInv, Store PROVE LoaderInv'
  OBVIOUS
<1> DEFINE s == [from |-> info.from, size |-> info.samples, opened |-> file # Unreadable]
<1>1. /\ phase = "store" /\ phase' = "open" /\ k' = k + 1 /\ sounds' = Append(sounds, s)
      /\ UNCHANGED <<file, pos, dec, info, allocated, fed, rounds>>
  BY DEF Store
<1>2. s \in Sound
  BY DEF LoaderInv, Sound
<1>3. sounds' \in Seq(Sound) /\ Len(sounds') = Len(sounds) + 1
  BY <1>1, <1>2 DEF LoaderInv
<1>4. OwnSounds'
  <2>1. SUFFICES ASSUME NEW j \in DOMAIN sounds', sounds'[j].opened
                 PROVE  \/ sounds'[j].from = j
                        \/ sounds'[j].from = 0 /\ sounds'[j].size = 0
    BY DEF OwnSounds
  <2>2. CASE j \in DOMAIN sounds
    <3>1. sounds'[j] = sounds[j]
      BY <1>1, <1>2, <2>2 DEF LoaderInv
    <3> QED BY <2>1, <2>2, <3>1 DEF LoaderInv, OwnSounds
  <2>3. CASE j \notin DOMAIN sounds
    <3>1. j = k
      BY <1>3, <2>1, <2>3 DEF LoaderInv
    <3>2. sounds'[j] = s
      BY <1>1, <1>2, <3>1 DEF LoaderInv
    <3>3. s.opened => s.from = k \/ (s.from = 0 /\ s.size = 0)
      BY <1>1 DEF LoaderInv
    <3> HIDE DEF s
    <3> QED BY <2>1, <3>1, <3>2, <3>3
  <2> QED BY <2>2, <2>3
<1> QED BY <1>1, <1>3, <1>4 DEF LoaderInv, IsDecoder

(* The loops stay within the file and the buffer and count no round for    *)
(* nothing, for any files and any sizes of the decoder.                    *)
THEOREM LoaderInvariant == Spec => []LoaderInv
<1>1. LoaderInv /\ [Next]_vars => LoaderInv'
  <2> SUFFICES ASSUME LoaderInv, [Next]_vars PROVE LoaderInv'
    OBVIOUS
  <2>1. CASE UNCHANGED vars
    BY <2>1 DEF vars, LoaderInv, OwnSounds, IsDecoder
  <2> QED BY <2>1, OpenInv, FirstInv, RestInv, StoreInv DEF Next
<1> QED BY <1>1, InitInv, PTL DEF Spec

(* The decoder stays within the file and the samples within their buffer   *)
(* (minimp3_ex.h:95-127).                                                  *)
THEOREM InBoundsHolds == Spec => []InBounds
<1>1. LoaderInv => InBounds
  BY DEF LoaderInv, InBounds
<1> QED BY <1>1, LoaderInvariant, PTL

(* The two loops of mp3dec_load_buf end, after at most one round for each  *)
(* byte and one more (minimp3_ex.h:79-86, 107-136).                        *)
THEOREM LoadEndsHolds == Spec => []LoadEnds
<1>1. LoaderInv => LoadEnds
  BY DEF LoaderInv, LoadEnds
<1> QED BY <1>1, LoaderInvariant, PTL

(* A file that was opened leaves a sound of its own samples, or none       *)
(* (server.cpp:336-347).                                                   *)
THEOREM OwnSoundsHolds == Spec => []OwnSounds
<1>1. LoaderInv => OwnSounds
  BY DEF LoaderInv
<1> QED BY <1>1, LoaderInvariant, PTL

-----------------------------------------------------------------------------
(* The bytes that frames are decoded from.  A place is a file's number and *)
(* where in the file.                                                      *)

Place == Nat \X Nat

(* The newest bytes of an unbroken sequence are unbroken.                  *)
LEMMA UnbrokenLast ==
    ASSUME NEW cells, NEW j, NEW s \in Seq(Place), NEW end,
           Unbroken(cells, j, s, end), NEW n \in 0..Len(s)
    PROVE  /\ Last(s, n) \in Seq(Place) /\ Len(Last(s, n)) = n
           /\ Unbroken(cells, j, Last(s, n), end)
<1> DEFINE m == Len(s) - n
           t == Last(s, n)
<1>1. m \in Nat /\ m + n = Len(s) /\ n \in Nat
  OBVIOUS
<1>2. /\ t \in Seq(Place) /\ Len(t) = n
      /\ \A i \in 1..n : t[i] = s[m + i]
  BY DEF Last
<1> HIDE DEF m, t
<1>3. ASSUME NEW i \in 1..n
      PROVE  LET next == IF i = n THEN end ELSE t[i + 1][2]
             IN  /\ t[i][1] = j /\ t[i][2] < next
                 /\ \A c \in (t[i][2] + 1)..(next - 1) : hdr_valid(cells[c])
  <2> DEFINE a == m + i
  <2>1. a \in 1..Len(s) /\ (a = Len(s) <=> i = n) /\ a + 1 = m + (i + 1)
    BY <1>1
  <2>2. t[i] = s[a] /\ (i # n => t[i + 1] = s[a + 1])
    BY <1>1, <1>2, <2>1
  <2> HIDE DEF a
  <2> QED BY <2>1, <2>2 DEF Unbroken
<1>4. Unbroken(cells, j, t, end)
  BY <1>2, <1>3 DEF Unbroken
<1> QED BY <1>2, <1>4 DEF t

(* A frame's payload goes on behind its header.                            *)
LEMMA UnbrokenPayload ==
    ASSUME NEW cells, NEW j \in Nat, NEW s \in Seq(Place), NEW q \in Nat,
           Unbroken(cells, j, s, q + 1), hdr_valid(cells[q + 1]), NEW m \in Nat
    PROVE  LET payload == [c \in 1..m |-> <<j, q + HDR_SIZE + c>>]
           IN  /\ s \o payload \in Seq(Place) /\ Len(s \o payload) = Len(s) + m
               /\ Unbroken(cells, j, s \o payload, q + 1 + m + 1)
<1> DEFINE payload == [c \in 1..m |-> <<j, q + HDR_SIZE + c>>]
           t == s \o payload
           l == Len(s)
<1>1. payload \in Seq(Place) /\ Len(payload) = m
  BY DEF Place, HDR_SIZE
<1>2. /\ t \in Seq(Place) /\ Len(t) = l + m /\ l \in Nat
      /\ \A i \in 1..l : t[i] = s[i]
      /\ \A i \in 1..m : t[l + i] = payload[i]
  BY <1>1
<1>3. \A i \in 1..m : payload[i] = <<j, q + 1 + i>>
  BY DEF HDR_SIZE
<1>4. \A i \in 1..l : s[i] \in Nat \X Nat
  BY DEF Place
<1> HIDE DEF payload, t, l
<1>5. ASSUME NEW i \in 1..(l + m)
      PROVE  LET next == IF i = l + m THEN q + 1 + m + 1 ELSE t[i + 1][2]
             IN  /\ t[i][1] = j /\ t[i][2] < next
                 /\ \A c \in (t[i][2] + 1)..(next - 1) : hdr_valid(cells[c])
  <2> DEFINE next == IF i = l + m THEN q + 1 + m + 1 ELSE t[i + 1][2]
  <2>1. CASE i < l
    <3>1. i \in 1..l /\ i + 1 \in 1..l /\ i # l /\ i # l + m
      BY <1>2, <2>1
    <3>2. t[i] = s[i] /\ next = s[i + 1][2]
      BY <1>2, <3>1
    <3>3. /\ s[i][1] = j /\ s[i][2] < s[i + 1][2]
          /\ \A c \in (s[i][2] + 1)..(s[i + 1][2] - 1) : hdr_valid(cells[c])
      BY <3>1 DEF Unbroken, l
    <3> QED BY <3>2, <3>3
  <2>2. CASE i = l
    <3>1. i \in 1..l /\ (m = 0 <=> i = l + m)
      BY <1>2, <2>2
    <3>2. t[i] = s[i] /\ next = q + 2
      <4>1. CASE m = 0
        BY <1>2, <3>1, <4>1
      <4>2. CASE m # 0
        <5>1. 1 \in 1..m
          BY <4>2
        <5>2. t[i + 1] = <<j, q + 2>>
          BY <1>2, <1>3, <2>2, <5>1
        <5> QED BY <1>2, <3>1, <4>2, <5>2
      <4> QED BY <4>1, <4>2
    <3>3. /\ s[i][1] = j /\ s[i][2] < q + 1
          /\ \A c \in (s[i][2] + 1)..((q + 1) - 1) : hdr_valid(cells[c])
      BY <2>2, <3>1 DEF Unbroken, l
    <3>4. s[i][2] \in Nat
      BY <1>4, <3>1
    <3>5. \A c \in (s[i][2] + 1)..((q + 2) - 1) : c \in (s[i][2] + 1)..((q + 1) - 1) \/ c = q + 1
      BY <3>4
    <3> HIDE DEF next
    <3>6. s[i][2] < q + 2
      BY <3>3, <3>4
    <3>7. \A c \in (s[i][2] + 1)..((q + 2) - 1) : hdr_valid(cells[c])
      BY <3>3, <3>5
    <3> QED BY <3>2, <3>3, <3>6, <3>7 DEF next
  <2>3. CASE i > l
    <3> DEFINE a == i - l
    <3>1. a \in 1..m /\ i = l + a /\ (i = l + m <=> a = m) /\ i + 1 = l + (a + 1)
      BY <1>2, <2>3
    <3> HIDE DEF a
    <3>2. t[i] = <<j, q + 1 + a>>
      BY <1>2, <1>3, <3>1
    <3>3. next = q + 1 + a + 1
      <4>1. CASE a = m
        BY <3>1, <4>1
      <4>2. CASE a # m
        <5>1. a + 1 \in 1..m
          BY <3>1, <4>2
        <5>2. t[i + 1] = <<j, q + 1 + (a + 1)>>
          BY <1>2, <1>3, <3>1, <5>1
        <5> QED BY <3>1, <4>2, <5>2
      <4> QED BY <4>1, <4>2
    <3> HIDE DEF next
    <3>4. t[i][1] = j /\ t[i][2] = q + 1 + a
      BY <3>2
    <3>5. a \in Nat
      BY <3>1
    <3>6. t[i][2] < next /\ (t[i][2] + 1)..(next - 1) = {}
      BY <3>3, <3>4, <3>5
    <3> QED BY <3>4, <3>6 DEF next
  <2> QED BY <1>2, <2>1, <2>2, <2>3
<1>6. Unbroken(cells, j, t, q + 1 + m + 1)
  BY <1>2, <1>5 DEF Unbroken
<1> QED BY <1>2, <1>6 DEF t, payload, l

(* What is found is a header, and its frame as long as the header says.    *)
LEMMA FindLength ==
    ASSUME NEW cells \in Seq(Cell), NEW p \in 0..Len(cells)
    PROVE  LET find == mp3d_find_frame(cells, p)
           IN  find.size # 0 =>
                   /\ hdr_valid(cells[p + find.i + 1])
                   /\ Length(cells[p + find.i + 1], find.free) = find.size
<1> DEFINE n == Len(cells) - p
           at == {i \in 0..(n - HDR_SIZE - 1) : Found(cells, p, i)}
           i == Least(at)
           h == cells[p + i + 1]
           free == FreeSizes(cells, p, i)
           frame == FrameAt(cells, p, i)
<1>1. CASE at = {}
  BY <1>1 DEF mp3d_find_frame
<1>2. CASE at # {}
  <2>1. at \in SUBSET Nat
    OBVIOUS
  <2>2. i \in at
    BY <1>2, <2>1, LeastIn
  <2>3. hdr_valid(h) /\ i \in Nat /\ p + i < Len(cells)
    BY <2>2 DEF Found, HDR_SIZE
  <2>4. mp3d_find_frame(cells, p) =
            [i |-> i, size |-> frame.size, free |-> IF h.size = 0 THEN frame.fb ELSE 0]
    BY <1>2 DEF mp3d_find_frame
  <2> HIDE DEF i
  <2>5. h.size \in Nat /\ h.pad \in Nat
    <3>1. h \in Cell
      BY <2>3
    <3> QED BY <3>1 DEF Cell
  <2>6. free # {} => Least(free) \in Nat
    <3>1. free \in SUBSET Nat
      BY StreamAssumption DEF FreeSizes, HDR_SIZE
    <3> QED BY <3>1, LeastIn
  <2>7. Length(h, IF h.size = 0 THEN frame.fb ELSE 0) = frame.size
    <3> HIDE DEF h, free
    <3>1. CASE h.size # 0
      BY <3>1 DEF FrameAt, Length, hdr_frame_bytes, h
    <3>2. CASE h.size = 0 /\ free = {}
      BY <2>5, <3>2 DEF FrameAt, Length, hdr_frame_bytes, h, free
    <3>3. CASE h.size = 0 /\ free # {}
      BY <2>5, <2>6, <3>3 DEF FrameAt, Length, hdr_frame_bytes, h, free
    <3> QED BY <3>1, <3>2, <3>3
  <2> HIDE DEF frame, n, at
  <2> QED BY <2>3, <2>4, <2>7
<1> QED BY <1>1, <1>2

(* The decoder that a frame is decoded with has in its reservoir what came *)
(* directly before the frame, or nothing.                                  *)
LEMMA LocatedRight ==
    ASSUME NEW cells \in Seq(Cell), NEW p \in 0..Len(cells), NEW d, NEW j,
           IsDecoder(d), d.reserv \in Seq(Place), InRunUpTo(d, cells, j, p)
    PROVE  LET at == Located(d, cells, p)
               q == p + at.i
           IN  /\ at.i \in Nat /\ at.size \in Nat
               /\ IsDecoder(at.dec) /\ at.dec.reserv \in Seq(Place)
               /\ at.size = 0 => ~ hdr_valid(at.dec.header)
               /\ at.size # 0 =>
                     /\ q < Len(cells) /\ hdr_valid(cells[q + 1])
                     /\ Length(cells[q + 1], at.dec.free) = at.size
                     /\ Unbroken(cells, j, at.dec.reserv, q + 1)
                     /\ cells[q + 1].layer # 3 => at.dec.reserv = <<>>
<1> DEFINE find == mp3d_find_frame(cells, p)
           h == cells[p + 1]
<1>1. CASE InRun(d, cells, p)
  <2>1. Located(d, cells, p) = [dec |-> d, i |-> 0, size |-> Length(h, d.free)]
    BY <1>1 DEF Located
  <2>2. p + 1 <= Len(cells) /\ p + 0 = p /\ p < Len(cells) /\ h \in Cell
    BY <1>1 DEF InRun, HDR_SIZE
  <2>3. Length(h, d.free) \in Nat
    <3>1. h.size \in Nat /\ h.pad \in Nat /\ d.free \in Nat
      BY <2>2 DEF Cell, IsDecoder
    <3> QED BY <3>1 DEF Length, hdr_frame_bytes
  <2>4. /\ Length(h, d.free) # 0 /\ hdr_valid(h) /\ hdr_valid(d.header)
        /\ d.header.layer = h.layer
    BY <1>1 DEF InRun, hdr_compare
  <2>5. Unbroken(cells, j, d.reserv, p + 1) /\ (h.layer # 3 => d.reserv = <<>>)
    BY <2>4 DEF InRunUpTo
  <2> HIDE DEF h
  <2> QED BY <2>1, <2>2, <2>3, <2>4, <2>5 DEF h
<1>2. CASE ~ InRun(d, cells, p)
  <2> DEFINE c == [Init0 EXCEPT !.free = find.free]
  <2>1. Located(d, cells, p) = [dec |-> c, i |-> find.i, size |-> find.size]
    BY <1>2 DEF Located, Cleared
  <2>2. /\ find.i \in Nat /\ find.size \in Nat /\ find.free \in Nat
        /\ find.size # 0 => p + find.i < Len(cells)
    BY FindBounds
  <2>3. c = [header |-> NoHeader, free |-> find.free, reserv |-> <<>>]
    BY DEF Init0
  <2>4. IsDecoder(c) /\ ~ hdr_valid(c.header) /\ c.reserv = <<>> /\ c.reserv \in Seq(Place)
    <3> HIDE DEF c, find
    <3>1. c.header = NoHeader /\ c.free = find.free /\ c.reserv = <<>>
      BY <2>3
    <3>2. c = [header |-> c.header, free |-> c.free, reserv |-> c.reserv] /\ c.free \in Nat
      BY <2>2, <2>3, <3>1
    <3>3. ~ hdr_valid(c.header)
      BY <3>1 DEF hdr_valid, NoHeader
    <3>4. c.reserv \in Seq(Place)
      BY <3>1
    <3> QED BY <3>1, <3>2, <3>3, <3>4 DEF IsDecoder
  <2>5. \A end : Unbroken(cells, j, <<>>, end)
    BY DEF Unbroken
  <2>6. find.size # 0 =>
            /\ hdr_valid(cells[p + find.i + 1])
            /\ Length(cells[p + find.i + 1], find.free) = find.size
    BY FindLength
  <2>7. c.free = find.free
    BY <2>3
  <2> HIDE DEF find, c
  <2> DEFINE at == Located(d, cells, p)
  <2>8. at.dec = c /\ at.i = find.i /\ at.size = find.size
    BY <2>1
  <2>9. Unbroken(cells, j, c.reserv, p + find.i + 1)
    BY <2>4, <2>5
  <2> HIDE DEF at
  <2>10. /\ at.i \in Nat /\ at.size \in Nat
         /\ IsDecoder(at.dec) /\ at.dec.reserv \in Seq(Place) /\ ~ hdr_valid(at.dec.header)
         /\ at.size # 0 =>
               /\ p + at.i < Len(cells) /\ hdr_valid(cells[p + at.i + 1])
               /\ Length(cells[p + at.i + 1], at.dec.free) = at.size
         /\ Unbroken(cells, j, at.dec.reserv, p + at.i + 1)
         /\ at.dec.reserv = <<>>
    BY <2>2, <2>4, <2>6, <2>7, <2>8, <2>9
  <2> QED BY <2>10 DEF at
<1> QED BY <1>1, <1>2

(* A frame is decoded from the right bytes, and leaves the right bytes.    *)
LEMMA DecodeRight ==
    ASSUME NEW cells \in Seq(Cell), NEW p \in 0..Len(cells), NEW d, NEW j \in Nat,
           IsDecoder(d), d.reserv \in Seq(Place), InRunUpTo(d, cells, j, p)
    PROVE  LET frame == mp3dec_decode_frame(d, cells, j, p)
               end == p + frame.bytes
           IN  /\ frame.dec.reserv \in Seq(Place)
               /\ InRunUpTo(frame.dec, cells, j, end)
               /\ frame.fed # <<>> =>
                     /\ Unbroken(cells, j, frame.fed, end + 1)
                     /\ OwnMainData(cells, frame.dec, frame.fed, end)
<1> DEFINE at == Located(d, cells, p)
           q == p + at.i
           hdr == cells[q + 1]
           m == at.size - HDR_SIZE
           payload == [c \in 1..m |-> <<j, q + HDR_SIZE + c>>]
           r == at.dec.reserv
           n == MINIMP3_MIN(Len(r), hdr.mdb)
           maindata == Last(r, n) \o payload
           success == Len(r) >= hdr.mdb
           frame == mp3dec_decode_frame(d, cells, j, p)
           silent == [dec |-> at.dec, bytes |-> at.i + at.size, hdr |-> hdr, channels |-> 0,
                      fed |-> <<>>]
           end == p + frame.bytes
<1>1. /\ at.i \in Nat /\ at.size \in Nat
      /\ IsDecoder(at.dec) /\ r \in Seq(Place)
      /\ at.size = 0 => ~ hdr_valid(at.dec.header)
      /\ at.size # 0 =>
            /\ q < Len(cells) /\ hdr_valid(hdr)
            /\ Length(hdr, at.dec.free) = at.size
            /\ Unbroken(cells, j, r, q + 1)
            /\ hdr.layer # 3 => r = <<>>
  BY LocatedRight
<1>2. frame = DecodedAt(at, cells, j, q)
  BY DEF mp3dec_decode_frame, DecodedFrom
<1>3. \A e : Unbroken(cells, j, <<>>, e)
  BY DEF Unbroken
<1>4. at.dec = [header |-> at.dec.header, free |-> at.dec.free, reserv |-> r]
  BY <1>1 DEF IsDecoder
<1> HIDE DEF at, frame
<1>5. CASE at.size = 0
  <2>1. frame = [dec |-> at.dec, bytes |-> at.i, hdr |-> NoHeader, channels |-> 0, fed |-> <<>>]
    BY <1>2, <1>5 DEF DecodedAt
  <2>2. frame.dec = at.dec /\ frame.fed = <<>>
    BY <2>1
  <2> QED BY <1>1, <1>5, <2>2 DEF InRunUpTo, frame
<1>6. CASE at.size # 0 /\ hdr.layer # 3
  <2>1. frame = [silent EXCEPT !.dec.header = hdr]
    BY <1>2, <1>6 DEF DecodedAt
  <2>2. frame.dec = [at.dec EXCEPT !.header = hdr] /\ frame.fed = <<>>
    BY <2>1
  <2>3. frame.dec = [header |-> hdr, free |-> at.dec.free, reserv |-> r]
    BY <1>4, <2>2
  <2>4. frame.dec.header = hdr /\ frame.dec.reserv = <<>>
    BY <1>1, <1>6, <2>3
  <2>5. frame.dec.reserv \in Seq(Place)
    BY <2>4
  <2> QED BY <1>3, <2>2, <2>4, <2>5 DEF InRunUpTo, frame
<1>7. CASE at.size # 0 /\ hdr.layer = 3 /\ ~ L3_read_side_info(hdr, m)
  <2>1. frame = [silent EXCEPT !.dec = mp3dec_init(@)]
    BY <1>2, <1>7 DEF DecodedAt
  <2>2. frame.dec = [at.dec EXCEPT !.header = NoHeader] /\ frame.fed = <<>>
    BY <2>1 DEF mp3dec_init
  <2>3. frame.dec = [header |-> NoHeader, free |-> at.dec.free, reserv |-> r]
    BY <1>4, <2>2
  <2>4. ~ hdr_valid(frame.dec.header) /\ frame.dec.reserv = r
    BY <2>3 DEF hdr_valid, NoHeader
  <2> QED BY <1>1, <2>2, <2>4 DEF InRunUpTo, frame
<1>8. CASE at.size # 0 /\ hdr.layer = 3 /\ L3_read_side_info(hdr, m)
  <2> DEFINE kept == L3_save_reservoir(maindata, IF success THEN hdr.used ELSE 0)
  <2>1. frame = [dec |-> [header |-> hdr, free |-> at.dec.free, reserv |-> kept],
                 bytes |-> at.i + at.size, hdr |-> hdr,
                 channels |-> IF success THEN hdr.channels ELSE 0,
                 fed |-> IF success THEN maindata ELSE <<>>]
    BY <1>2, <1>8 DEF DecodedAt, L3_restore_reservoir
  <2>2. /\ frame.dec.header = hdr /\ frame.dec.reserv = kept /\ frame.dec.free = at.dec.free
        /\ frame.bytes = at.i + at.size
        /\ frame.fed = IF success THEN maindata ELSE <<>>
    BY <2>1
  <2>3. hdr \in Cell
    BY <1>1, <1>8
  <2>4. hdr.mdb \in Nat /\ hdr.used \in Nat
    BY <2>3 DEF Cell
  <2>5. m \in Nat /\ at.size = m + 1 /\ q \in Nat /\ hdr.used <= m + hdr.mdb
    BY <1>1, <1>8 DEF HDR_SIZE, L3_read_side_info
  <2>6. /\ Len(r) \in Nat /\ n \in 0..Len(r)
        /\ success => n = hdr.mdb
    BY <1>1, <2>4 DEF MINIMP3_MIN
  <2>7. Last(r, n) \in Seq(Place) /\ Len(Last(r, n)) = n /\ Unbroken(cells, j, Last(r, n), q + 1)
    <3> HIDE DEF n, q, r
    <3> QED BY <1>1, <1>8, <2>6, UnbrokenLast
  <2>8. /\ maindata \in Seq(Place) /\ Len(maindata) = n + m
        /\ Unbroken(cells, j, maindata, q + 1 + m + 1)
    <3> DEFINE s == Last(r, n)
    <3>1. s \in Seq(Place) /\ Len(s) = n /\ Unbroken(cells, j, s, q + 1) /\ hdr_valid(cells[q + 1])
      BY <1>1, <1>8, <2>7
    <3> HIDE DEF n, q, r, m, s
    <3>2. /\ s \o payload \in Seq(Place) /\ Len(s \o payload) = Len(s) + m
          /\ Unbroken(cells, j, s \o payload, q + 1 + m + 1)
      BY <2>5, <3>1, UnbrokenPayload
    <3> HIDE DEF payload
    <3> QED BY <3>1, <3>2 DEF s
  <2>9. end = q + 1 + m
    <3> DEFINE b == frame.bytes
               i == at.i
               size == at.size
    <3>1. p \in Nat /\ i \in Nat /\ m \in Nat /\ q = p + i /\ b = i + size /\ size = m + 1
      BY <1>1, <2>2, <2>5
    <3> HIDE DEF m, q, b, i, size
    <3>2. p + b = q + 1 + m
      BY ONLY <3>1
    <3> QED BY <3>2 DEF b
  <2>10. kept \in Seq(Place) /\ Unbroken(cells, j, kept, end + 1)
    <3> DEFINE l == Len(maindata)
               skip == IF success THEN hdr.used ELSE 0
               n2 == MINIMP3_MIN(l - skip, MAX_BITRESERVOIR_BYTES)
    <3>1. n2 \in 0..l
      <4>1. l = n + m /\ skip \in Nat /\ skip <= l
        BY <2>4, <2>5, <2>6, <2>8
      <4>2. MAX_BITRESERVOIR_BYTES \in Nat /\ l \in Nat
        BY <2>5, <2>6, <2>8, StreamAssumption
      <4> HIDE DEF l, skip, n
      <4> QED BY <2>5, <4>1, <4>2 DEF MINIMP3_MIN
    <3>2. kept = Last(maindata, n2)
      BY DEF L3_save_reservoir
    <3> HIDE DEF n2, maindata, kept
    <3> QED BY <2>8, <2>9, <3>1, <3>2, UnbrokenLast
  <2>11. InRunUpTo(frame.dec, cells, j, end)
    BY <1>8, <2>2, <2>10 DEF InRunUpTo
  <2>12. ASSUME frame.fed # <<>>
         PROVE  Unbroken(cells, j, frame.fed, end + 1) /\ OwnMainData(cells, frame.dec, frame.fed, end)
    <3>1. success /\ frame.fed = maindata
      BY <2>2, <2>12
    <3>2. q + 1 \in 1..end
      BY <2>5, <2>9
    <3>3. hdr_valid(hdr) /\ Length(hdr, frame.dec.free) = m + 1
      BY <1>1, <1>8, <2>2, <2>5
    <3>4. q + 1 + (m + 1) = end + 1 /\ Len(maindata) = hdr.mdb + end - (q + 1)
      <4> HIDE DEF n, q, m, end, maindata, hdr, success
      <4> QED BY <2>4, <2>5, <2>6, <2>8, <2>9, <3>1
    <3>5. OwnMainData(cells, frame.dec, maindata, end)
      <4> HIDE DEF maindata, m, end
      <4> QED BY <3>2, <3>3, <3>4 DEF OwnMainData
    <3> QED BY <2>8, <2>9, <3>1, <3>5
  <2> QED BY <2>2, <2>10, <2>11, <2>12 DEF frame
<1> QED BY <1>5, <1>6, <1>7, <1>8

(* RightBytes with the reservoir it depends on.                            *)
RightInv == LoaderInv /\ dec.reserv \in Seq(Place) /\ ReservoirInv /\ RightBytes

(* A frame decoded in either loop keeps it.                                *)
LEMMA FrameRight ==
    ASSUME RightInv, LoaderInv', First \/ Rest
    PROVE  RightInv'
<1> DEFINE frame == mp3dec_decode_frame(dec, file, k, pos)
<1>1. /\ phase \in {"first", "rest"} /\ dec' = frame.dec /\ fed' = frame.fed
      /\ pos' = pos + frame.bytes /\ file' = file /\ k' = k
  BY DEF First, Rest
<1>2. /\ file \in Seq(Cell) /\ pos \in 0..Len(file) /\ IsDecoder(dec) /\ k \in Nat
      /\ dec.reserv \in Seq(Place) /\ InRunUpTo(dec, file, k, pos)
  BY <1>1 DEF RightInv, LoaderInv, ReservoirInv
<1>3. /\ frame.dec.reserv \in Seq(Place)
      /\ InRunUpTo(frame.dec, file, k, pos + frame.bytes)
      /\ frame.fed # <<>> =>
            /\ Unbroken(file, k, frame.fed, pos + frame.bytes + 1)
            /\ OwnMainData(file, frame.dec, frame.fed, pos + frame.bytes)
  BY <1>2, DecodeRight
<1> HIDE DEF frame
<1>4. dec'.reserv \in Seq(Place) /\ InRunUpTo(dec', file', k', pos')
  BY <1>1, <1>3
<1>5. fed' # <<>> => Unbroken(file', k', fed', pos' + 1) /\ OwnMainData(file', dec', fed', pos')
  BY <1>1, <1>3
<1> QED BY <1>4, <1>5 DEF RightInv, ReservoirInv, RightBytes

(* The reservoir holds what came directly before, as long as the decoder  *)
(* is in a run of frames.                                                  *)
THEOREM RightInvariant == Spec => []RightInv
<1>1. Init => RightInv
  BY InitInv DEF Init, Init0, RightInv, ReservoirInv, RightBytes
<1>2. RightInv /\ [Next]_vars => RightInv'
  <2> SUFFICES ASSUME RightInv, [Next]_vars PROVE RightInv'
    OBVIOUS
  <2>1. LoaderInv'
    <3>1. LoaderInv
      BY DEF RightInv
    <3>2. CASE UNCHANGED vars
      BY <3>1, <3>2 DEF vars, LoaderInv, OwnSounds, IsDecoder
    <3> QED BY <3>1, <3>2, OpenInv, FirstInv, RestInv, StoreInv DEF Next
  <2>2. CASE Open
    <3>1. fed' = <<>>
      BY <2>2 DEF Open
    <3>2. \/ dec' = dec /\ phase' = "store"
          \/ dec' = mp3dec_init(dec)
      BY <2>2 DEF Open, OpenReadable, OpenFails
    <3>3. dec = [header |-> dec.header, free |-> dec.free, reserv |-> dec.reserv]
      BY DEF RightInv, LoaderInv, IsDecoder
    <3>4. CASE dec' = dec /\ phase' = "store"
      BY <2>1, <3>1, <3>4 DEF RightInv, ReservoirInv, RightBytes
    <3>5. CASE dec' = mp3dec_init(dec)
      <4>1. dec' = [header |-> NoHeader, free |-> dec.free, reserv |-> dec.reserv]
        BY <3>3, <3>5 DEF mp3dec_init
      <4>2. dec'.reserv = dec.reserv /\ ~ hdr_valid(dec'.header)
        BY <4>1 DEF hdr_valid, NoHeader
      <4> QED BY <2>1, <3>1, <4>2 DEF RightInv, ReservoirInv, RightBytes, InRunUpTo
    <3> QED BY <3>2, <3>4, <3>5
  <2>3. CASE First \/ Rest
    BY <2>1, <2>3, FrameRight
  <2>4. CASE Store
    <3>1. phase' = "open" /\ dec' = dec
      BY <2>4 DEF Store
    <3> QED BY <2>1, <3>1 DEF RightInv, ReservoirInv, RightBytes
  <2>5. CASE UNCHANGED vars
    BY <2>1, <2>5 DEF vars, RightInv, ReservoirInv, RightBytes
  <2> QED BY <2>2, <2>3, <2>4, <2>5 DEF Next
<1> QED BY <1>1, <1>2, PTL DEF Spec

(* Whatever the files are, what a frame is decoded from is always its own  *)
(* and as much as it asks for of what came directly before it in the same  *)
(* file (minimp3.h:1157-1181, 1665-1711).                                  *)
THEOREM RightBytesHolds == Spec => []RightBytes
<1>1. RightInv => RightBytes
  BY DEF RightInv
<1> QED BY <1>1, RightInvariant, PTL

-----------------------------------------------------------------------------
(* Files that are decoded whole.                                           *)

(* What WellFormed says of the frame at p.                                 *)
LEMMA FrameOf ==
    ASSUME NEW cells \in Seq(Cell), Good(cells), NEW p \in Nat, p + 1 \in Frames(cells)
    PROVE  LET h == cells[p + 1]
               n == h.size + h.pad
           IN  /\ p < Len(cells) /\ hdr_valid(h) /\ h.layer = 3 /\ h.hz = cells[1].hz
               /\ h.ok /\ h.size # 0 /\ h.size \in Nat /\ h.pad \in Nat
               /\ h.mdb \in Nat /\ h.used \in Nat /\ h.channels \in 0..2
               /\ n \in Nat /\ n > 1 /\ p + n <= Len(cells)
               /\ h.used <= h.mdb + (n - 1)
               /\ p = 0 => h.mdb = 0
               /\ p + n = Len(cells) \/ p + n + 1 \in Frames(cells)
               /\ \A r \in (p + 2)..(p + n) : r \notin Frames(cells)
               /\ p + n + 1 \in Frames(cells) =>
                      cells[p + n + 1].mdb
                          <= MINIMP3_MIN(MAX_BITRESERVOIR_BYTES, h.mdb + (n - 1) - h.used)
<1> DEFINE h == cells[p + 1]
           n == h.size + h.pad
           q == p + 1 + HDR_SIZE + Payload(cells, p + 1)
<1>1. p + 1 \in 1..Len(cells) /\ hdr_valid(h) /\ h \in Cell
  BY DEF Frames
<1>2. /\ h.size \in Nat /\ h.pad \in Nat /\ h.mdb \in Nat /\ h.used \in Nat
      /\ h.channels \in 0..2
  BY <1>1 DEF Cell
<1>3. /\ h.layer = 3 /\ h.hz = cells[1].hz /\ h.ok
      /\ h.size + h.pad > HDR_SIZE /\ h.size # 0
      /\ h.used <= h.mdb + Payload(cells, p + 1)
      /\ p + 1 = 1 => h.mdb = 0
      /\ q = Len(cells) + 1 \/ q \in Frames(cells)
      /\ \A r \in (p + 1 + 1)..(q - 1) : r \notin Frames(cells)
      /\ q \in Frames(cells) =>
             cells[q].mdb <= MINIMP3_MIN(MAX_BITRESERVOIR_BYTES,
                                         h.mdb + Payload(cells, p + 1) - h.used)
  BY DEF Good, WellFormed
<1>4. Payload(cells, p + 1) = n - 1 /\ HDR_SIZE = 1
  BY <1>2 DEF Payload, HDR_SIZE
<1>5. q = p + n + 1 /\ p + 1 + 1 = p + 2 /\ q - 1 = p + n
  <2>1. q = p + 1 + HDR_SIZE + Payload(cells, p + 1)
    OBVIOUS
  <2>2. n \in Nat
    <3> HIDE DEF h
    <3> QED BY ONLY <1>2
  <2> HIDE DEF n, q, h
  <2> QED BY ONLY p \in Nat, <1>4, <2>1, <2>2
<1>6. q \in Frames(cells) => q <= Len(cells)
  BY DEF Frames
<1>7. n \in Nat /\ n > 1 /\ p < Len(cells)
  BY <1>1, <1>2, <1>3, <1>4
<1>8. p + n = Len(cells) \/ p + n + 1 \in Frames(cells)
  <2> HIDE DEF q, n, h
  <2> QED BY <1>3, <1>5, <1>7
<1>9. p + n <= Len(cells)
  BY <1>5, <1>6, <1>7, <1>8
<1>10. \A r \in (p + 2)..(p + n) : r \notin Frames(cells)
  BY <1>3, <1>5
<1>11. p + n + 1 \in Frames(cells) =>
         cells[p + n + 1].mdb
             <= MINIMP3_MIN(MAX_BITRESERVOIR_BYTES, h.mdb + (n - 1) - h.used)
  BY <1>3, <1>4, <1>5
<1>12. h.used <= h.mdb + (n - 1) /\ (p = 0 => h.mdb = 0)
  BY <1>3, <1>4
<1> HIDE DEF n
<1> QED BY <1>1, <1>2, <1>3, <1>7, <1>8, <1>9, <1>10, <1>11, <1>12 DEF n

(* One more frame is behind the decoder.                                   *)
LEMMA SamplesStep ==
    ASSUME NEW cells \in Seq(Cell), Good(cells), NEW p \in Nat, p + 1 \in Frames(cells)
    PROVE  LET h == cells[p + 1]
           IN  SamplesUpTo(cells, p + (h.size + h.pad)) = SamplesUpTo(cells, p) + h.channels
<1> DEFINE h == cells[p + 1]
           n == h.size + h.pad
<1>1. /\ n \in Nat /\ n > 1 /\ h.channels \in 0..2
      /\ \A r \in (p + 2)..(p + n) : r \notin Frames(cells)
  BY FrameOf
<1> HIDE DEF n
<1>2. \A f \in Frames(cells) : f \in 1..Len(cells)
  BY DEF Frames
<1>3. \A c : IsFiniteSet(Before(cells, c, p))
  <2> TAKE c
  <2>1. Before(cells, c, p) \in SUBSET (1..Len(cells))
    BY <1>2 DEF Before
  <2>2. IsFiniteSet(1..Len(cells))
    BY FS_Interval
  <2> QED BY <2>1, <2>2, FS_Subset
<1>4. ASSUME NEW c
      PROVE  /\ Cardinality(Before(cells, c, p)) \in Nat
             /\ Cardinality(Before(cells, c, p + n))
                 = Cardinality(Before(cells, c, p)) + (IF h.channels = c THEN 1 ELSE 0)
  <2> DEFINE S == Before(cells, c, p)
             T == Before(cells, c, p + n)
  <2>1. ASSUME NEW f \in Frames(cells) PROVE f <= p + n <=> f <= p \/ f = p + 1
    <3>1. f \in Nat /\ f \notin (p + 2)..(p + n)
      BY <1>1, <1>2
    <3> QED BY <1>1, <3>1
  <2>2. p + 1 \notin S
    BY DEF Before
  <2>3. T = IF h.channels = c THEN S \cup {p + 1} ELSE S
    BY <2>1 DEF Before
  <2> HIDE DEF S, T
  <2>4. IsFiniteSet(S) /\ Cardinality(S) \in Nat
    BY <1>3, FS_CardinalityType DEF S
  <2>5. Cardinality(S \cup {p + 1}) = Cardinality(S) + 1
    BY <2>2, <2>4, FS_AddElement
  <2>6. Cardinality(T) = Cardinality(S) + (IF h.channels = c THEN 1 ELSE 0)
    BY <2>3, <2>4, <2>5
  <2> QED BY <2>4, <2>6 DEF S, T
<1> QED BY <1>1, <1>4 DEF SamplesUpTo, n

LEMMA SamplesNone == ASSUME NEW cells \in Seq(Cell) PROVE SamplesUpTo(cells, 0) = 0
<1>1. \A c : Before(cells, c, 0) = {}
  BY DEF Before, Frames
<1>2. Cardinality({}) = 0 /\ Before(cells, 1, 0) = {} /\ Before(cells, 2, 0) = {}
  BY <1>1, FS_EmptySet
<1>3. Cardinality(Before(cells, 1, 0)) = 0 /\ Cardinality(Before(cells, 2, 0)) = 0
  BY <1>2
<1> QED BY <1>3 DEF SamplesUpTo

LEMMA SamplesAll ==
    ASSUME NEW cells \in Seq(Cell)
    PROVE  SamplesUpTo(cells, Len(cells)) = Sounding(cells, 1) + 2 * Sounding(cells, 2)
<1>1. \A c : Before(cells, c, Len(cells)) = {p \in Frames(cells) : cells[p].channels = c}
  BY DEF Before, Frames
<1> QED BY <1>1 DEF SamplesUpTo, Sounding

-----------------------------------------------------------------------------
(* A hop as mp3d_match_frame makes it, and a list of n of them from p.     *)
Hop(cells, q, free) ==
    IF q + HDR_SIZE > Len(cells) THEN q ELSE q + Length(cells[q + 1], free)
IsHops(f, cells, p, free, n) ==
    f = [i \in 0..n |-> IF i = 0 THEN p ELSE Hop(cells, f[i - 1], free)]

LEMMA HopsExist ==
    ASSUME NEW cells, NEW p, NEW free, NEW n \in Nat
    PROVE  \E f : IsHops(f, cells, p, free, n)
<1> DEFINE Exists(m) == \E f : IsHops(f, cells, p, free, m)
           T == {m \in Nat : ~ Exists(m)}
<1>1. Exists(0)
  <2> DEFINE f == [i \in 0..0 |-> p]
  <2>1. IsHops(f, cells, p, free, 0)
    BY DEF IsHops
  <2> QED BY <2>1
<1>2. ASSUME NEW m \in Nat, Exists(m) PROVE Exists(m + 1)
  <2>1. PICK f : IsHops(f, cells, p, free, m)
    BY <1>2
  <2> DEFINE g == [i \in 0..(m + 1) |-> IF i <= m THEN f[i] ELSE Hop(cells, f[m], free)]
  <2>2. \A i \in 0..m : f[i] = IF i = 0 THEN p ELSE Hop(cells, f[i - 1], free)
    BY <2>1 DEF IsHops
  <2>3. ASSUME NEW i \in 0..(m + 1)
        PROVE  g[i] = IF i = 0 THEN p ELSE Hop(cells, g[i - 1], free)
    <3>1. CASE i = 0
      BY <2>2, <3>1
    <3>2. CASE i # 0
      <4>1. i - 1 \in 0..m /\ i - 1 \in 0..(m + 1) /\ g[i - 1] = f[i - 1]
        BY <3>2
      <4>2. CASE i <= m
        <5>1. i \in 0..m
          BY <4>2
        <5> QED BY <2>2, <3>2, <4>1, <4>2, <5>1
      <4>3. CASE ~ (i <= m)
        <5>1. i - 1 = m
          BY <4>3
        <5> QED BY <3>2, <4>1, <4>3, <5>1
      <4> QED BY <4>2, <4>3
    <3> QED BY <3>1, <3>2
  <2>4. g = [i \in 0..(m + 1) |-> g[i]]
    OBVIOUS
  <2> HIDE DEF g
  <2>5. g = [i \in 0..(m + 1) |-> IF i = 0 THEN p ELSE Hop(cells, g[i - 1], free)]
    BY <2>3, <2>4
  <2> QED BY <2>5 DEF IsHops
<1>3. T = {}
  <2> SUFFICES ASSUME T # {} PROVE FALSE
    OBVIOUS
  <2> DEFINE m == Least(T)
  <2>1. m \in T /\ \A x \in T : m <= x
    <3>1. T \in SUBSET Nat
      OBVIOUS
    <3> HIDE DEF T
    <3> QED BY <3>1, LeastBelow
  <2> HIDE DEF m
  <2>2. m \in Nat /\ ~ Exists(m)
    BY <2>1
  <2>3. m # 0
    BY <1>1, <2>2
  <2>4. m - 1 \in Nat /\ (m - 1) + 1 = m
    BY <2>2, <2>3
  <2>5. m - 1 \notin T
    BY <2>1, <2>2
  <2> HIDE DEF Exists
  <2> QED BY <1>2, <2>2, <2>4, <2>5
<1> QED BY <1>3

LEMMA HopsAre ==
    ASSUME NEW cells, NEW p, NEW free
    PROVE  IsHops(Hops(cells, p, free), cells, p, free, MAX_FRAME_SYNC_MATCHES)
<1>1. MAX_FRAME_SYNC_MATCHES \in Nat
  BY StreamAssumption
<1>2. \E f : IsHops(f, cells, p, free, MAX_FRAME_SYNC_MATCHES)
  BY <1>1, HopsExist
<1> QED BY <1>2 DEF Hops, IsHops, Hop

(* In a good file the hops from its start lead from frame to frame.        *)
LEMMA HopsGood ==
    ASSUME NEW cells \in Seq(Cell), Good(cells), NEW free
    PROVE  LET hop == Hops(cells, 0, free)
           IN  /\ hop[0] = 0
               /\ \A i \in 0..MAX_FRAME_SYNC_MATCHES :
                      /\ hop[i] \in 0..Len(cells)
                      /\ hop[i] = Len(cells) \/ hop[i] + 1 \in Frames(cells)
               /\ 1 <= MAX_FRAME_SYNC_MATCHES =>
                      hop[1] = cells[1].size + cells[1].pad
<1> DEFINE hop == Hops(cells, 0, free)
           M == MAX_FRAME_SYNC_MATCHES
           Right(i) == /\ hop[i] \in 0..Len(cells)
                       /\ hop[i] = Len(cells) \/ hop[i] + 1 \in Frames(cells)
           T == {i \in 0..M : ~ Right(i)}
<1>1. M \in Nat /\ \A i \in 0..M : hop[i] = IF i = 0 THEN 0 ELSE Hop(cells, hop[i - 1], free)
  <2>1. IsHops(hop, cells, 0, free, M)
    BY HopsAre
  <2> HIDE DEF hop
  <2> QED BY <2>1, StreamAssumption DEF IsHops
<1>2. 1 \in Frames(cells) /\ 0 + 1 = 1 /\ Len(cells) \in Nat
  BY DEF Good, Frames
<1> HIDE DEF hop, M
<1>3. Right(0) /\ hop[0] = 0
  BY <1>1, <1>2
<1>4. ASSUME NEW q \in Nat, q + 1 \in Frames(cells)
      PROVE  LET h == cells[q + 1]
                 n == h.size + h.pad
             IN  /\ Hop(cells, q, free) = q + n /\ q + n \in 0..Len(cells)
                 /\ q + n = Len(cells) \/ q + n + 1 \in Frames(cells)
  <2> DEFINE h == cells[q + 1]
             n == h.size + h.pad
  <2>1. /\ q < Len(cells) /\ h.size # 0 /\ n \in Nat /\ q + n <= Len(cells)
        /\ q + n = Len(cells) \/ q + n + 1 \in Frames(cells)
    BY <1>4, FrameOf
  <2>2. Hop(cells, q, free) = q + n
    BY <1>2, <2>1 DEF Hop, HDR_SIZE, Length, hdr_frame_bytes
  <2> HIDE DEF n
  <2> QED BY <2>1, <2>2 DEF n
<1>5. ASSUME NEW i \in 1..M, Right(i - 1) PROVE Right(i)
  <2> DEFINE q == hop[i - 1]
  <2>1. hop[i] = Hop(cells, q, free) /\ q \in 0..Len(cells)
    BY <1>1, <1>5
  <2>2. CASE q = Len(cells)
    <3>1. Hop(cells, q, free) = q
      BY <1>2, <2>2 DEF Hop, HDR_SIZE
    <3> QED BY <2>1, <2>2, <3>1
  <2>3. CASE q + 1 \in Frames(cells)
    BY <1>4, <2>1, <2>3
  <2> QED BY <1>5, <2>2, <2>3
<1>6. ASSUME T # {} PROVE FALSE
  <2> DEFINE m == Least(T)
  <2>1. m \in T /\ \A x \in T : m <= x
    <3>1. T \in SUBSET Nat
      BY <1>1
    <3> HIDE DEF T
    <3> QED BY <1>6, <3>1, LeastBelow
  <2> HIDE DEF m
  <2>2. m \in 0..M /\ ~ Right(m)
    BY <2>1
  <2> HIDE DEF Right
  <2>3. m # 0
    BY <1>3, <2>2
  <2>4. m \in 1..M /\ m - 1 \in 0..M
    BY <1>1, <2>2, <2>3
  <2>5. Right(m - 1)
    <3>1. ~ (m <= m - 1)
      BY <2>4
    <3> QED BY <2>1, <2>4, <3>1
  <2> QED BY <1>5, <2>2, <2>4, <2>5
<1>7. 1 <= M => hop[1] = cells[1].size + cells[1].pad
  <2>1. 1 <= M => hop[1] = Hop(cells, 0, free)
    BY <1>1, <1>3
  <2>2. Hop(cells, 0, free) = 0 + (cells[1].size + cells[1].pad)
    BY <1>2, <1>4
  <2>3. cells[1].size + cells[1].pad \in Nat
    BY <1>2, FrameOf
  <2> QED BY <2>1, <2>2, <2>3
<1> QED BY <1>3, <1>6, <1>7 DEF hop, M

(* So the frame search finds a good file's first frame at once.            *)
LEMMA FoundFirst ==
    ASSUME NEW cells \in Seq(Cell), Good(cells)
    PROVE  LET find == mp3d_find_frame(cells, 0)
           IN  find.i = 0 /\ find.size = cells[1].size + cells[1].pad /\ find.free \in Nat
<1> DEFINE h == cells[1]
           n == h.size + h.pad
           M == MAX_FRAME_SYNC_MATCHES
           hop == Hops(cells, 0, h.size)
           Beyond(i) == hop[i] + HDR_SIZE > Len(cells)
           Like(i) == ~ Beyond(i) /\ hdr_compare(h, cells[hop[i] + 1])
<1>1. 1 \in Frames(cells) /\ 0 + 1 = 1 /\ Len(cells) \in Nat /\ Len(cells) > 0
  BY DEF Good, Frames
<1>2. /\ hdr_valid(h) /\ h.layer = 3 /\ h.size # 0 /\ h.size \in Nat /\ h.pad \in Nat
      /\ n \in Nat /\ n > 1 /\ 0 + n <= Len(cells)
  BY <1>1, FrameOf
<1>3. M \in Nat \ {0}
  BY StreamAssumption
<1>4. /\ hop[0] = 0 /\ hop[1] = n
      /\ \A i \in 0..M : /\ hop[i] \in 0..Len(cells)
                         /\ hop[i] = Len(cells) \/ hop[i] + 1 \in Frames(cells)
  <2>1. 1 <= M
    BY <1>3
  <2> QED BY <2>1, HopsGood
<1> HIDE DEF hop, M
<1>5. ASSUME NEW i \in 0..M, ~ Beyond(i) PROVE Like(i)
  <2> DEFINE q == hop[i]
  <2>1. q \in Nat /\ q + 1 \in Frames(cells)
    BY <1>1, <1>4, <1>5 DEF HDR_SIZE
  <2> HIDE DEF q
  <2>2. /\ hdr_valid(cells[q + 1]) /\ cells[q + 1].layer = 3
        /\ cells[q + 1].hz = h.hz /\ cells[q + 1].size # 0
    BY <2>1, FrameOf
  <2>3. hdr_compare(h, cells[q + 1])
    BY <1>2, <2>2 DEF hdr_compare
  <2> QED BY <1>5, <2>3 DEF q
<1>6. n # Len(cells) => ~ Beyond(1)
  BY <1>2, <1>4 DEF HDR_SIZE
<1>7. n # Len(cells) => \E m \in 2..(M + 1) :
                            /\ \A i \in 1..(m - 1) : Like(i)
                            /\ m <= M => Beyond(m)
  <2> SUFFICES ASSUME n # Len(cells)
               PROVE  \E m \in 2..(M + 1) :
                          /\ \A i \in 1..(m - 1) : Like(i)
                          /\ m <= M => Beyond(m)
    OBVIOUS
  <2> DEFINE T == {i \in 1..M : Beyond(i)}
  <2> HIDE DEF Beyond, Like
  <2>1. CASE T = {}
    <3>1. \A i \in 1..((M + 1) - 1) : Like(i)
      BY <1>3, <1>5, <2>1
    <3>2. M + 1 \in 2..(M + 1) /\ ~ (M + 1 <= M)
      BY <1>3
    <3> QED BY <3>1, <3>2
  <2>2. CASE T # {}
    <3> DEFINE m == Least(T)
    <3>1. m \in T /\ \A x \in T : m <= x
      <4>1. T \in SUBSET Nat
        BY <1>3
      <4> HIDE DEF T
      <4> QED BY <2>2, <4>1, LeastBelow
    <3> HIDE DEF m
    <3>2. m \in 1..M /\ Beyond(m) /\ m # 1
      BY <1>6, <3>1
    <3>3. m \in 2..(M + 1)
      BY <1>3, <3>2
    <3>4. ASSUME NEW i \in 1..(m - 1) PROVE Like(i)
      <4>1. i \in 1..M /\ i \in 0..M /\ ~ (m <= i)
        BY <1>3, <3>2
      <4>2. ~ Beyond(i)
        BY <3>1, <4>1
      <4> QED BY <1>5, <4>1, <4>2
    <3> QED BY <3>2, <3>3, <3>4
  <2> QED BY <2>1, <2>2
<1>8. FrameAt(cells, 0, 0) = [fb |-> h.size, size |-> n]
  BY <1>1, <1>2 DEF FrameAt, Length, hdr_frame_bytes
<1>9. n # Len(cells) => mp3d_match_frame(cells, 0, h.size)
  <2>1. cells[0 + 1] = h
    BY <1>1
  <2>2. mp3d_match_frame(cells, 0, h.size) <=>
            \E m \in 2..(M + 1) :
                /\ \A i \in 1..(m - 1) : Like(i)
                /\ m <= M => Beyond(m)
    <3> HIDE DEF h
    <3> QED BY ONLY <2>1 DEF mp3d_match_frame, hop, M
  <2> QED BY <1>7, <2>2
<1>10. Found(cells, 0, 0)
  <2>1. Len(cells) - 0 = Len(cells) /\ 0 + 0 = 0 /\ 0 + 0 + 1 = 1 /\ 0 + n = n
    BY <1>1, <1>2
  <2> DEFINE frame == FrameAt(cells, 0, 0)
  <2>2. frame.fb = h.size /\ frame.size = n
    BY <1>8
  <2> HIDE DEF n, frame
  <2>3. /\ hdr_valid(cells[0 + 0 + 1])
        /\ \/ /\ frame.fb # 0 /\ 0 + frame.size <= Len(cells) - 0
              /\ mp3d_match_frame(cells, 0 + 0, frame.fb)
           \/ 0 = 0 /\ frame.size = Len(cells) - 0
    BY <1>1, <1>2, <1>9, <2>1, <2>2
  <2> QED BY <2>3 DEF Found, frame
<1> DEFINE at == {i \in 0..(Len(cells) - 0 - HDR_SIZE - 1) : Found(cells, 0, i)}
<1>11. 0 \in at /\ at \in SUBSET Nat
  BY <1>1, <1>2, <1>10 DEF HDR_SIZE
<1>12. Least(at) = 0
  <2> HIDE DEF at
  <2>1. Least(at) \in at /\ Least(at) <= 0
    BY <1>11, LeastBelow
  <2>2. Least(at) \in Nat
    BY <1>11, <2>1
  <2> QED BY <2>1, <2>2
<1>13. at # {}
  BY <1>11
<1> HIDE DEF at, n
<1>14. mp3d_find_frame(cells, 0) = [i |-> 0, size |-> n, free |-> 0]
  BY <1>1, <1>2, <1>8, <1>12, <1>13 DEF mp3d_find_frame, at
<1> QED BY <1>14 DEF n

-----------------------------------------------------------------------------
(* A decoder that is ready finds the next frame of a good file where it is *)
(* and has what the frame asks for in its reservoir.                       *)
LEMMA LocatedGood ==
    ASSUME NEW cells \in Seq(Cell), Good(cells), NEW p \in Nat, p + 1 \in Frames(cells),
           NEW d, IsDecoder(d), d.reserv \in Seq(Place), Ready(cells, d, p)
    PROVE  LET at == Located(d, cells, p)
               h == cells[p + 1]
           IN  /\ at.i = 0 /\ at.size = h.size + h.pad
               /\ at.dec.reserv \in Seq(Place) /\ Len(at.dec.reserv) >= h.mdb
<1> DEFINE h == cells[p + 1]
           n == h.size + h.pad
           at == Located(d, cells, p)
<1>1. /\ p < Len(cells) /\ hdr_valid(h) /\ h.layer = 3 /\ h.hz = cells[1].hz
      /\ h.size # 0 /\ h.mdb \in Nat /\ n \in Nat /\ n > 1 /\ p + n <= Len(cells)
      /\ p = 0 => h.mdb = 0
      /\ p + n = Len(cells) \/ p + n + 1 \in Frames(cells)
  BY FrameOf
<1>2. CASE p = 0
  <2> DEFINE find == mp3d_find_frame(cells, 0)
             c == [Init0 EXCEPT !.free = find.free]
  <2>1. ~ InRun(d, cells, p)
    BY <1>2 DEF Ready, InRun
  <2>2. at = [dec |-> c, i |-> find.i, size |-> find.size]
    BY <1>2, <2>1 DEF Located, Cleared
  <2>3. find.i = 0 /\ find.size = n
    BY <1>2, FoundFirst
  <2>4. c.reserv = <<>>
    BY DEF Init0
  <2> HIDE DEF at, c, find, n
  <2>5. at.i = 0 /\ at.size = n /\ at.dec.reserv = <<>>
    BY <2>2, <2>3, <2>4
  <2>6. <<>> \in Seq(Place) /\ Len(<<>>) >= 0
    OBVIOUS
  <2>7. h.mdb = 0
    BY <1>1, <1>2
  <2> HIDE DEF h
  <2>8. at.dec.reserv \in Seq(Place) /\ Len(at.dec.reserv) >= h.mdb
    BY <2>5, <2>6, <2>7
  <2> QED BY <2>5, <2>8 DEF at, n, h
<1>3. CASE p # 0
  <2>1. /\ hdr_valid(d.header) /\ d.header.hz = cells[1].hz
        /\ d.header.layer = 3 /\ d.header.size # 0 /\ Len(d.reserv) >= h.mdb
    BY <1>1, <1>3 DEF Ready, hdr_valid
  <2>2. Length(h, d.free) = n
    BY <1>1 DEF Length, hdr_frame_bytes
  <2>3. hdr_compare(d.header, h)
    BY <1>1, <2>1 DEF hdr_compare
  <2>4. n = Len(cells) - p \/ (n + 1 <= Len(cells) - p /\ hdr_compare(h, cells[p + n + 1]))
    <3>1. CASE p + n = Len(cells)
      <4> HIDE DEF n
      <4> QED BY <1>1, <3>1
    <3>2. CASE p + n + 1 \in Frames(cells)
      <4> DEFINE g == cells[p + n + 1]
      <4>1. /\ p + n < Len(cells) /\ hdr_valid(g) /\ g.layer = 3 /\ g.hz = cells[1].hz
            /\ g.size # 0
        <5>1. p + n \in Nat
          BY <1>1
        <5> HIDE DEF n
        <5> QED BY <3>2, <5>1, FrameOf
      <4>2. hdr_compare(h, g)
        BY <1>1, <4>1 DEF hdr_compare
      <4> HIDE DEF n
      <4> QED BY <1>1, <4>1, <4>2
    <3> QED BY <1>1, <3>1, <3>2
  <2>5. InRun(d, cells, p)
    <3> HIDE DEF n, h
    <3>1. Len(cells) - p > 1 /\ n # 0
      BY <1>1
    <3> QED BY <2>1, <2>2, <2>3, <2>4, <3>1 DEF InRun, HDR_SIZE, h
  <2>6. at = [dec |-> d, i |-> 0, size |-> n]
    BY <2>2, <2>5 DEF Located
  <2> HIDE DEF at, n
  <2>7. at.i = 0 /\ at.size = n /\ at.dec = d
    BY <2>6
  <2> QED BY <2>1, <2>7 DEF at, n
<1> QED BY <1>2, <1>3

(* It decodes that frame, and is ready for the one after it.               *)
LEMMA DecodeGood ==
    ASSUME NEW cells \in Seq(Cell), Good(cells), NEW p \in Nat, p + 1 \in Frames(cells),
           NEW d, NEW j \in Nat, IsDecoder(d), d.reserv \in Seq(Place), Ready(cells, d, p)
    PROVE  LET frame == mp3dec_decode_frame(d, cells, j, p)
               h == cells[p + 1]
           IN  /\ frame.bytes = h.size + h.pad /\ frame.hdr = h
               /\ frame.channels = h.channels
               /\ Ready(cells, frame.dec, p + (h.size + h.pad))
<1> DEFINE h == cells[p + 1]
           n == h.size + h.pad
           at == Located(d, cells, p)
           frame == mp3dec_decode_frame(d, cells, j, p)
           m == n - 1
           r == at.dec.reserv
           payload == [c \in 1..(at.size - HDR_SIZE) |-> <<j, p + HDR_SIZE + c>>]
           maindata == L3_restore_reservoir(r, payload, h.mdb)
           kept == L3_save_reservoir(maindata, h.used)
<1>1. /\ at.i = 0 /\ at.size = n /\ r \in Seq(Place) /\ Len(r) >= h.mdb
  BY LocatedGood
<1>2. /\ p < Len(cells) /\ h.layer = 3 /\ h.hz = cells[1].hz /\ h.ok
      /\ h.size # 0 /\ h.mdb \in Nat /\ h.used \in Nat /\ n \in Nat /\ n > 1
      /\ p + n <= Len(cells) /\ h.used <= h.mdb + m
      /\ p + n = Len(cells) \/ p + n + 1 \in Frames(cells)
      /\ p + n + 1 \in Frames(cells) =>
             cells[p + n + 1].mdb <= MINIMP3_MIN(MAX_BITRESERVOIR_BYTES, h.mdb + m - h.used)
  BY FrameOf
<1>3. frame = DecodedAt(at, cells, j, p)
  BY <1>1 DEF mp3dec_decode_frame, DecodedFrom
<1> HIDE DEF at
<1>4. L3_read_side_info(h, at.size - HDR_SIZE)
  <2> HIDE DEF h, n
  <2>1. at.size - HDR_SIZE = m
    BY <1>1 DEF HDR_SIZE
  <2>2. m + h.mdb = h.mdb + m
    BY <1>2
  <2> QED BY <1>2, <2>1, <2>2 DEF L3_read_side_info
<1>5. frame = [dec |-> [header |-> h, free |-> at.dec.free, reserv |-> kept],
               bytes |-> at.i + at.size, hdr |-> h, channels |-> h.channels, fed |-> maindata]
  <2> HIDE DEF frame, n
  <2>1. ~ (at.size = 0) /\ ~ (cells[p + 1].layer # 3) /\ Len(at.dec.reserv) >= cells[p + 1].mdb
    BY <1>1, <1>2
  <2>2. ~ ~ L3_read_side_info(cells[p + 1], at.size - HDR_SIZE)
    BY <1>4
  <2> QED BY ONLY <1>3, <2>1, <2>2, Zenon DEF DecodedAt
<1>6. Len(maindata) = h.mdb + m /\ maindata \in Seq(Place)
  <2> DEFINE a == MINIMP3_MIN(Len(r), h.mdb)
             s == Last(r, a)
  <2>1. a = h.mdb /\ Len(r) \in Nat
    <3> HIDE DEF h, r, n, m, s
    <3>1. r \in Seq(Place) /\ Len(r) >= h.mdb /\ h.mdb \in Nat
      BY ONLY <1>1, <1>2
    <3>2. Len(r) \in Nat
      BY ONLY <3>1
    <3> QED BY ONLY <3>1, <3>2 DEF MINIMP3_MIN
  <2>2. Len(s) = a /\ s \in Seq(Place)
    <3> DEFINE b == Len(r) - a + 1
    <3>1. b \in Nat \ {0} /\ Len(r) - b + 1 = a /\ a \in Nat
      <4> HIDE DEF a, r, h
      <4>1. a \in Nat /\ Len(r) \in Nat /\ a <= Len(r)
        BY ONLY <1>1, <1>2, <2>1
      <4> QED BY ONLY <4>1
    <3> HIDE DEF a, b, r
    <3>2. SubSeq(r, b, Len(r)) \in Seq(Place) /\ Len(SubSeq(r, b, Len(r))) = Len(r) - b + 1
      BY <1>1, <2>1, <3>1
    <3> QED BY <3>1, <3>2 DEF Last, b
  <2>3. m \in Nat /\ at.size - HDR_SIZE = m
    <3> HIDE DEF n
    <3> QED BY <1>1, <1>2 DEF HDR_SIZE
  <2>4. payload \in Seq(Place) /\ Len(payload) = m
    <3>1. \A c \in 1..m : <<j, p + HDR_SIZE + c>> \in Place
      BY DEF HDR_SIZE, Place
    <3> HIDE DEF m
    <3> QED BY <2>3, <3>1
  <2>5. maindata = s \o payload
    BY DEF L3_restore_reservoir
  <2> HIDE DEF s, payload, maindata, a, m
  <2> QED BY <2>1, <2>2, <2>3, <2>4, <2>5
<1>7. Len(kept) = MINIMP3_MIN(h.mdb + m - h.used, MAX_BITRESERVOIR_BYTES)
  <2> DEFINE used == h.used
             mdb == h.mdb
             l == Len(maindata)
             a == MINIMP3_MIN(l - used, MAX_BITRESERVOIR_BYTES)
             b == l - a + 1
  <2>1. l = h.mdb + m /\ l \in Nat /\ m \in Nat /\ MAX_BITRESERVOIR_BYTES \in Nat
    <3>1. MAX_BITRESERVOIR_BYTES \in Nat
      BY StreamAssumption
    <3>2. m \in Nat
      <4> HIDE DEF n
      <4> QED BY <1>2
    <3> QED BY <1>6, <3>1, <3>2
  <2>2. used \in Nat /\ mdb \in Nat /\ used <= mdb + m /\ l = mdb + m
    BY <1>2, <2>1
  <2> HIDE DEF m, l
  <2>3. a \in 0..l
    <3> HIDE DEF used, mdb
    <3>1. l - used \in 0..l
      BY <2>1, <2>2
    <3> QED BY <2>1, <3>1 DEF MINIMP3_MIN
  <2>4. kept = SubSeq(maindata, b, l)
    BY DEF L3_save_reservoir, Last, l
  <2>5. a = MINIMP3_MIN(h.mdb + m - h.used, MAX_BITRESERVOIR_BYTES)
    <3>1. l - used = mdb + m - used
      <4> HIDE DEF used, mdb
      <4> QED BY <2>1, <2>2
    <3> QED BY <3>1
  <2> HIDE DEF a, maindata, kept
  <2>6. b \in Nat \ {0} /\ l - b + 1 = a
    BY <2>1, <2>3
  <2> HIDE DEF b
  <2>7. Len(SubSeq(maindata, b, l)) = l - b + 1
    BY <1>6, <2>1, <2>3, <2>6 DEF l
  <2> QED BY <2>4, <2>5, <2>6, <2>7
<1>8. /\ frame.bytes = n /\ frame.hdr = h /\ frame.channels = h.channels
      /\ frame.dec.header = h /\ frame.dec.reserv = kept
  <2> HIDE DEF kept, h, maindata
  <2>1. at.i + at.size = n
    <3> HIDE DEF n
    <3> QED BY <1>1, <1>2
  <2> QED BY <1>5, <2>1
<1>9. Ready(cells, frame.dec, p + n)
  <2> DEFINE q == p + n
             more == MINIMP3_MIN(MAX_BITRESERVOIR_BYTES, h.mdb + m - h.used)
  <2>1. q \in Nat /\ q # 0
    <3> HIDE DEF n
    <3> QED BY <1>2
  <2>2. more \in Nat /\ Len(kept) = more
    <3> HIDE DEF kept
    <3>1. MAX_BITRESERVOIR_BYTES \in Nat /\ h.mdb + m - h.used \in Nat
      <4>1. m \in Nat
        <5> HIDE DEF n
        <5> QED BY <1>2
      <4> HIDE DEF m, h
      <4> QED BY <1>2, <4>1, StreamAssumption
    <3> QED BY <1>7, <3>1 DEF MINIMP3_MIN
  <2> HIDE DEF more, kept, frame, h, n
  <2>3. q = Len(cells) \/ q + 1 \in Frames(cells)
    BY <1>2
  <2>4. q < Len(cells) => cells[q + 1].mdb <= more
    BY <1>2, <2>1, <2>3 DEF more
  <2> HIDE DEF q
  <2>5. q < Len(cells) => Len(frame.dec.reserv) >= cells[q + 1].mdb
    <3> SUFFICES ASSUME q < Len(cells) PROVE more >= cells[q + 1].mdb
      BY <1>8, <2>2
    <3>1. q + 1 \in Frames(cells)
      BY <2>1, <2>3
    <3>2. cells[q + 1].mdb \in Nat
      BY <2>1, <3>1, FrameOf
    <3> QED BY <2>2, <2>4, <3>2
  <2>6. Ready(cells, frame.dec, q)
    BY <1>2, <1>8, <2>1, <2>3, <2>5 DEF Ready
  <2> QED BY <2>6 DEF q
<1> QED BY <1>8, <1>9

(* Behind the last frame there is nothing.                                 *)
LEMMA DecodeNothing ==
    ASSUME NEW cells \in Seq(Cell), NEW d, NEW j \in Nat
    PROVE  LET frame == mp3dec_decode_frame(d, cells, j, Len(cells))
           IN  frame.bytes = 0 /\ frame.channels = 0
<1> DEFINE p == Len(cells)
           find == mp3d_find_frame(cells, p)
           at == Located(d, cells, p)
           frame == mp3dec_decode_frame(d, cells, j, p)
<1>1. p \in Nat /\ p - p = 0
  OBVIOUS
<1>2. ~ InRun(d, cells, p)
  BY <1>1 DEF InRun, HDR_SIZE
<1>3. find = [i |-> 0, size |-> 0, free |-> 0]
  <2>1. {i \in 0..(p - p - HDR_SIZE - 1) : Found(cells, p, i)} = {}
    BY <1>1 DEF HDR_SIZE
  <2>2. p - p < HDR_SIZE
    BY <1>1 DEF HDR_SIZE
  <2> HIDE DEF p
  <2> QED BY <2>1, <2>2 DEF mp3d_find_frame, p
<1>4. at.i = 0 /\ at.size = 0
  BY <1>2, <1>3 DEF Located, Cleared
<1> HIDE DEF at
<1>5. frame = [dec |-> at.dec, bytes |-> at.i, hdr |-> NoHeader, channels |-> 0, fed |-> <<>>]
  BY <1>4 DEF mp3dec_decode_frame, DecodedFrom, DecodedAt, at
<1> QED BY <1>4, <1>5

(* DecodedInv with what was shown before, and the sound of a good file.    *)
WholeInv ==
    /\ LoaderInv /\ dec.reserv \in Seq(Place)
    /\ DecodedInv
    /\ AllDecoded

LEMMA FirstReady ==
    ASSUME NEW cells \in Seq(Cell), NEW d, ~ hdr_valid(d.header), Good(cells)
    PROVE  Ready(cells, d, 0) /\ SamplesUpTo(cells, 0) = 0
<1>1. 0 + 1 \in Frames(cells)
  BY DEF Good, Frames
<1> QED BY <1>1, SamplesNone DEF Ready

(* A round of one of the two loops, in a good file: a frame more, or the   *)
(* end.                                                                    *)
LEMMA RoundWhole ==
    ASSUME WholeInv, LoaderInv', dec'.reserv \in Seq(Place), First \/ Rest, Good(file)
    PROVE  DecodedInv' /\ AllDecoded'
<1> DEFINE frame == mp3dec_decode_frame(dec, file, k, pos)
           h == file[pos + 1]
<1>1. /\ phase \in {"first", "rest"} /\ dec' = frame.dec
      /\ pos' = pos + frame.bytes /\ file' = file
  BY DEF First, Rest
<1>2. /\ file \in Seq(Cell) /\ pos \in Nat /\ pos <= Len(file) /\ IsDecoder(dec) /\ k \in Nat
      /\ dec.reserv \in Seq(Place) /\ info.samples \in Nat
      /\ Ready(file, dec, pos) /\ info.samples = SamplesUpTo(file, pos)
      /\ phase = "rest" => info.hz = file[1].hz /\ info.layer = 3
      /\ phase = "first" => info = NoInfo
  BY <1>1 DEF WholeInv, LoaderInv, DecodedInv
<1>3. CASE pos = Len(file)
  <2>1. frame.bytes = 0 /\ frame.channels = 0
    BY <1>2, <1>3, DecodeNothing
  <2> HIDE DEF frame
  <2>2. phase' = "store" /\ info' = info
    BY <2>1 DEF First, Rest, Ended, frame
  <2>3. info'.samples = Sounding(file, 1) + 2 * Sounding(file, 2)
    BY <1>2, <1>3, <2>2, SamplesAll
  <2> QED BY <1>1, <2>2, <2>3 DEF DecodedInv, AllDecoded
<1>4. CASE pos # Len(file)
  <2>1. pos + 1 \in Frames(file)
    BY <1>2, <1>4 DEF Ready
  <2>2. /\ frame.bytes = h.size + h.pad /\ frame.hdr = h /\ frame.channels = h.channels
        /\ Ready(file, frame.dec, pos + (h.size + h.pad))
    BY <1>2, <2>1, DecodeGood
  <2>3. /\ h.layer = 3 /\ h.hz = file[1].hz /\ h.channels \in 0..2 /\ h.size + h.pad > 1
        /\ h.size + h.pad \in Nat
    BY <1>2, <2>1, FrameOf
  <2>4. SamplesUpTo(file, pos + (h.size + h.pad)) = SamplesUpTo(file, pos) + h.channels
    BY <1>2, <2>1, SamplesStep
  <2> HIDE DEF frame, h
  <2>5. frame.bytes # 0
    BY <2>2, <2>3
  <2>6. Ready(file', dec', pos') /\ SamplesUpTo(file', pos') = info.samples + h.channels
    BY <1>1, <1>2, <2>2, <2>4
  <2>7. CASE First
    <3>1. CASE h.channels = 0
      <4>1. phase' = "first" /\ info' = info
        BY <2>2, <2>5, <2>7, <3>1 DEF First, Ended, frame
      <4> QED BY <1>2, <2>6, <3>1, <4>1 DEF DecodedInv, AllDecoded
    <3>2. CASE h.channels # 0
      <4>1. /\ phase = "first" /\ phase' = "rest"
            /\ info' = [from |-> k, samples |-> frame.channels, channels |-> frame.channels,
                        hz |-> frame.hdr.hz, layer |-> frame.hdr.layer]
        BY <2>2, <2>7, <3>2 DEF First, frame
      <4>2. /\ info'.samples = h.channels /\ info'.hz = file[1].hz /\ info'.layer = 3
            /\ info.samples = 0
        BY <1>2, <2>2, <2>3, <4>1 DEF NoInfo
      <4>3. info.samples + h.channels = h.channels
        BY <2>3, <4>2
      <4> QED BY <1>1, <2>6, <4>1, <4>2, <4>3 DEF DecodedInv, AllDecoded
    <3> QED BY <3>1, <3>2
  <2>8. CASE Rest
    <3>1. phase = "rest" /\ frame.hdr.hz = info.hz /\ frame.hdr.layer = info.layer
      BY <1>2, <2>2, <2>3, <2>8 DEF Rest
    <3>2. phase' = "rest"
      BY <2>5, <2>8, <3>1 DEF Rest, Ended, frame
    <3>3. CASE h.channels = 0
      <4>1. info' = info
        BY <2>2, <2>8, <3>3 DEF Rest, frame
      <4> QED BY <1>1, <1>2, <2>6, <3>1, <3>2, <3>3, <4>1 DEF DecodedInv, AllDecoded
    <3>4. CASE h.channels # 0
      <4>1. info' = [from |-> info.from, hz |-> info.hz, layer |-> info.layer,
                     samples |-> info.samples + frame.channels,
                     channels |-> IF info.channels = frame.channels THEN info.channels ELSE 0]
        BY <2>2, <2>8, <3>1, <3>4 DEF Rest, frame
      <4>2. info'.samples = info.samples + h.channels /\ info'.hz = info.hz
            /\ info'.layer = info.layer
        BY <2>2, <4>1
      <4> QED BY <1>1, <1>2, <2>6, <3>1, <3>2, <4>2 DEF DecodedInv, AllDecoded
    <3> QED BY <3>3, <3>4
  <2> QED BY <2>7, <2>8
<1> QED BY <1>3, <1>4

(* A good file is decoded whole: every frame that sounds is in its sound,  *)
(* whatever the file before it has left in the decoder                     *)
(* (minimp3_ex.h:56-150, minimp3.h:1657-1745).                             *)
THEOREM AllDecodedHolds == Spec => []AllDecoded
<1>1. Init => WholeInv
  <2> SUFFICES ASSUME Init PROVE WholeInv
    OBVIOUS
  <2>1. phase = "open" /\ dec.reserv = <<>>
    BY DEF Init, Init0
  <2> QED BY <2>1, InitInv DEF WholeInv, DecodedInv, AllDecoded
<1>2. WholeInv /\ RightInv /\ RightInv' /\ [Next]_vars => WholeInv'
  <2> SUFFICES ASSUME WholeInv, RightInv, RightInv', [Next]_vars PROVE WholeInv'
    OBVIOUS
  <2>1. LoaderInv' /\ dec'.reserv \in Seq(Place)
    BY DEF RightInv
  <2>2. CASE Open
    <3>1. CASE phase' = "store"
      <4>1. file' \in {Unreadable, <<>>}
        BY <2>2, <3>1 DEF Open, OpenReadable, OpenFails
      <4> QED BY <2>1, <3>1, <4>1 DEF WholeInv, DecodedInv, AllDecoded
    <3>2. CASE phase' # "store"
      <4>1. phase' = "first" /\ pos' = 0 /\ dec' = mp3dec_init(dec)
        BY <2>2, <3>2 DEF Open, OpenReadable, OpenFails
      <4>2. dec = [header |-> dec.header, free |-> dec.free, reserv |-> dec.reserv]
        BY DEF WholeInv, LoaderInv, IsDecoder
      <4>3. ~ hdr_valid(dec'.header)
        <5>1. dec' = [header |-> NoHeader, free |-> dec.free, reserv |-> dec.reserv]
          BY <4>1, <4>2 DEF mp3dec_init
        <5> QED BY <5>1 DEF hdr_valid, NoHeader
      <4>4. file' \in Seq(Cell) /\ info'.samples = 0
        BY <2>1, <4>1 DEF LoaderInv, NoInfo
      <4>5. Good(file') => Ready(file', dec', 0) /\ SamplesUpTo(file', 0) = 0
        BY <4>3, <4>4, FirstReady
      <4> QED BY <2>1, <4>1, <4>4, <4>5 DEF WholeInv, DecodedInv, AllDecoded
    <3> QED BY <3>1, <3>2
  <2>3. CASE First \/ Rest
    <3>1. CASE Good(file)
      BY <2>1, <2>3, <3>1, RoundWhole DEF WholeInv
    <3>2. CASE ~ Good(file)
      <4>1. file' = file
        BY <2>3 DEF First, Rest
      <4> QED BY <2>1, <3>2, <4>1 DEF WholeInv, DecodedInv, AllDecoded, Good
    <3> QED BY <3>1, <3>2
  <2>4. CASE Store
    <3>1. phase' = "open"
      BY <2>4 DEF Store
    <3> QED BY <2>1, <3>1 DEF WholeInv, DecodedInv, AllDecoded
  <2>5. CASE UNCHANGED vars
    BY <2>1, <2>5 DEF vars, WholeInv, DecodedInv, AllDecoded
  <2> QED BY <2>2, <2>3, <2>4, <2>5 DEF Next
<1>3. WholeInv => AllDecoded
  BY DEF WholeInv
<1> QED BY <1>1, <1>2, <1>3, RightInvariant, PTL DEF Spec
=============================================================================

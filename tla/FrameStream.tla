----------------------------- MODULE FrameStream ----------------------------
(***************************************************************************)
(* The frames of an MP3 file as minimp3 finds and reads them               *)
(* (minimp3.h:1157-1181, 1596-1745): synchronising on headers, and the     *)
(* reservoir through which a frame uses bytes of the frames before it.     *)
(*                                                                         *)
(* A file is a sequence of cells.  A cell is a header with its side        *)
(* information, or data; which frame a header begins, what it asks for     *)
(* and whether its side information is in order is in its fields.          *)
(* HDR_SIZE is one cell.                                                   *)
(***************************************************************************)
EXTENDS Integers, Sequences

CONSTANTS MAX_FREE_FORMAT_FRAME_SIZE, MAX_FRAME_SYNC_MATCHES, MAX_BITRESERVOIR_BYTES

ASSUME StreamAssumption ==
    {MAX_FREE_FORMAT_FRAME_SIZE, MAX_FRAME_SYNC_MATCHES, MAX_BITRESERVOIR_BYTES} \subseteq Nat \ {0}

HDR_SIZE == 1

(* Data has hz 0. *)
Cell == [hz : Nat, layer : 0..3, size : Nat, pad : Nat, channels : 0..2,
         ok : BOOLEAN, mdb : Nat, used : Nat]

NoHeader == [hz |-> 0, layer |-> 0, size |-> 0, pad |-> 0, channels |-> 0,
             ok |-> FALSE, mdb |-> 0, used |-> 0]

hdr_valid(h) == h.hz # 0
hdr_compare(h, g) == /\ hdr_valid(g)
                     /\ h.hz = g.hz /\ h.layer = g.layer
                     /\ (h.size = 0) = (g.size = 0)
hdr_frame_bytes(h, free) == IF h.size = 0 THEN free ELSE h.size
Length(h, free) == hdr_frame_bytes(h, free) + h.pad

(* Where a run of frames of the length that the header at p gives leads.   *)
Hops(file, p, free) ==
    LET hop[k \in 0..MAX_FRAME_SYNC_MATCHES] ==
            IF k = 0 THEN p
            ELSE LET q == hop[k - 1]
                 IN  IF q + HDR_SIZE > Len(file) THEN q ELSE q + Length(file[q + 1], free)
    IN  hop

(* The headers that follow are like the first, up to the file's end or for *)
(* as many as are looked at.                                               *)
mp3d_match_frame(file, p, free) ==
    LET hop == Hops(file, p, free)
        Beyond(k) == hop[k] + HDR_SIZE > Len(file)
        Like(k) == ~ Beyond(k) /\ hdr_compare(file[p + 1], file[hop[k] + 1])
    IN  \E k \in 2..(MAX_FRAME_SYNC_MATCHES + 1) :
            /\ \A j \in 1..(k - 1) : Like(j)
            /\ k <= MAX_FRAME_SYNC_MATCHES => Beyond(k)

(* The distances at which a frame of free format is followed by two more   *)
(* of its kind; n is what is left of the file at p.                        *)
FreeSizes(file, p, i) ==
    LET n == Len(file) - p
        h == file[p + i + 1]
    IN  {k \in HDR_SIZE..(MAX_FREE_FORMAT_FRAME_SIZE - 1) :
            /\ i + 2 * k < n - HDR_SIZE
            /\ hdr_compare(h, file[p + i + k + 1])
            /\ LET nextfb == k - h.pad + file[p + i + k + 1].pad
               IN  /\ i + k + nextfb + HDR_SIZE <= n
                   /\ hdr_compare(h, file[p + i + k + nextfb + 1])
            /\ k > h.pad}

Least(S) == CHOOSE x \in S : \A y \in S : x <= y

(* [fb, size]: the frame bytes at p + i, and with padding. *)
FrameAt(file, p, i) ==
    LET h == file[p + i + 1]
        free == FreeSizes(file, p, i)
    IN  IF h.size # 0 THEN [fb |-> h.size, size |-> Length(h, 0)]
        ELSE IF free = {} THEN [fb |-> 0, size |-> h.pad]
        ELSE [fb |-> Least(free) - h.pad, size |-> Least(free)]

Found(file, p, i) ==
    LET n == Len(file) - p
        frame == FrameAt(file, p, i)
    IN  /\ hdr_valid(file[p + i + 1])
        /\ \/ /\ frame.fb # 0 /\ i + frame.size <= n
              /\ mp3d_match_frame(file, p + i, frame.fb)
           \/ i = 0 /\ frame.size = n

(* [i, size, free]; size 0 when the rest of the file holds no frame. *)
mp3d_find_frame(file, p) ==
    LET n == Len(file) - p
        at == {i \in 0..(n - HDR_SIZE - 1) : Found(file, p, i)}
        i == Least(at)
        frame == FrameAt(file, p, i)
    IN  IF at = {} THEN [i |-> IF n < HDR_SIZE THEN 0 ELSE n - HDR_SIZE, size |-> 0, free |-> 0]
        ELSE [i |-> i, size |-> frame.size,
              free |-> IF file[p + i + 1].size = 0 THEN frame.fb ELSE 0]

-----------------------------------------------------------------------------
(* The side information is in order when its own fields are and when it    *)
(* takes no more than the frame and what it wants of the reservoir.        *)
L3_read_side_info(hdr, payload) == hdr.ok /\ hdr.used <= payload + hdr.mdb

(* The decoder: the last header, the size of free format's frames and the  *)
(* reservoir, of which the bytes are known by where they were read.        *)

Init0 == [header |-> NoHeader, free |-> 0, reserv |-> <<>>]
mp3dec_init(dec) == [dec EXCEPT !.header = NoHeader]

Last(seq, n) == SubSeq(seq, Len(seq) - n + 1, Len(seq))
MINIMP3_MIN(a, b) == IF a < b THEN a ELSE b

(* (Mutant: the oldest bytes of the reservoir.) *)
L3_restore_oldest(reserv, payload, mdb) ==
    SubSeq(reserv, 1, MINIMP3_MIN(Len(reserv), mdb)) \o payload
L3_restore_reservoir(reserv, payload, mdb) ==
    Last(reserv, MINIMP3_MIN(Len(reserv), mdb)) \o payload

L3_save_reservoir(maindata, pos) ==
    Last(maindata, MINIMP3_MIN(Len(maindata) - pos, MAX_BITRESERVOIR_BYTES))

(* The frame at p goes on the run of frames that the decoder is in.        *)
(* (Mutant: the last frame of a file does not.) *)
InRunNotLast(dec, file, p) ==
    LET n == Len(file) - p
        size == Length(file[p + 1], dec.free)
    IN  /\ n > HDR_SIZE
        /\ hdr_valid(dec.header) /\ hdr_compare(dec.header, file[p + 1])
        /\ size # 0
        /\ size + HDR_SIZE <= n /\ hdr_compare(file[p + 1], file[p + size + 1])
InRun(dec, file, p) ==
    LET n == Len(file) - p
        size == Length(file[p + 1], dec.free)
    IN  /\ n > HDR_SIZE
        /\ hdr_valid(dec.header) /\ hdr_compare(dec.header, file[p + 1])
        /\ size # 0
        /\ size = n \/ (size + HDR_SIZE <= n /\ hdr_compare(file[p + 1], file[p + size + 1]))

(* Where the next frame is and the decoder it is decoded with: the run goes *)
(* on, or the decoder is cleared and synchronises.                         *)
Cleared(find) == [dec |-> [Init0 EXCEPT !.free = find.free], i |-> find.i, size |-> find.size]
Located(dec, file, p) ==
    IF InRun(dec, file, p) THEN [dec |-> dec, i |-> 0, size |-> Length(file[p + 1], dec.free)]
    ELSE Cleared(mp3d_find_frame(file, p))

(* The frame that begins at q of file k, located as at says.               *)
DecodedAt(at, file, k, q) ==
    LET hdr == file[q + 1]
        payload == [c \in 1..(at.size - HDR_SIZE) |-> <<k, q + HDR_SIZE + c>>]
        maindata == L3_restore_reservoir(at.dec.reserv, payload, hdr.mdb)
        success == Len(at.dec.reserv) >= hdr.mdb
        silent == [dec |-> at.dec, bytes |-> at.i + at.size, hdr |-> hdr, channels |-> 0, fed |-> <<>>]
    IN  IF at.size = 0
        THEN [dec |-> at.dec, bytes |-> at.i, hdr |-> NoHeader, channels |-> 0, fed |-> <<>>]
        ELSE IF hdr.layer # 3 THEN [silent EXCEPT !.dec.header = hdr]
        ELSE IF ~ L3_read_side_info(hdr, at.size - HDR_SIZE) THEN [silent EXCEPT !.dec = mp3dec_init(@)]
        ELSE [dec |-> [header |-> hdr, free |-> at.dec.free,
                      reserv |-> L3_save_reservoir(maindata, IF success THEN hdr.used ELSE 0)],
              bytes |-> at.i + at.size,
              hdr |-> hdr,
              channels |-> IF success THEN hdr.channels ELSE 0,
              fed |-> IF success THEN maindata ELSE <<>>]

(* One call on what is left of file k from p on: the decoder after it, the *)
(* bytes passed over, what was found out of the frame, the channels that   *)
(* sound and the main data that was decoded.                               *)
DecodedFrom(at, file, k, p) == DecodedAt(at, file, k, p + at.i)
mp3dec_decode_frame(d, file, k, p) == DecodedFrom(Located(d, file, p), file, k, p)
=============================================================================

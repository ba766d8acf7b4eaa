----------------------------- MODULE SoundLoader ----------------------------
(***************************************************************************)
(* load_mp3s of the server (server.cpp:326-350) over mp3dec_load           *)
(* (minimp3_ex.h:56-150, 214-256, 320-332): the files of the directories   *)
(* are read one after the other, each frame by frame, and what the decoder *)
(* has left in info becomes a sound.  mp3d and info are locals of a loop   *)
(* body, so each file finds in them what the file before has left.         *)
(*                                                                         *)
(* Samples are counted in the samples that a frame has of one channel.     *)
(***************************************************************************)
EXTENDS FrameStream, FiniteSets

CONSTANTS
    Contents,   \* Contents[k]: what file k may be, as [tag, cells] ...
    Unreadable  \* ... or a file that cannot be opened

ASSUME ContentsAssumption ==
    /\ Contents \in Seq(SUBSET ({Unreadable} \cup [tag : Nat, cells : Seq(Cell)]))
    /\ Unreadable \notin Seq(Cell) \cup [tag : Nat, cells : Seq(Cell)]

MINIMP3_MAX_SAMPLES_PER_FRAME == 2

VARIABLES
    k,          \* number of the file
    phase,      \* "open", "first", "rest" and "store": where its loading is
    file, pos,  \* what follows its tag, and how much of it is decoded
    dec,        \* mp3d
    info,       \* the samples' number and kind, and which file's they are
    allocated,  \* the size of info.buffer
    fed,        \* the main data of the frame decoded last
    rounds,     \* of the two loops, for this file
    sounds

vars == <<k, phase, file, pos, dec, info, allocated, fed, rounds, sounds>>

NoInfo == [from |-> 0, samples |-> 0, channels |-> 0, hz |-> 0, layer |-> 0]
Garbage == [NoInfo EXCEPT !.from = -1]

Init == /\ k = 1 /\ phase = "open"
        /\ file = <<>> /\ pos = 0
        /\ dec = Init0 /\ info = Garbage
        /\ allocated = 0 /\ fed = <<>> /\ rounds = 0
        /\ sounds = <<>>

(* info at the start of mp3dec_load_buf.  (Mutant: it is not cleared.) *)
StaleInfo == info
ClearedInfo == NoInfo

(* The files that can be opened and mapped into memory: not an empty one.  *)
Mapped == {content \in Contents[k] \ {Unreadable} : content.cells # <<>>}

(* The bytes behind an ID3v2 tag; a tag that says it is longer than the    *)
(* file ends the loading.                                                  *)
OpenReadable == \E content \in Mapped :
    LET cells == content.cells
        whole == content.tag <= Len(cells)
    IN  /\ file' = IF whole THEN SubSeq(cells, content.tag + 1, Len(cells)) ELSE <<>>
        /\ dec' = IF whole THEN mp3dec_init(dec) ELSE dec
        /\ phase' = IF whole THEN "first" ELSE "store"
        /\ info' = ClearedInfo

(* load_mp3s goes on after the error with info as it is, an uninitialised  *)
(* local: what the file before has left in the same place, or anything.    *)
OpenFails == /\ Contents[k] \ Mapped # {}
             /\ info' \in {info, Garbage}
             /\ file' = Unreadable
             /\ phase' = "store"
             /\ UNCHANGED dec

Open == /\ phase = "open" /\ k <= Len(Contents)
        /\ OpenReadable \/ OpenFails
        /\ pos' = 0 /\ allocated' = 0 /\ fed' = <<>> /\ rounds' = 0
        /\ UNCHANGED <<k, sounds>>

(* The loops over the frames end when a call passes over nothing.          *)
(* (Mutant: when nothing is left of the file.)                             *)
AtEnd(frame) == pos + frame.bytes = Len(file)
Ended(frame) == frame.bytes = 0

(* Up to the first frame that sounds, from which the size of the whole is  *)
(* guessed.                                                                *)
First == /\ phase = "first"
         /\ rounds' = rounds + 1
         /\ LET frame == mp3dec_decode_frame(dec, file, k, pos)
            IN  /\ dec' = frame.dec /\ fed' = frame.fed
                /\ pos' = pos + frame.bytes
                /\ IF frame.channels = 0
                   THEN /\ phase' = IF Ended(frame) THEN "store" ELSE "first"
                        /\ UNCHANGED <<info, allocated>>
                   ELSE /\ phase' = "rest"
                        /\ info' = [from |-> k, samples |-> frame.channels,
                                    channels |-> frame.channels,
                                    hz |-> frame.hdr.hz, layer |-> frame.hdr.layer]
                        /\ allocated' = ((Len(file) - pos') \div frame.bytes) * frame.channels
                                            + MINIMP3_MAX_SAMPLES_PER_FRAME
         /\ UNCHANGED <<k, file, sounds>>

(* The room made before a frame is decoded.  (Mutant: for one channel.) *)
GrownForMono == IF allocated - info.samples < 1 THEN 2 * allocated ELSE allocated
Grown == IF allocated - info.samples < MINIMP3_MAX_SAMPLES_PER_FRAME THEN 2 * allocated
         ELSE allocated

(* One of the other frames: of another rate, it ends the loading; of       *)
(* another number of channels, it marks the sound.                         *)
Rest == /\ phase = "rest"
        /\ rounds' = rounds + 1
        /\ LET frame == mp3dec_decode_frame(dec, file, k, pos)
               sounding == frame.channels # 0
               same == frame.hdr.hz = info.hz /\ frame.hdr.layer = info.layer
           IN  /\ dec' = frame.dec /\ fed' = frame.fed
               /\ pos' = pos + frame.bytes
               /\ allocated' = Grown
               /\ info' = IF sounding /\ same
                          THEN [from |-> info.from, hz |-> info.hz, layer |-> info.layer,
                                samples |-> info.samples + frame.channels,
                                channels |-> IF info.channels = frame.channels
                                             THEN info.channels ELSE 0]
                          ELSE info
               /\ phase' = IF Ended(frame) \/ (sounding /\ ~ same) THEN "store" ELSE "rest"
        /\ UNCHANGED <<k, file, sounds>>

(* sound.data = info.buffer and sound.size = info.samples. *)
Store == /\ phase = "store"
         /\ sounds' = Append(sounds, [from |-> info.from, size |-> info.samples,
                                      opened |-> file # Unreadable])
         /\ k' = k + 1 /\ phase' = "open"
         /\ UNCHANGED <<file, pos, dec, info, allocated, fed, rounds>>

Next == Open \/ First \/ Rest \/ Store

Spec == Init /\ [][Next]_vars

-----------------------------------------------------------------------------
(* Properties.                                                             *)

(* The decoder never runs past the end of the file, and its samples have   *)
(* room in info.buffer although the size is guessed from the first frame   *)
(* and later ones may be smaller or have more channels                     *)
(* (minimp3_ex.h:95-127).                                                  *)
InBounds == /\ phase \in {"first", "rest"} => pos <= Len(file)
            /\ phase = "rest" => info.samples <= allocated

(* Bytes of file j that follow each other up to the one at end, with       *)
(* nothing but headers left out.                                           *)
Unbroken(cells, j, bytes, end) == \A i \in 1..Len(bytes) :
    LET next == IF i = Len(bytes) THEN end ELSE bytes[i + 1][2]
    IN  /\ bytes[i][1] = j /\ bytes[i][2] < next
        /\ \A c \in (bytes[i][2] + 1)..(next - 1) : hdr_valid(cells[c])

(* The main data that a frame is decoded from is its own and, before it,   *)
(* as much as it asks for of what came directly before in the same file,   *)
(* headers left out: never of another file, nor of what stood before a     *)
(* frame that was lost (minimp3.h:1157-1181, 1665-1711).                   *)
OwnMainData(cells, d, bytes, end) == \E p \in 1..end :
    /\ hdr_valid(cells[p]) /\ p + Length(cells[p], d.free) = end + 1
    /\ Len(bytes) = cells[p].mdb + end - p
RightBytes == phase # "open" /\ fed # <<>> =>
    Unbroken(file, k, fed, pos + 1) /\ OwnMainData(file, dec, fed, pos)

(* What makes RightBytes inductive: as long as the decoder is in a run of  *)
(* frames, its reservoir is what came directly before.                     *)
InRunUpTo(d, cells, j, end) == hdr_valid(d.header) =>
    /\ Unbroken(cells, j, d.reserv, end + 1)
    /\ d.header.layer # 3 => d.reserv = <<>>
ReservoirInv == phase \in {"first", "rest"} => InRunUpTo(dec, file, k, pos)

(* A file that is nothing but frames of layer 3 with one rate, each of     *)
(* which asks for no more of the bytes before it than there are and than   *)
(* the reservoir keeps, is decoded whole.                                  *)
Frames(cells) == {p \in DOMAIN cells : hdr_valid(cells[p])}
Payload(cells, p) == cells[p].size + cells[p].pad - HDR_SIZE
WellFormed(cells) ==
    \A p \in Frames(cells) :
        LET h == cells[p]
            q == p + HDR_SIZE + Payload(cells, p)
        IN  /\ h.layer = 3 /\ h.hz = cells[1].hz /\ h.ok
            /\ h.size + h.pad > HDR_SIZE /\ h.size # 0
            /\ h.used <= h.mdb + Payload(cells, p)
            /\ p = 1 => h.mdb = 0
            /\ q = Len(cells) + 1 \/ q \in Frames(cells)
            /\ \A r \in (p + 1)..(q - 1) : r \notin Frames(cells)
            /\ q \in Frames(cells) =>
                   cells[q].mdb <= MINIMP3_MIN(MAX_BITRESERVOIR_BYTES,
                                               h.mdb + Payload(cells, p) - h.used)
Sounding(cells, channels) == Cardinality({p \in Frames(cells) : cells[p].channels = channels})
AllDecoded ==
    (/\ phase = "store" /\ file \notin {Unreadable, <<>>}
     /\ hdr_valid(file[1]) /\ WellFormed(file))
        => info.samples = Sounding(file, 1) + 2 * Sounding(file, 2)

(* What makes AllDecoded inductive: in such a file the decoder is always   *)
(* before a frame or at the end, in the run of frames from the first on,   *)
(* with what the next one asks for in its reservoir, and the samples are   *)
(* those of the frames behind it.                                          *)
Good(cells) == cells # <<>> /\ hdr_valid(cells[1]) /\ WellFormed(cells)
Before(cells, channels, p) ==
    {f \in Frames(cells) : f <= p /\ cells[f].channels = channels}
SamplesUpTo(cells, p) == Cardinality(Before(cells, 1, p)) + 2 * Cardinality(Before(cells, 2, p))
Ready(cells, d, p) ==
    /\ p = Len(cells) \/ p + 1 \in Frames(cells)
    /\ IF p = 0 THEN ~ hdr_valid(d.header)
       ELSE /\ d.header.hz = cells[1].hz /\ d.header.layer = 3 /\ d.header.size # 0
            /\ p < Len(cells) => Len(d.reserv) >= cells[p + 1].mdb
DecodedInv == phase \in {"first", "rest"} /\ Good(file) =>
    /\ Ready(file, dec, pos)
    /\ info.samples = SamplesUpTo(file, pos)
    /\ phase = "rest" => info.hz = file[1].hz /\ info.layer = 3

(* Whatever happened to the files before it, the sound of a file that was  *)
(* opened has that file's samples, or none (server.cpp:336-347).           *)
OwnSounds == \A j \in DOMAIN sounds :
    sounds[j].opened => \/ sounds[j].from = j
                        \/ sounds[j].from = 0 /\ sounds[j].size = 0

(* The loading of a file ends whatever is in it: every round of the two    *)
(* loops but the last passes over something (minimp3_ex.h:79-86, 107-136). *)
LoadEnds == rounds <= pos + 1
=============================================================================

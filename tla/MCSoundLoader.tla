---------------------------- MODULE MCSoundLoader ---------------------------
(***************************************************************************)
(* Files made of up to four chunks in any order, followed by a file of two *)
(* frames, by one that says its tag is longer than itself or by one that   *)
(* cannot be opened.                                                       *)
(***************************************************************************)
EXTENDS SoundLoader

Hdr(mdb, used) == [hz |-> 1, layer |-> 3, size |-> 3, pad |-> 0, channels |-> 1,
                    ok |-> TRUE, mdb |-> mdb, used |-> used]
Frame(h) == <<h>> \o [i \in 1..(h.size + h.pad - 1) |-> NoHeader]

Chunks == {
    Frame(Hdr(0, 1)),                                     \* leaves a byte
    Frame(Hdr(1, 3)),                                     \* takes it
    Frame([Hdr(0, 0) EXCEPT !.pad = 1]),                  \* leaves three
    Frame([Hdr(2, 3) EXCEPT !.size = 2, !.channels = 2]), \* smaller, stereo
    Frame([Hdr(0, 1) EXCEPT !.ok = FALSE]),
    Frame(Hdr(0, 3)),                                      \* takes too much
    Frame([Hdr(0, 1) EXCEPT !.hz = 2]),
    Frame([Hdr(0, 1) EXCEPT !.layer = 2]),
    <<[Hdr(0, 1) EXCEPT !.size = 0], NoHeader>>,          \* free format
    <<NoHeader>> }

\* The run is long enough to be found in spite of what follows it.
Run == Frame(Hdr(0, 1)) \o Frame(Hdr(1, 3)) \o Frame(Hdr(0, 3)) \o Frame(Hdr(0, 1))

With(S) == S \cup {c \o s : c \in Chunks, s \in S}
UpToTwo == With(With({<<>>}))
UpToFour == With(With(UpToTwo))
AfterRun == {Run \o s : s \in UpToTwo}

MCContents == <<
    {Unreadable} \cup [tag : {0}, cells : UpToFour \cup AfterRun],
    {Unreadable, [tag |-> 2, cells |-> <<NoHeader>>],
     [tag |-> 1, cells |-> <<NoHeader>> \o Frame(Hdr(0, 1)) \o Frame(Hdr(1, 3))]} >>
=============================================================================

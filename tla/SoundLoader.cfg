CONSTANTS
    Unreadable = Unreadable
    MAX_FREE_FORMAT_FRAME_SIZE = 5
    MAX_FRAME_SYNC_MATCHES = 3
    MAX_BITRESERVOIR_BYTES = 2
    Contents <- MCContents
SPECIFICATION Spec
INVARIANT InBounds RightBytes AllDecoded OwnSounds LoadEnds
CHECK_DEADLOCK FALSE

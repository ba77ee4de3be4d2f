CONSTANTS
    Streams <- MCStreams
    MaxSends = 6
    Overflows = {"outputBuffer_"}
    kCheapPrepend = 1
    kInitialSize = 6
    ExtraSize = 8
    SizeMax = 63
    Unwritten = Unwritten
SPECIFICATION Spec
CHECK_DEADLOCK FALSE
INVARIANT
    IndicesOrdered

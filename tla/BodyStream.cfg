\* Six bytes in chunks of one or two, buffers of two, two ticks of silence.
SPECIFICATION Spec
CONSTANTS
    Peeks <- MCPeeks
    Sinks <- MCSinks
    High = 2
    Limit = 3
    IdleMs = 2
    MaxChunk = 2
    MaxBytes = 6
INVARIANTS TypeOK BytesInOrder HeadsAreFirst MemoryBounded
PROPERTIES CutOnlyWhenSilent Settles SourceIsReleased
CHECK_DEADLOCK FALSE

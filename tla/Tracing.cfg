CONSTANTS
    Milli = 2
    Window = 4
    Gaps <- ShortOrLong
    Incs <- OneOrTwo
    MaxCalls = 8
    Line = 2
    Chunk = 3
    Page = 5
    Pages = 2
SPECIFICATION Spec
INVARIANTS TypeOK WindowsAddUp ExtremesExact LinesWhole PipeRecovers TracingInv
CHECK_DEADLOCK FALSE

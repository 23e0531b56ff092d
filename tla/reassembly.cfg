CONSTANTS
    MaxLength = 3
    MaxSent = 3
    MaxChunk = 8
    Calls <- MCCalls
    MaxSession = 2
    MaxCalls = 3
    MaxProcesses = 2
    MaxOutages = 1
SPECIFICATION ProtocolSpec
INVARIANTS RoundTrip ForeignMarkSkipped AnswersAreOwn
PROPERTIES WaitsForNextChunk ImplementsChannel BrokenOnlyByReuse Linearizable CallAnswered
CHECK_DEADLOCK FALSE

CONSTANTS
    Durations <- AnyDurations
SPECIFICATION FairSpec
INVARIANTS KernelFollowsState NoCallbackAfterDestruction
PROPERTIES ArmedKeepsFiring

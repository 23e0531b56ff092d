CONSTANTS
    Capacity = 3
    MaxQueued = 3
SPECIFICATION FairSpec
INVARIANTS OneReconnect RegisterComesFirst
PROPERTIES OutageNoticed NoticedOutageRepaired

SPECIFICATION FairSpec
CONSTANTS
    f1 = f1
    f2 = f2
    client = client
    provider = provider
    m1 = m1
    m2 = m2
    m3 = m3
    Fds = {f1, f2}
    Clients = {client}
    Providers = {provider}
    Messages = {m1, m2, m3}
    To <- MCTo
    Size <- MCSize
INVARIANTS IndexLeadsToConnection DescriptorsAccounted BytesInOrder
PROPERTIES ResumedOnce SentAsAddressed QueueDrains

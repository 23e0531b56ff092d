CONSTANTS
    p = p
    q = q
    r = r
    s1 = s1
    s2 = s2
    x = x
    Apps <- TwoApps
    Remotes <- OneRemote
    Services <- ThreeServices
    Offers <- OffersOf
    External <- ExternalX
    Calls <- ThreeCalls
    ClientId <- Ids
    MaxAsked = 2
SPECIFICATION Spec
INVARIANTS HandlersDoNotThrow

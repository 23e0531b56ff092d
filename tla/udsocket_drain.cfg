CONSTANTS
    t1 = t1
    t2 = t2
    w = w
    m1 = m1
    m2 = m2
    m3 = m3
    r1 = r1
    Worker <- w
    NoMessage = NoMessage
    Senders <- OneThread
    Messages <- TwoMessages
    Recipients <- OneRecipient
    To <- ToOne
    Notified <- AllNotified
SPECIFICATION Spec
INVARIANTS DrainsWhatIsThere

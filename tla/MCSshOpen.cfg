SPECIFICATION FairSpec
CONSTANTS
    s1 = s1
    jump = jump
    host = host
    t1 = t1
    None = None
    Sessions = {s1}
    Passworded = {s1}
    Hosts = {jump, host}
    Route <- ThroughJump
    KnownAtStart <- JumpUnknown
    Tabs = {t1}
    Link <- Linked
    MaxAttempts = 2
    MaxPasswordPrompts = 1
CHECK_DEADLOCK FALSE
INVARIANTS
    ShownIsUnderWay
    AskedIsShown
    TrustIsAsked
PROPERTIES
    AttemptsEnd

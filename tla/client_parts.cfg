\* Each part of a client on its own, and the relay and the limiter.
CONSTANTS
    Cap = 1
    TTL = 2
    RelayIdle = 3
    Memory = 4
    SessionIdle = 4
    MaxSends = 3
    MaxLogins = 2
    MaxFaults = 1
    MaxAttempts = 1
    MaxGlitches = 1
    MaxLives = 2
    Device = {d1, d2}
    Nobody = Nobody
    MaxEvents = 3
    Sender = {s1, s2}
    MaxActive = 1
    MaxConns = 3
    MaxSendsOn = 3
    MaxDeaths = 2
    Key = {u1, u2}
    Absent = Absent
    Burst = 3
    Want = {1, 2}
    MaxTime = 5
    Proc = {1}
    MaxItems = 2
    MaxKeys = 2
    MaxStarts = 4
    PeerKey = {k1, k2, k3}
    Base = {bob, eve}
    NoKey = NoKey
    MaxSteps = 5
SPECIFICATION MCSpec
CHECK_DEADLOCK FALSE
INVARIANTS PartsTypeOK AllOrNothing OneServerTold NothingLeaks KeyIsKept OneVoice
PROPERTIES ReuseFindsSession FreshSessionWorks RelaysEnd ForwardRepaired NotTakenBack
    ClientSettles StaleIsRetried GrantsAsPromised NothingLost SealedWhenReady

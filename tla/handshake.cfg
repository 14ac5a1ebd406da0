\* Two threads for three programs, of which the manager may be killed.
SPECIFICATION Spec
CONSTANTS
    man1 = man1
    pub = pub
    sub = sub
    none = none
    Managers <- OneManager
    Publishers <- OnePublisher
    Subscribers <- OneSubscriber
    Mortal <- OneManager
    MaxSessions = 2
    MaxAhead = 1
    Nobody = none
INVARIANTS
    TypeOK
    
    RequestsKept
PROPERTIES
    RequestsTaken
    ManagersServed
CHECK_DEADLOCK FALSE

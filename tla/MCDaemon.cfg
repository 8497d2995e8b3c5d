SPECIFICATION FairSpec
CONSTANTS
    Clients = {c1}
    Watched = {src}
    Outside = {sdk}
    Envs = {e1}
    Tools = {t1, t2}
    None = None
    MaxRequests = 3
    MaxChanges = 1
    MaxCertificates = 1
    MaxFaults = 1
CHECK_DEADLOCK FALSE
INVARIANTS
    TypeOK
    AnswersAndProofsAreTrue
PROPERTIES
    EveryRequestEnds

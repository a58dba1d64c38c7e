\* Two handlers, three requests, a resume window of one tick; no symmetry, since
\* fairness is per handler.
CONSTANTS
    Handlers = {h1, h2}
    NoHandler = NoHandler
    ResumeTtl = 1
    MaxNow = 2
    MaxRequests = 3
SPECIFICATION FairSpec
INVARIANTS
    TypeOK
    StampsTellStatus
    EventsTellCommits
    EveryChangeAnnounced
PROPERTIES
    ContractSpec
    RequestsFinish

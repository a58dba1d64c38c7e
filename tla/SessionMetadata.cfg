\* Two handlers, three requests, one key; no symmetry, since fairness is per handler.
CONSTANTS
    Handlers = {h1, h2}
    NoHandler = NoHandler
    Keys = {k1}
    Values = {v1}
    MaxRequests = 3
SPECIFICATION FairSpec
INVARIANTS
    TypeOK
    MergeOnLatest
    CompareAndSet
PROPERTY RequestsFinish

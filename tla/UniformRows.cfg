\* Two handlers, three requests, batches of up to two rows in either order; no
\* symmetry, since fairness is per handler.
CONSTANTS
    Handlers = {h1, h2}
    Cids = {c1, c2}
    NoCid = NoCid
    MaxBatch = 2
    MaxRequests = 3
SPECIFICATION FairSpec
INVARIANTS
    TypeOK
    OneRowPerClientId
    AcknowledgedWasStored
    PatchOnLatest
    EventsAccountForRows
PROPERTY RequestsFinish

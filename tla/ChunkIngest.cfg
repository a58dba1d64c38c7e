\* Two chunk ids of one participant: two uploads race each other, a retry and
\* two overlapping deletions. No symmetry, since fairness is per handler.
CONSTANTS
    Pids = {p1}
    Cids = {c1, c2}
    Uploaders = {u1, u2}
    Deleters = {d1, d2}
    None = None
    MaxUploads = 2
    MaxDeletes = 2
SPECIFICATION FairSpec
INVARIANTS
    TypeOK
    ObjectKept
    OrphanIsReplacedNext
PROPERTIES
    ImplementsChunkLog
    RequestsFinish

\* The documented claim that a chunk is committed only together with its object;
\* one chunk id, so that a late PUT could only store the right bytes.
CONSTANTS
    Pids = {p1}
    Cids = {c1}
    Uploaders = {u1, u2}
    Deleters = {d1}
    None = None
    MaxUploads = 2
    MaxDeletes = 1
SPECIFICATION Spec
INVARIANT CommittedHasObject

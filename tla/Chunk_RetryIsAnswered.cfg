\* The documented claim that a retried upload returns the existing row.
CONSTANTS
    Pids = {p1}
    Cids = {c1, c2}
    Uploaders = {u1, u2}
    Deleters = {d1}
    None = None
    MaxUploads = 2
    MaxDeletes = 0
SPECIFICATION Spec
INVARIANT RetryIsAnswered

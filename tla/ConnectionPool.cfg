\* Four requests compete for three connections, one session row and one other
\* row, so that a chain of waits ends at a stalled upload.
CONSTANTS
    Slots = {r1, r2, r3, r4}
    SessionIds = {s1}
    Rows = {u1}
    Modes = {"share", "excl"}
    Size = 3
SPECIFICATION FairSpec
INVARIANTS
    TypeOK
    HoldersNeverQueue
    RefusedOnlyByUploads
PROPERTY EveryoneIsServed

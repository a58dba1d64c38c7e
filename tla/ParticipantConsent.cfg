\* Two requests race over a participant with a token, a user who has not
\* joined and a person not known yet.
CONSTANTS
    Handlers = {h1, h2}
    People = {w1, w2, w3}
    Known = {w1, w2}
    Joined = {w1}
    Flags = {no_llm_training}
    MaxBatch = 2
    MaxRequests = 2
SPECIFICATION FairSpec
INVARIANTS
    TypeOK
    LastNamedWins
    AnswerTellsEffect
    DeadlocksNeedABatch
PROPERTY RequestsFinish

\* The documented claim that a PATCH merges into the existing blob.
CONSTANTS
    Handlers = {h1, h2}
    NoHandler = NoHandler
    Keys = {k1}
    Values = {v1}
    MaxRequests = 3
SPECIFICATION Spec
SYMMETRY Symmetry
INVARIANT MergesIntoExisting

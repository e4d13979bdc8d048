SPECIFICATION FairSpec
CONSTANTS
    Reqs = {r1, r2, r3}
    NoReq = NoReq
    Zero = {r1}
    Quiet = {r1}
INVARIANTS
    ChainIsQueue NoFreedTd
PROPERTIES
    ImplementsEndpointQueue EveryRequestReturned

SPECIFICATION FairSpec
INVARIANT TypeOK
INVARIANT SecuredAgreement
INVARIANT NothingLeftOver
INVARIANT FailureFreesContext
PROPERTY HandshakeSafe
PROPERTY OpenReturns
CONSTANTS
    MaxOpens = 4
    Rounds = 3
    MaxFaults = 2

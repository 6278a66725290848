\* identifiers that begin with true, false or NULL
CONSTANTS
    Samples <- MCSpecialPrefixSamples
    Seps <- MCSeps
    Bad = {}
    MaxToks = 1
SPECIFICATION Spec
INVARIANT LexMatchesTokens

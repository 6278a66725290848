CONSTANTS
    Samples <- MCSamples
    Seps <- MCSeps
    Bad <- MCBad
    MaxToks = 2
SPECIFICATION Spec
INVARIANT LexMatchesTokens
INVARIANT SpansMatchText

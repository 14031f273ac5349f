SPECIFICATION FairSpec
CONSTANTS
    a = a  b = b  e = e  f = f
    Tokens = {a, b, e, f}
    DraftEos = {e}
    TargetEos = {e, f}
    Prompts <- ShortPrompts
    NumSpec = 2
    MaxTokens = 4
    Recurrent = FALSE
    None = None
    MaxFaults = 1
INVARIANTS Aligned
PROPERTIES ImplementsDecoding CallsReturn

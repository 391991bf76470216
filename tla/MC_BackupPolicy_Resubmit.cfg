CONSTANTS
    Clients = {c1}
    NDays <- MCNDays
    Types = {Full, Incremental}
    Modes = {Weekly, Monthly}
    HM = {h0100}
    Secs <- MCSecs
    Secrets = {s1}
    Undef = Undef
    NaN = NaN
    NoKey = NoKey
    PubKey = PubKey
    SharedInput = TRUE
SPECIFICATION Spec
INVARIANT BodyModeDefined

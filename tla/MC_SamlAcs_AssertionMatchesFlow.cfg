CONSTANTS
    Browsers = {b1, b2}
    FlowIds = {f1}
    Identities = {alice}
    Requests = {r1, r2}
    MaxAuthn = 2
    NoSession = NoSession
    NoToken = NoToken
    NoFlow = NoFlow
    NoSubject = NoSubject
    Forged = Forged
    NoOwner = NoOwner
    Nil = Nil
SPECIFICATION Spec
SYMMETRY MCSymmetry
INVARIANT
    AssertionMatchesFlow

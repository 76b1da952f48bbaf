\* Two emails and two tokens: two sign-ins, or one that is rotated; two requests,
\* so that a slow resolver meets a revocation, a rotation or another resolver.
SPECIFICATION FairSpec
CONSTANTS
    Emails = {e1, e2}
    Tokens = {t1, t2}
    Requests = {r1, r2}
    NoEmail = NoEmail
INVARIANTS
    RolesAgree
PROPERTIES
    OneLiveSession
    RevokedStaysOut
    RevokedEnds

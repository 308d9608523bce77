\* Two people, three sign-ins, one request at a time, one upload.
CONSTANTS
    ann = ann
    bob = bob
    ann1 = ann1
    ann2 = ann2
    bob1 = bob1
    None = None
    SignIns = {ann1, ann2, bob1}
    Requests = {q1}
    Uploads = {u1}
    Identities = {ann, bob}
    IdentityOf <- MCIdentityOf
SPECIFICATION Spec
INVARIANTS
    EveryoneIsThemselves
    TokenIsCurrent
PROPERTIES
    OneAccountEach
    SignedOutMeansOut
CHECK_DEADLOCK FALSE

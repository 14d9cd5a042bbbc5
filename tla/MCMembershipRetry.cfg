\* A worker whose first registration fails is never registered.
SPECIFICATION FairSpec
CONSTANTS
    Node = {w1}
PROPERTY
    RegistrationIsRetried

SPECIFICATION Spec

CONSTANTS
    Token = {t1, t2, t3}
    NoToken = NoToken
    Client = {c1, c2}
    Console = Console
    Nobody = Nobody
    Faults = {"crash", "write", "sync"}

INVARIANTS
    RotationIsAtomic
    FilesAgree

PROPERTIES
    RotatesOwnCredential

SYMMETRY
    Symmetry

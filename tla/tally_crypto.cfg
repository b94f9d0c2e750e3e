SPECIFICATION Spec
CONSTANTS
    Bits = 6
    Base = 4
    LongLen = 2
    CipherLen = 6
    Votes = {0, 1, 2, 4}
    Blinds = {2, 3, 5}
    MaxBallots = 4
    None = None
INVARIANTS
    KeysUsable
    ChoicesReadBack
    DecryptedModuloByte
    RandReproduces

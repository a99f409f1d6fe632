SPECIFICATION mcSpec
CONSTANTS
    User = User
    Manager = Manager
    NoAddr = NoAddr
    e = e
    c = c
    x = x
    y = y
    z = z
    w = w
    s = s
    Addr = {User, Manager, e, c, x, y, z, w, s}
    Creators = {e}
    CppCreators = {z}
    Amounts = {0, 1}
    Derive <- MCDerive
    Salted <- MCSalted
    InitCells <- MCNewCode
    InitAccounts <- MCAccounts
    MaxDepth = 3
    MaxSteps = 4
INVARIANTS
    ContextTypeOK
    NewContractsAlive
    CppFailureIsFatal
    SafeSettled
PROPERTY Refines

SPECIFICATION Spec
CONSTANTS
    User = User
    Manager = Manager
    NoAddr = NoAddr
    e = e
    c = c
    x = x
    y = y
    z = z
    w = w
    s = s
    Addr = {User, Manager, e, c, x, y, z}
    Creators = {}
    CppCreators = {}
    Amounts = {0}
    Derive <- MCDerive
    Salted <- MCNoSalt
    InitCells <- MCCells
    InitAccounts <- MCAccounts
    MaxDepth = 3
    MaxSteps = 4
INVARIANT UsedVarsAlive

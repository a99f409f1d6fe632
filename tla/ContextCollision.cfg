SPECIFICATION Spec
CONSTANTS
    User = User
    Manager = Manager
    NoAddr = NoAddr
    e = e
    c = c
    x = x
    y = y
    z = z
    w = w
    s = s
    Addr = {User, Manager, e, c, x, y, z}
    Creators = {e}
    CppCreators = {e}
    Amounts = {0}
    Derive <- MCDerive
    Salted <- MCNoSalt
    InitCells <- MCTaken
    InitAccounts <- MCTakenAccounts
    MaxDepth = 2
    MaxSteps = 3
INVARIANT FailedChangesNothing

CONSTANTS
    Env = {1, 2, 3}
    Root = 1
    NVa = 2
    Text = {1}
    Page = {1, 2, 3, 4, 5, 6, 7, 8, 9, 10}
    NoPage = NoPage
    Value = {0, 1}
    NoEnv = NoEnv
    Candidates <- Lowest
    Blank = Blank  None = None  Nobody = Nobody
SPECIFICATION Spec
INVARIANT CowInv
PROPERTY ImplementsPrivateMemory
CHECK_DEADLOCK FALSE
VIEW Unnamed

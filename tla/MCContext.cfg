SPECIFICATION Spec
CONSTANTS
    CallIds = {1, 2}
    Lengths = {0, 3}
    Budgets = {0, 4, 5, 8, 11, 15}
    MaxMessages = 4
    Handoffs <- MCHandoffs
INVARIANT
    PairsComplete
    NothingLost
    FitsTheBudget

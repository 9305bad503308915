CONSTANTS
    Jobs = {j1}
    Methods = {"keener", "elo"}
    LastYear = 2
    MaxVersion = 2
    None = None
SPECIFICATION Spec
INVARIANT OneTransactionPerYear

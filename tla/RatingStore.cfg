CONSTANTS
    Jobs = {j1, j2}
    Methods = {"elo", "elo_career"}
    LastYear = 2
    MaxVersion = 1
    None = None
SPECIFICATION Spec
SYMMETRY Symmetry
INVARIANT WholeUnlessTorn
PROPERTY RangeIsUpToDate

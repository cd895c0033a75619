SPECIFICATION Spec
CONSTANTS
    j1 = j1
    j2 = j2
    j3 = j3
    Jobs = {j1, j2, j3}
    Dates <- MCDates
    Corrections <- MCCorrections
    Null = Null
    NoRow = NoRow
    Nobody = Nobody
SYMMETRY Symmetry
INVARIANTS
    ReplacedIsShortened
CHECK_DEADLOCK FALSE

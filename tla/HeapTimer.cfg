SPECIFICATION Spec
CONSTANTS
    Keys = {k1, k2, k3, k4, k5}
    Times = {0, 1, 2, 3}
SYMMETRY Symmetry
INVARIANTS IndexAgrees NoAssertionFails
PROPERTIES ImplementsQueue IntervalReachesEarliest

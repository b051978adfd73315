\* Two units of work on one row, six operations and the hooks of a flush.
SPECIFICATION Spec
CONSTANTS
    s1 = s1  s2 = s2  k1 = k1  a = a  b = b
    NoValue = NoValue  NoKey = NoKey
    Session <- TwoSessions
    Key <- OneKey
    Value <- TwoValues
    MaxOps = 6
INVARIANTS NothingForgotten VersionsAreTrue
SYMMETRY Symm
CHECK_DEADLOCK FALSE

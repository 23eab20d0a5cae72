\* Three keys, two values, two nested overlays: every pending op over every
\* kind of value beneath, in both iteration orders.
CONSTANTS
    NumKeys = 3
    Vals = {v1, v2}
    Absent = Absent
    MaxDepth = 2
SPECIFICATION Spec
INVARIANT RangeAgreesWithGet

CONSTANTS
    i1 = i1
    i2 = i2
    Input = {i1, i2}
    Lang = {1, 99}
    Compiled = {1}
SYMMETRY InputSymmetry
SPECIFICATION Spec
INVARIANT TypeOK
INVARIANT ImportedIsWhole
INVARIANT AcceptedIsCompared
PROPERTY CallSpec

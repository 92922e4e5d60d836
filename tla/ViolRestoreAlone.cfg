CONSTANTS
    Pid = {p1, p2, p3}
SPECIFICATION Spec
INVARIANTS RestoresAlone
SYMMETRY PidSymmetry

\* One report with three contents, two processes that anchor it and one that
\* verifies it; a log of three lines.
CONSTANTS
    a = a
    b = b
    c = c
    Contents = {a, b, c}
    Prefix <- MCPrefix
    Reports <- MCReports
    Anchorers = {p1, p2}
    Verifiers = {v1}
    MaxLedger = 2
    MaxLines = 3
SYMMETRY MCSymmetry
SPECIFICATION MCSpec
CHECK_DEADLOCK FALSE
INVARIANTS
    TrailSound
    LinesAccounted

SPECIFICATION Spec
CONSTANTS
    Widths = {32, 64, 96}
INVARIANTS
    InRow
    SweptOnce
    RowSwept

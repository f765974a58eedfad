\* A 4-bit uint and int and a 2-bit rune: every sign and every wrap
\* of the 64- and 32-bit types happens at these widths.
CONSTANTS
    W = 4
    CW = 2
SPECIFICATION Spec
INVARIANT CompareAsNumbers

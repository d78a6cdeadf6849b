CONSTANT Modulus = 7
SPECIFICATION RangeSpec
INVARIANTS RangeInsideIsExact

SPECIFICATION Spec
CONSTANTS
    SHIFT = 6
    DECIMAL_SHIFT = 1
    EdgeDigits = {0, 1, 32, 63}
    Literals <- EdgeIntegers
INVARIANTS
    BigIntExact
    NumeralsExact
    NumbersExact
CHECK_DEADLOCK FALSE

\* mul_div_parts on every argument of a type whose largest value is 15: exact
\* divisions, carries, zero factors and overflowing quotients all occur.
CONSTANTS
    MaxI = 15
    SimApyBps = 1
    YieldDenom = 4
SPECIFICATION Spec
INVARIANTS ResultExact OverflowOnlyWhenUnrepresentable
PROPERTY Terminates
\* A call that has returned takes no further step.
CHECK_DEADLOCK FALSE

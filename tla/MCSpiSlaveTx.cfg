CONSTANTS
    Byte <- MCByte
    Zero = 0
    Bits = 4
    ByteCounts <- OneOrTwo
    Setups <- Setup
SPECIFICATION Spec
INVARIANTS
    BitOrder
    WholeByte

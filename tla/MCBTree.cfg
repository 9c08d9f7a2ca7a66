SPECIFICATION Spec
CONSTANTS
    Keys = {1, 2, 3, 4, 5}
    Records = {"r"}
    NORECS = 3
    NOENTS = 3
INVARIANTS FreshFile TreeSound TraverseExact DamageConfined
PROPERTIES ImplementsKVStore StoreEnds
CHECK_DEADLOCK FALSE

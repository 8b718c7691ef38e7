SPECIFICATION Spec
CONSTANTS
    None = None
    Names = {"orders", "carts", ".."}
    ValidNames = {"orders", "carts", ".."}
    LegalNames = {"orders", "carts"}
    ErrorEntries = {"carts"}
    MaxInt = 8760
    Brokers = 1
    Creates <- MCCreates
    MaxArrivals = 3
    MaxFaults = 2
INVARIANTS
    TypeOK CalmErrorJustified DivergenceTraced
PROPERTIES
    CalmAnswerTrue
CHECK_DEADLOCK FALSE

CONSTANT MaxLen = 6
SPECIFICATION Spec
INVARIANTS TypeOK ChainsWellFormed ParentsHold FlagsExact RefsExact NoCrossing
PROPERTY ImplementsConditionals
CHECK_DEADLOCK FALSE

CONSTANT MaxId = 4
SPECIFICATION KeysSpec
INVARIANTS NextIdIsFresh LookupIsExact
CHECK_DEADLOCK FALSE

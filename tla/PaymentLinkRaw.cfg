SPECIFICATION CallSpec
INVARIANT NothingRawEscapes
CHECK_DEADLOCK FALSE

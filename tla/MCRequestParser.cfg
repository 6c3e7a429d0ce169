SPECIFICATION ParserSpec
CONSTANT Inputs <- mcInputs
INVARIANTS ParserTypeOK AcceptsRequests FieldsOfText BackDefined
CHECK_DEADLOCK FALSE

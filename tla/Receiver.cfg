CONSTANT MaxNodes = 6
SPECIFICATION Spec
CHECK_DEADLOCK FALSE
INVARIANTS SeenIsAsked ForgottenIsAsked NoNeedlessWrite

SPECIFICATION Spec
PROPERTIES
  InterpreterIsX86
  JitIsX86
CHECK_DEADLOCK FALSE

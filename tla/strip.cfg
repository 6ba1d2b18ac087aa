SPECIFICATION Spec
CONSTANT Scripts <- SmallScripts
INVARIANTS
  TypeOK
  StatementsStayApart
  CodeKept
  ClausesGone
CHECK_DEADLOCK FALSE

CONSTANT Families <- MCFamilies
SPECIFICATION Spec
INVARIANTS
  ReadsBack
  ConditionsReadBack
  StatementsReadBack
CHECK_DEADLOCK FALSE

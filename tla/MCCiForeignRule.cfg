SPECIFICATION Spec
CONSTANTS
  Roles <- TwoNodes
  None = None
  Torn = Torn
PROPERTIES
  ForeignRulesStay
CHECK_DEADLOCK FALSE

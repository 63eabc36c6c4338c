SPECIFICATION Spec
CONSTANTS
  None = None
  Width = 4
  Fields = {"enable", "maxPkt"}
  Layout <- MCLayout
  Controllers = {"c1", "c2"}
  Commands <- MCCommands
  MaxCommands = 4
INVARIANT LostUpdateNeedsRace
INVARIANT FieldsWhole
INVARIANT MismatchNeedsRace
CHECK_DEADLOCK FALSE

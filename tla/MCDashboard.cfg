SPECIFICATION Spec
CONSTANTS
  Invoice = {i1, i2}
  None = None
  Initial = {"PARSED", "APPROVED"}
  MaxChanges = 2
SYMMETRY Symmetry
CHECK_DEADLOCK FALSE
INVARIANTS
  SelectionIsOpen
  RunningIsFollowed
  EndIsHeard

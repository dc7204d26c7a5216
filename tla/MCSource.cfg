SPECIFICATION HighlightSpec
CONSTANTS
  n1 = n1
  a1 = a1
  Nil = Nil
  Run = {r1, r2}
  Pages = 2
  Blocks = 2
  Width = 17
  Height = 11
  Unit = 1000
  Number = {n1}
  Amount = {a1}
  Typed = {n1}
  Readings <- Some
  Imaged <- Pictures
  MaxReadings = 2
SYMMETRY Symmetry
CHECK_DEADLOCK FALSE
INVARIANTS
  ImagesShowTheirPlace
  TotalIsRead

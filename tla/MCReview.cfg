SPECIFICATION Spec
CONSTANTS
  Invoice = {i1}
  Field = {amount, invoiceDate}
  Amount = amount
  InvoiceDate = invoiceDate
  Edit = {e1, e2}
  Export = {x1}
  NoExport = NoExport
  Deletion = {}
  MaxSecond = 0
SYMMETRY Symmetry
CHECK_DEADLOCK FALSE
INVARIANTS
  TypeOK
  ParsedIsComplete
PROPERTIES
  ReopenedBeforeApproval
  NoUnseenEdit

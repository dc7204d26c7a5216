SPECIFICATION Spec
CONSTANTS
  Invoice = {i1}
  Field = {amount, invoiceDate}
  Amount = amount
  InvoiceDate = invoiceDate
  Edit = {e1}
  Export = {x1, x2}
  NoExport = NoExport
  Deletion = {}
  MaxSecond = 0
SYMMETRY Symmetry
CHECK_DEADLOCK FALSE
INVARIANTS
  IssuedWasApproved
  RecordedStaysExported
  ExportedIsBacked
PROPERTIES
  ImplementsWorkflow

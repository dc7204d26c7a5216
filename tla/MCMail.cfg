SPECIFICATION Spec
CONSTANTS
  Mailbox = {inbox}
  Folder = {}
  Bucket = {}
  Doc = {1, 2}
  Name = {invoice, original}
  OriginalName = original
  Key <- AllKeys
  File <- AllFiles
  NoFile = NoFile
  Run = {r1, r2}
  Worker = {r1}
  MaxDisturbance = 2
CHECK_DEADLOCK FALSE
INVARIANTS
  NothingSkipped
PROPERTIES
  EveryFileIsStored

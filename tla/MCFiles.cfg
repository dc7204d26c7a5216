SPECIFICATION UserSpec
CONSTANTS
  Mailbox = {}
  Folder = {folder}
  Bucket = {bucket}
  Doc = {1}
  Name = {system, original}
  OriginalName = original
  Key <- AllKeys
  File <- AllFiles
  NoFile = NoFile
  Run = {r1, r2}
  Worker = {r1}
  MaxDisturbance = 1
CHECK_DEADLOCK FALSE
PROPERTIES
  
  SettledKeepsContent
  RetryIsServed

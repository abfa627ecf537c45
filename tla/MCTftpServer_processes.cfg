CONSTANTS
  Requests <- OneFile
  MaxChildren = 3
  MaxCopies <- FirstTwice
  FileLen = 2
  None = None
SPECIFICATION Spec
INVARIANTS HandlerNeverBlocks UndisturbedUpload DownloadIsTheUpload
PROPERTY AlwaysFreeAgain
CHECK_DEADLOCK FALSE

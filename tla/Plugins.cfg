SPECIFICATION FairSpec
CONSTANTS
  Library = Library
  Libraries = {Library, Copy}
  Text = Text
  maxRetryAttempts = 2
  BufferEvents = 2
  MaxEvents = 2
  None = None
INVARIANTS
  TypeOK
  NoUseAfterDestroy
  CodeMapped
  ReturnsClean
  LibraryLoaded
PROPERTIES
  FunctionReturns

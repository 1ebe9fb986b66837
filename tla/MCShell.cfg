\* Two volumes, one of which can be mounted by its number as well, two names, and
\* paths three levels deep.
CONSTANTS
  Drives = {"0", "1"}
  BootNodes <- Boot
  Args <- Typed
  MaxNodes = 3
  MaxTokens = 9
  MaxEntries = 3
SPECIFICATION Spec
INVARIANTS CurdirNamesVolume ParentReturns
PROPERTY ChangesStayInContext
CHECK_DEADLOCK FALSE

SPECIFICATION Spec
CONSTANTS
  Sessions <- MCSessions
  HeadSize = 2
  TailSize = 1
  MaxConsecutiveFailures = 1
  OutputReserve = 2
  AutoPercent = 85
  WarningPercent = 75
  Windows <- MCWindows
  MaxCalls = 2
  MaxLength <- MCMaxLength
  MaxFailures = 2
  MaxLost = 1
INVARIANT NothingResummarized

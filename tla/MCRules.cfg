CONSTANTS
  Letters <- MCLetters
  Digits <- MCDigits
  Octets <- MCOctets
  Ones <- MCOnes
  Calls <- MCCalls
  LaterCalls <- MCLaterCalls
  Strays <- MCStrays
  Requests <- MCRequests
  MaxPieces = 7
SPECIFICATION RulesSpec
\* A rule of MaxPieces pieces is not written on.
CHECK_DEADLOCK FALSE
INVARIANT
  ReadAsWritten
PROPERTIES
  ConditionsActAsWritten
  NarrowerWins

CONSTANTS
  Pieces <- MCPieces
  SppPieces <- MCSppPieces
  SppTail <- MCSppTail
  Texts <- MCTexts
  RX_LEN = 4
  TwoDigits = 3
  MaxSpp = 2
  Reserve = 2
SPECIFICATION Spec
INVARIANTS TypeOK WholeLineRuns StaleOnlyAfterOneByte ReadyFound WildNeedsBareCR

\* The engine's stack takes two values here: the third line resets the module.
CONSTANTS
  Pieces <- MCPieces
  SppPieces <- MCSppPieces
  SppTail <- MCSppTail
  Texts <- MCTexts
  RX_LEN = 4
  TwoDigits = 3
  MaxSpp = 2
  Reserve = 2
SPECIFICATION Spec
INVARIANTS LinesDoNotReset

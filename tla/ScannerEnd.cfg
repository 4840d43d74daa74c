\* A block in a block, and a last line of blanks or a comment without its newline.
SPECIFICATION Spec
CONSTANTS
  Sources <- NestedTexts
  NoValue <- MCNoValue
  Letters <- MCLetters
  Keywords <- MCKeywords
  Code <- MCCode
  Trees = {}
  EditedTrees = {}
  EditTokens <- MCEditTokens
  NoTree <- MCNoTree
  Name <- MCName
  Predeclared <- MCPredeclared
  Universal <- MCUniversal
  Unsupported <- MCUnsupported
  Dialects = {}
  Signatures <- MCSignatures
  MaxIds <- NoBounds
  MaxBinds <- NoBounds
  MaxBlocks = 4
  MaxOpen = 3
  MaxErrors = 0
INVARIANTS BlocksClosed
CHECK_DEADLOCK FALSE

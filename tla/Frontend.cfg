\* Texts of three and four lines, literals and numbers, trees of two levels, and programs
\* of three or four identifiers in four blocks.
SPECIFICATION Spec
CONSTANTS
  Sources <- MCSources
  NoValue <- MCNoValue
  Letters <- MCLetters
  Keywords <- MCKeywords
  Code <- MCCode
  Trees <- MCTrees
  EditedTrees <- MCEditedTrees
  EditTokens <- MCEditTokens
  NoTree <- MCNoTree
  Name <- MCName
  Predeclared <- MCPredeclared
  Universal <- MCUniversal
  Unsupported <- MCUnsupported
  Dialects <- MCDialects
  Signatures <- MCSignatures
  MaxIds <- MCMaxIds
  MaxBinds <- MCMaxBinds
  MaxBlocks = 4
  MaxOpen = 3
  MaxErrors = 0
INVARIANTS LayoutExact TokensExact QuoteRoundTrip ParserComplete ParserSound
           LexicalScope ClosuresExact ParamsFirst StrayNeedsNestedDef
CHECK_DEADLOCK FALSE

CONSTANTS
  Lexemes = {"2", "x", "f", "-", "*", "**", "=", ",", "(", ")", "nl"}
  Funcs = {"f"}
  Preambles <- MCPreambles
  MaxLexemes = 5
SPECIFICATION Spec
INVARIANTS ParsedAsWritten CalcAgrees HandleVarsLive
CHECK_DEADLOCK FALSE

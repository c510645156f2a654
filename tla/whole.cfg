SPECIFICATION FairSpec
CONSTANTS
  Name = {"A", "B"}
  FuncName = {"B"}
  Expr <- ReadExpr
  Rvalue <- ReadRvalue
  Port <- ReadPort
  Cond <- ReadCond
  Construct = {"ATTR", "WHILE", "IF", "FUNC", "CALL", "PRNT", "OUT", "DELAY", "error"}
  MaxStmts = 3
  MaxOpen = 2
  MaxFuncs = 2
INVARIANTS
  IInv
  ErrorsAreTheUncoveredUses
  OnlyHolesFault
PROPERTIES
  Terminates

SPECIFICATION Spec
CONSTANTS
  Name = {"A", "READ"}
  FuncName = {}
  Expr <- ExternExpr
  Rvalue <- ExternRvalue
  Port = {}
  Cond = {}
  Construct = {"ATTR"}
  MaxStmts = 2
  MaxOpen = 2
  MaxFuncs = 0
INVARIANTS
  ExternsKeepTheirName

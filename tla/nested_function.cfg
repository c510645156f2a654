SPECIFICATION Spec
CONSTANTS
  Name = {"A", "F"}
  FuncName = {"F"}
  Expr <- ShapeExpr
  Rvalue <- ShapeRvalue
  Port = {}
  Cond <- ShapeCond
  Construct = {"ATTR", "FUNC"}
  MaxStmts = 4
  MaxOpen = 2
  MaxFuncs = 2
INVARIANTS
  InsertsInCurrentFunc

SPECIFICATION Spec
CONSTANTS
  Name = {"A"}
  FuncName = {}
  Expr <- ShapeExpr
  Rvalue <- ShapeRvalue
  Port = {}
  Cond <- ShapeCond
  Construct = {"ATTR", "error"}
  MaxStmts = 2
  MaxOpen = 2
  MaxFuncs = 0
INVARIANTS
  SyntaxErrorsAreSurvived

SPECIFICATION ExecSpec
CONSTANTS
  Name = {"A", "F"}
  FuncName = {"F"}
  Expr <- ShapeExpr
  Rvalue <- ShapeRvalue
  Port = {}
  Cond <- ShapeCond
  Construct = {"ATTR", "WHILE", "IF", "FUNC", "CALL"}
  MaxStmts = 5
  MaxOpen = 3
  MaxFuncs = 1
  MaxCalls = 2
INVARIANTS
  TypeOK
  NothingAfterTerminator
  EveryBlockEnds
  InsertsInCurrentFunc
  BranchesStayInFunction
  OneVariablePerName
  TextIsKept
  ListsAreFlat
  StalePointersEndTheLoop
PROPERTIES
  RunsTheSource

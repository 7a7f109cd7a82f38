SPECIFICATION OracleSpec
CONSTANTS
  Nothing = Nothing
  Depth = 4
  True = True
  False = False
  Families = {"undeclared"}
  Schemas <- MCSchemas
  Nodes <- MCNodes
  Plain <- MCPlain
  Documents <- MCDocuments
  Values <- MCValues
INVARIANTS
  PassesNoRelaxation

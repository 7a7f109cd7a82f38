SPECIFICATION OracleSpec
CONSTANTS
  Nothing = Nothing
  Depth = 4
  True = True
  False = False
  Families = {"numbers", "records", "lists", "references", "sizes", "nested",
              "coarse", "conditions", "tuples", "patterns"}
  Schemas <- MCSchemas
  Nodes <- MCNodes
  Plain <- MCPlain
  Documents <- MCDocuments
  Values <- MCValues
INVARIANTS
  PassesNoRelaxation
  TighteningPasses

CONSTANTS
  logic = logic
  sets = sets
  graphs = graphs
  proofs = proofs
  Skills = {logic, sets, graphs, proofs}
  Blueprint <- MCBlueprint
  Weight <- MCWeight
  Label <- MCLabel
  Mocks <- MCMocks
  PassThreshold = 60
  MaxAttempts = 6
  MaxAge = 2
SPECIFICATION Spec
INVARIANTS ModelInv
CHECK_DEADLOCK FALSE

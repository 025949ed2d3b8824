CONSTANTS
  oral = oral
  ann = ann
  bob = bob
  r1 = r1
  r2 = r2
  None = None
  Sections = {oral}
  Configs <- MCConfigs
  Forms <- MCForms
  Answers <- MCAnswers
  Users = {ann}
  Requests = {r1, r2}
  MaxConfig = 3
  MaxBlueprint = 2
  MaxClones = 2
SPECIFICATION Spec
INVARIANTS TypeOK PublicationWhole ClonesCounted MockFits
PROPERTIES MadeFromCurrent
SYMMETRY CopiesSymmetry
CHECK_DEADLOCK FALSE

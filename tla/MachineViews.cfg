SPECIFICATION Spec
CONSTANTS
  Profiles <- MCProfiles
  PotCount = 2
  MacroVars <- MCMacroVars
  LifeGroups <- MCLifeGroups
  ZofsSlots <- MCZofsSlots
  Increment = 1
  Contents <- MCContents
  Changes <- MCChanges
  Layouts <- MCLayouts
  MaxEvents = 1
  Programs <- MCPrograms
  ChunkBytes = 3
  MaxBytes = 6
  MaxCalls = 4
  MaxEmptyStreak = 1
  RegisterCount = 1
  Assigned <- MCAssigned
  Records <- MCRecords
  ProbeTool <- MCProbeTool
  Presetter = {1}
  MaxExports = 1
INVARIANTS
  TypeOK ReadsAreSound 
PROPERTIES
  ExportRestores SweepsEnd
CHECK_DEADLOCK FALSE

\* `quit` ends the engine.
SPECIFICATION Spec
CONSTANTS
  a = a
  Position <- MCPosition
  Setting <- MCSetting
  None = none
  Obedient = TRUE
CHECK_DEADLOCK FALSE
INVARIANTS
  SearchesWhatWasAsked
  ResourcesOutliveSearch
  TreeIsQuiet
  AnsweredOnce
PROPERTIES
  CommandsReturn

CONSTANTS
  Name = {"k", "l"}
  Value = {"", "v", "w"}
  Unset = "unset"
  Forms <- MCForms
  Overrides <- MCOverrides
  MaxSections = 3
SPECIFICATION LocationSpec
INVARIANTS
  LoadedOnce
  OwnSessionsAreRead
  DirtyIsChanged
  InnermostWins
PROPERTY
  ImplementsSessionStore

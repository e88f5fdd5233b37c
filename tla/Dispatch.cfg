CONSTANTS
  LoadedSets <- MCLoadedSets
  HeaderLists <- MCHeaderLists
  Methods = {"GET", "POST", "PUT"}
SPECIFICATION Spec
INVARIANTS
  OneOwner
  NothingLeftBehind
  AllowIsOrderFree
  FilterOnceEach

CONSTANTS
  None = None
  Area = {"house", "shed"}
  Guest = {"concierge"}
  Look = {"evening", "night"}
  Count = 2
SPECIFICATION FairSpec
INVARIANTS TypeOK LeftAsSet
PROPERTIES StopsWhenCleared EndsQuiet

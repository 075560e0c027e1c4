CONSTANTS
  NightRate = 1
  DayRate = 10
  PeakRate = 100
  Fixed = 1000
  MaxUnits = 1
  Faults = {"missed", "crash", "lost", "slip"}
  MaxFaults = 1
SPECIFICATION Spec
INVARIANTS TypeOK AddsUp
PROPERTIES StartsAfresh ReportsTheDay GridFreeIsTrue

SPECIFICATION Spec
CONSTANTS
  Process = {p1, p2}
  Kernel = {k1}
  Headers = {h1, h2}
  Compilers = {c1, c2}
  MaxStarts = 3
  MaxUpgrades = 1
  Mixed = FALSE
INVARIANT TypeOK LoadsOwn
PROPERTY EntriesStay Settles
CHECK_DEADLOCK FALSE

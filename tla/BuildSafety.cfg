SPECIFICATION FairSpec
CONSTANTS
  main = main
  u = u
  v = v
  w = w
  pMain = pMain
  pU = pU
  pV = pV
  pW = pW
  m = m
  n = n
  here = here
  there = there
  logo = logo
  none = none
  red = red
  blue = blue
  Files = {main, u, v, w}
  Entry = main
  Paths = {pMain, pU, pV, pW}
  Stem = pMain
  None = none
  Names = {m, n}
  Trees <- Graphs
  Dirs = {here, there}
  Embeds = {logo}
  Contents = {red, blue}
  Programs <- Readings
  Sessions <- Plans
  MaxEdits = 1
INVARIANTS
  TypeOK
  DepsAcyclic
  LoadVerdict
  DependenciesFirst
  IncludesWrittenIfPlain
  OutputsApart
  EmbedsPinned
  RoundTripIfApart
PROPERTIES
  CommandsEnd
  KeepsContract
CHECK_DEADLOCK FALSE

SPECIFICATION Spec
CONSTANTS
  j1 = j1
  j2 = j2
  cola = cola
  rice = rice
  salt = salt
  None = None
  NoLevel = NoLevel
  Jobs = {j1, j2}
  Products = {cola, rice, salt}
  Plans <- MCPlans
  Opening <- MCOpening
  Levels = {NoLevel, 1}
  OpeningLevels <- MCOpeningLevels
  MaxEdits = 1
  MaxFaults = 1
INVARIANTS LedgerChained EpisodesAlternate 

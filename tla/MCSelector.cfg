SPECIFICATION FairSpec
CONSTANTS
  SLOTS = 4
  ROW = 2
  Names <- MCNames
  Directories <- MCDirectories
  MaxPage = 3
INVARIANTS ChosenIsOnScreen CursorsMarkTheIndex
PROPERTIES ScrollWalksTheList NoPageIsMissing LeftLeadsHome

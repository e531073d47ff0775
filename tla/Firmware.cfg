SPECIFICATION FairSpec
CONSTANTS
  Forms <- MCForms
  Networks <- MCNetworks
  Bridges <- MCBridges
  StateLists = {"alert"}
  DetailLists = {"trend"}
  Screens <- MCScreens
  MaxItems = 2
  Blank = "blank"
  None = "none"
INVARIANTS
  TypeOK
  SelectionExists
  EnteredWhole
PROPERTIES
  ShowsAgain

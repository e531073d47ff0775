SPECIFICATION Spec
CONSTANTS
  Forms <- MCForms
  Networks <- MCNetworks
  Bridges <- MCBridges
  StateLists = {"alert"}
  DetailLists = {"trend"}
  Screens <- MCScreens
  MaxItems = 2
  Blank = "blank"
  None = "none"
INVARIANT AllClearIsTold

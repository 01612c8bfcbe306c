SPECIFICATION Spec
CONSTANTS
  ScreenWidth = 4
  ScreenHeight = 3
  MainWidth = 1
  MainHeight = 1
  MainX = 0
  MainY = 1
  MouseX = 0
  MouseY = 1
  MaxDisplacement = 1
INVARIANTS ScreenShowsLayers

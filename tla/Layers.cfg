SPECIFICATION Spec
CONSTANTS
  ScreenWidth = 5
  ScreenHeight = 2
  MainWidth = 2
  MainHeight = 2
  MainX = 1
  MainY = 0
  MouseX = 2
  MouseY = 1
  MaxDisplacement = 1
INVARIANTS ScreenShowsLayers DragHoldsWindow
PROPERTIES WindowsMoveWithMouse

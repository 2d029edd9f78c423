SPECIFICATION Spec
CHECK_DEADLOCK FALSE
CONSTANTS
  a = a
  b = b
  c = c
  red = red
  green = green
  blue = blue
  black = black
  Hue = {red, green, blue, black}
  Palette <- MCPalette
  Undefined = Undefined
  Name = {a, b, c}
  PadLeft = 2
  PadRight = 2
  Units <- MCUnits
  TimeInterval = 144
  MaxDataPoints = 4
  GraphWidth = 6
  PointerX = {0, 4, 6}
  Grain = 12
  PreviewWidths <- MCPreviewWidths
  MinimumFrameWidth = 0
  Distances <- MCDistances
  Kits <- MCKits
  Documents <- MCStatic
  Replies <- MCReplies
  Recolorings <- MCRecolorings
  MaxIndex = 6
  Scales = {1, 2, 3}
INVARIANTS
  TypeOK
  SeriesFitTogether
  DrawnIsCurrent
  LegendShowsDisabled
  HighlightLeavesNoTrace
  DetailIsNearest
  ControlsFit
  TicksInOrder
PROPERTIES
  NewestStaysVisible
  RigidDragKeepsWidth

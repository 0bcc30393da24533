SPECIFICATION FeatureSpec

CONSTANTS
  Windows <- ShippedWindows
  MomentumWindows = {3, 5, 15}
  Optional = {"use_funding", "use_breadth"}
  Sources = {}
  Floor = 700
  Margin = 10

INVARIANTS
  FirstDecisionHasWindow

SPECIFICATION Spec
CONSTANTS
  NLevels = 2
  MaxEdges = 3
  EdgeModes = {TRUE}
  AutoEois = {TRUE, FALSE}
INVARIANT IntNeverStale
INVARIANT NoFloatingVector
INVARIANT InServiceMatchesHandlers
PROPERTY EveryEdgeServed

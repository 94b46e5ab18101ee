\* Texts of up to five characters (of eight): two arrows can meet, or a token
\* have a blank inside it.
\* CHECK_DEADLOCK FALSE: SplitRoutePoints returns.
SPECIFICATION FairSpec
CONSTANTS
  Letters = {"a", "b"}
  Blanks = {" "}
  MaxLength = 5
INVARIANTS TwoPoints PointsAreStretches
PROPERTY SplitReturns
CHECK_DEADLOCK FALSE

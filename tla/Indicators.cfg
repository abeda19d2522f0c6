CONSTANTS
  Device = {d1, d2}
  MaxRefreshes = 2
  MaxOffers = 2
SPECIFICATION Spec
INVARIANTS IndicatorsAreHonest
PROPERTIES PendingOutlastsViews
CHECK_DEADLOCK FALSE

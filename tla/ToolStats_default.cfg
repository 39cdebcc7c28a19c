SPECIFICATION Spec
CONSTANTS
  None = None
  MaxRows = 4
  MaxTime = 3
  Minute = 2
  Window = 2
  Limits = {1, 2}
  LastDay = 3
  Defaults = {None, 1}
  MaxEdits = 1
  ToolDay = 4
  Granularities = {1, 2}
  MaxShown = 2
  DefaultDays = 2
  ContextDays = 2
  Lookback = 2
  IndicatorDays = 3
  RangeDays = 2
  Spans = {1, 2}
  RsiPeriod = 1
INVARIANT DefaultCountsFromToday
CHECK_DEADLOCK FALSE

CONSTANTS
  tab1 = tab1
  tab2 = tab2
  tab3 = tab3
  None = None
  Tabs = {tab1, tab2, tab3}
  Viewers = {tab3}
  Slots = {1, 2}
  Scenarios <- AllScenarios
  Filters = {0, 1}
  ListPages = 2
  Inquiries = {1}
  Months = {1, 2}
  ThisMonth = 1
  Visits = {1, 2, 3}
  StartOf <- MCStartOf
  MonthsOf <- MCMonthsOf
  Limit = 1
  MaxFetches = 3
SPECIFICATION PageSpec
INVARIANTS PageTypeOK ActiveMeansCurrent EachSignOutEndsOne LateRequestsGetNothing ShownIsAsked LoadingIsAwaited CalendarIsComplete ListFitsFilters
CHECK_DEADLOCK FALSE

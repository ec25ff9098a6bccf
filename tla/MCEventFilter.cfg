CONSTANTS
  Traces <- MCTraces
  Pids = {0, 1, 2}
  CPUs = {0, 1}
  Types = {"wakeup", "switch"}
  Times = {0, 1, 2, 3}
  Intervals <- MCIntervals
  Regexes = {"good", "bad"}
  BadRegexes = {"bad"}
  NoTarget = none
  NoRegex = noregex
  MaxEnabled = 3
SPECIFICATION Spec
INVARIANTS
  ViewMatchesFilter
PROPERTIES
  StaleOnlyAfterWarning
  FiltersAddUp

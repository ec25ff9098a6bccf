SPECIFICATION Spec
CONSTANTS
  top = 0
  dec = 1
  Tasks = {1, 2, 3, 6}
  NoTask = NoTask
  AliasOf <- MCAliasOf
  CPUsOf <- MCCPUsOf
  MaxGraphs = 3
PROPERTY
  TaskSelectionRestored

CONSTANTS
    Tasks = {1, 2}
    Idle = 0
    OpenedTraces <- MCTraces
    UserTimes <- MCTimes
    Inexact = {4}
    Name <- MCName
SPECIFICATION CursorSpec
INVARIANTS
    StatsFollowCursors
PROPERTIES
    SearchesFindNeighbours

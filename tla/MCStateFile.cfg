SPECIFICATION StateSpec
CONSTANTS
  Traces = {"run.txt", "run.dat", "old.txt"}
  Files = {"run.tssetting", "old.tssetting"}
  FileOf <- MCFileOf
  Pids = {1, 2, 3}
  Known <- MCKnown
  Ran <- MCRan
  Colors = {"red", "blue"}
  Random = "random"
  NoColor = "none"
  NoTrace = "closed"
  NoFile = "nofile"
INVARIANTS DrawnInUserColor ColorsComeBack

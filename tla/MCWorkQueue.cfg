\* Four items for three threads: fewer, as many and more items than threads
\* occur.  The state space is finite without bounds.
CONSTANTS
  Jobs = {scaleTask, scaleDelay, statsTask, scaleFreq}
  NrThreads = 3
  NoJob = NoJob
SPECIFICATION Spec
INVARIANT ItemsOutliveTheirUse
PROPERTY ImplementsBatch

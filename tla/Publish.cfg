SPECIFICATION FairSpec
CONSTANTS
  Viewer = {v1, v2}
  Stuck = {v2}
  WireCapacity = 2
  MaxSeq = 3
PROPERTIES NeverBack Converges SinkConverges

SPECIFICATION FairSpec
CONSTANTS
  Nodes <- MCNodes
  Writers = {"n1","n2"}
  Scripts <- MCScripts
  MaxTx = 1
  MaxFaults = 1
  MaxRetries = 1
INVARIANT DependencyOrder
INVARIANT Rolling
INVARIANT AddedWhole
INVARIANT NoReplay
PROPERTY SuccessMeansDesired
PROPERTY Settles
CHECK_DEADLOCK FALSE

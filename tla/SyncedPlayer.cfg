SPECIFICATION Spec
CONSTANTS
  Dead = 1
  SeekAbove = 3
  Lead = 1
  Horizon = 1
  MaxDev = 1
  Step = 1
  Far = 4
  MaxLag = 1
  MaxQueue = 1
  Changes = 2
  MaxHangs = 1
PROPERTIES
  BusyEnds
  Follows

SPECIFICATION Spec
CONSTANTS
  app = app
  aws = aws
  key = key
  v = v
  none = none
  Tasks <- TwoTasks
  Keys <- OneKey
  Values <- OneValue
  Absent <- none
  MaxOpens = 3
INVARIANTS TypeOK AloneWorks
PROPERTIES Promised

SPECIFICATION FairSpec
CONSTANTS
  a = a
  b = b
  Clients <- MCClients
  NoClient = nobody
  Garbage = garbage
  Lengths <- MCLengths
  BufSize = 2
  MaxStarts = 2
  Backlog = 2
  FdLimit = 4
INVARIANTS TypeOK RequestsOwn RequestsWhole AnswersOwn OneCallback
PROPERTY TurnComes
CHECK_DEADLOCK FALSE

SPECIFICATION FairSpec
CONSTANTS
  Clients = {c1, c2}
  Socks = {s1, s2, s3}
  None = None
  Backlog = 1
  Pieces = 2
  Refuse = TRUE
  MayDie = TRUE
  MayCrash = TRUE
INVARIANTS TypeOK AnswerMeansDone ErrorMeansNotDone
PROPERTIES ThreadEnds OnlyEofHangs
CHECK_DEADLOCK FALSE

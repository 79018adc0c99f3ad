CONSTANTS
  Questions = {q1, q2}
  NoQuestion = NoQuestion
  LectureOf <- QuestionLectures
  q1 = q1
  MaxSends = 2
  MaxLectures = 2
  MaxJobs = 2
  MaxEvents = 1
SPECIFICATION FairSpec
INVARIANTS OneOpen OpenIsAnswerable ShowingIsDisplayed
PROPERTIES SendSettles EndClosesAll
CHECK_DEADLOCK FALSE

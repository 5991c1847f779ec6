SPECIFICATION FairSpec
CONSTANTS
  basic = basic
  advanced = advanced
  l1 = l1
  l3 = l3
  quiz1 = quiz1
  exam1 = exam1
  task1 = task1
  None = None
  Worker = {w1, w2}
  Course = {basic, advanced}
  Lesson = {l1, l3}
  Quiz = {quiz1, exam1}
  Exam = {exam1}
  Assignment = {task1}
  Certified = {basic, exam1}
  CourseOf <- CourseOfWork
  Requires <- RequiresAll
  Prerequisites <- AdvancedLast
  MaxAttempts <- OneAttempt
  MaxSlip = 1
INVARIANTS CompletedIsEarned CertificatesHold PrerequisitesFirst AttemptsWithinLimit
PROPERTIES RequestsFinish

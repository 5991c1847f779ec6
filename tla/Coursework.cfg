SPECIFICATION CourseworkSpec
CONSTANTS
  Handler = {w1, w2}
  Student = {s1, s2, s3}
  Nil = Nil
  idea = idea
  style = style
  Rubric <- TwoPoints
  ReviewCount = 1
  MaxScore = 1
  MaxHandIn = 3
  MaxGrade = 1
  MaxFault = 1
  MaxReview = 2
INVARIANTS ReviewersAreRight PeerScoreIsSound
PROPERTIES GradeStands
SYMMETRY Interchangeable

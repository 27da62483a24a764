SPECIFICATION Spec
CONSTANT
  MaxStory = 6
CHECK_DEADLOCK FALSE
INVARIANTS
  StorySurvives
  LatestCallAnswered
  OneSystemInFront

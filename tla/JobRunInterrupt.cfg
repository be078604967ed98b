SPECIFICATION Spec
CONSTANTS
  t1 = t1
  t2 = t2
  g1 = g1
  g2 = g2
  a = a
  b = b
  Tasks = {t1, t2}
  Refiner = t2
  Graphs = {g1, g2}
  Formulations = {a, b}
  PhaseOf <- MCPhaseOf
  MaxRunning = 1
  MaxItems = 1
  MaxSteps = 2
  MaxAnswers = 2
INVARIANT
  AnswerResumes
CHECK_DEADLOCK FALSE

SPECIFICATION Spec
CONSTANTS
  s1 = s1
  s2 = s2
  w1 = w1
  w2 = w2
  Speakers <- TwoSpeakers
  Workers <- TwoWorkers
  Answers <- ThreeAnswers
  MaxConvs = 4
  Single <- SomeSingle
  MaxRows = 2
  MaxCopies = 1
  Fits <- OneOrAll
  Plans <- FourPlans
INVARIANTS
  TypeOK
  RunningIsWorked
  SummaryCurrent
  ChainInOrder
  NamesShown
  IndexFits
SYMMETRY WorkerSymmetry
CHECK_DEADLOCK FALSE

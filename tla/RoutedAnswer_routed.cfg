SPECIFICATION Spec
CONSTANTS
  Chunks = {1, 2}
  Scores = {0, 1}
  Threshold = 1
  TopKs = {1, 2}
INVARIANTS
  EveryQuestionIsRouted

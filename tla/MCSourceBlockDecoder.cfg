SPECIFICATION DecoderSpec
CONSTANTS
  K = 3
  KPrime = 4
  S = 1
  H = 1
  MaxRepair = 4
  MaxLost = 0
  Symbols = {0, 1}
  Zero = 0
  Intermediates <- ToyIntermediates
  Eval <- ToyEval
  None = None
INVARIANTS
  RecordsAgree
  ResultIsBlock
  AnswersWhenRecoverable
PROPERTIES
  NeverForgets
  ImplementsDelivery

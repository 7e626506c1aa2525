SPECIFICATION FairSpec
CONSTANT MaxAttempts = 1
PROPERTY CloseReturns

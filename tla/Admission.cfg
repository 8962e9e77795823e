CONSTANTS
  p1 = p1
  p2 = p2
  c1 = c1
  Client = {p1, p2, c1}
  Prompt = {p1, p2}
  Behind <- Flights
  Pieces = 2
  Descriptors = 2
SPECIFICATION FairSpec
INVARIANT TypeOK
INVARIANT PromptNotRefused
PROPERTY PromptHandedOver
PROPERTY OnlySilentStay
CHECK_DEADLOCK FALSE

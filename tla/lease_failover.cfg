SPECIFICATION FairSpec
CONSTANTS
  Regions = {east, west}
  Renewers = {}
  Former = north
  Duration = 2
  RenewLead = 1
  MaxAttempts = 2
  MaxVersion = 3
CHECK_DEADLOCK FALSE
PROPERTY DeadHolderReplaced

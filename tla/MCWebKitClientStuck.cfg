CONSTANTS
  Users = {u}
  Loops = {l1}
  Targets = {t1}
  Domains = {}
  MaxSockets = 3
  MaxAttempts = 2
  Retries = 0
  Threshold = 1
  None = None
SPECIFICATION FairSpec
PROPERTIES ReconnectEnds

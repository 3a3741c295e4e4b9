CONSTANTS
  Users = {u}
  Loops = {l1, l2}
  Targets = {t1}
  Domains = {d1}
  MaxSockets = 2
  MaxAttempts = 2
  Retries = 0
  Threshold = 2
  None = None
SPECIFICATION FairSpec
INVARIANTS OneLoop NobodyWaitsInVain WatchedWhileConnected
PROPERTIES LossIsNoticed LoopsEnd
CONSTRAINT CallersWait

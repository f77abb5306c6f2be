SPECIFICATION Spec
CONSTANTS
  Clients = {c1, c2}
  Keys = {k1}
  Limit = 2
  MaxStarts = 3
  MaxWrites = 1
INVARIANTS OnlyLatestActive SamplerMatchesSession
PROPERTY StoppedSessionsFrozen

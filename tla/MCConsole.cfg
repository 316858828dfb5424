CONSTANTS a1 = a1 a2 = a2 c1 = c1 c2 = c2 u1 = u1 u2 = u2
CONSTANTS Admins = {a1, a2} Roots = {"r1", "r2"} Day = 2 WarnDays = 1 MaxClock = 8
CONSTANTS NoLicense = none Torn = torn
CONSTANTS Envelopes <- MCEnvelopes
CONSTANTS Clients = {c1, c2} Users = {u1} MaxSessions = 2 NULL = null
SPECIFICATION MCSpec
SYMMETRY Symmetry
INVARIANTS MemoryIsWhatBootLoads KillSwitchFollowsTheDates
  VerdictsAreDue

CONSTANTS r1 = r1 r2 = r2 d1 = d1 d2 = d2 c1 = c1 c2 = c2
CONSTANTS Requests = {r1, r2} Folders = {d1, d2} Texts = {blank, c1, c2} Blank = blank
CONSTANTS MaxFiles = 2 MaxServed = 4 MaxSuffix = 2 Keep = keep NULL = null
CONSTANTS q1 = q1 q2 = q2 q3 = q3 q4 = q4 b1 = b1 b2 = b2
CONSTANTS Queries = {q1, q2, q3, q4} Buckets = {b1, b2} STUDIO_HISTORY_CAP = 2
CONSTANTS MaxLength = 5 Runs = {q1} MaxStatements = 3 POLLS = 3
SPECIFICATION MCSpec
SYMMETRY Symmetry
INVARIANTS KeepsTheNewest SplitsAsMeant
INVARIANTS StatementsRunInOrder ResultsAreWhole
PROPERTIES ImplementsHistory

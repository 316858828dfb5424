\* The store: two keys, two specs, two concurrent requests, five committed
\* writes.  The log: five events, with crashes and abandoned appends at every
\* await.  The vault: two requests at a time, an admin password and another
\* secret, process crashes, and power losses before the key files are written
\* back.  The registry: two cards, two requests at a time, four in all.
CONSTANTS k1 = k1 k2 = k2 s1 = s1 s2 = s2 c1 = c1 c2 = c2
CONSTANTS Keys = {k1, k2} Specs = {s1, s2} Statuses = {up} Requests = {c1, c2}
CONSTANTS Null = Null MaxCommits = 5
CONSTANTS MaxEvents = 5
CONSTANTS Names = {admin, kanidm} Applied = {admin, kanidm} Wired = {admin} Handlers = {c1, c2}
CONSTANTS NoValue = NoValue MaxSecrets = 3 MaxKeys = 3
CONSTANTS Ids = {k1, k2} Clients = {c1, c2} NoId = NoId MaxAsked = 4
SPECIFICATION MCSpec
SYMMETRY Symmetry
INVARIANTS RevisionIdentifiesSpec AnswersHold
INVARIANTS NoSilentLoss UnhurtLogVerifies AcceptedEditsOnlyTruncate
INVARIANTS AcknowledgedSecretsReadable SecretsAreRightOrUnreadable RotatedSecretIsLive
PROPERTIES NoLostUpdate ImplementsTable

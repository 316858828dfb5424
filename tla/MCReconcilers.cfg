CONSTANTS Order <- Detecting MaxChanges = 2 MaxFaults = 1 None = None
CONSTANTS Names = {"a", "a long", "b", "my db", "postgres"} Stored <- Cut
CONSTANTS System = {"postgres"} Unquotable = {"my db"}
CONSTANTS MaxSpecs = 1 MaxOthers = 1 MaxErrors = 1
SPECIFICATION MCSpec
INVARIANTS OnlySeenExtrasAreDropped DropsComeLast AuditTellsWhatHappened
PROPERTIES TruthIsShown PassesBringAbout
CHECK_DEADLOCK FALSE

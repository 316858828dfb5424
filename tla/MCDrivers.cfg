CONSTANTS Versions = {v1, v2} v1 = v1 v2 = v2 Workers = {w1} Retention = 2 None = None w1 = w1
CONSTANTS MaxFaults = 2
CONSTANTS Products = {"grafana", "greptime", "openfga", "restate", "qdrant", "databend", "lakekeeper", "trino", "sail", "xtable",
  "kanidm", "garage", "postgres", "macKanidm", "macPostgres", "windowsPostgres"}
CONSTANTS Daemons = {"postgres", "garage", "openfga", "lakekeeper", "restate"}
CONSTANTS Chosen = {3902} Names = {"default", "other"} DefaultName = "default"
SPECIFICATION MCSpec
SYMMETRY Symmetry
INVARIANTS SealedTreesAreWhole CurrentIsProbed InstalledIsRunning
  LeftoversAreHarmless CleanUninstallIsGone DatabaseKeepsItsKey RowsReachTheirDaemons

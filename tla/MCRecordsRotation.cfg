\* A rotation that fails in the vault: one request at a time, one password.
CONSTANTS Names = {admin} Applied = {admin} Wired = {admin} Handlers = {c1}
CONSTANTS NoValue = NoValue MaxSecrets = 2 MaxKeys = 2
SPECIFICATION VaultSpec
PROPERTY FailedRotationAgrees

------------------------------ MODULE MCRecords ------------------------------
\* What the server persists: the metadata store, the audit log, the secrets
\* vault and the model cards live in different files; a behaviour exercises one of them.
EXTENDS StateStore, AuditLog, SecretVault, ModelCards, TLC
CONSTANTS k1, k2, s1, s2, c1, c2
VARIABLE part

all == <<vars, logVars, vaultVars, registryVars, part>>

MCInit ==
  /\ Init /\ LogInit /\ VaultInit /\ RegistryInit
  /\ part \in {"store", "log", "vault", "cards"}

\* The server refuses the log, or the last event has been numbered.
LogRests ==
  /\ \/ server = "refused"
     \/ numbered = MaxEvents
  /\ UNCHANGED logVars

MCNext ==
  \/ part = "store" /\ Next /\ UNCHANGED <<part, logVars, vaultVars, registryVars>>
  \/ part = "log" /\ (LogNext \/ LogRests) /\ UNCHANGED <<part, vars, vaultVars, registryVars>>
  \/ part = "vault" /\ VaultNext /\ UNCHANGED <<part, vars, logVars, registryVars>>
  \/ part = "cards" /\ RegistryNext /\ UNCHANGED <<part, vars, logVars, vaultVars>>
MCSpec == MCInit /\ [][MCNext]_all

Symmetry == Permutations({k1, k2}) \cup Permutations({s1, s2}) \cup Permutations({c1, c2})
=============================================================================

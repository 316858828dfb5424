----------------------------- MODULE MCConsole -----------------------------
\* The licence and the pipeline that asks it for a verdict; a behaviour
\* exercises one of them.
EXTENDS License, RequestPipeline, TLC
CONSTANTS a1, a2, c1, c2, u1, u2
VARIABLE part

Envelope(chain, anchor, signed, pqS, pqK, from, until) ==
  [chain |-> chain, anchor |-> anchor, signed |-> signed,
   pqSignature |-> pqS, pqKey |-> pqK, notBefore |-> from, notAfter |-> until]

MCEnvelopes == {
  Envelope(2, "r1", TRUE, "none", "none", 0, 5),
  Envelope(2, "r1", TRUE, "base64", "base64", 2, 7),
  Envelope(3, "r2", TRUE, "none", "none", 1, 4),
  Envelope(1, "r1", TRUE, "none", "none", 0, 7),
  Envelope(2, "r1", FALSE, "none", "none", 0, 7),
  Envelope(2, "r1", TRUE, "base64", "none", 0, 7)}

MCInit ==
  /\ LicenseInit /\ PipelineInit /\ part \in {"license", "pipeline"}
  /\ part = "license" => writable /\ \A u \in Users : role[u] = "admins"
  /\ part = "pipeline" => root = "r1"
MCNext ==
  \/ part = "license" /\ LicenseNext /\ UNCHANGED <<part, pipelineVars>>
  \/ part = "pipeline" /\ PipelineNext /\ UNCHANGED <<part, licenseVars>>
MCSpec == MCInit /\ [][MCNext]_<<licenseVars, pipelineVars, part>>

Symmetry == Permutations({a1, a2}) \cup Permutations({c1, c2})
=============================================================================

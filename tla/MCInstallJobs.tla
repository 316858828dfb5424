---------------------------- MODULE MCInstallJobs ----------------------------
(* Instances of InstallJobs for TLC: postgres, which has a credential, and *)
(* lakekeeper, which has a bootstrap hook and shows credentials, or        *)
(* databend, whose removal hides warnings.                                 *)
EXTENDS InstallJobs, TLC

MCOrder == <<"postgres", "lakekeeper">>
MCHidden == <<"postgres", "databend">>
MCCredentialed == {"postgres"}
MCBootstrapped == {"lakekeeper"}
MCSilent == {"databend"}
MCMovable == {"postgres"}

Symmetry == Permutations(Jobs)
=============================================================================

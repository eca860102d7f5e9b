------------------------- MODULE MCReleaseDeployment -------------------------
(* Small instances of ReleaseDeployment; the constants are in the cfg.      *)
EXTENDS ReleaseDeployment
=============================================================================

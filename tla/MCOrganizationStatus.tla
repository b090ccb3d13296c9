------------------------ MODULE MCOrganizationStatus ------------------------
(* OrganizationStatus for TLC.  No symmetry: the run checks liveness too.   *)
EXTENDS OrganizationStatus
=============================================================================

------------------------- MODULE MigrationRequests --------------------------
(* What requests name, shared by the modules of direct mode and the        *)
(* scheduler (internal/payload/payload.go, MigrationRequest).              *)

CONSTANTS
  Repositories,
  Organisations,    \* target organisations, standing for a request's options
  NoOrganisation    \* the empty target organisation

ASSUME OrganisationAssumption == NoOrganisation \notin Organisations
=============================================================================

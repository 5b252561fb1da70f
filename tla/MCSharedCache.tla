---------------------------- MODULE MCSharedCache ----------------------------
(* A cache in front of the small catalogue of MCCatalogApi. *)
EXTENDS MCCatalogApi, SharedCache

CONSTANTS www, local, blank

MCOrigin  == {www, local}
MCDefault == {www}

(* CORS_ALLOWED_ORIGINS="www, ,local" *)
MCFromEnv == <<www, blank, local>>
=============================================================================

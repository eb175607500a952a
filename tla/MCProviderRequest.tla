--------------------------- MODULE MCProviderRequest --------------------------
(* The instance of ProviderRequest for TLC; see the .cfg file.                *)
EXTENDS ProviderRequest
=============================================================================

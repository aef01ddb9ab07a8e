----------------------------- MODULE MCHubToken -----------------------------
EXTENDS HubToken
=============================================================================

---------------------------- MODULE MCRefinement ----------------------------
EXTENDS RegistryRefinement, MCRegistry
=============================================================================

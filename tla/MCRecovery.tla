----------------------------- MODULE MCRecovery -----------------------------
EXTENDS RegistryRecovery, MCRegistry
=============================================================================

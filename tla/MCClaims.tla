------------------------------ MODULE MCClaims ------------------------------
EXTENDS RegistryClaims, MCRegistry
=============================================================================

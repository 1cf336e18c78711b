-------------------------- MODULE MCSwitchDriver --------------------------
EXTENDS SwitchDriver
=============================================================================

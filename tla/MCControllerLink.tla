-------------------------- MODULE MCControllerLink --------------------------
EXTENDS ControllerLink
=============================================================================

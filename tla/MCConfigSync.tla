---------------------------- MODULE MCConfigSync ----------------------------
\* Instances of ConfigSync for TLC.
EXTENDS ConfigSync

CONSTANT n1
=============================================================================

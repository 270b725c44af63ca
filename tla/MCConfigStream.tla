--------------------------- MODULE MCConfigStream ---------------------------
\* Instances of ConfigStream for TLC.
EXTENDS ConfigStream

CONSTANT n1
=============================================================================

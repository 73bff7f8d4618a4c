--------------------------- MODULE MCDynamicDemo ----------------------------
\* An instance of DynamicDemo: a small batch.
EXTENDS DynamicDemo
=============================================================================

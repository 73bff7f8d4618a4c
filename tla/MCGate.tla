------------------------------- MODULE MCGate -------------------------------
\* An instance of Gate: two workers, the poller and main.
EXTENDS Gate
=============================================================================

----------------------------- MODULE MCProcess ------------------------------
\* Instances of Process: the script's request and others.
EXTENDS Process
=============================================================================

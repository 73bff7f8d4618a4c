---------------------------- MODULE MCDispatcher ----------------------------
\* An instance of Dispatcher: two clients share a gate with one place.
EXTENDS Dispatcher
=============================================================================

---------------------------- MODULE MCSyncClient ----------------------------
\* An instance of SyncClient: two callers of one gateway.
EXTENDS SyncClient
=============================================================================

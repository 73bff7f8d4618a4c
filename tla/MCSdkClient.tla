---------------------------- MODULE MCSdkClient -----------------------------
\* Instances of SdkClient: calls beside one another, and refreshes.
EXTENDS SdkClient
=============================================================================

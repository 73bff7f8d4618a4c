----------------------------- MODULE MCRelease ------------------------------
\* An instance of Release: the registries may hold anything at first.
EXTENDS Release

\* The first version ever, or one that was published by hand in part.
Anything == SUBSET Packages
=============================================================================

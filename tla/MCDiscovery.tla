---------------------------- MODULE MCDiscovery -----------------------------
\* An instance of Discovery: every small manifest, valid or not, started once
\* or twice, and a few services that take its place.
EXTENDS Discovery

CONSTANTS look, buy, far, healthz, t1, t2, owner, shop, catalog, support

Operation(name, path, schema) == [name |-> name, path |-> path, input_schema |-> schema]
Credential(class, names, max) ==
    [principal_id |-> owner, client_class |-> class, operations |-> names,
     max_outstanding |-> max]

SomeOperations ==
    {Operation(name, path, "plain") :
        name \in {look, buy, Odd}, path \in {look, buy, healthz}}
            \union {Operation(look, far, "external"), Operation(look, far, NoText)}

SomeCredentials ==
    {Credential(class, names, max) :
        class \in Classes, names \in SUBSET {look, buy}, max \in {1, 1001}}
        \union {[principal_id |-> Empty, client_class |-> "agent",
                 operations |-> {look}, max_outstanding |-> 1]}

SmallManifests ==
    [format_version : {1}, service_id : {shop},
     operations : {<<>>} \union {<<x>> : x \in SomeOperations}
                         \union {<<x, y>> : x, y \in SomeOperations},
     credentials : [{t1, t2} -> SomeCredentials]]

OneCredential == [t \in {t1, t2} |-> Credential("agent", {look}, 1)]

OddManifests ==
    [format_version : {1, 2}, service_id : {shop, Odd},
     operations : {<<Operation(look, look, "plain")>>}, credentials : {OneCredential}]

AllManifests == SmallManifests \union OddManifests

\* An operation's name may be another operation's path; one service_id is one
\* set of routes.
Replacements ==
    {[format_version |-> 1, service_id |-> s[1], operations |-> s[2],
      credentials |-> [t \in {t1, t2} |->
            Credential("agent", IF t = t1 THEN {look, buy} ELSE {look}, s[3])]] :
        s \in {<<catalog, <<Operation(look, far, "plain"), Operation(buy, buy, "plain")>>, 1>>,
               <<support, <<Operation(look, look, "plain"), Operation(buy, far, "plain")>>, 1>>,
               <<support, <<Operation(look, look, "plain"), Operation(buy, far, "plain")>>, 2>>}}

EveryManifest == AllManifests \union Replacements

BothTokens == <<t1, t2>>
=============================================================================

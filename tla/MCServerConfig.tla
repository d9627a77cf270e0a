--------------------------- MODULE MCServerConfig ---------------------------
EXTENDS ServerConfig
CONSTANTS h1, at1, ed1, ed2, v1, a, b, m

\* One editor points the first pool at the second, the other the second at
\* the first.
MCEdit == [t \in Editors |-> IF t = ed1 THEN [name |-> a, members |-> {b}] ELSE [name |-> b, members |-> {a}]]
MCResources == [n \in Names |-> {m}]
=============================================================================

---------------------------- MODULE MCMetroMaps ----------------------------
\* Small instances of MetroMaps.
EXTENDS MetroMaps

CONSTANTS ann, bob

MCClients == {ann, bob}

\* A page, a page that is not there, another method, and nonsense.
MCAsks == [c \in MCClients |-> IF c = ann THEN {"/main", "broken"} ELSE {"/other", "post"}]

\* No thread, one thread and two threads.
MCCoreCounts == {1, 2, 4}
=============================================================================

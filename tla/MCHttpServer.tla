---------------------------- MODULE MCHttpServer ----------------------------
(***************************************************************************)
(* Small instances of HttpServer.  The listening socket has neither the      *)
(* lowest nor the highest number, so that accepted sockets fall on both sides *)
(* of it in the scan.                                                        *)
(***************************************************************************)
EXTENDS HttpServer

CONSTANTS c1, c2, w1, w2, path, stub, none

Text(m, p, b) == [method |-> m, path |-> p, body |-> b]

\* A whole GET, and one that is cut inside its path and after it.
Get == <<Text("GET", path, none)>>
CutGet == <<Text("GET", stub, none), Text("GET", path, none), Text("GET", path, none)>>
\* A POST that is cut inside its method and before its body; the pairs of its
\* body read like the path.
CutPost == <<Text("other", none, none), Text("POST", path, none), Text("POST", path, path)>>
Delete == <<Text("other", path, none)>>

MCAsks == [c \in {c1, c2} |-> IF c = c1 THEN {Get, CutPost} ELSE {CutGet, Delete}]
=============================================================================

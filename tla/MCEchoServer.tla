---------------------------- MODULE MCEchoServer ----------------------------
\* A small instance of EchoServer: a buffer of two bytes; one client whose
\* message is longer and may be cut inside a character, one that says one byte.
EXTENDS EchoServer

CONSTANTS ann, bob, lead, cont, x

MCClients == {ann, bob}
MCMessages == [c \in MCClients |-> IF c = ann THEN {<<x, lead, cont>>, <<lead, cont, x>>}
                                              ELSE {<<x>>, <<cont>>}]
=============================================================================

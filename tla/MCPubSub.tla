------------------------------- MODULE MCPubSub -------------------------------
EXTENDS PubSub, TLC

CONSTANTS t1, s1, s2, m1, m2, m3

\* One channel; m3 has a type that nobody asks for.
OneChannel  == [x \in {s1, s2, m1, m2, m3} |-> 1]
MixedTypes  == [x \in {s1, s2, m1, m2, m3} |-> IF x = m3 THEN "image" ELSE "array"]
=============================================================================

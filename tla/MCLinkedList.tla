--------------------------- MODULE MCLinkedList ---------------------------
\* Instance of LinkedList for TLC: up to four nodes.
EXTENDS LinkedList, TLC

CONSTANTS n1, n2, n3, n4, v1, v2
=============================================================================

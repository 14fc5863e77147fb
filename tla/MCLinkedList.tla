---------------------------- MODULE MCLinkedList ----------------------------
(* Model-checking instance of the list.                                    *)
EXTENDS LinkedList

T == INSTANCE TLC

Symmetry == T!Permutations(Thread) \cup T!Permutations(Node)
=============================================================================

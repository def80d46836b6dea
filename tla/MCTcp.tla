-------------------------------- MODULE MCTcp -------------------------------
\* A chain as in chain_remote: a node with the battery, one that has it as a remote
\* battery, a program at the end of the chain and one that calls the first node.
EXTENDS TcpService

CONSTANTS n1, n2, c1, c2

Chain == (n1 :> Local) @@ (n2 :> n1)
Ends == (c1 :> n2) @@ (c2 :> n1)
Lazy == (n1 :> 2) @@ (n2 :> 1)
=============================================================================

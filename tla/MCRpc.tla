------------------------------- MODULE MCRpc -------------------------------
EXTENDS Rpc, TLC

CONSTANTS r1, s1, s2

\* Servers are interchangeable: no property tells them apart.
ServersAlike == Permutations(Servers)
=============================================================================

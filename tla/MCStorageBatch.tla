---------------------------- MODULE MCStorageBatch ----------------------------
EXTENDS StorageBatch, TLC

CONSTANTS c1, c2, k1, v1

MCClients == {c1, c2}

ClientSym == Permutations(MCClients)

=============================================================================

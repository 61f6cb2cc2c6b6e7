-------------------------- MODULE MCInMemoryVault --------------------------
EXTENDS InMemoryVault
CONSTANTS k1, k2, k3

\* One call at a time, and a factory that returns one token for ever.
MCDegenerate == [serial |-> TRUE, csprng |-> FALSE, tokens |-> {k1}]
\* A thread pool, and production tokens.
MCShared == [serial |-> FALSE, csprng |-> TRUE, tokens |-> {k1, k2, k3}]

MCDeployment == {MCDegenerate, MCShared}
MCOnlyShared == {MCShared}
=============================================================================

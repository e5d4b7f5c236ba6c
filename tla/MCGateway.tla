----------------------------- MODULE MCGateway ------------------------------
EXTENDS Gateway, TLC
CONSTANTS e1, e2, e3

\* A pool of two with a fallback of one; a chain through that pool's endpoints
\* with a fallback chain.
MCRootPool == <<{e1, e2}, {e3}>>
MCChains   == << << <<{e1}>>, <<{e2, e3}>> >>, << <<{e3}>>, <<{e1, e2}>> >> >>
Alike      == Permutations(Requests)
=============================================================================

--------------------------- MODULE MCStoreClients ---------------------------
EXTENDS StoreClients, TLC

CONSTANTS p1, p2, t1, t2

MCProcs == {p1, p2}
MCThreads == {t1, t2}
\* Two wordings of one question.
MCQuestions == {"q", "q again"}
MCKey == [q \in MCQuestions |-> "key"]

MCSymmetry == Permutations(MCProcs) \cup Permutations(MCThreads)
=============================================================================

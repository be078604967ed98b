------------------------ MODULE MCAutoprovePipeline ------------------------
EXTENDS AutoprovePipeline

\* Two components whose names have the same slug.
MCComponents == {1, 2}
MCSlug == [c \in MCComponents |-> <<"a">>]

MCDrafts == {<<>>, <<"p">>}
MCSettled == {<<>>}
MCSetups == {[harnessed |-> TRUE, external |-> TRUE]}

\* The second run is never interactive; the first may be.
MCMayAsk == <<BOOLEAN, {FALSE}>>
=============================================================================

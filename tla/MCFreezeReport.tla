--------------------------- MODULE MCFreezeReport ---------------------------
EXTENDS FreezeReport

\* Every state a report may find, but what misleads the scans comes one at a time
\* and without a render thread.
MCInit == Init /\ (~Clean => /\ leftover = {} \/ ~stray
                             /\ tids = {"main"} /\ ~join)
=============================================================================

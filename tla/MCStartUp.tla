----------------------------- MODULE MCStartUp -----------------------------
EXTENDS StartUp
MCRawPolls == {-1, 0, 1, UintRange}
=============================================================================

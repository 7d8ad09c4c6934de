----------------------------- MODULE MCReporter -----------------------------
EXTENDS Reporter
=============================================================================

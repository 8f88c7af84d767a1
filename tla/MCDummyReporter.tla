-------------------------- MODULE MCDummyReporter --------------------------
\* Instance of DummyReporter for TLC.
EXTENDS DummyReporter
=============================================================================

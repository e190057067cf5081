----------------------------- MODULE MCRestorer -----------------------------
EXTENDS Restorer

MCNumDeltas == 2

=============================================================================

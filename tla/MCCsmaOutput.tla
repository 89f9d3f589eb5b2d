---------------------------- MODULE MCCsmaOutput ----------------------------
\* CsmaOutput for TLC: see MCCsmaOutput.cfg.
EXTENDS CsmaOutput
=============================================================================

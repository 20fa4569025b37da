---------------------------- MODULE MCCodingFlow ----------------------------
EXTENDS CodingFlow
=============================================================================

----------------------------- MODULE MCAppGate ------------------------------
EXTENDS AppGate
=============================================================================

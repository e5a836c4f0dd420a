------------------------------ MODULE MCBridge ------------------------------
EXTENDS Bridge

=============================================================================

------------------------------ MODULE MCGateway ------------------------------
EXTENDS Gateway
=============================================================================

------------------------------ MODULE MCToolbox ------------------------------
EXTENDS Toolbox
=============================================================================

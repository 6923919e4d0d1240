------------------------------ MODULE MCDriver ------------------------------
EXTENDS Driver
=============================================================================

----------------------------- MODULE MCService ------------------------------
EXTENDS Service
=============================================================================

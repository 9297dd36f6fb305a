---------------------------- MODULE MCAppServer ----------------------------
EXTENDS AppServer, TLC
=============================================================================

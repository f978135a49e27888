---------------------------- MODULE MCAutoRefresh ----------------------------
EXTENDS AutoRefresh

CONSTANTS f1, f2, c1
==============================================================================

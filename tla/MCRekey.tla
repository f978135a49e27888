------------------------------ MODULE MCRekey ------------------------------
EXTENDS RekeyBackup

CONSTANTS alice, bob, notes, secretA, secretB
=============================================================================

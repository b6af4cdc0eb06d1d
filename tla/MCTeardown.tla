------------------------------- MODULE MCTeardown -------------------------------
EXTENDS Teardown, TLC
================================================================================

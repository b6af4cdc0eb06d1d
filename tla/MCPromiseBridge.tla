----------------------------- MODULE MCPromiseBridge ----------------------------
EXTENDS PromiseBridge, TLC

BothContexts == BOOLEAN
================================================================================

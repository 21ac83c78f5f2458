---------------------------- MODULE MCMemoryStore -----------------------------
EXTENDS MemoryStore

CONSTANTS s1, t1
===============================================================================

----------------------------- MODULE MCMemTable -----------------------------
EXTENDS MemTable
=============================================================================

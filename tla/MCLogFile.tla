----------------------------- MODULE MCLogFile ------------------------------
EXTENDS LogFile
=============================================================================

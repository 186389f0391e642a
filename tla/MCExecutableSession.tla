------------------------ MODULE MCExecutableSession ------------------------
EXTENDS ExecutableSession
=============================================================================

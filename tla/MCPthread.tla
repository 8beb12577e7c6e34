------------------------------- MODULE MCPthread -------------------------------
EXTENDS PthreadInstrumentation, TLC
===============================================================================

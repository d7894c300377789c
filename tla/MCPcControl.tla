------------------------------ MODULE MCPcControl ------------------------------
EXTENDS PcControl
================================================================================

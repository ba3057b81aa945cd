-------------------------------- MODULE MCProxy --------------------------------
EXTENDS Proxy
================================================================================

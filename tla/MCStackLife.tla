------------------------------ MODULE MCStackLife ------------------------------
EXTENDS StackLife
================================================================================

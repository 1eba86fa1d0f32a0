------------------------------ MODULE MCLists ------------------------------
EXTENDS Lists
=============================================================================

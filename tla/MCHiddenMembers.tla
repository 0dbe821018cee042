--------------------------- MODULE MCHiddenMembers ---------------------------
EXTENDS HiddenMembers
=============================================================================

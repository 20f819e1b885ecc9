------------------------------ MODULE ReferencedMC ------------------------------
EXTENDS Referenced

\* The name of attribute 3, and the same with a ':' in front.
NamesAsKeys == {3, -3}
================================================================================

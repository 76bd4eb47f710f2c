---------------------------- MODULE MCResourceWatch ----------------------------
\* Two resources behind each of the three watch functions.
EXTENDS ResourceWatch
=============================================================================

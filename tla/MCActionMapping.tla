--------------------------- MODULE MCActionMapping ---------------------------
\* Six of the 19 keys, up to five at once, one more than fit; moves past the last edges.
EXTENDS ActionMapping
=============================================================================

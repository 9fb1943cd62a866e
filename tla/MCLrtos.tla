------------------------------- MODULE MCLrtos -------------------------------
\* A small instance of Lrtos: enough pages for everything, and just too few for
\* the fork.
EXTENDS Lrtos
==============================================================================

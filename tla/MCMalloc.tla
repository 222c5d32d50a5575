------------------------------- MODULE MCMalloc -------------------------------
\* Requests for blocks of two and three units and reallocations to three and
\* six: neighbours merge to larger sizes, remainders of one unit appear, and
\* the third freed block makes the freetree move.
EXTENDS Malloc

MCSizes    == {7, 8}
MCNewSizes == {8, 32}
===============================================================================

------------------------------ MODULE MCCacheSim ------------------------------
\* Two sets of two lines of two bytes, and three blocks that map to each set: a
\* set fills up, and then every block it does not hold evicts one of two.
EXTENDS CacheSim

MCAddresses == {0, 3, 4, 7, 9, 10}
===============================================================================

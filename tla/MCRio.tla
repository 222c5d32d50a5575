-------------------------------- MODULE MCRio --------------------------------
(* Rio for TLC: everything a peer can send in up to MaxInput bytes, where     *)
(* every byte but a line break is its own position, so that a byte lost,      *)
(* repeated or out of place shows.                                            *)
EXTENDS Rio

CONSTANT MaxInput

MCInputs ==
  UNION {{[i \in 1 .. n |-> IF i \in breaks THEN 0 ELSE i] : breaks \in SUBSET (1 .. n)} :
           n \in 0 .. MaxInput}
===============================================================================

---------------------------- MODULE MCSeedLoader ----------------------------
(* A small file for TLC: the first country comes twice, the first port name *)
(* twice in two countries, and the last record is of a country not listed.  *)
EXTENDS SeedLoader

CONSTANTS p1, p2, p3, c1, c2, c3

PortOfRecord == <<p1, p2, p1, p3>>

CodeOfRecord == <<c1, c1, c2, c3>>
=============================================================================

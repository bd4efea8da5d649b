---------------------------- MODULE MCReservations ----------------------------
EXTENDS Reservations, TLC

CONSTANTS k1, k2, v1, v2, r1, r2

Alike == Permutations(Clients) \union Permutations(Vehicles) \union Permutations(Reservations)
=============================================================================

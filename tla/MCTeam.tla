-------------------------------- MODULE MCTeam --------------------------------
(* An ordinary user and a global admin on one workspace, two requests at once. *)
EXTENDS TeamService, TLC

CONSTANTS alice, root, r1, r2

MCSymmetry == Permutations(Requests)
===============================================================================

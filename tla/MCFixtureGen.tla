---------------------------- MODULE MCFixtureGen ----------------------------
(***************************************************************************)
(* Lines that divide the cap, that do not, that fill it and that exceed it *)
(* alone; replay sets of a refused size, empty and not.                    *)
(***************************************************************************)
EXTENDS FixtureGen

MCLineLengths == {1, 2, 3, 5, 12, 13, 20}
MCSetSizes == {-1, 0, 1, 2, 4}
=============================================================================

---------------------------- MODULE MCUserSpace ----------------------------
(* Model-checking instance of UserSpace: pages of one byte, large pages of   *)
(* four pages, and too little memory for two full spaces.                    *)
EXTENDS UserSpace

MCRamPages == 1 .. 14
=============================================================================

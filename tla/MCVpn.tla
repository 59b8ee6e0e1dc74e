------------------------------- MODULE MCVpn -------------------------------
(***************************************************************************)
(* Vpn for one site and two people: the least with which a dial, a         *)
(* disconnect of it and a collection of the same site can all be under way *)
(* together; two cancellations reach the collector's sweep, which with one *)
(* site misses nothing.                                                    *)
(***************************************************************************)
EXTENDS Vpn
=============================================================================

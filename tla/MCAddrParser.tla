---------------------------- MODULE MCAddrParser ----------------------------
(* Every string of up to five characters over {h, :, ,}, and NULL, with a  *)
(* cap of two coordinators so that strings reach the cap.                  *)
EXTENDS AddrParser

MCCoordNumMax == 2
MCMaxLen == 5
=============================================================================

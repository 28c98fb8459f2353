----------------------------- MODULE MCRtspServer -----------------------------
(* Two players that are alike. *)
EXTENDS RtspServer, TLC

PeerSymmetry == Permutations(Peers)
=============================================================================

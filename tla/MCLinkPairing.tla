---------------------------- MODULE MCLinkPairing ---------------------------
(* LinkPairing for TLC, with the values of pairing.cfg.                    *)
EXTENDS LinkPairing
=============================================================================

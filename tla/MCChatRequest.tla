---------------------------- MODULE MCChatRequest ---------------------------
(* ChatRequest for TLC.                                                    *)
EXTENDS ChatRequest
=============================================================================

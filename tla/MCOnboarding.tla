---------------------------- MODULE MCOnboarding ----------------------------
(* Onboarding for TLC, with the values of onboarding.cfg.                  *)
EXTENDS Onboarding
=============================================================================

---------------------------- MODULE MCOAuthFlow ----------------------------
(* Instances of the Google sign-in for TLC. *)
EXTENDS OAuthFlow
=============================================================================

----------------------------- MODULE MCUserAdmin -----------------------------
(* Instances of UserAdmin for TLC. *)
EXTENDS UserAdmin

CONSTANTS john, sarah, mike

\* The rows of the credentials.db delivered.
MCFirst == <<john, sarah>>
=============================================================================

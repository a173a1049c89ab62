----------------------------- MODULE AuthEvent ------------------------------
(***************************************************************************)
(* AUTHENTCATED_EVENT of GlobalEvent: published once by the registration   *)
(* thread (see AtDial), waited for or tested, and never cleared, by the    *)
(* threads that send to the server.                                        *)
(***************************************************************************)
EXTENDS Integers

VARIABLE authenticated

AuthInit == authenticated = FALSE
Publish  == ~authenticated /\ authenticated' = TRUE
=============================================================================

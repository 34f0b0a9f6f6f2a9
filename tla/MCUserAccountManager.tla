-------------------------- MODULE MCUserAccountManager --------------------------
(***************************************************************************)
(* Two users, and the threads of the account layer.                        *)
(***************************************************************************)
EXTENDS UserAccountManager

CONSTANTS refresher, updater, account, u1, u2

MCUsers == {u1, u2}
MCCallers == {refresher, updater, account}
=================================================================================

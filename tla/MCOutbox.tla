------------------------------ MODULE MCOutbox ------------------------------
(* A small instance of Outbox: a is a reply to the user u1, c the           *)
(* confirmation of the deletion of the account.                             *)
EXTENDS Outbox, TLC

CONSTANTS a, c, u1

OwnKey == [j \in Jobs |-> j]
OneUser == [j \in Jobs |-> u1]
=============================================================================

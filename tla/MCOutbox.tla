------------------------------- MODULE MCOutbox -------------------------------
(* Instances of Outbox for TLC: a key of each kind.                        *)
EXTENDS Outbox, TLC

CONSTANTS verification, cancelled, timeout

OneOfEach == verification :> "inside" @@ cancelled :> "listener" @@ timeout :> "after"
Mails == DOMAIN OneOfEach
===============================================================================

------------------------------ MODULE MCGateway ------------------------------
(* Instance of Gateway for TLC. *)
EXTENDS Gateway

MCRequests == [kind : {"card_charge", "outbound_bank_transfer"},
               amount : {"0.0000", "10.0000"}, missing : {{}, {"ledgerTransfer"}}]
=============================================================================

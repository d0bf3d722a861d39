--------------------------- MODULE MCTicketWrites ---------------------------
(***************************************************************************)
(* One ticket, one key: calls that are retried, submitted twice, sent with *)
(* the key of another request or with none.                                *)
(***************************************************************************)
EXTENDS TicketWrites, TLC

CONSTANTS a1, a2, a3, k1

Resolve == [verb |-> "status", to |-> "resolved"]
MerchantReplies == [verb |-> "reply", author |-> "merchant", to |-> Null]
Answers2 == [verb |-> "reply", author |-> "operator", to |-> "in_progress"]

MCRequests == {Resolve, MerchantReplies, Answers2}
=============================================================================

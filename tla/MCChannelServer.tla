----------------------------- MODULE MCChannelServer -----------------------------
(* The channel server, one of its tasks at a time: two clients that want the   *)
(* same user; and an attachment of two blocks sent by an agent with one of a    *)
(* block sent by the page, and a download of either.                            *)
EXTENDS ChannelLink, AttachmentTransfer, TLC

CONSTANTS c1, c2, u1, doc, img, d1
VARIABLE part   \* which of the two it is

MCBindUsers == c1 :> {u1} @@ c2 :> {u1}
MCSize == doc :> 2 @@ img :> 1

MCInit == Init /\ TransferInit /\ part \in {"connections", "attachments"}
MCNext ==
    \/ part = "connections" /\ Next /\ UNCHANGED <<transferVars, part>>
    \/ part = "attachments" /\ TransferNext /\ UNCHANGED <<vars, part>>
MCSpec == MCInit /\ [][MCNext]_<<vars, transferVars, part>>
================================================================================

------------------------- MODULE MCConnectorWebhook -------------------------
(* Two messages, the second about the task of the first, and one thread of *)
(* the owner.  NonceTTL is twice Tolerance, as in the code; a history of   *)
(* one nonce overflows with the second message.  A message signed ahead by *)
(* Tolerance can be delivered again for the longest time: what another can *)
(* do, it can.                                                             *)
EXTENDS ConnectorWebhook

(* The history as it was before the first message.                         *)
MCPatchedNonces == {<< >>}
=============================================================================

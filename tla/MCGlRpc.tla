------------------------------ MODULE MCGlRpc ------------------------------
(* Small instances of GlRpc: requests and replies of one and two parts.    *)
EXTENDS GlRpcInv

(* A one-part call (the batch of send_request), then a streamed upload whose *)
(* reply has an output, and so on in turn.                                 *)
MCParts == [i \in Calls |-> 1 + (i % 2)]
MCReplies == [i \in Calls |-> 2 - (i % 2)]
=============================================================================

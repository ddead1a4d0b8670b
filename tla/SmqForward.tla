------------------------------ MODULE SmqForward ------------------------------
(***************************************************************************)
(* SmqManager implements StoreAndForward, provided that tags are unique    *)
(* (FreshTags) and that no answer comes in while another to the same       *)
(* message waits to be handled (SerialResponses).                          *)
(***************************************************************************)
EXTENDS SmqManager

\* The messages of StoreAndForward are the requests in the list.
HeldMessages == {id \in Queued : msg[id].kind # "RESPONSE"}
EndedMessages == {id \in HeldMessages : msg[id].state \in {"NO_STATE", "DELETE_ME_STATE"}}
ReturnedMessages == {id \in HeldMessages : msg[id].from = "Bounce.Code"}

SF == INSTANCE StoreAndForward WITH
          Limit <- max_retries,
          seen <- created,
          held <- HeldMessages,
          ended <- EndedMessages,
          returned <- ReturnedMessages,
          copies <- sends,
          delivered <- acked

\* However its timers, lookups and answers interleave, the queue does what a
\* store-and-forward queue promises: it holds a message until its end is decided or a
\* 2xx answers a copy that was sent, sends no more copies than the retry limit,
\* returns no return, and never takes up what was delivered.
Forwards == SF!Spec

================================================================================

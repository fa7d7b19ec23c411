------------------------------ MODULE ToolCalls ------------------------------
(* What the parts of Dispatch have in common. *)
CONSTANT Caller   \* tools/call requests in progress at the same time
=============================================================================

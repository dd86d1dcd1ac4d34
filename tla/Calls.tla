------------------------------- MODULE Calls -------------------------------
(***************************************************************************)
(* What execute and halt promise together: nested calls.  One context runs *)
(* at a time.  It may call an idle context and is then suspended until     *)
(* that very context returns to it.  The root context is never called.     *)
(* Nothing here speaks of process numbers, stacks or pages.                *)
(***************************************************************************)
EXTENDS Integers

CONSTANTS
  Ctx,  \* the contexts that can run
  Root, \* the context that runs at the start, one of Ctx
  None  \* the callee of a context that is not suspended, not in Ctx

VARIABLES
  running, \* the context that has the processor
  callee   \* for a suspended context, the one it called

Idle == {c \in Ctx \ {Root, running} : callee[c] = None}

Init ==
  /\ running = Root
  /\ callee = [c \in Ctx |-> None]

Call(c) ==
  /\ c \in Idle
  /\ callee' = [callee EXCEPT ![running] = c]
  /\ running' = c

Return(c) ==
  /\ callee[c] = running
  /\ callee' = [callee EXCEPT ![c] = None]
  /\ running' = c

Next == \E c \in Ctx : Call(c) \/ Return(c)

Spec == Init /\ [][Next]_<<running, callee>>
=============================================================================

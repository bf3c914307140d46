------------------------- MODULE ClientConversation -------------------------
(***************************************************************************)
(* What ServiceClient promises to its application, whatever the service    *)
(* does: an abstract specification that ServiceClient implements.          *)
(*                                                                         *)
(* A conversation goes through its stages in order.  Requests are asked    *)
(* only when it is Ready, and an answer reaches the application only for a *)
(* request that is outstanding, once, and never while the conversation is  *)
(* Failed or Disconnected.  A failure inside the answer of a shutdown is   *)
(* not among the stages: the conversation is Closing when it is over.      *)
(***************************************************************************)
EXTENDS Naturals

CONSTANT Ids    \* the request IDs

VARIABLES
    life,         \* the stage the application sees
    outstanding,  \* the requests asked and not answered
    answered      \* the requests ever answered

vars == <<life, outstanding, answered>>

Init == life = "Disconnected" /\ outstanding = {} /\ answered = {}

Connect ==
    /\ life \in {"Disconnected", "Failed"}
    /\ life' = "Connecting" /\ outstanding' = {}
    /\ UNCHANGED answered

Handshake ==
    /\ \/ life = "Connecting" /\ life' = "Authenticating"
       \/ life = "Authenticating" /\ life' = "Ready"
    /\ UNCHANGED <<outstanding, answered>>

Ask(id) ==
    /\ life = "Ready"
    /\ id \notin outstanding \cup answered
    /\ outstanding' = outstanding \cup {id}
    /\ life' \in {"Ready", "Failed"}
    /\ UNCHANGED answered

Answer(id) ==
    /\ life \in {"Ready", "Closing"}
    /\ id \in outstanding
    /\ answered' = answered \cup {id}
    /\ \/ life' \in {life, "Closing"} /\ outstanding' = outstanding \ {id}
       \/ life' = "Closing" /\ outstanding' = {}
       \/ /\ life = "Ready" /\ life' = "Closing"    \* asked while it is answered
          /\ \E next \in Ids \ (outstanding \cup answered) :
               outstanding' = (outstanding \ {id}) \cup {next}

Fail ==
    /\ life' = "Failed"
    /\ UNCHANGED <<outstanding, answered>>

\* The application closes it, or the service hangs up.
End ==
    /\ life # "Disconnected" /\ life' = "Disconnected"
    /\ \/ outstanding' = {}
       \/ life \in {"Authenticating", "Ready", "Closing"} /\ UNCHANGED outstanding
    /\ UNCHANGED answered

Next ==
    \/ Connect \/ Handshake \/ Fail \/ End
    \/ \E id \in Ids : Ask(id) \/ Answer(id)

Spec == Init /\ [][Next]_vars
=============================================================================

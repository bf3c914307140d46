----------------------------- MODULE Supervision -----------------------------
(***************************************************************************)
(* What the service process controller promises to the application that    *)
(* owns it: an abstract specification that ServiceProcess implements.      *)
(*                                                                         *)
(* There is at most one child.  Every launch is asked for by the           *)
(* application or was permitted before, by a restart it requested or by    *)
(* the end of a child nobody asked to end; the latter are counted.  A      *)
(* child that ended unasked is never passed over in silence: the service   *)
(* is launched again, or given up with a reason.                           *)
(***************************************************************************)
EXTENDS Naturals

CONSTANT MaxRestarts    \* restarts the controller grants by itself

VARIABLES
    phase,      \* "Stopped", "Starting", "Ready", "Stopping" or "Failed"
    child,      \* "none", "alive", or "doomed": dead or killed, not yet reaped
    asked,      \* the application asked for the end of this launch
    permitted,  \* launches permitted that are still to come
    spent,      \* restarts granted so far
    blamed      \* a reason for the last failure is on record

vars == <<phase, child, asked, permitted, spent, blamed>>

Idle == phase \in {"Stopped", "Failed"}

Killed == IF child = "none" THEN "none" ELSE "doomed"

Init ==
    /\ phase = "Stopped" /\ child = "none" /\ ~asked
    /\ permitted = 0 /\ spent = 0 /\ ~blamed

\* A launch while the last child is still to be reaped waits for its end.
Launch ==
    \/ /\ phase' = "Starting" /\ ~asked' /\ ~blamed'
       /\ child' = IF child = "none" THEN "alive" ELSE child
    \/ /\ phase' = "Failed" /\ (asked' => asked) /\ blamed'
       /\ UNCHANGED child

\* The application starts, or restarts, a service that is idle.
Ask ==
    /\ Idle
    /\ Launch
    /\ permitted' <= permitted
    /\ UNCHANGED spent

\* A permission is used, or lapses.
UsePermission ==
    /\ permitted' < permitted
    /\ \/ Idle /\ Launch
       \/ ~Idle /\ UNCHANGED <<phase, child, asked, blamed>>
    /\ UNCHANGED spent

EndService ==
    /\ asked'
    /\ \/ child # "none" /\ phase' = "Stopping" /\ UNCHANGED <<child, blamed>>
       \/ child # "none" /\ phase' = "Failed" /\ child' = "doomed" /\ blamed'
    /\ UNCHANGED spent

Stop ==
    /\ phase # "Stopped"
    /\ \/ EndService
       \/ /\ child = "none" /\ phase' = "Stopped" /\ ~asked'
          /\ UNCHANGED <<child, spent, blamed>>
    /\ permitted' <= permitted

Restart ==
    /\ ~Idle
    /\ EndService
    /\ permitted' <= permitted + 1

\* A ready record, in time or late: only a child that is done for can revive a
\* service that was given up.
Announced ==
    /\ child # "none"
    /\ phase # "Stopped" /\ (phase = "Failed" => child = "doomed")
    /\ phase' = "Starting"
    /\ UNCHANGED <<child, asked, permitted, spent, blamed>>

Established ==
    /\ ~Idle
    /\ phase' = "Ready"
    /\ UNCHANGED <<child, asked, permitted, spent, blamed>>

\* A deadline passed, the protocol was broken, or the connection is lost.
GiveUp ==
    /\ phase # "Stopped" /\ phase' = "Failed"
    /\ child' = Killed /\ blamed'
    /\ UNCHANGED <<asked, permitted, spent>>

NeverStarted ==
    /\ child # "none"
    /\ phase' = "Failed" /\ child' = "none" /\ blamed'
    /\ UNCHANGED <<asked, permitted, spent>>

\* The child is killed, or dies, perhaps leaving word why.
Dying ==
    /\ child # "none"
    /\ child' \in {child, "doomed"}
    /\ blamed => blamed'
    /\ UNCHANGED <<phase, asked, permitted, spent>>

EndedAsAsked ==
    /\ asked
    /\ phase' = "Stopped" /\ ~asked'
    /\ UNCHANGED <<permitted, spent, blamed>>

EndedUnasked ==
    /\ ~asked /\ phase # "Failed"
    /\ \/ /\ spent < MaxRestarts /\ spent' = spent + 1
          /\ permitted' = permitted + 1
          /\ phase' = "Stopped"
          /\ UNCHANGED blamed
       \/ /\ spent = MaxRestarts
          /\ phase' = "Failed" /\ blamed'
          /\ UNCHANGED <<permitted, spent>>
    /\ UNCHANGED asked

Ended ==
    /\ child = "doomed" /\ child' = "none"
    /\ \/ EndedAsAsked \/ EndedUnasked
       \/ phase = "Failed" /\ UNCHANGED <<phase, asked, permitted, spent, blamed>>

\* The controller is destroyed: its child is killed, and what becomes of it before
\* the controller is gone is reported as ever.
Dismissed ==
    /\ asked'
    /\ child' = Killed
    /\ UNCHANGED <<phase, permitted, spent, blamed>>

\* The controller is gone, and its promises with it.
Gone ==
    /\ child # "alive" /\ child' \in {child, "none"}
    /\ permitted' <= permitted
    /\ UNCHANGED <<phase, asked, spent, blamed>>

Next ==
    \/ Ask \/ UsePermission \/ Stop \/ Restart
    \/ Announced \/ Established \/ GiveUp \/ NeverStarted \/ Dying \/ Ended
    \/ Dismissed \/ Gone

Spec == Init /\ [][Next]_vars
=============================================================================

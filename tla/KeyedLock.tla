----------------------------- MODULE KeyedLock -----------------------------
(***************************************************************************)
(* What InFlight is for, without InFlight: operations under keys.  An      *)
(* actor asks to work under a key; it is granted the key when no actor of  *)
(* its domain (its process) works under it, and refused only when one      *)
(* does.  When a domain dies its actors forget everything.  The controller *)
(* and the node service implement this specification.                      *)
(***************************************************************************)
CONSTANTS
    Actors,     \* goroutines
    Domains,    \* processes
    DomainOf,   \* the process of every goroutine
    Keys,       \* what can be asked for
    NoKey       \* of an actor that has not asked yet

VARIABLES
    phase,      \* "idle", "asked", "granted", "refused" or "over"
    key         \* what every actor asked for

lockVars == <<phase, key>>

Working(a) == phase[a] = "granted"

\* Somebody of the same domain works under the key that a asked for.
Busy(a) == \E b \in Actors : /\ b # a /\ DomainOf[b] = DomainOf[a]
                             /\ Working(b) /\ key[b] = key[a]

Ask(a, k) ==
    /\ phase[a] \notin {"asked", "granted"}
    /\ phase' = [phase EXCEPT ![a] = "asked"]
    /\ key' = [key EXCEPT ![a] = k]

Become(a, from, to) ==
    phase[a] = from /\ phase' = [phase EXCEPT ![a] = to] /\ UNCHANGED key

Grant(a) == ~Busy(a) /\ Become(a, "asked", "granted")

Refuse(a) == Busy(a) /\ Become(a, "asked", "refused")

\* The operation is over before it needs the key, or without needing one.
Reject(a) == Become(a, "asked", "over")

Finish(a) == Become(a, "granted", "over")

Die(d) ==
    /\ phase' = [a \in Actors |-> IF DomainOf[a] = d THEN "idle" ELSE phase[a]]
    /\ key' = [a \in Actors |-> IF DomainOf[a] = d THEN NoKey ELSE key[a]]

Init ==
    /\ phase = [a \in Actors |-> "idle"]
    /\ key = [a \in Actors |-> NoKey]

Next ==
    \/ \E a \in Actors : \/ \E k \in Keys : Ask(a, k)
                         \/ Grant(a) \/ Refuse(a) \/ Reject(a) \/ Finish(a)
    \/ \E d \in Domains : Die(d)

Spec == Init /\ [][Next]_lockVars

=============================================================================

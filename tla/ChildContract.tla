--------------------------- MODULE ChildContract ---------------------------
(***************************************************************************)
(* What the daemon promises about every supervised child, without saying   *)
(* how: one operating-system process per child at a time, a bounded number *)
(* of launches, nothing launched once shutdown has begun, and a child with *)
(* a process is never given up unless the daemon is shutting down.         *)
(* Supervisor.tla (daemon.py) is shown to implement this module.           *)
(***************************************************************************)
EXTENDS Naturals

CONSTANTS Child,          \* the supervised children
          MaxTotalStarts  \* ceiling on the launches of one child

VARIABLES up,       \* the children that have a process (running or not yet reaped)
          starts,   \* starts[c]: launches of c so far, failed ones included
          over,     \* the children nobody supervises any more
          halting   \* shutdown has begun

contractVars == <<up, starts, over, halting>>

Init ==
    /\ up = {}
    /\ starts = [c \in Child |-> 0]
    /\ over = {}
    /\ halting = FALSE

\* A launch succeeds (up), or fails and may then be the child's last one.
Launch(c) ==
    /\ ~halting /\ c \notin over /\ c \notin up
    /\ starts[c] < MaxTotalStarts
    /\ starts' = [starts EXCEPT ![c] = @ + 1]
    /\ \/ up' = up \cup {c} /\ UNCHANGED over
       \/ UNCHANGED <<up, over>>
       \/ over' = over \cup {c} /\ UNCHANGED up
    /\ UNCHANGED halting

Gone(c) ==
    /\ c \in up
    /\ up' = up \ {c}
    /\ UNCHANGED <<starts, over, halting>>

GiveUp(c) ==
    /\ c \notin over
    /\ c \in up => halting
    /\ over' = over \cup {c}
    /\ UNCHANGED <<up, starts, halting>>

Halt ==
    /\ ~halting
    /\ halting' = TRUE
    /\ UNCHANGED <<up, starts, over>>

Next == Halt \/ \E c \in Child : Launch(c) \/ Gone(c) \/ GiveUp(c)

Spec == Init /\ [][Next]_contractVars
=============================================================================

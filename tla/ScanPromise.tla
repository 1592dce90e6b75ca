------------------------------ MODULE ScanPromise -------------------------------
(***************************************************************************)
(* What a scan promises to whoever reads its channel of findings, with no   *)
(* workers, queues or requests: every task is taken at most once, a finding *)
(* is raised at most once and only by a task that is being worked on, every *)
(* finding raised is delivered, and the scan ends only when nothing is      *)
(* under way and, unless it was interrupted, nothing is left to do.        *)
(***************************************************************************)
EXTENDS Integers

CONSTANTS
    Tasks,          \* the (template, target) pairs of the scan
    FindingsOf      \* the findings each task may raise

VARIABLES
    todo,           \* tasks nobody has taken
    active,         \* tasks being worked on
    undelivered,    \* findings raised and not yet delivered
    delivered,      \* findings the reader has
    interrupted,    \* cancelled, or nobody left to work
    ended           \* the reader was told that there is nothing more

pvars == <<todo, active, undelivered, delivered, interrupted, ended>>

PInit ==
    /\ todo = Tasks
    /\ active = {}
    /\ undelivered = {}
    /\ delivered = {}
    /\ interrupted = FALSE
    /\ ended = FALSE

Begin(t) ==
    /\ t \in todo
    /\ todo' = todo \ {t}
    /\ active' = active \cup {t}
    /\ UNCHANGED <<undelivered, delivered, interrupted, ended>>

\* A task ends; the end of the last worker interrupts the scan.
Retire(t) ==
    /\ t \in active
    /\ active' = active \ {t}
    /\ interrupted' \in {interrupted, TRUE}
    /\ UNCHANGED <<todo, undelivered, delivered, ended>>

Find(t, f) ==
    /\ t \in active
    /\ f \in FindingsOf[t]
    /\ f \notin undelivered \cup delivered
    /\ undelivered' = undelivered \cup {f}
    /\ UNCHANGED <<todo, active, delivered, interrupted, ended>>

Deliver(f) ==
    /\ f \in undelivered
    /\ undelivered' = undelivered \ {f}
    /\ delivered' = delivered \cup {f}
    /\ UNCHANGED <<todo, active, interrupted, ended>>

Interrupt ==
    /\ ~interrupted
    /\ ~ended
    /\ interrupted' = TRUE
    /\ UNCHANGED <<todo, active, undelivered, delivered, ended>>

End ==
    /\ ~ended
    /\ active = {}
    /\ undelivered = {}
    /\ todo = {} \/ interrupted
    /\ ended' = TRUE
    /\ UNCHANGED <<todo, active, undelivered, delivered, interrupted>>

PNext ==
    \/ \E t \in Tasks : Begin(t) \/ Retire(t)
    \/ \E t \in Tasks : \E f \in FindingsOf[t] : Find(t, f)
    \/ \E t \in Tasks : \E f \in FindingsOf[t] : Deliver(f)
    \/ Interrupt
    \/ End

PSpec == PInit /\ [][PNext]_pvars
================================================================================

------------------------------- MODULE HostErrors -------------------------------
(***************************************************************************)
(* The circuit breaker of src/src/engine/host_errors.rs.  It keeps, per     *)
(* target string, the number of failures since the last success and the    *)
(* set of targets that were dropped.  The module declares the breaker's     *)
(* state and its operations; the modules that send requests extend it.     *)
(***************************************************************************)
EXTENDS Integers

CONSTANTS
    Targets,    \* the strings used as breaker keys: a task's whole target
    MaxErrors   \* --max-host-error; 0 switches the breaker off

ASSUME MaxErrorsAssumption == MaxErrors \in Nat

VARIABLES
    errorCounts,    \* error_counts: failures since the last success, per target
    droppedHosts    \* dropped_hosts: the targets that were given up

breaker == <<errorCounts, droppedHosts>>

BreakerTypeOK ==
    /\ errorCounts \in [Targets -> Nat]
    /\ droppedHosts \in SUBSET Targets

BreakerInit ==
    /\ errorCounts = [k \in Targets |-> 0]
    /\ droppedHosts = {}

IsDropped(k) == MaxErrors # 0 /\ k \in droppedHosts

\* Mutant of Trips: one failure too soon.
TripsEarly(k) == MaxErrors # 0 /\ errorCounts[k] + 2 >= MaxErrors

\* What record_error returns: the count it has just written is at the limit
\* or past it.
Trips(k) == MaxErrors # 0 /\ errorCounts[k] + 1 >= MaxErrors

RecordError(k) ==
    /\ errorCounts' = IF MaxErrors = 0 THEN errorCounts
                      ELSE [errorCounts EXCEPT ![k] = @ + 1]
    /\ droppedHosts' = IF Trips(k) THEN droppedHosts \cup {k} ELSE droppedHosts

\* A success resets the count; a dropped target stays dropped.
RecordSuccess(k) ==
    /\ errorCounts' = IF MaxErrors = 0 THEN errorCounts
                      ELSE [errorCounts EXCEPT ![k] = 0]
    /\ UNCHANGED droppedHosts
================================================================================

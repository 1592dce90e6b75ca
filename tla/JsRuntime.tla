--------------------------------- MODULE JsRuntime ---------------------------------
(***************************************************************************)
(* The objects of scripts in src/src/engine/js_client: connections           *)
(* (nuclei/net) and buffers (nuclei/bytes) live in tables of the thread that *)
(* runs the script, under ids that the methods of an object hold.  Threads   *)
(* belong to the pool of spawn_blocking and run one script after another;    *)
(* an idle one ends at some time, and its tables with it.                   *)
(***************************************************************************)
EXTENDS Integers, Sequences, FiniteSets

CONSTANTS
    Threads,
    Scripts,    \* 1..n
    MaxObjects  \* bound: objects a script makes

ASSUME JsAssumption == MaxObjects \in Nat /\ Scripts \subseteq Nat \ {0}

Tables == {"conns", "buffers"}

VARIABLES
    running,    \* the script of a thread, 0 if it is idle
    started,    \* scripts started so far
    tables,     \* per thread and table: the objects, by id
    nextId,     \* NET_CONN_ID, BUFFER_ID
    handles     \* per script: the objects it made: table, id

jsVars == <<running, started, tables, nextId, handles>>

\* by, n: the script that made the object, and which of its objects it is.
Object == [id : Nat, by : Scripts, n : 1..MaxObjects]
Handle == [table : Tables, id : Nat]

JsTypeOK ==
    /\ running \in [Threads -> {0} \cup Scripts]
    /\ started \in {0} \cup Scripts
    /\ \A t \in Threads, k \in Tables : tables[t][k] \subseteq Object
    /\ nextId \in [Threads -> [Tables -> Nat]]
    /\ handles \in [Scripts -> Seq(Handle)]

JsInit ==
    /\ running = [t \in Threads |-> 0]
    /\ started = 0
    /\ tables = [t \in Threads |-> [k \in Tables |-> {}]]
    /\ nextId = [t \in Threads |-> [k \in Tables |-> 0]]
    /\ handles = [s \in Scripts |-> << >>]

\* JavaScriptClient::execute: the next script goes to an idle thread.
Execute(t) ==
    /\ running[t] = 0
    /\ started + 1 \in Scripts
    /\ started' = started + 1
    /\ running' = [running EXCEPT ![t] = started + 1]
    /\ UNCHANGED <<tables, nextId, handles>>

\* Mutant of Register: the id is the number of objects there are.
RegisterByCount(t, k) ==
    LET s == running[t]
        object == [id |-> Cardinality(tables[t][k]), by |-> s, n |-> Len(handles[s]) + 1]
    IN  /\ tables' = [tables EXCEPT
              ![t][k] = {o \in @ : o.id # object.id} \cup {object}]
        /\ handles' = [handles EXCEPT ![s] = Append(@, [table |-> k, id |-> object.id])]
        /\ UNCHANGED nextId

\* The object goes into the table under the next id of the thread.
Register(t, k) ==
    LET s == running[t]
        object == [id |-> nextId[t][k], by |-> s, n |-> Len(handles[s]) + 1]
    IN  /\ tables' = [tables EXCEPT
              ![t][k] = {o \in @ : o.id # object.id} \cup {object}]
        /\ handles' = [handles EXCEPT ![s] = Append(@, [table |-> k, id |-> object.id])]
        /\ nextId' = [nextId EXCEPT ![t][k] = @ + 1]

MayMake(t) == running[t] # 0 /\ Len(handles[running[t]]) < MaxObjects

\* net_module: Open
Open(t) ==
    /\ MayMake(t)
    /\ Register(t, "conns")
    /\ UNCHANGED <<running, started>>

\* bytes_module: new Buffer
NewBuffer(t) ==
    /\ MayMake(t)
    /\ Register(t, "buffers")
    /\ UNCHANGED <<running, started>>

\* make_conn_object: Close takes the connection of the id away, if it is there.
Close(t) ==
    /\ running[t] # 0
    /\ \E i \in DOMAIN handles[running[t]] :
          LET handle == handles[running[t]][i]
          IN  /\ handle.table = "conns"
              /\ tables' = [tables EXCEPT ![t].conns = {o \in @ : o.id # handle.id}]
    /\ UNCHANGED <<running, started, nextId, handles>>

\* run_js is through, skipped, or failed: the script is gone with its handles;
\* what is in the tables stays there.
Finish(t) ==
    /\ running[t] # 0
    /\ running' = [running EXCEPT ![t] = 0]
    /\ handles' = [handles EXCEPT ![running[t]] = << >>]
    /\ UNCHANGED <<started, tables, nextId>>

\* tokio ends an idle thread; a new one has tables and ids of its own.
ThreadEnds(t) ==
    /\ running[t] = 0
    /\ tables' = [tables EXCEPT ![t] = [k \in Tables |-> {}]]
    /\ nextId' = [nextId EXCEPT ![t] = [k \in Tables |-> 0]]
    /\ UNCHANGED <<running, started, handles>>

JsNext ==
    \E t \in Threads : \/ Execute(t) \/ Open(t) \/ NewBuffer(t) \/ Close(t) \/ Finish(t)
                       \/ ThreadEnds(t)

(***************************************************************************)
(* Property.                                                               *)
(***************************************************************************)
\* What a running script holds is what it made itself, or nothing: neither an object
\* made later nor one left behind by an earlier script of the thread, closed or not,
\* is ever reached through it.
HandlesStayOwn ==
    \A t \in Threads : running[t] # 0 =>
        LET s == running[t]
        IN  \A i \in DOMAIN handles[s] :
               \A o \in tables[t][handles[s][i].table] :
                  o.id = handles[s][i].id => o.by = s /\ o.n = i
================================================================================

--------------------------- MODULE TaskExec_proofs ----------------------------
(***************************************************************************)
(* Theorems about one scan task, for any templates, flow expressions and     *)
(* workflows: types, what is sent after Ctrl-C, what --stop-at-first-match   *)
(* ends, which steps of a workflow run, and what a flow evaluates.  IInv is  *)
(* an inductive invariant, FlowInv is one beside it.                         *)
(***************************************************************************)
EXTENDS TaskExec, SequenceTheorems, WellFoundedInduction, TLAPS

(***************************************************************************)
(* What the agenda looks like.                                             *)
(***************************************************************************)
ControlOps == {"template", "subs", "gate", "step", "topstep"}
PlainOps == {"block", "probe", "http", "armed", "answers"}
FlowOps == {"eval", "negate", "and", "or", "verdict", "flowhttp", "flowsend"}
CheckedOps == {"probe", "armed", "flowsend"}

\* What may be left to do below an item: a template is worked through before anything
\* else of its step, and by blocks or by a flow, not both.
Below(op) ==
    CASE op \in ControlOps -> ControlOps
      [] op \in PlainOps -> ControlOps \cup {"block"}
      [] op \in FlowOps -> ControlOps \cup {"negate", "and", "or", "verdict"}
      [] OTHER -> {}

\* The block, the request and the gate of an item exist; an operator is its node's.
Fits(x) ==
    /\ x.op \in PlainOps \cup {"flowhttp", "flowsend"} =>
          x.b \in DOMAIN Templates[x.t].blocks
    /\ x.op \in {"probe", "http", "flowhttp"} => x.r > 0
    /\ x.op \in {"armed", "flowsend", "answers"} =>
          x.r \in DOMAIN Templates[x.t].blocks[x.b].requests
    /\ x.op = "gate" => x.g \in DOMAIN Steps[x.s].gates
    /\ x.op \in {"negate", "and", "or"} => Nodes[x.n].op = x.op

\* A template that runs for a step; and what will look at its result.
Works(x) == x.op \in PlainOps \cup FlowOps \cup {"template"} /\ x.s # 0
SubsOf(s) == [op |-> "subs", s |-> s]
GateOf(s, g) == [op |-> "gate", s |-> s, g |-> g]
Support(s) == {SubsOf(s)} \cup {GateOf(s, g) : g \in DOMAIN Steps[s].gates}

\* The calls are nested as execute_task, execute_workflow and run_workflow_step nest them.
Nested(a) ==
    /\ a \in Seq(Item)
    /\ \A i \in 1..Len(a) : Fits(a[i])
    /\ \A i, j \in 1..Len(a) : i < j => a[j].op \in Below(a[i].op)
    /\ \A i \in 1..Len(a) : Works(a[i]) =>
          \A y \in Support(a[i].s) : \E j \in 1..Len(a) : j > i /\ a[j] = y
NestedInv == Nested(agenda)

Left == ToSet(agenda)
Remaining == ToSet(Tail(agenda))

(***************************************************************************)
(* The inductive invariant.                                                *)
(***************************************************************************)
\* What was sent late, and what may still be sent without another check, was allowed when
\* the flag was raised, or is a block of a flow that looks at no flag.
LateInv ==
    /\ ~isCancelled => lateSends = 0 /\ lateLeaves = 0 /\ allowed = 0
    /\ isCancelled => CancelStopsTask /\ \A x \in Left : lateSends + Pass(x) <= allowed + lateLeaves

\* With the global flag nothing that sends is left of a template that has reported.
StopInv ==
    stopAtFirstMatch /\ OthersReported =>
        spmStop /\ \A x \in Left : x.op \in ControlOps \cup {"block"}

\* The steps behind the open gates of a step with result r.
Opened(s, r) ==
    (IF r.matched THEN ToSet(Steps[s].subs) ELSE {})
    \cup UNION {ToSet(g.subs) : g \in {h \in ToSet(Steps[s].gates) : Satisfied(h, r)}}
TopSteps == ToSet(Templates[task].workflow)
Due(u) == u \in TopSteps \/ \E s \in ran : u \in Opened(s, results[s])

\* A step is in hand if it was run or its call is left.
InHand(u) == u \in ran \/ \E x \in Left : x.op \in {"step", "topstep"} /\ x.s = u

\* Only steps that are due are called, and the result of a step is looked at once it ran ...
DueInv ==
    /\ \A u \in ran : Due(u)
    /\ \A x \in Left : /\ x.op \in {"step", "topstep"} => Due(x.s)
                       /\ x.op \in {"subs", "gate"} => x.s \in ran

\* ... and unless the scan is cancelled all that are due are in hand, but for those whose
\* gate has yet to be looked at.
HandInv ==
    /\ [op |-> "task"] \in Left => ran = {}
    /\ ~isCancelled =>
          /\ \/ [op |-> "task"] \in Left
             \/ ran = {} /\ agenda = << >>
             \/ \A u \in TopSteps : InHand(u)
          /\ \A s \in ran :
                /\ \/ SubsOf(s) \in Left
                   \/ results[s].matched => \A u \in ToSet(Steps[s].subs) : InHand(u)
                /\ \A g \in DOMAIN Steps[s].gates :
                      \/ GateOf(s, g) \in Left
                      \/ Satisfied(Steps[s].gates[g], results[s]) =>
                            \A u \in ToSet(Steps[s].gates[g].subs) : InHand(u)

IInv == TypeOK /\ NestedInv /\ LateInv /\ StopInv /\ DueInv /\ HandInv

(***************************************************************************)
(* Calls.                                                                  *)
(***************************************************************************)
\* The top of a stack a is replaced by items.
LEMMA Pushed ==
    ASSUME NEW S, NEW a \in Seq(S), a # << >>, NEW items \in Seq(S)
    PROVE  LET b == items \o Tail(a)
           IN  /\ b \in Seq(S)
               /\ Len(a) \in Nat \ {0} /\ Len(items) \in Nat
               /\ Len(b) = Len(items) + Len(a) - 1
               /\ \A i \in 1..Len(items) : b[i] = items[i]
               /\ \A i \in 2..Len(a) : b[Len(items) + i - 1] = a[i]
               /\ ToSet(b) = ToSet(items) \cup ToSet(Tail(a))
               /\ ToSet(a) = {a[1]} \cup ToSet(Tail(a))
               /\ \A x : x \in ToSet(Tail(a)) <=> \E i \in 2..Len(a) : x = a[i]
<1> DEFINE T == Tail(a)
           b == items \o T
<1>1. Len(a) \in Nat \ {0} /\ Len(items) \in Nat
  BY EmptySeq, LenProperties
<1>2. T \in Seq(S) /\ Len(T) = Len(a) - 1 /\ \A i \in 1..Len(T) : T[i] = a[i + 1]
  BY HeadTailProperties
<1> HIDE DEF T
<1>3. b \in Seq(S) /\ Len(b) = Len(items) + Len(a) - 1
  BY <1>1, <1>2, ConcatProperties
<1>4. \A i \in 1..Len(items) + Len(T) :
         b[i] = IF i <= Len(items) THEN items[i] ELSE T[i - Len(items)]
  BY <1>2, ConcatProperties
<1> HIDE DEF b
<1>5. \A i \in 1..Len(items) : b[i] = items[i]
  BY <1>1, <1>2, <1>4
<1>6. \A i \in 2..Len(a) : b[Len(items) + i - 1] = a[i]
  <2> TAKE i \in 2..Len(a)
  <2>1. Len(items) + i - 1 \in 1..Len(items) + Len(T) /\ ~(Len(items) + i - 1 <= Len(items))
    BY <1>1, <1>2
  <2>2. i - 1 \in 1..Len(T) /\ Len(items) + i - 1 - Len(items) = i - 1 /\ (i - 1) + 1 = i
    BY <1>1, <1>2
  <2> QED
    BY <1>2, <1>4, <2>1, <2>2
<1>7. DOMAIN a = 1..Len(a) /\ DOMAIN T = 1..Len(T) /\ DOMAIN b = 1..Len(b)
      /\ DOMAIN items = 1..Len(items)
  BY <1>2, <1>3, LenProperties
<1>8. \A x : x \in ToSet(T) <=> \E i \in 2..Len(a) : x = a[i]
  <2> TAKE x
  <2>1. ASSUME NEW i \in 2..Len(a) PROVE a[i] \in ToSet(T)
    <3>1. i - 1 \in 1..Len(T) /\ T[i - 1] = a[i]
      BY <1>1, <1>2
    <3> QED
      BY <1>7, <3>1 DEF ToSet
  <2>2. ASSUME NEW k \in 1..Len(T) PROVE \E i \in 2..Len(a) : T[k] = a[i]
    BY <1>1, <1>2
  <2> QED
    BY <1>7, <2>1, <2>2 DEF ToSet
<1>9. ToSet(a) = {a[1]} \cup ToSet(T)
  <2>1. \A i \in 1..Len(a) : i = 1 \/ i \in 2..Len(a)
    BY <1>1
  <2>2. 1 \in 1..Len(a) /\ \A i \in 2..Len(a) : i \in 1..Len(a)
    BY <1>1
  <2> QED
    BY <1>7, <1>8, <2>1, <2>2 DEF ToSet
<1>10. ToSet(b) = ToSet(items) \cup ToSet(T)
  <2>1. ASSUME NEW k \in 1..Len(b) PROVE b[k] \in ToSet(items) \cup ToSet(T)
    <3>1. CASE k \in 1..Len(items)
      BY <1>5, <1>7, <3>1 DEF ToSet
    <3>2. CASE k \notin 1..Len(items)
      <4>1. k - Len(items) + 1 \in 2..Len(a) /\ Len(items) + (k - Len(items) + 1) - 1 = k
        BY <1>1, <1>3, <3>2
      <4> QED
        BY <1>6, <1>8, <4>1
    <3> QED
      BY <3>1, <3>2
  <2>2. ASSUME NEW k \in 1..Len(items) PROVE items[k] \in ToSet(b)
    BY <1>1, <1>3, <1>5, <1>7 DEF ToSet
  <2>3. ASSUME NEW i \in 2..Len(a) PROVE a[i] \in ToSet(b)
    <3>1. Len(items) + i - 1 \in 1..Len(b)
      BY <1>1, <1>3
    <3> QED
      BY <1>6, <1>7, <3>1 DEF ToSet
  <2>4. \A x \in ToSet(b) : x \in ToSet(items) \cup ToSet(T)
    <3> SUFFICES ASSUME NEW k \in 1..Len(b) PROVE b[k] \in ToSet(items) \cup ToSet(T)
      BY <1>7 DEF ToSet
    <3> QED
      BY <2>1
  <2>5. \A x \in ToSet(items) : x \in ToSet(b)
    <3> SUFFICES ASSUME NEW k \in 1..Len(items) PROVE items[k] \in ToSet(b)
      BY <1>7 DEF ToSet
    <3> QED
      BY <2>2
  <2>6. \A x \in ToSet(T) : x \in ToSet(b)
    BY <1>8, <2>3
  <2> QED
    BY <2>4, <2>5, <2>6
<1> QED
  BY <1>1, <1>3, <1>5, <1>6, <1>8, <1>9, <1>10 DEF b, T

\* What is known of the item on top and of the rest below it.
LEMMA TopFacts ==
    ASSUME NestedInv, agenda # << >>
    PROVE  /\ Top \in Item /\ Fits(Top)
           /\ Left = {Top} \cup Remaining
           /\ \A x \in Remaining : x.op \in Below(Top.op) /\ x \in Item /\ Fits(x)
           /\ Works(Top) => Support(Top.s) \subseteq Remaining
<1>1. agenda \in Seq(Item) /\ Len(agenda) \in Nat \ {0}
      /\ Left = {Top} \cup Remaining
      /\ \A x : x \in Remaining <=> \E i \in 2..Len(agenda) : x = agenda[i]
  BY Pushed, EmptySeq DEF NestedInv, Nested, Left, Remaining, Top
<1>2. 1 \in 1..Len(agenda) /\ \A i \in 2..Len(agenda) : i \in 1..Len(agenda) /\ 1 < i
  BY <1>1
<1>3. Top \in Item /\ Fits(Top)
  BY <1>1, <1>2, ElementOfSeq DEF NestedInv, Nested, Top
<1>4. \A x \in Remaining : x.op \in Below(Top.op) /\ x \in Item /\ Fits(x)
  BY <1>1, <1>2, ElementOfSeq DEF NestedInv, Nested, Top
<1>5. ASSUME Works(Top), NEW y \in Support(Top.s) PROVE y \in Remaining
  <2>1. PICK j \in 1..Len(agenda) : j > 1 /\ agenda[j] = y
    BY <1>2, <1>5 DEF NestedInv, Nested, Top
  <2> QED
    BY <1>1, <2>1
<1> QED
  BY <1>1, <1>3, <1>4, <1>5

\* Without a check nothing may be sent; and below the item on top nothing was checked.
LEMMA Unchecked == \A x : x.op \notin CheckedOps => Pass(x) = 0
BY DEF CheckedOps, Pass

LEMMA PassBelow ==
    ASSUME NestedInv, agenda # << >>
    PROVE  \A x \in Remaining : Pass(x) = 0
<1>1. \A op, o : o \in Below(op) => o \notin CheckedOps
  BY DEF Below, ControlOps, PlainOps, FlowOps, CheckedOps
<1> QED
  BY <1>1, TopFacts, Unchecked

\* Calls that go below what called them keep the agenda nested: what works for a step is
\* called with what looks at its result, or by what worked for that step.
LEMMA CallNests ==
    ASSUME NestedInv, agenda # << >>, NEW items \in Seq(Item), Call(items),
           \A i \in 1..Len(items) :
              /\ Fits(items[i])
              /\ Below(Top.op) \subseteq Below(items[i].op)
              /\ Works(items[i]) =>
                    \/ Works(Top) /\ items[i].s = Top.s
                    \/ \A y \in Support(items[i].s) :
                          \E j \in 1..Len(items) : j > i /\ items[j] = y,
           \A i, j \in 1..Len(items) : i < j => items[j].op \in Below(items[i].op)
    PROVE  NestedInv' /\ Left' = ToSet(items) \cup Remaining
<1> DEFINE b == items \o Tail(agenda)
           n == Len(items)
<1>0. agenda \in Seq(Item) /\ agenda' = b
  BY DEF NestedInv, Nested, Call
<1>1. /\ b \in Seq(Item)
      /\ Len(agenda) \in Nat \ {0} /\ n \in Nat /\ Len(b) = n + Len(agenda) - 1
      /\ \A i \in 1..n : b[i] = items[i]
      /\ \A i \in 2..Len(agenda) : b[n + i - 1] = agenda[i]
      /\ ToSet(b) = ToSet(items) \cup Remaining
      /\ \A x : x \in Remaining <=> \E i \in 2..Len(agenda) : x = agenda[i]
  BY <1>0, Pushed DEF Remaining
<1> HIDE DEF b, n
<1>2. ASSUME NEW k \in 1..Len(b), k \notin 1..n
      PROVE  /\ k - n + 1 \in 2..Len(agenda) /\ k - n + 1 \in 1..Len(agenda)
             /\ b[k] = agenda[k - n + 1] /\ b[k] \in Remaining
  <2>1. k - n + 1 \in 2..Len(agenda) /\ k - n + 1 \in 1..Len(agenda)
        /\ n + (k - n + 1) - 1 = k
    BY <1>1, <1>2
  <2> QED
    BY <1>1, <2>1
<1>3. ASSUME NEW k \in 1..Len(b) PROVE Fits(b[k])
  BY <1>1, <1>2, TopFacts DEF n
<1>4. ASSUME NEW i \in 1..Len(b), NEW j \in 1..Len(b), i < j PROVE b[j].op \in Below(b[i].op)
  <2>1. CASE j \in 1..n
    <3>1. i \in 1..n
      BY <1>1, <1>4, <2>1
    <3> QED
      BY <1>1, <1>4, <2>1, <3>1 DEF n
  <2>2. CASE i \in 1..n /\ j \notin 1..n
    <3>1. b[j] \in Remaining /\ b[i] = items[i]
      BY <1>1, <1>2, <2>2
    <3> QED
      BY <2>2, <3>1, TopFacts DEF n
  <2>3. CASE i \notin 1..n /\ j \notin 1..n
    <3>1. i - n + 1 \in 1..Len(agenda) /\ b[i] = agenda[i - n + 1]
          /\ j - n + 1 \in 1..Len(agenda) /\ b[j] = agenda[j - n + 1]
      BY <1>2, <2>3
    <3>2. i - n + 1 < j - n + 1
      BY <1>1, <1>4
    <3> QED
      BY <3>1, <3>2 DEF NestedInv, Nested
  <2> QED
    BY <2>1, <2>2, <2>3
<1>5. ASSUME NEW y \in Remaining, NEW i \in 1..n PROVE \E j \in 1..Len(b) : j > i /\ b[j] = y
  <2>1. PICK k \in 2..Len(agenda) : y = agenda[k]
    BY <1>1
  <2>2. n + k - 1 \in 1..Len(b) /\ n + k - 1 > i /\ b[n + k - 1] = y
    BY <1>1, <2>1
  <2> QED
    BY <2>2
<1>6. ASSUME NEW i \in 1..Len(b), Works(b[i]), NEW y \in Support(b[i].s)
      PROVE  \E j \in 1..Len(b) : j > i /\ b[j] = y
  <2>1. CASE i \in 1..n
    <3>1. b[i] = items[i] /\ i \in 1..Len(items)
      BY <1>1, <2>1 DEF n
    <3>2. CASE Works(Top) /\ items[i].s = Top.s
      <4>1. y \in Remaining
        BY <1>6, <3>1, <3>2, TopFacts
      <4> QED
        BY <1>5, <2>1, <4>1
    <3>3. CASE \E j \in 1..Len(items) : j > i /\ items[j] = y
      <4>1. PICK j \in 1..n : j > i /\ items[j] = y
        BY <3>3 DEF n
      <4>2. j \in 1..Len(b) /\ b[j] = y
        BY <1>1, <4>1
      <4> QED
        BY <4>1, <4>2
    <3> QED
      BY <1>6, <3>1, <3>2, <3>3
  <2>2. CASE i \notin 1..n
    <3>1. i - n + 1 \in 1..Len(agenda) /\ b[i] = agenda[i - n + 1]
      BY <1>2, <2>2
    <3>2. PICK j \in 1..Len(agenda) : j > i - n + 1 /\ agenda[j] = y
      BY <1>6, <3>1 DEF NestedInv, Nested
    <3>3. i \in Int /\ i > n
      BY <1>1, <2>2
    <3>4. j \in 2..Len(agenda) /\ n + j - 1 \in 1..Len(b) /\ n + j - 1 > i
      BY <1>1, <3>1, <3>2, <3>3
    <3> QED
      BY <1>1, <3>2, <3>4
  <2> QED
    BY <2>1, <2>2
<1> QED
  BY <1>0, <1>1, <1>3, <1>4, <1>6 DEF NestedInv, Nested, Left

\* A call of nothing is a return.
LEMMA ReturnIsCall ==
    ASSUME NestedInv, agenda # << >>, Return
    PROVE  Call(<< >>) /\ << >> \in Seq(Item)
<1>1. agenda \in Seq(Item)
  BY DEF NestedInv, Nested
<1>2. Tail(agenda) \in Seq(Item) /\ << >> \in Seq(Item)
  BY <1>1, HeadTailProperties, EmptySeq
<1> QED
  BY <1>2, ConcatEmptySeq DEF Call, Return

(***************************************************************************)
(* Types.                                                                  *)
(***************************************************************************)
\* What TaskAssumption says of templates, steps and nodes, one fact at a time.
LEMMA Constants ==
    /\ DOMAIN Templates \subseteq Nat
    /\ \A t \in DOMAIN Templates : Templates[t] \in TemplateType
    /\ 0 \notin DOMAIN Steps /\ \A s \in DOMAIN Steps : Steps[s] \in StepType
    /\ \A n \in DOMAIN Nodes : Nodes[n] \in NodeType
    /\ \A n \in DOMAIN Nodes :
          /\ Nodes[n].op \in {"negate", "and", "or"} => Nodes[n].left \in DOMAIN Nodes
          /\ Nodes[n].op \in {"and", "or"} => Nodes[n].right \in DOMAIN Nodes
<1>1. Templates \in Seq(TemplateType) /\ Steps \in Seq(StepType) /\ Nodes \in Seq(NodeType)
  BY TaskAssumption
<1>2. /\ DOMAIN Templates = 1..Len(Templates) /\ Len(Templates) \in Nat
      /\ DOMAIN Steps = 1..Len(Steps) /\ Len(Steps) \in Nat
      /\ DOMAIN Nodes = 1..Len(Nodes) /\ Len(Nodes) \in Nat
  BY <1>1, LenProperties
<1>3. \A n \in DOMAIN Nodes :
          /\ Nodes[n].op \in {"negate", "and", "or"} => Nodes[n].left \in 1..(n - 1)
          /\ Nodes[n].op \in {"and", "or"} => Nodes[n].right \in 1..(n - 1)
  BY TaskAssumption
<1>4. \A n \in DOMAIN Nodes : \A k \in 1..(n - 1) : k \in DOMAIN Nodes
  BY <1>2
<1> QED
  BY <1>1, <1>2, <1>3, <1>4, ElementOfSeq

\* The blocks of a template are numbered from 1.
LEMMA BlockFacts ==
    ASSUME NEW t \in DOMAIN Templates
    PROVE  /\ Templates[t].blocks \in Seq(Block)
           /\ DOMAIN Templates[t].blocks = 1..Len(Templates[t].blocks)
           /\ Len(Templates[t].blocks) \in Nat
           /\ Templates[t].flow \in {0} \cup DOMAIN Nodes
           /\ Templates[t].workflow \in Seq(DOMAIN Steps)
<1>1. Templates[t] \in TemplateType
  BY Constants
<1>2. Templates[t].blocks \in Seq(Block) /\ Templates[t].flow \in {0} \cup DOMAIN Nodes
      /\ Templates[t].workflow \in Seq(DOMAIN Steps)
  BY <1>1 DEF TemplateType
<1> QED
  BY <1>2, LenProperties

\* The requests of a block are numbered from 1.
LEMMA RequestFacts ==
    ASSUME NEW t \in DOMAIN Templates, NEW b \in DOMAIN Templates[t].blocks
    PROVE  LET block == Templates[t].blocks[b]
           IN  /\ block.name \in Names \cup {""} /\ block.gives \subseteq Names
               /\ block.proto \in ToSet(Protocols)
               /\ block.requests \in Seq(Request)
               /\ DOMAIN block.requests = 1..Len(block.requests)
               /\ Len(block.requests) \in Nat
               /\ \A r \in DOMAIN block.requests : block.requests[r].race \in Nat \ {0}
<1> DEFINE block == Templates[t].blocks[b]
<1>1. block \in Block
  BY BlockFacts, ElementOfSeq
<1> HIDE DEF block
<1>2. block.name \in Names \cup {""} /\ block.gives \subseteq Names
      /\ block.requests \in Seq(Request) /\ block.proto \in ToSet(Protocols)
  BY <1>1 DEF Block
<1>3. DOMAIN block.requests = 1..Len(block.requests) /\ Len(block.requests) \in Nat
      /\ \A r \in DOMAIN block.requests : block.requests[r] \in Request
  BY <1>2, LenProperties, ElementOfSeq
<1>4. \A r \in DOMAIN block.requests : block.requests[r].race \in Nat \ {0}
  BY <1>3 DEF Request
<1> QED
  BY <1>2, <1>3, <1>4 DEF block

\* The steps below a step, and below its gates, are steps.
LEMMA StepFacts ==
    ASSUME NEW s \in DOMAIN Steps
    PROVE  /\ Steps[s].subs \in Seq(DOMAIN Steps)
           /\ DOMAIN Steps[s].gates = 1..Len(Steps[s].gates) /\ Len(Steps[s].gates) \in Nat
           /\ \A g \in DOMAIN Steps[s].gates : Steps[s].gates[g].subs \in Seq(DOMAIN Steps)
<1> DEFINE Gates == [names : SUBSET Names, all : BOOLEAN, subs : Seq(DOMAIN Steps)]
<1>1. Steps[s] \in StepType
  BY Constants
<1>2. Steps[s].subs \in Seq(DOMAIN Steps) /\ Steps[s].gates \in Seq(Gates)
  BY <1>1 DEF StepType
<1>3. DOMAIN Steps[s].gates = 1..Len(Steps[s].gates) /\ Len(Steps[s].gates) \in Nat
      /\ \A g \in DOMAIN Steps[s].gates : Steps[s].gates[g] \in Gates
  <2> HIDE DEF Gates
  <2> QED
    BY <1>2, LenProperties, ElementOfSeq
<1> QED
  BY <1>2, <1>3

\* What an item is, by its op.
LEMMA ItemFacts ==
    ASSUME NEW x \in Item
    PROVE  /\ x.op \in {"task"} \cup ControlOps \cup PlainOps \cup FlowOps
           /\ x.op = "task" => x = [op |-> "task"]
           /\ x.op \in ControlOps => x.s \in DOMAIN Steps
           /\ x.op \in PlainOps \cup FlowOps => x.t \in DOMAIN Templates /\ x.s \in InStep
           /\ x.op = "subs" => x = SubsOf(x.s)
           /\ x.op = "gate" => x = GateOf(x.s, x.g)
           /\ x.op = "template" => x \in TemplateItem
           /\ x.op = "block" => x \in BlockItem
           /\ x.op \in {"probe", "http", "armed", "answers"} => x \in RequestItem
           /\ x.op \in {"eval", "negate", "and", "or"} => x \in NodeItem
           /\ x.op \in {"flowhttp", "flowsend"} => x \in FlowHttpItem
<1> USE DEF ControlOps, PlainOps, FlowOps
<1>1. CASE x \in [op : {"task"}]
  BY <1>1
<1>2. CASE x \in StepItem
  BY <1>2 DEF StepItem, SubsOf
<1>3. CASE x \in GateItem
  BY <1>3 DEF GateItem, GateOf
<1>4. CASE x \in TemplateItem
  <2>1. x.op = "template" /\ x.s \in DOMAIN Steps
    BY <1>4 DEF TemplateItem
  <2> QED
    BY <1>4, <2>1
<1>5. CASE x \in BlockItem
  <2>1. x.op = "block" /\ x.t \in DOMAIN Templates /\ x.s \in InStep
    BY <1>5 DEF BlockItem
  <2> QED
    BY <1>5, <2>1
<1>6. CASE x \in RequestItem
  <2>1. x.op \in {"probe", "http", "armed", "answers"} /\ x.t \in DOMAIN Templates
        /\ x.s \in InStep
    BY <1>6 DEF RequestItem
  <2> QED
    BY <1>6, <2>1
<1>7. CASE x \in NodeItem
  <2>1. x.op \in {"eval", "negate", "and", "or"} /\ x.t \in DOMAIN Templates /\ x.s \in InStep
    BY <1>7 DEF NodeItem
  <2> QED
    BY <1>7, <2>1
<1>8. CASE x \in VerdictItem
  <2>1. x.op = "verdict" /\ x.t \in DOMAIN Templates /\ x.s \in InStep
    BY <1>8 DEF VerdictItem
  <2> QED
    BY <2>1
<1>9. CASE x \in FlowHttpItem
  <2>1. x.op \in {"flowhttp", "flowsend"} /\ x.t \in DOMAIN Templates /\ x.s \in InStep
    BY <1>9 DEF FlowHttpItem
  <2> QED
    BY <1>9, <2>1
<1> QED
  BY <1>1, <1>2, <1>3, <1>4, <1>5, <1>6, <1>7, <1>8, <1>9 DEF Item

\* What the item on top may send is a number.
LEMMA TopPass ==
    ASSUME NestedInv, agenda # << >>
    PROVE  Pass(Top) \in Nat
<1>1. Top \in Item /\ Fits(Top)
  BY TopFacts
<1>2. CASE Top.op = "armed"
  <2>1. Top.t \in DOMAIN Templates
    BY <1>1, <1>2, ItemFacts DEF PlainOps
  <2>2. Top.b \in DOMAIN Templates[Top.t].blocks
        /\ Top.r \in DOMAIN Templates[Top.t].blocks[Top.b].requests
    BY <1>1, <1>2 DEF Fits, PlainOps
  <2>3. Templates[Top.t].blocks[Top.b].requests[Top.r].race \in Nat
    BY <2>1, <2>2, RequestFacts
  <2> QED
    BY <1>2, <2>3 DEF Pass
<1>3. CASE Top.op # "armed"
  BY <1>3 DEF Pass
<1> QED
  BY <1>2, <1>3

(***************************************************************************)
(* A step of a template that runs.                                         *)
(***************************************************************************)
Result == [matched : BOOLEAN, names : SUBSET Names]

\* What a template captures only adds to the result of its step.
Grown ==
    \/ results' = results
    \/ /\ Top.s # 0
       /\ \E r \in Result :
             /\ results[Top.s].matched => r.matched
             /\ results[Top.s].names \subseteq r.names
             /\ results' = [results EXCEPT ![Top.s] = r]

\* The variables that only have a type to keep.
DataTypes ==
    /\ {spmStop, value} \subseteq BOOLEAN
    /\ reported \subseteq ToSet(Protocols)
    /\ extracted \subseteq Names
    /\ findings \in Seq([t : DOMAIN Templates, b : Nat])
    /\ \A i \in DOMAIN findings : findings[i].b <= Len(Templates[findings[i].t].blocks)
    /\ {sends, lateSends, lateLeaves, allowed} \subseteq Nat /\ lateSends <= sends
    /\ leaves \in [DOMAIN Nodes -> {"none", "true", "false"}]

\* What a step sends after Ctrl-C: what had been checked, or a block that looks at no flag.
LateGrows ==
    \/ UNCHANGED late
    \/ /\ isCancelled
       /\ lateSends' <= lateSends + Pass(Top)
       /\ UNCHANGED <<lateLeaves, allowed>>
    \/ /\ isCancelled
       /\ lateSends' = lateSends + 1 /\ lateLeaves' = lateLeaves + 1
       /\ UNCHANGED allowed

\* The item on top belongs to a template that runs: it is replaced by items of the same
\* template; what is sent late was checked before; a report ends the template.
Working(items) ==
    /\ agenda # << >> /\ Top.op \in PlainOps \cup FlowOps
    /\ items \in Seq(Item) /\ Call(items)
    /\ \A i \in 1..Len(items) :
          /\ items[i].op \in PlainOps \cup FlowOps
          /\ items[i].s = Top.s /\ Fits(items[i])
          /\ Below(Top.op) \subseteq Below(items[i].op)
          /\ isCancelled => Pass(items[i]) = 0
    /\ \A i, j \in 1..Len(items) : i < j => items[j].op \in Below(items[i].op)
    /\ UNCHANGED <<settings, isCancelled, ran>>
    /\ Grown
    /\ LateGrows
    /\ stopAtFirstMatch /\ OthersReported' =>
          \/ Top.op \in PlainOps /\ items = << >> /\ spmStop'
          \/ Top.op \in FlowOps /\ OthersReported

\* More is open when more was captured.
LEMMA OpenedGrows ==
    ASSUME NEW s \in DOMAIN Steps, NEW q, NEW r, q.matched => r.matched,
           q.names \subseteq r.names
    PROVE  Opened(s, q) \subseteq Opened(s, r)
<1>1. \A h : Satisfied(h, q) => Satisfied(h, r)
  BY DEF Satisfied
<1> QED
  BY <1>1 DEF Opened

\* Results only grow, and only while the calls that will look at them are left.
LEMMA GrownFacts ==
    ASSUME TypeOK, Grown, agenda # << >>, NestedInv, Top.op \in PlainOps \cup FlowOps
    PROVE  /\ results' \in [DOMAIN Steps -> Result]
           /\ \A s \in DOMAIN Steps : Opened(s, results[s]) \subseteq Opened(s, results'[s])
           /\ \A s \in DOMAIN Steps :
                 results'[s] = results[s] \/ (s = Top.s /\ Support(s) \subseteq Remaining)
<1>1. Top \in Item /\ Top.s \in InStep /\ results \in [DOMAIN Steps -> Result]
  BY TopFacts, ItemFacts DEF TypeOK, Result
<1>2. CASE results' = results
  BY <1>1, <1>2
<1>3. CASE results' # results
  <2>1. PICK r \in Result : /\ results[Top.s].matched => r.matched
                            /\ results[Top.s].names \subseteq r.names
                            /\ results' = [results EXCEPT ![Top.s] = r]
    BY <1>3 DEF Grown
  <2>2. Top.s # 0 /\ Top.s \in DOMAIN Steps
    BY <1>1, <1>3 DEF Grown, InStep
  <2>3. Support(Top.s) \subseteq Remaining
    BY <2>2, TopFacts DEF Works
  <2>4. results' \in [DOMAIN Steps -> Result]
        /\ \A s \in DOMAIN Steps : results'[s] = IF s = Top.s THEN r ELSE results[s]
    BY <1>1, <2>1, <2>2
  <2>5. Opened(Top.s, results[Top.s]) \subseteq Opened(Top.s, r)
    BY <2>1, <2>2, OpenedGrows
  <2> QED
    BY <2>2, <2>3, <2>4, <2>5
<1> QED
  BY <1>2, <1>3

\* Where the calls of a template stand in the agenda.
LEMMA WorkingLeft ==
    ASSUME IInv, NEW items, Working(items)
    PROVE  /\ NestedInv' /\ Left' = ToSet(items) \cup Remaining
           /\ \A x \in ToSet(items) : /\ x.op \in PlainOps \cup FlowOps
                                      /\ isCancelled => Pass(x) = 0
           /\ \A x : x.op \in ControlOps \cup {"task"} => (x \in Left <=> x \in Left')
<1>1. NestedInv /\ agenda # << >> /\ items \in Seq(Item) /\ Call(items)
  BY DEF IInv, Working
<1>2. DOMAIN items = 1..Len(items)
  BY <1>1, LenProperties
<1>3. \A i \in 1..Len(items) : Works(items[i]) => Works(Top) /\ items[i].s = Top.s
  BY DEF Working, Works
<1>4. NestedInv' /\ Left' = ToSet(items) \cup Remaining
  BY <1>1, <1>3, CallNests DEF Working
<1>5. \A x \in ToSet(items) : /\ x.op \in PlainOps \cup FlowOps
                              /\ isCancelled => Pass(x) = 0
  BY <1>2 DEF Working, ToSet
<1>6. Left = {Top} \cup Remaining /\ Top.op \in PlainOps \cup FlowOps
  BY <1>1, TopFacts DEF Working
<1>7. \A op \in PlainOps \cup FlowOps : op \notin ControlOps \cup {"task"}
  BY DEF PlainOps, FlowOps, ControlOps
<1> QED
  BY <1>4, <1>5, <1>6, <1>7

\* An action that works on a running template keeps the invariant.
LEMMA WorkingKeeps ==
    ASSUME IInv, NEW items, Working(items), DataTypes'
    PROVE  IInv'
<1> USE DEF PlainOps, FlowOps, ControlOps, CheckedOps
<1>1. TypeOK /\ NestedInv /\ LateInv /\ StopInv /\ DueInv /\ HandInv /\ agenda # << >>
      /\ Top.op \in PlainOps \cup FlowOps
  BY DEF IInv, Working
<1>2. /\ NestedInv' /\ Left' = ToSet(items) \cup Remaining
      /\ \A x \in ToSet(items) : /\ x.op \in PlainOps \cup FlowOps
                                 /\ isCancelled => Pass(x) = 0
      /\ \A x : x.op \in ControlOps \cup {"task"} => (x \in Left <=> x \in Left')
  BY WorkingLeft
<1>3. /\ Left = {Top} \cup Remaining /\ Top \in Item /\ Fits(Top)
      /\ \A x \in Remaining : x.op \in Below(Top.op)
  BY <1>1, TopFacts
<1>4. UNCHANGED <<task, stopAtFirstMatch, isCancelled, ran>> /\ Grown
  BY DEF Working, settings
<1>5. /\ results' \in [DOMAIN Steps -> Result]
      /\ \A s \in DOMAIN Steps : Opened(s, results[s]) \subseteq Opened(s, results'[s])
      /\ \A s \in DOMAIN Steps :
            results'[s] = results[s] \/ (s = Top.s /\ Support(s) \subseteq Remaining)
  BY <1>1, <1>4, GrownFacts
<1>6. TypeOK'
  <2>1. agenda' \in Seq(Item)
    BY <1>2 DEF NestedInv, Nested
  <2>2. {stopAtFirstMatch, isCancelled}' \subseteq BOOLEAN /\ task' \in DOMAIN Templates
        /\ ran' \subseteq DOMAIN Steps
    BY <1>1, <1>4 DEF TypeOK
  <2> QED
    BY <1>5, <2>1, <2>2 DEF TypeOK, DataTypes, Result
<1>7. LateInv'
  <2>1. isCancelled' = isCancelled /\ LateGrows
    BY <1>4 DEF Working
  <2>2. CASE ~isCancelled
    BY <1>1, <2>1, <2>2 DEF LateInv, LateGrows, late
  <2>3. CASE isCancelled
    <3>1. lateSends <= allowed + lateLeaves /\ lateSends + Pass(Top) <= allowed + lateLeaves
      BY <1>1, <1>3, <2>3 DEF LateInv, CancelStopsTask
    <3>2. {lateSends, lateLeaves, allowed} \subseteq Int /\ {lateSends, lateLeaves, allowed}' \subseteq Int
      BY <1>1 DEF TypeOK, DataTypes
    <3>3. Pass(Top) \in Int
      BY <1>1, TopPass
    <3>4. lateSends' <= allowed' + lateLeaves'
      BY <2>1, <3>1, <3>2, <3>3 DEF LateGrows, late
    <3>5. \A x \in Left' : Pass(x) = 0
      BY <1>1, <1>2, <2>3, PassBelow
    <3>6. \A x \in Left' : Pass(x)' = 0
      BY <3>5 DEF Pass
    <3> QED
      BY <2>1, <2>3, <3>2, <3>4, <3>6 DEF LateInv, CancelStopsTask
  <2> QED
    BY <2>2, <2>3
<1>8. StopInv'
  <2> SUFFICES ASSUME stopAtFirstMatch, OthersReported'
               PROVE  spmStop' /\ \A x \in Left' : x.op \in ControlOps \cup {"block"}
    BY <1>4 DEF StopInv
  <2>1. CASE Top.op \in PlainOps /\ items = << >> /\ spmStop'
    BY <1>2, <1>3, <2>1 DEF Below, ToSet
  <2>2. CASE Top.op \in FlowOps /\ OthersReported
    BY <1>1, <1>3, <2>2 DEF StopInv
  <2> QED
    BY <2>1, <2>2 DEF Working
<1>9. TopSteps' = TopSteps /\ \A u : Due(u) => Due(u)'
  <2>1. ran \subseteq DOMAIN Steps
    BY <1>1 DEF TypeOK
  <2> QED
    BY <1>4, <1>5, <2>1 DEF TopSteps, Due
<1>10. DueInv'
  BY <1>1, <1>2, <1>4, <1>9 DEF DueInv
<1>11. HandInv'
  <2>1. \A u : InHand(u) => InHand(u)'
    BY <1>2, <1>4 DEF InHand
  <2>2. [op |-> "task"] \notin Left /\ [op |-> "task"] \notin Left'
    <3>1. [op |-> "task"] \notin Left
      BY <1>1, <1>3 DEF Below
    <3> QED
      BY <1>2, <3>1
  <2>3. ASSUME ~isCancelled PROVE \A u \in TopSteps' : InHand(u)'
    BY <1>1, <1>9, <2>1, <2>2, <2>3 DEF HandInv
  <2>4. ASSUME ~isCancelled, NEW s \in ran
        PROVE  \/ SubsOf(s) \in Left'
               \/ results'[s].matched => \A u \in ToSet(Steps[s].subs) : InHand(u)'
    <3>1. s \in DOMAIN Steps
      BY <1>1, <2>4 DEF TypeOK
    <3>2. CASE results'[s] = results[s]
      BY <1>1, <1>2, <2>1, <2>4, <3>2 DEF HandInv, SubsOf
    <3>3. CASE Support(s) \subseteq Remaining
      BY <1>2, <3>3 DEF Support
    <3> QED
      BY <1>5, <3>1, <3>2, <3>3
  <2>5. ASSUME ~isCancelled, NEW s \in ran, NEW g \in DOMAIN Steps[s].gates
        PROVE  \/ GateOf(s, g) \in Left'
               \/ Satisfied(Steps[s].gates[g], results'[s]) =>
                     \A u \in ToSet(Steps[s].gates[g].subs) : InHand(u)'
    <3>1. s \in DOMAIN Steps
      BY <1>1, <2>5 DEF TypeOK
    <3>2. CASE results'[s] = results[s]
      BY <1>1, <1>2, <2>1, <2>5, <3>2 DEF HandInv, GateOf
    <3>3. CASE Support(s) \subseteq Remaining
      BY <1>2, <2>5, <3>3 DEF Support
    <3> QED
      BY <1>5, <3>1, <3>2, <3>3
  <2> QED
    BY <1>4, <2>2, <2>3, <2>4, <2>5 DEF HandInv
<1> QED
  BY <1>2, <1>6, <1>7, <1>8, <1>10, <1>11 DEF IInv

\* The item on top returns.
LEMMA WorkReturns ==
    ASSUME IInv, agenda # << >>, Top.op \in PlainOps \cup FlowOps, Return,
           UNCHANGED <<settings, isCancelled, ran>>, Grown,
           LateGrows,
           stopAtFirstMatch /\ OthersReported' =>
              (Top.op \in PlainOps /\ spmStop') \/ (Top.op \in FlowOps /\ OthersReported),
           DataTypes'
    PROVE  IInv'
<1>1. Call(<< >>) /\ << >> \in Seq(Item) /\ Len(<< >>) = 0
  BY ReturnIsCall, EmptySeq DEF IInv
<1>2. Working(<< >>)
  BY <1>1 DEF Working
<1> QED
  BY <1>2, WorkingKeeps

\* The item on top is replaced by one item of its template.
LEMMA WorkReplaces ==
    ASSUME IInv, agenda # << >>, Top.op \in PlainOps \cup FlowOps,
           NEW x \in Item, Fits(x), x.op \in PlainOps \cup FlowOps, x.s = Top.s,
           Below(Top.op) \subseteq Below(x.op), isCancelled => Pass(x) = 0,
           Call(<< x >>),
           UNCHANGED <<settings, isCancelled, ran>>, Grown,
           LateGrows,
           stopAtFirstMatch /\ OthersReported' => Top.op \in FlowOps /\ OthersReported,
           DataTypes'
    PROVE  IInv'
<1>1. << x >> \in Seq(Item) /\ Len(<< x >>) = 1 /\ << x >>[1] = x
  OBVIOUS
<1>2. Working(<< x >>)
  BY <1>1 DEF Working
<1> QED
  BY <1>2, WorkingKeeps

\* The types of the data are part of the invariant.
LEMMA DataKept == ASSUME IInv PROVE DataTypes
BY DEF IInv, TypeOK, DataTypes

\* What a captured match and a report do.
LEMMA CaptureFacts ==
    ASSUME IInv, agenda # << >>, Top.op \in PlainOps, NEW matched \in BOOLEAN,
           NEW got \in SUBSET Names, Capture(matched, got)
    PROVE  Grown
<1>1. Top.t \in DOMAIN Templates /\ Top.s \in InStep /\ Top.b \in DOMAIN Templates[Top.t].blocks
  <2>1. Top \in Item /\ Fits(Top)
    BY TopFacts DEF IInv
  <2> QED
    BY <2>1, ItemFacts DEF Fits
<1>2. BlockAt.name \in Names \cup {""}
  BY <1>1, RequestFacts DEF BlockAt
<1>3. results \in [DOMAIN Steps -> Result]
  BY DEF IInv, TypeOK, Result
<1>4. CASE Top.s # 0
  <2> DEFINE q == results[Top.s]
             r == [matched |-> q.matched \/ matched,
                   names |-> q.names \cup got \cup (IF matched THEN {BlockAt.name} \ {""} ELSE {})]
  <2>1. q \in Result
    BY <1>1, <1>3, <1>4 DEF InStep
  <2>2. results' = [results EXCEPT ![Top.s] = r]
    BY <1>4 DEF Capture
  <2>3. r.names = q.names \cup got \cup (IF matched THEN {BlockAt.name} \ {""} ELSE {})
        /\ r.matched = (q.matched \/ matched)
    OBVIOUS
  <2>4. r.names \subseteq Names
    BY <1>2, <2>1, <2>3 DEF Result
  <2>5. (q.matched \/ matched) \in BOOLEAN
    BY <2>1 DEF Result
  <2>6. r \in Result
    BY <2>3, <2>4, <2>5 DEF Result
  <2> QED
    BY <1>4, <2>2, <2>3, <2>6 DEF Grown
<1>5. CASE Top.s = 0
  BY <1>5 DEF Capture, Grown
<1> QED
  BY <1>4, <1>5

\* A finding that is appended is of a block the template has.
LEMMA AppendTypes ==
    ASSUME IInv, NEW t \in DOMAIN Templates, NEW b \in Nat, b <= Len(Templates[t].blocks),
           findings' = Append(findings, [t |-> t, b |-> b])
    PROVE  /\ findings' \in Seq([t : DOMAIN Templates, b : Nat])
           /\ \A i \in DOMAIN findings' :
                 findings'[i].b <= Len(Templates[findings'[i].t].blocks)
<1> DEFINE R == [t : DOMAIN Templates, b : Nat]
           e == [t |-> t, b |-> b]
<1>1. e \in R /\ e.t = t /\ e.b = b
  OBVIOUS
<1>2. findings \in Seq(R)
      /\ \A i \in DOMAIN findings : findings[i].b <= Len(Templates[findings[i].t].blocks)
  BY DEF IInv, TypeOK
<1> HIDE DEF R, e
<1>3. /\ findings' \in Seq(R) /\ Len(findings') = Len(findings) + 1
      /\ \A i \in 1..Len(findings) : findings'[i] = findings[i]
      /\ findings'[Len(findings) + 1] = e
  BY <1>1, <1>2, AppendProperties DEF e
<1>4. DOMAIN findings = 1..Len(findings) /\ DOMAIN findings' = 1..Len(findings')
      /\ Len(findings) \in Nat
  BY <1>2, <1>3, LenProperties
<1>5. ASSUME NEW i \in DOMAIN findings'
      PROVE  findings'[i].b <= Len(Templates[findings'[i].t].blocks)
  <2>1. CASE i \in 1..Len(findings)
    BY <1>2, <1>3, <1>4, <2>1
  <2>2. CASE i = Len(findings) + 1
    BY <1>1, <1>3, <2>2
  <2> QED
    BY <1>3, <1>4, <2>1, <2>2
<1> QED
  BY <1>3, <1>5 DEF R

\* What a verdict on an answer makes of the findings.
LEMMA ReportFacts ==
    ASSUME IInv, agenda # << >>, Top.op \in PlainOps, NEW reports \in BOOLEAN, Report(reports)
    PROVE  /\ findings' \in Seq([t : DOMAIN Templates, b : Nat])
           /\ \A i \in DOMAIN findings' :
                 findings'[i].b <= Len(Templates[findings'[i].t].blocks)
<1>1. Top.t \in DOMAIN Templates /\ Top.b \in DOMAIN Templates[Top.t].blocks
  <2>1. Top \in Item /\ Fits(Top)
    BY TopFacts DEF IInv
  <2> QED
    BY <2>1, ItemFacts DEF Fits
<1>2. Top.b \in Nat /\ Top.b <= Len(Templates[Top.t].blocks)
  BY <1>1, BlockFacts
<1>3. CASE reports
  BY <1>1, <1>2, <1>3, AppendTypes DEF Report
<1>4. CASE ~reports
  BY <1>4 DEF Report, IInv, TypeOK
<1> QED
  BY <1>3, <1>4

\* Of a template that has reported, only blocks to be passed over are left.
LEMMA Unreported ==
    ASSUME IInv, agenda # << >>, Top.op \notin ControlOps \cup {"block"}
    PROVE  ~(stopAtFirstMatch /\ OthersReported)
BY TopFacts DEF IInv, StopInv

(***************************************************************************)
(* Blocks.                                                                 *)
(***************************************************************************)
\* A block is begun, or skipped.
LEMMA EnterBlockStep ==
    ASSUME IInv, EnterBlock
    PROVE  IInv'
<1>1. agenda # << >> /\ Top.op = "block" /\ Top.op \in PlainOps
  BY DEF EnterBlock, At, Top, PlainOps
<1>2. UNCHANGED <<settings, isCancelled, ran>> /\ Grown /\ LateGrows
      /\ OthersReported' = OthersReported /\ spmStop' = spmStop /\ extracted' = extracted
  BY DEF EnterBlock, Grown, LateGrows, OthersReported, history
<1>3. DataTypes'
  BY DataKept DEF DataTypes, EnterBlock, history, late
<1>4. stopAtFirstMatch /\ OthersReported => spmStop
  BY DEF IInv, StopInv
<1>5. CASE Return
  BY <1>1, <1>2, <1>3, <1>4, <1>5, WorkReturns
<1>6. CASE ~Return
  <2> DEFINE op == IF BlockAt.proto = "http" THEN "http" ELSE "probe"
             x == [op |-> op, t |-> Top.t, b |-> Top.b, s |-> Top.s, r |-> 1, left |-> 0,
                   bound |-> extracted]
  <2>1. Call(<< x >>) /\ ~spmStop /\ ~isCancelled
    BY <1>6 DEF EnterBlock
  <2>2. Top \in Item /\ Fits(Top) /\ extracted \subseteq Names
    BY <1>1, TopFacts DEF IInv, TypeOK
  <2>3. Top \in BlockItem /\ Top.b \in DOMAIN Templates[Top.t].blocks
    BY <1>1, <2>2, ItemFacts DEF Fits
  <2>4. op \in {"http", "probe"}
    OBVIOUS
  <2> HIDE DEF op
  <2>5. x \in RequestItem /\ x.s = Top.s /\ x.op = op /\ x.r = 1 /\ x.b = Top.b /\ x.t = Top.t
    BY <2>2, <2>3, <2>4 DEF RequestItem, BlockItem
  <2> HIDE DEF x
  <2>6. x \in Item /\ Fits(x)
    BY <2>3, <2>4, <2>5 DEF Item, Fits, PlainOps, CheckedOps
  <2>7. Below(Top.op) \subseteq Below(x.op) /\ x.op \in PlainOps
    BY <1>1, <2>4, <2>5 DEF Below, PlainOps, ControlOps, FlowOps
  <2> QED
    BY <1>1, <1>2, <1>3, <1>4, <2>1, <2>5, <2>6, <2>7, WorkReplaces
<1> QED
  BY <1>5, <1>6

\* What is known of the request of a block that is under way.
LEMMA RequestTop ==
    ASSUME IInv, agenda # << >>, Top.op \in {"probe", "http", "armed", "answers"}
    PROVE  /\ Top \in RequestItem /\ Top.op \in PlainOps
           /\ Top.t \in DOMAIN Templates /\ Top.b \in DOMAIN Templates[Top.t].blocks
           /\ Top.op \in {"armed", "answers"} => Top.r \in DOMAIN BlockAt.requests
           /\ Top.op \in {"probe", "http"} => Top.r > 0
           /\ BlockAt.gives \subseteq Names /\ BlockAt.proto \in ToSet(Protocols)
           /\ BlockAt.requests \in Seq(Request) /\ Len(BlockAt.requests) \in Nat
           /\ DOMAIN BlockAt.requests = 1..Len(BlockAt.requests)
           /\ \A r \in DOMAIN BlockAt.requests : BlockAt.requests[r].race \in Nat \ {0}
           /\ ~(stopAtFirstMatch /\ OthersReported)
<1>1. Top \in Item /\ Fits(Top) /\ Top.op \in PlainOps
  BY TopFacts DEF IInv, PlainOps
<1>2. Top \in RequestItem /\ Top.t \in DOMAIN Templates
  BY <1>1, ItemFacts
<1>3. Top.b \in DOMAIN Templates[Top.t].blocks
  BY <1>1 DEF Fits
<1>4. /\ Top.op \in {"armed", "answers"} => Top.r \in DOMAIN BlockAt.requests
      /\ Top.op \in {"probe", "http"} => Top.r > 0
  BY <1>1 DEF Fits, BlockAt
<1>5. Top.op \notin ControlOps \cup {"block"}
  BY DEF ControlOps
<1> QED
  BY <1>1, <1>2, <1>3, <1>4, <1>5, RequestFacts, Unreported DEF BlockAt

\* The item of a request goes on to another request, or to what becomes of this one.
LEMMA RequestGoesOn ==
    ASSUME IInv, agenda # << >>, Top.op \in {"probe", "http", "armed", "answers"},
           NEW x \in RequestItem, x.t = Top.t, x.b = Top.b, x.r > 0,
           x.op \in {"armed", "answers"} => x.r \in DOMAIN BlockAt.requests
    PROVE  /\ x \in Item /\ Fits(x)
           /\ x.op \in PlainOps \cup FlowOps /\ Below(Top.op) \subseteq Below(x.op)
<1>1. Top.b \in DOMAIN Templates[Top.t].blocks
  BY RequestTop
<1>2. x.op \in {"probe", "http", "armed", "answers"}
  BY DEF RequestItem
<1>3. x \in Item
  BY DEF Item
<1>4. Fits(x)
  BY <1>1, <1>2 DEF Fits, PlainOps, CheckedOps, BlockAt
<1>5. x.op \in PlainOps \cup FlowOps /\ Below(Top.op) \subseteq Below(x.op)
  BY <1>2 DEF Below, PlainOps, ControlOps, FlowOps
<1> QED
  BY <1>3, <1>4, <1>5

\* What was checked is sent.
LEMMA SentFacts ==
    ASSUME IInv, agenda # << >>, NEW n \in Nat, n <= Pass(Top), Sent(n)
    PROVE  /\ LateGrows
           /\ {sends', lateSends', lateLeaves', allowed'} \subseteq Nat /\ lateSends' <= sends'
<1>1. {sends, lateSends, lateLeaves, allowed} \subseteq Nat /\ lateSends <= sends
  BY DEF IInv, TypeOK
<1>2. sends' = sends + n /\ UNCHANGED <<lateLeaves, allowed>>
  BY DEF Sent
<1>3. CASE isCancelled
  <2>1. lateSends' = lateSends + n
    BY <1>3 DEF Sent
  <2>2. lateSends' \in Nat /\ sends' \in Nat /\ lateSends' <= sends'
    BY <1>1, <1>2, <2>1
  <2>3. Pass(Top) \in Nat
    BY TopPass DEF IInv
  <2>4. lateSends' <= lateSends + Pass(Top)
    BY <1>1, <2>1, <2>3
  <2> QED
    BY <1>1, <1>2, <1>3, <2>2, <2>4 DEF LateGrows
<1>4. CASE ~isCancelled
  <2>1. lateSends' = lateSends
    BY <1>1, <1>4 DEF Sent
  <2> QED
    BY <1>1, <1>2, <2>1 DEF LateGrows, late
<1> QED
  BY <1>3, <1>4

\* What the history keeps of a report.
LEMMA ReportingFacts ==
    ASSUME IInv, agenda # << >>, Top.op \in {"probe", "http", "armed", "answers"},
           NEW reports \in BOOLEAN, Reporting(reports)
    PROVE  /\ reported' \subseteq ToSet(Protocols)
           /\ stopAtFirstMatch /\ OthersReported' => reports /\ BlockAt.proto # "javascript"
<1>1. reported \subseteq ToSet(Protocols) /\ BlockAt.proto \in ToSet(Protocols)
      /\ ~(stopAtFirstMatch /\ OthersReported)
  BY RequestTop DEF IInv, TypeOK
<1>2. CASE reports
  BY <1>1, <1>2 DEF Reporting, OthersReported
<1>3. CASE ~reports
  BY <1>1, <1>3 DEF Reporting, OthersReported
<1> QED
  BY <1>2, <1>3

\* A probe that is no file may be sent.
LEMMA ProbePass ==
    ASSUME Top.op = "probe", BlockAt.proto # "file"
    PROVE  Pass(Top) = 1
BY DEF Pass, BlockAt

\* A request without an answer.
LEMMA NoAnswerStep ==
    ASSUME IInv, At("probe"), BlockAt.proto # "file", NoAnswer, UnlessProbe
    PROVE  IInv'
<1>1. agenda # << >> /\ Top.op = "probe" /\ Top.op \in PlainOps
  BY DEF At, Top, PlainOps
<1>2. ~(stopAtFirstMatch /\ OthersReported)
  BY <1>1, RequestTop
<1>3. UNCHANGED <<settings, isCancelled, ran>> /\ Grown /\ Return
      /\ OthersReported' = OthersReported /\ Sent(1)
  BY DEF NoAnswer, UnlessProbe, Grown, OthersReported
<1>4. Pass(Top) = 1 /\ 1 \in Nat /\ 1 <= 1
  BY <1>1, ProbePass
<1>5. LateGrows
      /\ {sends', lateSends', lateLeaves', allowed'} \subseteq Nat /\ lateSends' <= sends'
  BY <1>1, <1>3, <1>4, SentFacts
<1>6. DataTypes'
  BY <1>5, DataKept DEF DataTypes, NoAnswer, UnlessProbe
<1> QED
  BY <1>1, <1>2, <1>3, <1>5, <1>6, WorkReturns

\* An answer is judged, reported if it matches, and may stop the template.
LEMMA AnsweredStep ==
    ASSUME IInv, At("probe"), BlockAt.proto # "file", UnlessProbe, NEW hit \in BOOLEAN, NEW got \in SUBSET Names,
           Answered(hit, got)
    PROVE  IInv'
<1>1. agenda # << >> /\ Top.op = "probe" /\ Top.op \in PlainOps
  BY DEF At, Top, PlainOps
<1>2. ~(stopAtFirstMatch /\ OthersReported)
  BY <1>1, RequestTop
<1>p. Pass(Top) = 1 /\ 1 \in Nat /\ 1 <= 1
  BY <1>1, ProbePass
<1>s. LateGrows
      /\ {sends', lateSends', lateLeaves', allowed'} \subseteq Nat /\ lateSends' <= sends'
  BY <1>1, <1>p, SentFacts DEF Answered
<1>t. reported' \subseteq ToSet(Protocols) /\ (stopAtFirstMatch /\ OthersReported' => hit)
  BY <1>1, ReportingFacts DEF Answered
<1>3. UNCHANGED <<settings, isCancelled, ran>> /\ Return
  BY DEF Answered, UnlessProbe
<1>4. Grown
  BY <1>1, CaptureFacts DEF Answered
<1>5. /\ findings' \in Seq([t : DOMAIN Templates, b : Nat])
      /\ \A i \in DOMAIN findings' : findings'[i].b <= Len(Templates[findings'[i].t].blocks)
  BY <1>1, ReportFacts DEF Answered
<1>6. stopAtFirstMatch \in BOOLEAN
  BY DEF IInv, TypeOK
<1>7. DataTypes'
  BY <1>s, <1>t, <1>5, <1>6, DataKept DEF DataTypes, Answered, UnlessProbe
<1>8. stopAtFirstMatch /\ OthersReported' =>
         (Top.op \in PlainOps /\ spmStop') \/ (Top.op \in FlowOps /\ OthersReported)
  BY <1>1, <1>t DEF Answered
<1> QED
  BY <1>1, <1>s, <1>3, <1>4, <1>7, <1>8, WorkReturns

\* The seven protocols with one request at a time.
LEMMA ProbeStep ==
    ASSUME IInv, \/ ExecuteDns \/ ExecuteNetwork \/ ExecuteSsl \/ ExecuteWhois \/ ExecuteCode
                 \/ ExecuteWebsocket \/ ExecuteHeadless
    PROVE  IInv'
<1>1. At("probe") /\ UnlessProbe /\ (Extracting \/ Bare) /\ BlockAt.proto # "file"
  BY DEF ExecuteDns, ExecuteNetwork, ExecuteSsl, ExecuteWhois, ExecuteCode, ExecuteWebsocket,
         ExecuteHeadless, Probing
<1>2. BlockAt.gives \subseteq Names
  BY <1>1, RequestTop DEF At, Top
<1>3. PublicHits \subseteq BOOLEAN /\ Hits \subseteq BOOLEAN
  BY DEF PublicHits, Hits
<1>4. CASE NoAnswer
  BY <1>1, <1>4, NoAnswerStep
<1>5. CASE \E hit \in PublicHits, got \in SUBSET BlockAt.gives : Answered(hit, got)
  <2>1. PICK hit \in BOOLEAN, got \in SUBSET Names : Answered(hit, got)
    BY <1>2, <1>3, <1>5
  <2> QED
    BY <1>1, <2>1, AnsweredStep
<1>6. CASE \E hit \in Hits : Answered(hit, {})
  <2>1. PICK hit \in BOOLEAN : Answered(hit, {})
    BY <1>3, <1>6
  <2>2. {} \in SUBSET Names
    OBVIOUS
  <2> QED
    BY <1>1, <2>1, <2>2, AnsweredStep
<1> QED
  BY <1>1, <1>4, <1>5, <1>6 DEF Extracting, Bare

\* A javascript block, which never sets spm_stop.
LEMMA JsStep ==
    ASSUME IInv, ExecuteJs
    PROVE  IInv'
<1>1. At("probe") /\ UnlessProbe /\ BlockAt.proto = "javascript"
  BY DEF ExecuteJs, Probing
<1>2. agenda # << >> /\ Top.op = "probe" /\ Top.op \in PlainOps
  BY <1>1 DEF At, Top, PlainOps
<1>3. ~(stopAtFirstMatch /\ OthersReported)
  BY <1>2, RequestTop
<1>4. CASE NoAnswer
  BY <1>1, <1>4, NoAnswerStep
<1>5. CASE ~NoAnswer
  <2>1. PublicHits \subseteq BOOLEAN /\ {} \in SUBSET Names
    BY DEF PublicHits
  <2>2. PICK hit \in BOOLEAN :
           /\ Return /\ Sent(1)
           /\ extracted' = extracted \cup ({"javascript_response"} \cap Names)
           /\ Capture(hit, {}) /\ Report(hit) /\ Reporting(hit) /\ UNCHANGED spmStop
    BY <1>5, <2>1 DEF ExecuteJs
  <2>3. Grown
    BY <1>2, <2>1, <2>2, CaptureFacts
  <2>4. /\ findings' \in Seq([t : DOMAIN Templates, b : Nat])
        /\ \A i \in DOMAIN findings' : findings'[i].b <= Len(Templates[findings'[i].t].blocks)
    BY <1>2, <2>2, ReportFacts
  <2>5. extracted' \subseteq Names
    BY <2>2 DEF IInv, TypeOK
  <2>p. Pass(Top) = 1 /\ 1 \in Nat /\ 1 <= 1
    BY <1>1, <1>2, ProbePass
  <2>s. LateGrows
        /\ {sends', lateSends', lateLeaves', allowed'} \subseteq Nat /\ lateSends' <= sends'
    BY <1>2, <2>2, <2>p, SentFacts
  <2>t. reported' \subseteq ToSet(Protocols) /\ ~(stopAtFirstMatch /\ OthersReported')
    BY <1>1, <1>2, <2>2, ReportingFacts
  <2>6. DataTypes'
    BY <1>1, <2>2, <2>4, <2>5, <2>s, <2>t, DataKept DEF DataTypes, UnlessProbe
  <2>7. UNCHANGED <<settings, isCancelled, ran>>
    BY <1>1 DEF UnlessProbe
  <2> QED
    BY <1>2, <2>2, <2>3, <2>6, <2>7, <2>s, <2>t, WorkReturns
<1> QED
  BY <1>4, <1>5

\* A file block, which sends nothing.
LEMMA FileStep ==
    ASSUME IInv, ExecuteFile
    PROVE  IInv'
<1>1. At("probe") /\ UnlessProbe /\ UNCHANGED <<extracted, sends, late>> /\ BlockAt.proto = "file"
  BY DEF ExecuteFile, Probing
<1>2. agenda # << >> /\ Top.op = "probe" /\ Top.op \in PlainOps
  BY <1>1 DEF At, Top, PlainOps
<1>3. ~(stopAtFirstMatch /\ OthersReported) /\ Top \in RequestItem /\ Top.r > 0
  BY <1>2, RequestTop
<1>4. UNCHANGED <<settings, isCancelled, ran>> /\ LateGrows
  BY <1>1 DEF UnlessProbe, LateGrows
<1>5. CASE /\ Top.r > Len(BlockAt.requests) /\ Return
           /\ UNCHANGED <<results, findings, spmStop, reported>>
  <2>1. DataTypes' /\ Grown /\ OthersReported' = OthersReported
    BY <1>1, <1>5, DataKept DEF DataTypes, UnlessProbe, Grown, OthersReported, late
  <2> QED
    BY <1>2, <1>3, <1>4, <1>5, <2>1, WorkReturns
<1>6. CASE ~(/\ Top.r > Len(BlockAt.requests) /\ Return
             /\ UNCHANGED <<results, findings, spmStop, reported>>)
  <2>1. Hits \subseteq BOOLEAN /\ {} \in SUBSET Names /\ stopAtFirstMatch \in BOOLEAN
    BY DEF Hits, IInv, TypeOK
  <2>2. PICK hit \in BOOLEAN :
           /\ Capture(hit, {}) /\ Report(hit)
           /\ Reporting(hit)
           /\ spmStop' = (spmStop \/ (hit /\ stopAtFirstMatch))
           /\ IF hit /\ stopAtFirstMatch THEN Return
              ELSE Call(<< [Top EXCEPT !.r = @ + 1] >>)
    BY <1>6, <2>1 DEF ExecuteFile
  <2>3. Grown
    BY <1>2, <2>1, <2>2, CaptureFacts
  <2>4. /\ findings' \in Seq([t : DOMAIN Templates, b : Nat])
        /\ \A i \in DOMAIN findings' : findings'[i].b <= Len(Templates[findings'[i].t].blocks)
    BY <1>2, <2>2, ReportFacts
  <2>t. reported' \subseteq ToSet(Protocols) /\ (stopAtFirstMatch /\ OthersReported' => hit)
    BY <1>2, <2>2, ReportingFacts
  <2>5. DataTypes'
    BY <1>1, <2>1, <2>2, <2>4, <2>t, DataKept DEF DataTypes, UnlessProbe, late
  <2>6. CASE hit /\ stopAtFirstMatch
    <3>1. Return /\ spmStop'
      BY <2>2, <2>6
    <3>2. stopAtFirstMatch /\ OthersReported' =>
             (Top.op \in PlainOps /\ spmStop') \/ (Top.op \in FlowOps /\ OthersReported)
      BY <1>2, <3>1
    <3> QED
      BY <1>2, <1>4, <2>3, <2>5, <3>1, <3>2, WorkReturns
  <2>7. CASE ~(hit /\ stopAtFirstMatch)
    <3> DEFINE x == [Top EXCEPT !.r = @ + 1]
    <3>1. x \in RequestItem /\ x.s = Top.s /\ x.op = "probe" /\ x.r > 0 /\ x.t = Top.t /\ x.b = Top.b
      BY <1>2, <1>3 DEF RequestItem
    <3>2. Call(<< x >>)
      BY <2>2, <2>7
    <3> HIDE DEF x
    <3>3. x \in Item /\ Fits(x) /\ x.op \in PlainOps \cup FlowOps
          /\ Below(Top.op) \subseteq Below(x.op)
      BY <1>2, <3>1, RequestGoesOn
    <3>p. Pass(x) = 0
      BY <1>1, <3>1 DEF Pass, BlockAt
    <3>4. ~(stopAtFirstMatch /\ OthersReported')
      BY <2>7, <2>t
    <3> QED
      BY <1>2, <1>4, <2>3, <2>5, <3>1, <3>2, <3>3, <3>p, <3>4, WorkReplaces
  <2> QED
    BY <2>6, <2>7
<1> QED
  BY <1>5, <1>6

\* The check before the next HTTP request, or race.
LEMMA NextRequestStep ==
    ASSUME IInv, NextRequest
    PROVE  IInv'
<1>1. agenda # << >> /\ Top.op = "http" /\ Top.op \in PlainOps
  BY DEF NextRequest, At, Top, PlainOps
<1>2. /\ ~(stopAtFirstMatch /\ OthersReported) /\ Top \in RequestItem /\ Top.r > 0
      /\ Len(BlockAt.requests) \in Nat /\ DOMAIN BlockAt.requests = 1..Len(BlockAt.requests)
  BY <1>1, RequestTop
<1>3. UNCHANGED <<settings, isCancelled, ran>> /\ Grown /\ LateGrows
      /\ OthersReported' = OthersReported
  BY DEF NextRequest, Grown, LateGrows, OthersReported, history
<1>4. DataTypes'
  BY DataKept DEF DataTypes, NextRequest, history, late
<1>5. CASE Top.r > Len(BlockAt.requests) \/ isCancelled
  <2>1. Return
    BY <1>5 DEF NextRequest
  <2> QED
    BY <1>1, <1>2, <1>3, <1>4, <2>1, WorkReturns
<1>6. CASE ~(Top.r > Len(BlockAt.requests) \/ isCancelled)
  <2> DEFINE x == IF RequestAt.needs \subseteq Top.bound
                  THEN [Top EXCEPT !.op = "armed"] ELSE [Top EXCEPT !.r = @ + 1]
  <2>1. Call(<< x >>)
    BY <1>6 DEF NextRequest
  <2>2. Top.r \in Nat
    BY <1>2 DEF RequestItem
  <2>3. Top.r \in DOMAIN BlockAt.requests
    BY <1>2, <1>6, <2>2
  <2>4. CASE RequestAt.needs \subseteq Top.bound
    <3>1. x = [Top EXCEPT !.op = "armed"]
      BY <2>4
    <3> HIDE DEF x
    <3>2. x \in RequestItem /\ x.s = Top.s /\ x.op = "armed" /\ x.r = Top.r /\ x.t = Top.t
          /\ x.b = Top.b
      BY <1>2, <3>1 DEF RequestItem
    <3>3. x \in Item /\ Fits(x) /\ x.op \in PlainOps \cup FlowOps
          /\ Below(Top.op) \subseteq Below(x.op)
      BY <1>1, <1>2, <2>3, <3>2, RequestGoesOn
    <3> QED
      BY <1>1, <1>2, <1>3, <1>4, <1>6, <2>1, <3>2, <3>3, WorkReplaces
  <2>5. CASE ~(RequestAt.needs \subseteq Top.bound)
    <3>1. x = [Top EXCEPT !.r = @ + 1]
      BY <2>5
    <3> HIDE DEF x
    <3>2. x \in RequestItem /\ x.s = Top.s /\ x.op = "http" /\ x.r > 0 /\ x.t = Top.t
          /\ x.b = Top.b
      BY <1>1, <1>2, <2>2, <3>1 DEF RequestItem
    <3>3. x \in Item /\ Fits(x) /\ x.op \in PlainOps \cup FlowOps
          /\ Below(Top.op) \subseteq Below(x.op)
      BY <1>1, <3>2, RequestGoesOn
    <3> QED
      BY <1>1, <1>2, <1>3, <1>4, <1>6, <2>1, <3>2, <3>3, WorkReplaces
  <2> QED
    BY <2>4, <2>5
<1> QED
  BY <1>5, <1>6

\* The item goes on to the next request.
LEMMA NextOf ==
    ASSUME NEW y \in RequestItem
    PROVE  LET x == [y EXCEPT !.op = "http", !.r = @ + 1]
           IN  /\ x \in RequestItem /\ x.op = "http" /\ x.r = y.r + 1
               /\ x.t = y.t /\ x.b = y.b /\ x.s = y.s
<1>1. ASSUME NEW r \in Nat
      PROVE  [y EXCEPT !.op = "http", !.r = r] \in RequestItem
  BY DEF RequestItem
<1>2. [y EXCEPT !.op = "http", !.r = @ + 1] = [y EXCEPT !.op = "http", !.r = y.r + 1]
  BY DEF RequestItem
<1>3. y.r + 1 \in Nat
  BY DEF RequestItem
<1>4. [y EXCEPT !.op = "http", !.r = @ + 1] \in RequestItem
  BY <1>1, <1>2, <1>3
<1> QED
  BY <1>4 DEF RequestItem

\* An HTTP request is sent after its check.
LEMMA SendHttpStep ==
    ASSUME IInv, SendHttp
    PROVE  IInv'
<1>1. agenda # << >> /\ Top.op = "armed" /\ Top.op \in PlainOps /\ Top.op \in CheckedOps
  BY DEF SendHttp, At, Top, PlainOps, CheckedOps
<1>2. /\ ~(stopAtFirstMatch /\ OthersReported) /\ Top \in RequestItem
      /\ Top.r \in DOMAIN BlockAt.requests /\ RequestAt.race \in Nat \ {0}
      /\ Len(BlockAt.requests) \in Nat /\ DOMAIN BlockAt.requests = 1..Len(BlockAt.requests)
  BY <1>1, RequestTop DEF RequestAt
<1>3. UNCHANGED <<settings, isCancelled, ran>> /\ Grown
      /\ OthersReported' = OthersReported
  BY DEF SendHttp, Grown, OthersReported
<1>4. Pass(Top) = RequestAt.race
  BY <1>1 DEF Pass, RequestAt, BlockAt
<1>5. LateGrows
      /\ {sends', lateSends', lateLeaves', allowed'} \subseteq Nat /\ lateSends' <= sends'
  <2> DEFINE n == RequestAt.race
  <2>1. n \in Nat /\ n <= Pass(Top) /\ Sent(n)
    BY <1>2, <1>4 DEF SendHttp
  <2> HIDE DEF n
  <2> QED
    BY <1>1, <2>1, SentFacts
<1>6. DataTypes'
  BY <1>5, DataKept DEF DataTypes, SendHttp
<1>r. Top.r \in Nat /\ Top.r > 0 /\ Top.r + 1 > 0
  BY <1>2
<1>7. PICK n \in 0..RequestAt.race :
         Call(<< IF n = 0 THEN [Top EXCEPT !.op = "http", !.r = @ + 1]
                          ELSE [Top EXCEPT !.op = "answers", !.left = n] >>)
  BY DEF SendHttp
<1> DEFINE x == IF n = 0 THEN [Top EXCEPT !.op = "http", !.r = @ + 1]
                         ELSE [Top EXCEPT !.op = "answers", !.left = n]
<1>8. Call(<< x >>) /\ n \in Nat
  BY <1>2, <1>7
<1>9. x \in RequestItem /\ x.s = Top.s /\ x.t = Top.t /\ x.b = Top.b /\ x.r > 0
      /\ x.op \in {"http", "answers"} /\ (x.op = "answers" => x.r = Top.r)
  <2>1. CASE n = 0
    <3>1. x = [Top EXCEPT !.op = "http", !.r = @ + 1]
      BY <2>1
    <3> HIDE DEF x
    <3>2. x.op = "http" /\ x.r = Top.r + 1 /\ x.s = Top.s /\ x.t = Top.t /\ x.b = Top.b
          /\ x \in RequestItem
      BY <1>2, <3>1, NextOf
    <3> QED
      BY <1>r, <3>2
  <2>2. CASE n # 0
    <3>1. x = [Top EXCEPT !.op = "answers", !.left = n]
      BY <2>2
    <3> HIDE DEF x
    <3> QED
      BY <1>2, <1>8, <1>r, <3>1 DEF RequestItem
  <2> QED
    BY <2>1, <2>2
<1> HIDE DEF x
<1>10. x \in Item /\ Fits(x) /\ x.op \in PlainOps \cup FlowOps
       /\ Below(Top.op) \subseteq Below(x.op) /\ Pass(x) = 0
  BY <1>1, <1>2, <1>9, RequestGoesOn, Unchecked DEF CheckedOps
<1> QED
  BY <1>1, <1>2, <1>3, <1>5, <1>6, <1>8, <1>9, <1>10, WorkReplaces

\* The answers of an HTTP request, or race, are judged.
LEMMA EvaluateStep ==
    ASSUME IInv, EvaluateHttpResponse
    PROVE  IInv'
<1>1. agenda # << >> /\ Top.op = "answers" /\ Top.op \in PlainOps
  BY DEF EvaluateHttpResponse, At, Top, PlainOps
<1>2. /\ ~(stopAtFirstMatch /\ OthersReported) /\ Top \in RequestItem
      /\ Top.r \in DOMAIN BlockAt.requests /\ BlockAt.gives \subseteq Names
      /\ Len(BlockAt.requests) \in Nat /\ DOMAIN BlockAt.requests = 1..Len(BlockAt.requests)
  BY <1>1, RequestTop
<1>3. UNCHANGED <<settings, isCancelled, ran>> /\ LateGrows
  BY DEF EvaluateHttpResponse, LateGrows
<1>4. Hits \subseteq BOOLEAN /\ stopAtFirstMatch \in BOOLEAN
  BY DEF Hits, IInv, TypeOK
<1>r. Top.r \in Nat /\ Top.r > 0 /\ Top.r + 1 > 0
  BY <1>2
<1>5. PICK hit \in BOOLEAN, got \in SUBSET Names :
         /\ extracted' = extracted \cup got
         /\ Capture(hit, got)
         /\ Report(hit /\ BlockAt.matchers = "public")
         /\ Reporting(hit /\ BlockAt.matchers = "public")
         /\ spmStop' = (spmStop \/ (hit /\ Stops /\ stopAtFirstMatch))
         /\ IF BlockAt.matchers = "none" \/ (hit /\ Stops) THEN Return
            ELSE Call(<< IF Top.left > 1 THEN [Top EXCEPT !.left = @ - 1]
                         ELSE [Top EXCEPT !.op = "http", !.r = @ + 1] >>)
  BY <1>2, <1>4 DEF EvaluateHttpResponse
<1>6. Grown
  BY <1>1, <1>5, CaptureFacts
<1>7. /\ findings' \in Seq([t : DOMAIN Templates, b : Nat])
      /\ \A i \in DOMAIN findings' : findings'[i].b <= Len(Templates[findings'[i].t].blocks)
  <2> DEFINE reports == hit /\ BlockAt.matchers = "public"
  <2>1. reports \in BOOLEAN /\ Report(reports)
    BY <1>5
  <2> HIDE DEF reports
  <2> QED
    BY <1>1, <2>1, ReportFacts
<1>t. /\ reported' \subseteq ToSet(Protocols)
      /\ stopAtFirstMatch /\ OthersReported' => hit /\ BlockAt.matchers = "public"
  <2> DEFINE reports == hit /\ BlockAt.matchers = "public"
  <2>1. reports \in BOOLEAN /\ Reporting(reports)
    BY <1>5
  <2>2. /\ reported' \subseteq ToSet(Protocols)
        /\ stopAtFirstMatch /\ OthersReported' => reports
    <3> HIDE DEF reports
    <3> QED
      BY <1>1, <2>1, ReportingFacts
  <2> QED
    BY <2>2
<1>8. DataTypes'
  BY <1>4, <1>5, <1>7, <1>t, DataKept DEF DataTypes, EvaluateHttpResponse, late
<1>9. CASE BlockAt.matchers = "none" \/ (hit /\ Stops)
  <2>1. Return
    BY <1>5, <1>9
  <2>2. stopAtFirstMatch /\ OthersReported' => spmStop'
    BY <1>5, <1>t DEF Stops
  <2> QED
    BY <1>1, <1>3, <1>6, <1>8, <2>1, <2>2, WorkReturns
<1>10. CASE ~(BlockAt.matchers = "none" \/ (hit /\ Stops))
  <2> DEFINE x == IF Top.left > 1 THEN [Top EXCEPT !.left = @ - 1]
                  ELSE [Top EXCEPT !.op = "http", !.r = @ + 1]
  <2>1. Call(<< x >>)
    BY <1>5, <1>10
  <2>2. x \in RequestItem /\ x.s = Top.s /\ x.t = Top.t /\ x.b = Top.b /\ x.r > 0
        /\ x.op \in {"http", "answers"} /\ (x.op = "answers" => x.r = Top.r)
    <3>1. CASE Top.left > 1
      <4>1. x = [Top EXCEPT !.left = @ - 1]
        BY <3>1
      <4> HIDE DEF x
      <4> QED
        BY <1>1, <1>2, <1>r, <3>1, <4>1 DEF RequestItem
    <3>2. CASE ~(Top.left > 1)
      <4>1. x = [Top EXCEPT !.op = "http", !.r = @ + 1]
        BY <3>2
      <4> HIDE DEF x
      <4>2. x.op = "http" /\ x.r = Top.r + 1 /\ x.s = Top.s /\ x.t = Top.t /\ x.b = Top.b
            /\ x \in RequestItem
        BY <1>2, <4>1, NextOf
      <4> QED
        BY <1>r, <4>2
    <3> QED
      BY <3>1, <3>2
  <2> HIDE DEF x
  <2>3. x \in Item /\ Fits(x) /\ x.op \in PlainOps \cup FlowOps
        /\ Below(Top.op) \subseteq Below(x.op) /\ Pass(x) = 0
    BY <1>1, <1>2, <2>2, RequestGoesOn, Unchecked DEF CheckedOps
  <2>4. ~(stopAtFirstMatch /\ OthersReported')
    BY <1>10, <1>t DEF Stops
  <2> QED
    BY <1>1, <1>3, <1>6, <1>8, <2>1, <2>2, <2>3, <2>4, WorkReplaces
<1> QED
  BY <1>9, <1>10

(***************************************************************************)
(* Flows.                                                                  *)
(***************************************************************************)
\* What is known of the node that is under way.
LEMMA NodeTop ==
    ASSUME IInv, agenda # << >>, Top.op \in FlowOps
    PROVE  /\ Top \in Item /\ Fits(Top)
           /\ Top.t \in DOMAIN Templates /\ Top.s \in InStep
           /\ ~(stopAtFirstMatch /\ OthersReported)
           /\ Top.op # "verdict" => Top.n \in DOMAIN Nodes
           /\ Top.op \in {"eval", "negate", "and", "or"} => Top \in NodeItem
           /\ Top.op \in {"flowhttp", "flowsend"} => Top \in FlowHttpItem
<1>1. Top \in Item /\ Fits(Top)
  BY TopFacts DEF IInv
<1>2. Top.t \in DOMAIN Templates /\ Top.s \in InStep
  BY <1>1, ItemFacts
<1>3. /\ Top.op \in {"eval", "negate", "and", "or"} => Top \in NodeItem
      /\ Top.op \in {"flowhttp", "flowsend"} => Top \in FlowHttpItem
  BY <1>1, ItemFacts
<1>4. /\ Top \in NodeItem => Top.n \in DOMAIN Nodes
      /\ Top \in FlowHttpItem => Top.n \in DOMAIN Nodes
  BY DEF NodeItem, FlowHttpItem
<1>5. Top.op \notin ControlOps \cup {"block"}
  BY DEF ControlOps, FlowOps
<1> QED
  BY <1>1, <1>2, <1>3, <1>4, <1>5, Unreported DEF FlowOps

\* Nothing is sent.
LEMMA NothingSent ==
    ASSUME IInv, UNCHANGED <<sends, late>>
    PROVE  /\ LateGrows
           /\ {sends', lateSends', lateLeaves', allowed'} \subseteq Nat /\ lateSends' <= sends'
BY DEF IInv, TypeOK, late, LateGrows

\* A node that returns.
LEMMA YieldStep ==
    ASSUME IInv, agenda # << >>, Top.op \in FlowOps, Return, UnlessFlow, LateGrows,
           {sends', lateSends', lateLeaves', allowed'} \subseteq Nat, lateSends' <= sends',
           extracted' \subseteq Names, value' \in BOOLEAN,
           \/ leaves' = leaves
           \/ \E v \in {"none", "true", "false"} : leaves' = [leaves EXCEPT ![Top.n] = v]
    PROVE  IInv'
<1>1. ~(stopAtFirstMatch /\ OthersReported) /\ OthersReported' = OthersReported
  BY NodeTop DEF UnlessFlow, OthersReported
<1>2. UNCHANGED <<settings, isCancelled, ran>> /\ Grown
  BY DEF UnlessFlow, Grown
<1>3. leaves' \in [DOMAIN Nodes -> {"none", "true", "false"}]
  <2> DEFINE V == {"none", "true", "false"}
  <2>1. leaves \in [DOMAIN Nodes -> V]
    BY DEF IInv, TypeOK
  <2> HIDE DEF V
  <2> QED
    BY <2>1 DEF V
<1>5. DataTypes'
  BY <1>3, DataKept DEF DataTypes, UnlessFlow
<1> QED
  BY <1>1, <1>2, <1>5, WorkReturns

\* A block that a flow calls returns what it is worth.
LEMMA LeafYieldStep ==
    ASSUME IInv, agenda # << >>, Top.op \in FlowOps, UnlessFlow, LateGrows,
           {sends', lateSends', lateLeaves', allowed'} \subseteq Nat, lateSends' <= sends',
           extracted' \subseteq Names,
           NEW v \in BOOLEAN, LeafYields(v)
    PROVE  IInv'
<1>1. Return /\ value' \in BOOLEAN
  BY DEF LeafYields, Yields
<1>2. \E l \in {"none", "true", "false"} : leaves' = [leaves EXCEPT ![Top.n] = l]
  BY DEF LeafYields
<1> QED
  BY <1>1, <1>2, YieldStep

\* The blocks a flow calls, but those of HTTP.
LEMMA LeafStep ==
    ASSUME IInv, \/ FlowMissing \/ FlowDns \/ FlowNetwork \/ FlowSsl \/ FlowCode \/ FlowJavascript
    PROVE  IInv'
<1>1. agenda # << >> /\ Top.op = "eval" /\ Top.op \in FlowOps /\ UnlessFlow
  BY DEF FlowMissing, FlowDns, FlowNetwork, FlowSsl, FlowCode, FlowJavascript, Calling, At, Top,
         FlowOps, LeafAnswers
<1>2. extracted \subseteq Names /\ Top.t \in DOMAIN Templates
  BY <1>1, NodeTop DEF IInv, TypeOK
<1>3. CASE FlowMissing
  <2> DEFINE v == FALSE
  <2>1. v \in BOOLEAN /\ LeafYields(v) /\ UNCHANGED <<extracted, sends, late>>
    BY <1>3 DEF FlowMissing
  <2> HIDE DEF v
  <2>2. LateGrows
        /\ {sends', lateSends', lateLeaves', allowed'} \subseteq Nat /\ lateSends' <= sends'
    BY <2>1, NothingSent
  <2> QED
    BY <1>1, <1>2, <2>1, <2>2, LeafYieldStep
<1>4. ASSUME NEW gives, gives \subseteq SUBSET Names, LeafAnswers(gives)
      PROVE  IInv'
  <2>1. LateGrows
        /\ {sends', lateSends', lateLeaves', allowed'} \subseteq Nat /\ lateSends' <= sends'
    <3>1. {sends, lateSends, lateLeaves, allowed} \subseteq Nat /\ lateSends <= sends
      BY DEF IInv, TypeOK
    <3>2. sends' = sends + 1 /\ UNCHANGED allowed
      BY <1>4 DEF LeafAnswers
    <3>3. CASE isCancelled
      <4>1. lateSends' = lateSends + 1 /\ lateLeaves' = lateLeaves + 1
        BY <1>4, <3>3 DEF LeafAnswers
      <4> QED
        BY <3>1, <3>2, <3>3, <4>1 DEF LateGrows
    <3>4. CASE ~isCancelled
      <4>1. lateSends' = lateSends /\ lateLeaves' = lateLeaves
        BY <1>4, <3>1, <3>4 DEF LeafAnswers
      <4> QED
        BY <3>1, <3>2, <4>1 DEF LateGrows, late
    <3> QED
      BY <3>3, <3>4
  <2>2. PICK v \in BOOLEAN : LeafYields(v)
    <3> DEFINE w == FALSE
    <3>1. (w \in BOOLEAN /\ LeafYields(w)) \/ \E v \in BOOLEAN : LeafYields(v)
      BY <1>4 DEF LeafAnswers
    <3> HIDE DEF w
    <3> QED
      BY <3>1
  <2>3. extracted' \subseteq Names
    BY <1>2, <1>4 DEF LeafAnswers
  <2> QED
    BY <1>1, <2>1, <2>2, <2>3, LeafYieldStep
<1>5. CASE FlowDns \/ FlowNetwork \/ FlowSsl
  <2>1. Node.b \in DOMAIN Templates[Top.t].blocks /\ LeafAnswers(SUBSET LeafBlock.gives)
    BY <1>5 DEF FlowDns, FlowNetwork, FlowSsl, Calling
  <2>2. LeafBlock.gives \subseteq Names
    BY <1>2, <2>1, RequestFacts DEF LeafBlock
  <2>3. SUBSET LeafBlock.gives \subseteq SUBSET Names
    BY <2>2
  <2> QED
    BY <1>4, <2>1, <2>3
<1>6. CASE FlowCode
  <2> DEFINE G == {{}}
  <2>1. G \subseteq SUBSET Names /\ LeafAnswers(G)
    BY <1>6 DEF FlowCode
  <2> HIDE DEF G
  <2> QED
    BY <1>4, <2>1
<1>7. CASE FlowJavascript
  <2> DEFINE G == {{"javascript_response"} \cap Names}
  <2>1. G \subseteq SUBSET Names /\ LeafAnswers(G)
    BY <1>7 DEF FlowJavascript
  <2> HIDE DEF G
  <2> QED
    BY <1>4, <2>1
<1> QED
  BY <1>3, <1>5, <1>6, <1>7

\* The operators of an expression, as items.
LEMMA NodeItems ==
    ASSUME IInv, agenda # << >>, Top.op \in {"eval", "negate", "and", "or"}
    PROVE  /\ \A n \in DOMAIN Nodes :
                 /\ Eval(n) \in Item /\ Fits(Eval(n)) /\ Eval(n).s = Top.s /\ Eval(n).op = "eval"
           /\ Node.op \in {"negate", "and", "or"} =>
                 /\ Rest(Node.op) \in Item /\ Fits(Rest(Node.op)) /\ Rest(Node.op).s = Top.s
                 /\ Rest(Node.op).op = Node.op
<1>1. Top \in NodeItem
  BY NodeTop DEF FlowOps
<1>2. ASSUME NEW n \in DOMAIN Nodes
      PROVE  /\ Eval(n) \in NodeItem /\ Eval(n).s = Top.s /\ Eval(n).op = "eval"
  BY <1>1 DEF Eval, NodeItem
<1>3. ASSUME Node.op \in {"negate", "and", "or"}
      PROVE  /\ Rest(Node.op) \in NodeItem /\ Rest(Node.op).s = Top.s
             /\ Rest(Node.op).op = Node.op /\ Rest(Node.op).n = Top.n
  BY <1>1, <1>3 DEF Rest, NodeItem
<1>4. \A x \in NodeItem : x \in Item
  BY DEF Item
<1>5. \A x : x.op = "eval" => Fits(x)
  BY DEF Fits, PlainOps
<1>6. ASSUME Node.op \in {"negate", "and", "or"} PROVE Fits(Rest(Node.op))
  BY <1>3, <1>6 DEF Fits, PlainOps, CheckedOps, Node
<1> QED
  BY <1>2, <1>3, <1>4, <1>5, <1>6

\* A literal of a flow.
LEMMA EvalBoolStep ==
    ASSUME IInv, EvalBool
    PROVE  IInv'
<1>1. agenda # << >> /\ Top.op = "eval" /\ Top.op \in FlowOps
  BY DEF EvalBool, At, Top, FlowOps
<1>2. Top.n \in DOMAIN Nodes
  BY <1>1, NodeTop
<1>3. Node.bool \in BOOLEAN
  BY <1>2, Constants DEF Node, NodeType
<1>4. Return /\ value' = Node.bool /\ UnlessFlow
      /\ UNCHANGED <<extracted, sends, late, leaves>>
  BY DEF EvalBool, Yields
<1>5. extracted' \subseteq Names
  BY <1>4 DEF IInv, TypeOK
<1>6. LateGrows
      /\ {sends', lateSends', lateLeaves', allowed'} \subseteq Nat /\ lateSends' <= sends'
  BY <1>4, NothingSent
<1> QED
  BY <1>1, <1>3, <1>4, <1>5, <1>6, YieldStep

\* The left operand of an operator is called first.
LEMMA EvalOperatorStep ==
    ASSUME IInv, EvalOperator
    PROVE  IInv'
<1>1. agenda # << >> /\ Top.op = "eval" /\ Top.op \in FlowOps
  BY DEF EvalOperator, At, Top, FlowOps
<1>2. Top.n \in DOMAIN Nodes /\ ~(stopAtFirstMatch /\ OthersReported)
  BY <1>1, NodeTop
<1>3. Node.op \in {"negate", "and", "or"} /\ Node.left \in DOMAIN Nodes
  BY <1>2, Constants DEF EvalOperator, Node
<1> DEFINE x == Eval(Node.left)
           y == Rest(Node.op)
<1>4. /\ x \in Item /\ Fits(x) /\ x.s = Top.s /\ x.op = "eval"
      /\ y \in Item /\ Fits(y) /\ y.s = Top.s /\ y.op \in {"negate", "and", "or"}
  BY <1>1, <1>3, NodeItems
<1>5. Call(<< x, y >>) /\ UnlessFlow /\ UNCHANGED <<value, extracted, sends, late, leaves>>
  BY DEF EvalOperator
<1> HIDE DEF x, y
<1>6. << x, y >> \in Seq(Item) /\ Len(<< x, y >>) = 2
      /\ << x, y >>[1] = x /\ << x, y >>[2] = y
  BY <1>4
<1>7. /\ y.op \in Below(x.op) /\ Below(Top.op) \subseteq Below(x.op)
      /\ Below(Top.op) \subseteq Below(y.op)
      /\ x.op \in FlowOps /\ y.op \in FlowOps /\ Pass(x) = 0 /\ Pass(y) = 0
  BY <1>1, <1>4, Unchecked DEF Below, ControlOps, PlainOps, FlowOps, CheckedOps
<1>8. \A i \in 1..2 : i = 1 \/ i = 2
  OBVIOUS
<1>9. Working(<< x, y >>)
  <2>1. \A i \in 1..Len(<< x, y >>) :
           /\ << x, y >>[i].op \in PlainOps \cup FlowOps
           /\ << x, y >>[i].s = Top.s /\ Fits(<< x, y >>[i])
           /\ Below(Top.op) \subseteq Below(<< x, y >>[i].op)
           /\ isCancelled => Pass(<< x, y >>[i]) = 0
    BY <1>4, <1>6, <1>7, <1>8
  <2>2. \A i, j \in 1..Len(<< x, y >>) : i < j =>
           << x, y >>[j].op \in Below(<< x, y >>[i].op)
    BY <1>6, <1>7, <1>8
  <2>3. UNCHANGED <<settings, isCancelled, ran>> /\ Grown /\ LateGrows
        /\ ~(stopAtFirstMatch /\ OthersReported')
    BY <1>2, <1>5 DEF UnlessFlow, Grown, LateGrows, OthersReported
  <2> QED
    BY <1>1, <1>5, <1>6, <2>1, <2>2, <2>3 DEF Working
<1>10. DataTypes'
  BY <1>5, DataKept DEF DataTypes, UnlessFlow, late
<1> QED
  BY <1>9, <1>10, WorkingKeeps

\* The right operand is called if the left one leaves it open.
LEMMA CombineStep ==
    ASSUME IInv, Combine
    PROVE  IInv'
<1>1. agenda # << >> /\ Top.op \in {"negate", "and", "or"} /\ Top.op \in FlowOps
  BY DEF Combine, At, Top, FlowOps
<1>2. Top.n \in DOMAIN Nodes /\ ~(stopAtFirstMatch /\ OthersReported)
  BY <1>1, NodeTop
<1>3. UNCHANGED <<extracted, sends, late, leaves>> /\ UnlessFlow
  BY DEF Combine
<1>s. LateGrows
      /\ {sends', lateSends', lateLeaves', allowed'} \subseteq Nat /\ lateSends' <= sends'
  BY <1>3, NothingSent
<1>4. extracted \subseteq Names /\ value \in BOOLEAN
  BY DEF IInv, TypeOK
<1>5. CASE Return /\ value' \in BOOLEAN
  BY <1>1, <1>3, <1>s, <1>4, <1>5, YieldStep
<1>6. CASE ~(Return /\ value' \in BOOLEAN)
  <2>1. /\ Call(<< Eval(Node.right) >>) /\ value' = value
        /\ At("and") \/ At("or")
    BY <1>4, <1>6 DEF Combine, Yields
  <2>2. Top.op \in {"and", "or"}
    BY <2>1 DEF At, Top
  <2>3. Node.right \in DOMAIN Nodes
    <3>1. Nodes[Top.n].op = Top.op
      BY <1>1, NodeTop DEF Fits
    <3> QED
      BY <1>2, <2>2, <3>1, Constants DEF Node
  <2> DEFINE x == Eval(Node.right)
  <2>4. x \in Item /\ Fits(x) /\ x.s = Top.s /\ x.op = "eval" /\ Call(<< x >>)
    BY <1>1, <2>1, <2>3, NodeItems
  <2> HIDE DEF x
  <2>5. Below(Top.op) \subseteq Below(x.op) /\ x.op \in FlowOps /\ Pass(x) = 0
    BY <1>1, <2>4, Unchecked DEF Below, ControlOps, PlainOps, FlowOps, CheckedOps
  <2>6. UNCHANGED <<settings, isCancelled, ran>> /\ Grown /\ LateGrows
        /\ ~(stopAtFirstMatch /\ OthersReported')
    BY <1>2, <1>3, <1>s DEF UnlessFlow, Grown, OthersReported
  <2>7. DataTypes'
    BY <1>3, <2>1, DataKept DEF DataTypes, UnlessFlow, late
  <2> QED
    BY <1>1, <2>4, <2>5, <2>6, <2>7, WorkReplaces
<1> QED
  BY <1>5, <1>6

\* What is known of a flow_http_block that is under way.
LEMMA FlowHttpTop ==
    ASSUME IInv, agenda # << >>, Top.op \in {"flowhttp", "flowsend"}
    PROVE  /\ Top \in FlowHttpItem /\ Top.op \in FlowOps /\ Top.r \in Nat /\ Top.r > 0
           /\ Top.t \in DOMAIN Templates /\ Top.b \in DOMAIN Templates[Top.t].blocks
           /\ Top.op = "flowsend" => Top.r \in DOMAIN BlockAt.requests
           /\ BlockAt.gives \subseteq Names /\ Len(BlockAt.requests) \in Nat
           /\ DOMAIN BlockAt.requests = 1..Len(BlockAt.requests)
           /\ \A r \in DOMAIN BlockAt.requests : BlockAt.requests[r].race \in Nat \ {0}
           /\ ~(stopAtFirstMatch /\ OthersReported)
<1>1. Top.op \in FlowOps
  BY DEF FlowOps
<1>2. Top \in FlowHttpItem /\ Fits(Top) /\ ~(stopAtFirstMatch /\ OthersReported)
      /\ Top.t \in DOMAIN Templates
  BY <1>1, NodeTop
<1>3. /\ Top.b \in DOMAIN Templates[Top.t].blocks
      /\ Top.op = "flowsend" => Top.r \in DOMAIN BlockAt.requests
      /\ Top.op = "flowhttp" => Top.r > 0
  BY <1>2 DEF Fits, BlockAt
<1>4. /\ BlockAt.gives \subseteq Names /\ Len(BlockAt.requests) \in Nat
      /\ DOMAIN BlockAt.requests = 1..Len(BlockAt.requests)
      /\ \A r \in DOMAIN BlockAt.requests : BlockAt.requests[r].race \in Nat \ {0}
  BY <1>2, <1>3, RequestFacts DEF BlockAt
<1>5. Top.r \in Nat
  BY <1>2 DEF FlowHttpItem
<1>6. Top.r > 0
  BY <1>3, <1>4, <1>5
<1> QED
  BY <1>1, <1>2, <1>3, <1>4, <1>5, <1>6

\* A call of flow_http_block, or the next thing it does.
LEMMA FlowGoesOn ==
    ASSUME IInv, agenda # << >>, Top.op \in {"eval", "flowhttp", "flowsend"},
           NEW x \in FlowHttpItem, x.t = Top.t, x.b \in DOMAIN Templates[Top.t].blocks, x.r > 0,
           x.op = "flowsend" => x.r \in DOMAIN Templates[Top.t].blocks[x.b].requests
    PROVE  /\ x \in Item /\ Fits(x)
           /\ x.op \in PlainOps \cup FlowOps /\ Below(Top.op) \subseteq Below(x.op)
<1>1. x.op \in {"flowhttp", "flowsend"}
  BY DEF FlowHttpItem
<1>2. x \in Item
  BY DEF Item
<1>3. Fits(x)
  BY <1>1 DEF Fits, PlainOps
<1>4. x.op \in PlainOps \cup FlowOps /\ Below(Top.op) \subseteq Below(x.op)
  BY <1>1 DEF Below, PlainOps, ControlOps, FlowOps
<1> QED
  BY <1>2, <1>3, <1>4

\* A flow calls an HTTP block.
LEMMA FlowHttpStep ==
    ASSUME IInv, FlowHttp
    PROVE  IInv'
<1>1. agenda # << >> /\ Top.op = "eval" /\ Top.op \in FlowOps
      /\ Node.b \in DOMAIN Templates[Top.t].blocks
  BY DEF FlowHttp, Calling, At, Top, FlowOps
<1>2. Top \in NodeItem /\ ~(stopAtFirstMatch /\ OthersReported) /\ extracted \subseteq Names
      /\ Top.t \in DOMAIN Templates
  BY <1>1, NodeTop DEF IInv, TypeOK
<1> DEFINE x == [op |-> "flowhttp", n |-> Top.n, t |-> Top.t, s |-> Top.s, b |-> Node.b, r |-> 1,
                 bound |-> extracted, any |-> FALSE, hit |-> FALSE]
<1>3. Call(<< x >>) /\ UnlessFlow /\ UNCHANGED <<value, extracted, sends, late, leaves>>
  BY DEF FlowHttp
<1>4. Node.b \in Nat
  BY <1>1, <1>2, BlockFacts
<1>5. x \in FlowHttpItem /\ x.t = Top.t /\ x.b = Node.b /\ x.r = 1 /\ x.op = "flowhttp"
      /\ x.s = Top.s
  BY <1>2, <1>4 DEF FlowHttpItem, NodeItem
<1> HIDE DEF x
<1>6. x \in Item /\ Fits(x) /\ x.op \in PlainOps \cup FlowOps
      /\ Below(Top.op) \subseteq Below(x.op) /\ Pass(x) = 0
  BY <1>1, <1>5, FlowGoesOn, Unchecked DEF CheckedOps
<1>7. UNCHANGED <<settings, isCancelled, ran>> /\ Grown /\ LateGrows
      /\ ~(stopAtFirstMatch /\ OthersReported')
  BY <1>2, <1>3 DEF UnlessFlow, Grown, LateGrows, OthersReported
<1>8. DataTypes'
  BY <1>3, DataKept DEF DataTypes, UnlessFlow, late
<1> QED
  BY <1>1, <1>3, <1>5, <1>6, <1>7, <1>8, WorkReplaces

\* The item of a block goes on with its next request.
LEMMA FlowFields ==
    ASSUME NEW y \in FlowHttpItem, NEW r \in Nat
    PROVE  LET x == [y EXCEPT !.op = "flowhttp", !.r = r]
           IN  /\ x \in FlowHttpItem /\ x.op = "flowhttp" /\ x.r = r
               /\ x.t = y.t /\ x.b = y.b /\ x.s = y.s
<1>1. [y EXCEPT !.op = "flowhttp", !.r = r] \in FlowHttpItem
  BY DEF FlowHttpItem
<1> QED
  BY <1>1 DEF FlowHttpItem

\* The check before the next request of an HTTP block in a flow.
LEMMA FlowNextRequestStep ==
    ASSUME IInv, FlowNextRequest
    PROVE  IInv'
<1>1. agenda # << >> /\ Top.op = "flowhttp" /\ Top.op \in FlowOps
  BY DEF FlowNextRequest, At, Top, FlowOps
<1>2. /\ Top \in FlowHttpItem /\ Top.r \in Nat /\ Top.r > 0
      /\ Top.t \in DOMAIN Templates /\ Top.b \in DOMAIN Templates[Top.t].blocks
      /\ Len(BlockAt.requests) \in Nat /\ DOMAIN BlockAt.requests = 1..Len(BlockAt.requests)
      /\ ~(stopAtFirstMatch /\ OthersReported)
  BY <1>1, FlowHttpTop
<1>3. UNCHANGED <<extracted, sends, late>> /\ UnlessFlow
  BY DEF FlowNextRequest
<1>s. LateGrows
      /\ {sends', lateSends', lateLeaves', allowed'} \subseteq Nat /\ lateSends' <= sends'
  BY <1>3, NothingSent
<1>4. CASE Top.r > Len(BlockAt.requests) \/ isCancelled
  <2> DEFINE v == IF BlockAt.matchers = "none" THEN Top.any ELSE Top.hit
  <2>1. LeafYields(v)
    BY <1>4 DEF FlowNextRequest
  <2>2. v \in BOOLEAN
    BY <1>2 DEF FlowHttpItem
  <2>3. extracted' \subseteq Names
    BY <1>3 DEF IInv, TypeOK
  <2> HIDE DEF v
  <2> QED
    BY <1>1, <1>3, <1>s, <2>1, <2>2, <2>3, LeafYieldStep
<1>5. CASE ~(Top.r > Len(BlockAt.requests) \/ isCancelled)
  <2> DEFINE x == IF RequestAt.needs \subseteq Top.bound
                  THEN [Top EXCEPT !.op = "flowsend"] ELSE [Top EXCEPT !.r = @ + 1]
  <2>1. Call(<< x >>) /\ UNCHANGED <<value, leaves>>
    BY <1>5 DEF FlowNextRequest
  <2>2. Top.r \in DOMAIN BlockAt.requests
    BY <1>2, <1>5
  <2>3. x \in FlowHttpItem /\ x.t = Top.t /\ x.b = Top.b /\ x.s = Top.s /\ x.r > 0
        /\ (x.op = "flowsend" => x.r = Top.r)
    <3>1. CASE RequestAt.needs \subseteq Top.bound
      <4>1. x = [Top EXCEPT !.op = "flowsend"]
        BY <3>1
      <4> HIDE DEF x
      <4> QED
        BY <1>2, <4>1 DEF FlowHttpItem
    <3>2. CASE ~(RequestAt.needs \subseteq Top.bound)
      <4>1. x = [Top EXCEPT !.r = @ + 1]
        BY <3>2
      <4> HIDE DEF x
      <4> QED
        BY <1>1, <1>2, <4>1 DEF FlowHttpItem
    <3> QED
      BY <3>1, <3>2
  <2> HIDE DEF x
  <2>4. x \in Item /\ Fits(x) /\ x.op \in PlainOps \cup FlowOps
        /\ Below(Top.op) \subseteq Below(x.op)
    BY <1>1, <1>2, <2>2, <2>3, FlowGoesOn DEF BlockAt
  <2>5. UNCHANGED <<settings, isCancelled, ran>> /\ Grown /\ LateGrows
        /\ ~(stopAtFirstMatch /\ OthersReported')
    BY <1>2, <1>3, <1>s DEF UnlessFlow, Grown, OthersReported
  <2>6. DataTypes'
    BY <1>3, <2>1, DataKept DEF DataTypes, UnlessFlow, late
  <2> QED
    BY <1>1, <1>5, <2>1, <2>3, <2>4, <2>5, <2>6, WorkReplaces
<1> QED
  BY <1>4, <1>5

\* A request of an HTTP block in a flow is sent.
LEMMA FlowSendHttpStep ==
    ASSUME IInv, FlowSendHttp
    PROVE  IInv'
<1>1. agenda # << >> /\ Top.op = "flowsend" /\ Top.op \in FlowOps /\ Top.op \in CheckedOps
  BY DEF FlowSendHttp, At, Top, FlowOps, CheckedOps
<1>2. /\ Top \in FlowHttpItem /\ Top.r \in Nat /\ Top.r > 0
      /\ Top.t \in DOMAIN Templates /\ Top.b \in DOMAIN Templates[Top.t].blocks
      /\ BlockAt.gives \subseteq Names /\ RequestAt.race \in Nat \ {0}
      /\ Len(BlockAt.requests) \in Nat
      /\ ~(stopAtFirstMatch /\ OthersReported)
  BY <1>1, FlowHttpTop DEF RequestAt
<1>3. UNCHANGED <<value, leaves>> /\ UnlessFlow
  BY DEF FlowSendHttp
<1>4. Pass(Top) = 1 /\ 1 \in Nat /\ 1 <= 1
  BY <1>1 DEF Pass
<1>5. LateGrows
      /\ {sends', lateSends', lateLeaves', allowed'} \subseteq Nat /\ lateSends' <= sends'
  BY <1>1, <1>4, SentFacts DEF FlowSendHttp
<1>6. UNCHANGED <<settings, isCancelled, ran>> /\ Grown /\ ~(stopAtFirstMatch /\ OthersReported')
  BY <1>2, <1>3 DEF UnlessFlow, Grown, OthersReported
<1>7. ASSUME NEW x \in FlowHttpItem, Call(<< x >>), x.op = "flowhttp", x.r > 0,
             x.t = Top.t, x.b = Top.b, x.s = Top.s, extracted' \subseteq Names
      PROVE  IInv'
  <2>1. x \in Item /\ Fits(x) /\ x.op \in PlainOps \cup FlowOps
        /\ Below(Top.op) \subseteq Below(x.op) /\ Pass(x) = 0
    BY <1>1, <1>2, <1>7, FlowGoesOn, Unchecked DEF CheckedOps
  <2>2. DataTypes'
    BY <1>3, <1>5, <1>7, DataKept DEF DataTypes, UnlessFlow
  <2> QED
    BY <1>1, <1>5, <1>6, <1>7, <2>1, <2>2, WorkReplaces
<1>8. CASE Call(<< [Top EXCEPT !.op = "flowhttp", !.r = @ + 1] >>) /\ UNCHANGED extracted
  <2> DEFINE r == Top.r + 1
             x == [Top EXCEPT !.op = "flowhttp", !.r = r]
  <2>1. Call(<< x >>) /\ extracted' \subseteq Names
    BY <1>8 DEF IInv, TypeOK
  <2>2. r \in Nat /\ r > 0
    BY <1>2
  <2> HIDE DEF r
  <2>3. x \in FlowHttpItem /\ x.op = "flowhttp" /\ x.r = r /\ x.t = Top.t /\ x.b = Top.b
        /\ x.s = Top.s
    BY <1>2, <2>2, FlowFields
  <2> HIDE DEF x
  <2> QED
    BY <1>7, <2>1, <2>2, <2>3
<1>9. CASE \E hit \in Hits, got \in SUBSET BlockAt.gives :
             /\ extracted' = extracted \cup got
             /\ Call(<< [Top EXCEPT !.op = "flowhttp", !.any = TRUE, !.hit = @ \/ hit,
                           !.r = IF hit /\ BlockAt.stop THEN Len(BlockAt.requests) + 1
                                                        ELSE @ + 1] >>)
  <2>1. PICK hit \in Hits, got \in SUBSET BlockAt.gives :
             /\ extracted' = extracted \cup got
             /\ Call(<< [Top EXCEPT !.op = "flowhttp", !.any = TRUE, !.hit = @ \/ hit,
                           !.r = IF hit /\ BlockAt.stop THEN Len(BlockAt.requests) + 1
                                                        ELSE @ + 1] >>)
    BY <1>9
  <2> DEFINE r == IF hit /\ BlockAt.stop THEN Len(BlockAt.requests) + 1 ELSE Top.r + 1
             any == TRUE
             h == Top.hit \/ hit
             x == [Top EXCEPT !.op = "flowhttp", !.any = any, !.hit = h, !.r = r]
  <2>2. Call(<< x >>)
    BY <2>1
  <2>3. r \in Nat /\ r > 0 /\ any \in BOOLEAN
    BY <1>2
  <2>4. h \in BOOLEAN
    OBVIOUS
  <2>5. extracted' \subseteq Names
    BY <1>2, <2>1 DEF IInv, TypeOK
  <2> HIDE DEF r, any, h
  <2>6. x \in FlowHttpItem /\ x.op = "flowhttp" /\ x.r = r /\ x.t = Top.t /\ x.b = Top.b
        /\ x.s = Top.s
    <3>1. x \in FlowHttpItem
      BY <1>2, <2>3, <2>4 DEF FlowHttpItem
    <3> QED
      BY <1>2, <3>1 DEF FlowHttpItem
  <2> HIDE DEF x
  <2> QED
    BY <1>7, <2>2, <2>3, <2>5, <2>6
<1> QED
  BY <1>8, <1>9 DEF FlowSendHttp

\* A flow that is true reports.
LEMMA VerdictStep ==
    ASSUME IInv, Verdict
    PROVE  IInv'
<1>1. agenda # << >> /\ Top.op = "verdict" /\ Top.op \in FlowOps
  BY DEF Verdict, At, Top, FlowOps
<1>2. Top.t \in DOMAIN Templates /\ Top.s \in InStep /\ ~(stopAtFirstMatch /\ OthersReported)
  BY <1>1, NodeTop
<1>3. Return /\ UNCHANGED <<settings, isCancelled, ran>> /\ LateGrows
      /\ OthersReported' = OthersReported
  BY DEF Verdict, history, LateGrows, OthersReported
<1>4. /\ findings' \in Seq([t : DOMAIN Templates, b : Nat])
      /\ \A i \in DOMAIN findings' : findings'[i].b <= Len(Templates[findings'[i].t].blocks)
  <2>1. 0 \in Nat /\ 0 <= Len(Templates[Top.t].blocks)
    BY <1>2, BlockFacts
  <2>2. CASE value
    BY <1>2, <2>1, <2>2, AppendTypes DEF Verdict
  <2>3. CASE ~value
    BY <2>3 DEF Verdict, IInv, TypeOK
  <2> QED
    BY <2>2, <2>3
<1>5. DataTypes'
  BY <1>4, DataKept DEF DataTypes, Verdict, history, late
<1>6. Grown
  <2>1. CASE value /\ Top.s # 0
    <3> DEFINE q == results[Top.s]
               r == [q EXCEPT !.matched = TRUE]
    <3>1. results \in [DOMAIN Steps -> Result] /\ Top.s \in DOMAIN Steps
      BY <1>2, <2>1 DEF IInv, TypeOK, Result, InStep
    <3>2. q \in Result
      BY <3>1
    <3>3. results' = [results EXCEPT ![Top.s] = r]
      BY <2>1, <3>1 DEF Verdict
    <3> HIDE DEF q
    <3>4. r \in Result /\ (q.matched => r.matched) /\ q.names \subseteq r.names
      BY <3>2 DEF Result
    <3> HIDE DEF r
    <3> QED
      BY <2>1, <3>3, <3>4 DEF Grown, q
  <2>2. CASE ~(value /\ Top.s # 0)
    BY <2>2 DEF Verdict, Grown
  <2> QED
    BY <2>1, <2>2
<1> QED
  BY <1>1, <1>2, <1>3, <1>5, <1>6, WorkReturns

(***************************************************************************)
(* execute_task and the workflow executor.                                 *)
(***************************************************************************)
\* A call that captures nothing and sends nothing keeps the invariant if what it calls is
\* due, and if what was to be looked at has been looked at.
LEMMA ControlKeeps ==
    ASSUME IInv, agenda # << >>, NEW items \in Seq(Item), Call(items),
           \A i \in 1..Len(items) :
              /\ Fits(items[i]) /\ items[i].op \notin CheckedOps /\ items[i].op # "task"
              /\ Below(Top.op) \subseteq Below(items[i].op)
              /\ Works(items[i]) =>
                    \/ Works(Top) /\ items[i].s = Top.s
                    \/ \A y \in Support(items[i].s) :
                          \E j \in 1..Len(items) : j > i /\ items[j] = y
              /\ items[i].op \in {"step", "topstep"} => Due(items[i].s)
              /\ items[i].op \in {"subs", "gate"} => items[i].s \in ran',
           \A i, j \in 1..Len(items) : i < j => items[j].op \in Below(items[i].op),
           UNCHANGED <<settings, isCancelled, results, late>>, DataTypes',
           stopAtFirstMatch /\ OthersReported' =>
              /\ OthersReported /\ spmStop'
              /\ \A i \in 1..Len(items) : items[i].op \in ControlOps \cup {"block"},
           ran \subseteq ran', \A u \in ran' : u \in DOMAIN Steps /\ Due(u),
           \A u \in ran' : u \in ran \/ Support(u) \subseteq ToSet(items),
           Top.op \in {"step", "topstep"} =>
              \/ Top.s \in ran'
              \/ \E i \in 1..Len(items) : items[i].op = "step" /\ items[i].s = Top.s,
           Top.op = "task" => ran' = {},
           Top.op = "task" /\ items # << >> =>
              \A u \in TopSteps : \E i \in 1..Len(items) :
                 items[i].op = "topstep" /\ items[i].s = u,
           Top.op = "subs" /\ results[Top.s].matched =>
              \A u \in ToSet(Steps[Top.s].subs) : \E i \in 1..Len(items) :
                 items[i].op = "step" /\ items[i].s = u,
           Top.op = "gate" /\ Satisfied(Steps[Top.s].gates[Top.g], results[Top.s]) =>
              \A u \in ToSet(Steps[Top.s].gates[Top.g].subs) : \E i \in 1..Len(items) :
                 items[i].op = "step" /\ items[i].s = u
    PROVE  IInv'
<1>1. TypeOK /\ NestedInv /\ LateInv /\ StopInv /\ DueInv /\ HandInv
  BY DEF IInv
<1>2. NestedInv' /\ Left' = ToSet(items) \cup Remaining
  <2>1. \A i \in 1..Len(items) :
           /\ Fits(items[i])
           /\ Below(Top.op) \subseteq Below(items[i].op)
           /\ Works(items[i]) =>
                 \/ Works(Top) /\ items[i].s = Top.s
                 \/ \A y \in Support(items[i].s) :
                       \E j \in 1..Len(items) : j > i /\ items[j] = y
    OBVIOUS
  <2>2. \A i, j \in 1..Len(items) : i < j => items[j].op \in Below(items[i].op)
    OBVIOUS
  <2> QED
    BY <1>1, <2>1, <2>2, CallNests, Zenon
<1>3. /\ Left = {Top} \cup Remaining /\ Top \in Item
      /\ \A x \in Remaining : x.op \in Below(Top.op)
  BY <1>1, TopFacts
<1>4. DOMAIN items = 1..Len(items)
  BY LenProperties
<1>5. \A i \in 1..Len(items) : items[i] \in Left'
  BY <1>2, <1>4 DEF ToSet
<1>6. \A x \in Left' : x \in Remaining \/ \E i \in 1..Len(items) : x = items[i]
  BY <1>2, <1>4 DEF ToSet
<1>7. UNCHANGED <<task, stopAtFirstMatch>>
  BY DEF settings
<1>8. TypeOK'
  <2>1. agenda' \in Seq(Item)
    BY <1>2 DEF NestedInv, Nested
  <2>2. ran' \subseteq DOMAIN Steps
    OBVIOUS
  <2> QED
    BY <1>1, <1>7, <2>1, <2>2 DEF TypeOK, DataTypes
<1>9. LateInv'
  <2>1. UNCHANGED <<lateSends, lateLeaves, allowed>>
    BY DEF late
  <2>2. \A x \in Left' : x \in Left \/ Pass(x) = 0
    BY <1>3, <1>6, Unchecked
  <2>3. lateSends \in Int
    BY <1>1 DEF TypeOK
  <2> QED
    BY <1>1, <2>1, <2>2, <2>3 DEF LateInv, CancelStopsTask
<1>10. StopInv'
  <2> SUFFICES ASSUME stopAtFirstMatch', OthersReported'
               PROVE  spmStop' /\ \A x \in Left' : x.op \in ControlOps \cup {"block"}
    BY DEF StopInv
  <2> QED
    BY <1>1, <1>3, <1>6, <1>7 DEF StopInv
<1>11. TopSteps' = TopSteps /\ \A u : Due(u) => Due(u)'
  BY <1>7 DEF TopSteps, Due
<1>12. DueInv'
  BY <1>1, <1>3, <1>6, <1>11 DEF DueInv
<1>13. \A u : InHand(u) => InHand(u)'
  <2> SUFFICES ASSUME NEW u, InHand(u) PROVE InHand(u)'
    OBVIOUS
  <2>1. CASE u \in ran
    BY <2>1 DEF InHand
  <2>2. ASSUME NEW x \in Remaining, x.op \in {"step", "topstep"}, x.s = u PROVE InHand(u)'
    BY <1>2, <2>2 DEF InHand
  <2>3. CASE Top.op \in {"step", "topstep"} /\ Top.s = u
    BY <1>5, <2>3 DEF InHand
  <2> QED
    BY <1>3, <2>1, <2>2, <2>3 DEF InHand
<1>14. \A u : (\E i \in 1..Len(items) : items[i].op \in {"step", "topstep"} /\ items[i].s = u)
              => InHand(u)'
  BY <1>5 DEF InHand
<1>15. \A x \in Remaining : x.op # "task"
  BY <1>3 DEF Below, ControlOps, PlainOps, FlowOps
<1>16. [op |-> "task"] \notin Left'
  BY <1>6, <1>15
<1>17. ASSUME ~isCancelled
       PROVE  (ran' = {} /\ agenda' = << >>) \/ \A u \in TopSteps' : InHand(u)'
  <2>1. CASE Top.op = "task" /\ items # << >>
    BY <1>11, <1>14, <2>1
  <2>2. CASE Top.op = "task" /\ items = << >>
    <3>1. Left' = {}
      <4>1. Remaining = {}
        BY <1>3, <2>2 DEF Below, ControlOps, PlainOps, FlowOps
      <4>2. Len(items) = 0
        BY <2>2, EmptySeq
      <4> QED
        BY <1>6, <4>1, <4>2
    <3>2. agenda' \in Seq(Item)
      BY <1>2 DEF NestedInv, Nested
    <3>3. ASSUME agenda' # << >> PROVE FALSE
      <4>1. Len(agenda') \in Nat \ {0} /\ DOMAIN agenda' = 1..Len(agenda')
        BY <3>2, <3>3, EmptySeq, LenProperties
      <4>2. 1 \in DOMAIN agenda'
        BY <4>1
      <4> QED
        BY <3>1, <4>2 DEF Left, ToSet
    <3> QED
      BY <2>2, <3>3
  <2>3. CASE Top.op # "task"
    <3>1. [op |-> "task"] \notin Left
      BY <1>3, <1>15, <2>3
    <3> QED
      BY <1>1, <1>11, <1>13, <1>17, <3>1 DEF HandInv
  <2> QED
    BY <2>1, <2>2, <2>3
<1>18. ASSUME ~isCancelled, NEW s \in ran'
       PROVE  \/ SubsOf(s) \in Left'
              \/ results'[s].matched => \A u \in ToSet(Steps[s].subs) : InHand(u)'
  <2>1. CASE Support(s) \subseteq ToSet(items)
    BY <1>2, <2>1 DEF Support
  <2>2. CASE s \in ran /\ SubsOf(s) = Top
    <3>1. Top.op = "subs" /\ Top.s = s
      BY <2>2 DEF SubsOf
    <3> QED
      BY <1>14, <3>1
  <2>3. CASE s \in ran /\ SubsOf(s) # Top
    BY <1>1, <1>2, <1>3, <1>13, <1>18, <2>3 DEF HandInv
  <2> QED
    BY <2>1, <2>2, <2>3
<1>19. ASSUME ~isCancelled, NEW s \in ran', NEW g \in DOMAIN Steps[s].gates
       PROVE  \/ GateOf(s, g) \in Left'
              \/ Satisfied(Steps[s].gates[g], results'[s]) =>
                    \A u \in ToSet(Steps[s].gates[g].subs) : InHand(u)'
  <2>1. CASE Support(s) \subseteq ToSet(items)
    BY <1>2, <1>19, <2>1 DEF Support
  <2>2. CASE s \in ran /\ GateOf(s, g) = Top
    <3>1. Top.op = "gate" /\ Top.s = s /\ Top.g = g
      BY <2>2 DEF GateOf
    <3> QED
      BY <1>14, <3>1
  <2>3. CASE s \in ran /\ GateOf(s, g) # Top
    BY <1>1, <1>2, <1>3, <1>13, <1>19, <2>3 DEF HandInv
  <2> QED
    BY <2>1, <2>2, <2>3
<1>20. HandInv'
  BY <1>16, <1>17, <1>18, <1>19 DEF HandInv
<1> QED
  BY <1>2, <1>8, <1>9, <1>10, <1>12, <1>20 DEF IInv

\* A function on 1..n is a sequence.
LEMMA Tuples ==
    ASSUME NEW S, NEW n \in Nat, NEW f \in [1..n -> S]
    PROVE  f \in Seq(S) /\ Len(f) = n
<1>1. f \in Seq(S)
  BY SeqDef
<1>2. Len(f) \in Nat /\ 1..Len(f) = 1..n
  BY <1>1, LenProperties
<1>3. CASE Len(f) < n
  <2>1. n \in 1..n /\ n \notin 1..Len(f)
    BY <1>2, <1>3
  <2> QED
    BY <1>2, <2>1
<1>4. CASE Len(f) > n
  <2>1. Len(f) \in 1..Len(f) /\ Len(f) \notin 1..n
    BY <1>2, <1>4
  <2> QED
    BY <1>2, <2>1
<1> QED
  BY <1>1, <1>2, <1>3, <1>4

\* The calls of steps.
LEMMA StepItemsFacts ==
    ASSUME NEW op \in {"step", "topstep"}, NEW steps \in Seq(DOMAIN Steps)
    PROVE  LET items == StepItems(op, steps)
           IN  /\ items \in Seq(Item) /\ Len(items) = Len(steps) /\ Len(steps) \in Nat
               /\ \A i \in 1..Len(items) :
                     items[i].op = op /\ items[i].s = steps[i] /\ items[i].s \in DOMAIN Steps
                     /\ items[i].s \in ToSet(steps)
                     /\ Fits(items[i])
               /\ \A u \in ToSet(steps) : \E i \in 1..Len(items) : items[i].s = u
<1> DEFINE items == StepItems(op, steps)
<1>1. Len(steps) \in Nat /\ DOMAIN steps = 1..Len(steps)
      /\ \A i \in 1..Len(steps) : steps[i] \in DOMAIN Steps
  BY LenProperties, ElementOfSeq
<1>2. \A s \in DOMAIN Steps : [op |-> op, s |-> s] \in Item /\ Fits([op |-> op, s |-> s])
  BY DEF Item, StepItem, Fits, PlainOps, CheckedOps
<1>3. items = [i \in 1..Len(steps) |-> [op |-> op, s |-> steps[i]]]
  BY <1>1 DEF StepItems
<1> HIDE DEF items
<1>4. items \in Seq(Item) /\ Len(items) = Len(steps)
  <2>1. \A i \in 1..Len(steps) : [op |-> op, s |-> steps[i]] \in Item
    BY <1>1, <1>2
  <2>2. items \in [1..Len(steps) -> Item]
    BY <1>3, <2>1
  <2> QED
    BY <1>1, <2>2, Tuples
<1>5. \A i \in 1..Len(items) : items[i] = [op |-> op, s |-> steps[i]]
  BY <1>3, <1>4
<1>6. \A i \in 1..Len(items) : items[i].op = op /\ items[i].s = steps[i]
  <2> TAKE i \in 1..Len(items)
  <2>1. items[i] = [op |-> op, s |-> steps[i]]
    BY <1>5
  <2> QED
    BY <2>1
<1>7. \A i \in 1..Len(items) : Fits(items[i])
  BY <1>1, <1>2, <1>4, <1>5
<1> QED
  BY <1>1, <1>4, <1>6, <1>7 DEF items, ToSet

\* What a control action that leaves the data alone keeps.
LEMMA DataUntouched ==
    ASSUME IInv, agenda # << >>,
           UNCHANGED <<extracted, spmStop, value, findings, history, leaves>>
    PROVE  DataTypes' /\ late' = late /\ OthersReported' = OthersReported /\ spmStop' = spmStop
           /\ (stopAtFirstMatch /\ OthersReported => spmStop)
BY DataKept DEF DataTypes, history, late, IInv, StopInv, OthersReported

\* What is known of a call of the workflow executor.
LEMMA ControlTop ==
    ASSUME IInv, agenda # << >>, Top.op \in ControlOps
    PROVE  /\ Top \in Item /\ Fits(Top) /\ Top.s \in DOMAIN Steps
           /\ Below(Top.op) = ControlOps
           /\ Top.op \in {"step", "topstep"} => Due(Top.s)
           /\ Top.op \in {"subs", "gate"} => Top.s \in ran
           /\ \A u \in ran : u \in DOMAIN Steps /\ Due(u)
           /\ results \in [DOMAIN Steps -> Result]
<1>1. Top \in Item /\ Fits(Top) /\ Top \in Left
  BY TopFacts DEF IInv
<1>2. Top.s \in DOMAIN Steps
  BY <1>1, ItemFacts
<1>0. \A x \in Left : /\ x.op \in {"step", "topstep"} => Due(x.s)
                      /\ x.op \in {"subs", "gate"} => x.s \in ran
  BY DEF IInv, DueInv
<1>3. Top.op \in {"step", "topstep"} => Due(Top.s)
  BY <1>1, <1>0
<1>4. \A u \in ran : u \in DOMAIN Steps /\ Due(u)
  BY DEF IInv, DueInv, TypeOK
<1>5. results \in [DOMAIN Steps -> Result]
  BY DEF IInv, TypeOK, Result
<1>6. Below(Top.op) = ControlOps
  BY DEF Below, ControlOps, PlainOps, FlowOps
<1>7. Top.op \in {"subs", "gate"} => Top.s \in ran
  BY <1>1, <1>0
<1> QED
  BY <1>1, <1>2, <1>3, <1>4, <1>5, <1>6, <1>7

\* A step a workflow begins with is called, unless cancelled.
LEMMA TopStepStep ==
    ASSUME IInv, TopStep
    PROVE  IInv'
<1>1. agenda # << >> /\ Top.op = "topstep" /\ Top.op \in ControlOps
  BY DEF TopStep, At, Top, ControlOps
<1>2. /\ UNCHANGED <<settings, isCancelled, results, ran>> /\ DataTypes'
      /\ late' = late /\ OthersReported' = OthersReported /\ spmStop' = spmStop
      /\ (stopAtFirstMatch /\ OthersReported => spmStop)
  BY <1>1, DataUntouched DEF TopStep
<1>3. Top.s \in DOMAIN Steps /\ Below(Top.op) = ControlOps /\ Due(Top.s)
      /\ \A u \in ran : u \in DOMAIN Steps /\ Due(u)
  BY <1>1, ControlTop
<1>4. CASE isCancelled
  <2>1. agenda' = << >>
    BY <1>4 DEF TopStep
  <2>2. agenda' \in Seq(Item) /\ Len(agenda') = 0 /\ DOMAIN agenda' = 1..Len(agenda')
    BY <2>1, EmptySeq, LenProperties
  <2>3. NestedInv' /\ Left' = {}
    BY <2>2 DEF NestedInv, Nested, Left, ToSet
  <2>4. UNCHANGED <<task, stopAtFirstMatch>>
    BY <1>2 DEF settings
  <2>5. TypeOK'
    BY <1>2, <2>2, <2>4 DEF IInv, TypeOK, DataTypes
  <2>6. LateInv'
    <3>1. UNCHANGED <<lateSends, lateLeaves, allowed>>
      BY <1>2 DEF late
    <3> QED
      BY <1>2, <2>3, <3>1 DEF IInv, LateInv, CancelStopsTask
  <2>7. StopInv' /\ DueInv' /\ HandInv'
    <3>1. StopInv'
      BY <1>2, <2>3, <2>4 DEF StopInv
    <3>2. DueInv'
      BY <1>2, <1>3, <2>3, <2>4 DEF DueInv, Due, TopSteps
    <3>3. HandInv'
      BY <1>2, <1>4, <2>3 DEF HandInv
    <3> QED
      BY <3>1, <3>2, <3>3
  <2> QED
    BY <2>3, <2>5, <2>6, <2>7 DEF IInv
<1>5. CASE ~isCancelled
  <2> DEFINE x == [op |-> "step", s |-> Top.s]
             items == << x >>
  <2>1. Call(items)
    BY <1>5 DEF TopStep
  <2>2. x \in Item /\ Fits(x) /\ x.op = "step" /\ x.s = Top.s
    BY <1>3 DEF Item, StepItem, Fits, PlainOps, CheckedOps
  <2> HIDE DEF x
  <2>3. items \in Seq(Item) /\ Len(items) = 1 /\ items[1] = x /\ items # << >>
    BY <2>2
  <2> HIDE DEF items
  <2>4. \A i \in 1..Len(items) : items[i] = x
    BY <2>3
  <2>5. /\ ControlOps \subseteq Below(x.op) /\ x.op \in ControlOps /\ x.op \notin CheckedOps
        /\ x.op # "task" /\ ~Works(x)
    BY <2>2 DEF Below, ControlOps, CheckedOps, Works, PlainOps, FlowOps
  <2>6. \A i, j \in 1..Len(items) : ~(i < j)
    BY <2>3
  <2> QED
    BY <1>1, <1>2, <1>3, <2>1, <2>2, <2>3, <2>4, <2>5, <2>6, ControlKeeps
<1> QED
  BY <1>4, <1>5

\* A step that calls the steps behind its result or behind one of its gates, or none.
LEMMA BehindStep ==
    ASSUME IInv, agenda # << >>, Top.op \in {"subs", "gate"},
           NEW steps \in Seq(DOMAIN Steps),
           Top.op = "subs" => steps = Steps[Top.s].subs,
           Top.op = "gate" => steps = Steps[Top.s].gates[Top.g].subs,
           NEW open \in BOOLEAN,
           Top.op = "subs" => open = results[Top.s].matched,
           Top.op = "gate" => open = Satisfied(Steps[Top.s].gates[Top.g], results[Top.s]),
           Call(IF open THEN StepItems("step", steps) ELSE << >>),
           \A u \in ToSet(steps) : open => Due(u),
           UNCHANGED <<settings, isCancelled, extracted, spmStop, value, results, findings,
                       history, leaves, ran>>
    PROVE  IInv'
<1> DEFINE items == IF open THEN StepItems("step", steps) ELSE << >>
<1>1. Top.op \in ControlOps
  BY DEF ControlOps
<1>2. /\ UNCHANGED <<settings, isCancelled, results, ran>> /\ DataTypes'
      /\ late' = late /\ OthersReported' = OthersReported /\ spmStop' = spmStop
      /\ (stopAtFirstMatch /\ OthersReported => spmStop)
  BY DataUntouched
<1>3. Top.s \in DOMAIN Steps /\ Below(Top.op) = ControlOps
      /\ \A u \in ran : u \in DOMAIN Steps /\ Due(u)
  BY <1>1, ControlTop
<1>4. /\ items \in Seq(Item)
      /\ \A i \in 1..Len(items) :
            items[i].op = "step" /\ items[i].s \in ToSet(steps) /\ Fits(items[i]) /\ open
      /\ open => \A u \in ToSet(steps) : \E i \in 1..Len(items) : items[i].s = u
  <2>1. CASE open
    BY <2>1, StepItemsFacts
  <2>2. CASE ~open
    BY <2>2, EmptySeq
  <2> QED
    BY <2>1, <2>2
<1>5. Call(items)
  OBVIOUS
<1> HIDE DEF items
<1>6. \A i \in 1..Len(items) :
         /\ Fits(items[i]) /\ items[i].op \notin CheckedOps /\ items[i].op # "task"
         /\ items[i].op \in ControlOps
         /\ Below(items[i].op) = ControlOps
         /\ ~Works(items[i])
         /\ Due(items[i].s)
  BY <1>4 DEF Below, ControlOps, CheckedOps, Works, PlainOps, FlowOps
<1>7. \A i, j \in 1..Len(items) : i < j => items[j].op \in Below(items[i].op)
  BY <1>6
<1>8. Top.op \notin {"step", "topstep", "task"}
  OBVIOUS
<1>9. Top.op = "subs" /\ results[Top.s].matched =>
         \A u \in ToSet(Steps[Top.s].subs) : \E i \in 1..Len(items) :
            items[i].op = "step" /\ items[i].s = u
  BY <1>4
<1>10. Top.op = "gate" /\ Satisfied(Steps[Top.s].gates[Top.g], results[Top.s]) =>
         \A u \in ToSet(Steps[Top.s].gates[Top.g].subs) : \E i \in 1..Len(items) :
            items[i].op = "step" /\ items[i].s = u
  BY <1>4
<1>11. UNCHANGED <<settings, isCancelled, results, late>> /\ DataTypes'
  BY <1>2
<1>12. stopAtFirstMatch /\ OthersReported' =>
          /\ OthersReported /\ spmStop'
          /\ \A i \in 1..Len(items) : items[i].op \in ControlOps \cup {"block"}
  BY <1>2, <1>6
<1>13. ran \subseteq ran' /\ \A u \in ran' : u \in DOMAIN Steps /\ Due(u) /\ u \in ran
  BY <1>2, <1>3
<1>14. \A i \in 1..Len(items) :
         /\ Fits(items[i]) /\ items[i].op \notin CheckedOps /\ items[i].op # "task"
         /\ Below(Top.op) \subseteq Below(items[i].op)
         /\ ~Works(items[i]) /\ Due(items[i].s) /\ items[i].op = "step"
  BY <1>3, <1>4, <1>6
<1> QED
  BY <1>4, <1>5, <1>7, <1>8, <1>9, <1>10, <1>11, <1>12, <1>13, <1>14, ControlKeeps

\* What is behind an open gate of a step that was run is due.
LEMMA BehindIsDue ==
    ASSUME NEW s \in ran, NEW u,
           \/ results[s].matched /\ u \in ToSet(Steps[s].subs)
           \/ \E g \in DOMAIN Steps[s].gates :
                 Satisfied(Steps[s].gates[g], results[s]) /\ u \in ToSet(Steps[s].gates[g].subs)
    PROVE  Due(u)
<1>1. \A g \in DOMAIN Steps[s].gates : Steps[s].gates[g] \in ToSet(Steps[s].gates)
  BY DEF ToSet
<1>2. u \in Opened(s, results[s])
  BY <1>1 DEF Opened
<1> QED
  BY <1>2 DEF Due

\* The direct subtemplates of a step that produced a result.
LEMMA SubtemplatesStep ==
    ASSUME IInv, Subtemplates
    PROVE  IInv'
<1>1. agenda # << >> /\ Top.op = "subs" /\ Top.op \in ControlOps
  BY DEF Subtemplates, At, Top, ControlOps
<1>2. Top.s \in DOMAIN Steps /\ Top.s \in ran /\ results \in [DOMAIN Steps -> Result]
  BY <1>1, ControlTop
<1> DEFINE steps == Steps[Top.s].subs
           open == results[Top.s].matched
<1>3. steps \in Seq(DOMAIN Steps)
  BY <1>2, StepFacts
<1>4. open \in BOOLEAN
  BY <1>2 DEF Result
<1>5. \A u \in ToSet(steps) : open => Due(u)
  BY <1>2, BehindIsDue
<1>6. Call(IF open THEN StepItems("step", steps) ELSE << >>)
  BY DEF Subtemplates
<1>7. UNCHANGED <<settings, isCancelled, extracted, spmStop, value, results, findings,
                  history, leaves, ran>>
  BY DEF Subtemplates
<1>8. open = results[Top.s].matched /\ steps = Steps[Top.s].subs
  OBVIOUS
<1> HIDE DEF steps, open
<1> QED
  BY <1>1, <1>3, <1>4, <1>5, <1>6, <1>7, <1>8, BehindStep

\* A gate opens for the names that were captured, or stays shut.
LEMMA GateStep ==
    ASSUME IInv, Gate
    PROVE  IInv'
<1>1. agenda # << >> /\ Top.op = "gate" /\ Top.op \in ControlOps
  BY DEF Gate, At, Top, ControlOps
<1>2. Top.s \in DOMAIN Steps /\ Top.s \in ran /\ Top.g \in DOMAIN Steps[Top.s].gates
  BY <1>1, ControlTop DEF Fits
<1> DEFINE steps == Steps[Top.s].gates[Top.g].subs
           open == Satisfied(Steps[Top.s].gates[Top.g], results[Top.s])
<1>3. steps \in Seq(DOMAIN Steps)
  BY <1>2, StepFacts
<1>4. open \in BOOLEAN
  BY DEF Satisfied
<1>5. \A u \in ToSet(steps) : open => Due(u)
  BY <1>2, BehindIsDue
<1>6. Call(IF open THEN StepItems("step", steps) ELSE << >>)
  BY DEF Gate
<1>7. UNCHANGED <<settings, isCancelled, extracted, spmStop, value, results, findings,
                  history, leaves, ran>>
  BY DEF Gate
<1>8. open = Satisfied(Steps[Top.s].gates[Top.g], results[Top.s])
      /\ steps = Steps[Top.s].gates[Top.g].subs
  OBVIOUS
<1> HIDE DEF steps, open
<1> QED
  BY <1>1, <1>3, <1>4, <1>5, <1>6, <1>7, <1>8, BehindStep

\* A step runs its template.
LEMMA RunStepStep ==
    ASSUME IInv, RunStep
    PROVE  IInv'
<1>1. agenda # << >> /\ Top.op = "step" /\ Top.op \in ControlOps
  BY DEF RunStep, At, Top, ControlOps
<1>2. /\ UNCHANGED <<settings, isCancelled, results>> /\ DataTypes'
      /\ late' = late /\ OthersReported' = OthersReported /\ spmStop' = spmStop
      /\ (stopAtFirstMatch /\ OthersReported => spmStop)
      /\ ran' = ran \cup {Top.s}
  BY <1>1, DataUntouched DEF RunStep
<1>3. Top.s \in DOMAIN Steps /\ Below(Top.op) = ControlOps /\ Due(Top.s)
      /\ \A u \in ran : u \in DOMAIN Steps /\ Due(u)
  BY <1>1, ControlTop
<1> DEFINE s == Top.s
           gates == Steps[s].gates
           x == [op |-> "template", s |-> s, todo |-> ResolveStep(Steps[s])]
           y == [op |-> "subs", s |-> s]
           G == [g \in DOMAIN gates |-> [op |-> "gate", s |-> s, g |-> g]]
           n == Len(gates)
           items == << x, y >> \o G
<1>4. n \in Nat /\ DOMAIN gates = 1..n
  BY <1>3, StepFacts
<1>5. Call(items)
  BY DEF RunStep
<1>6. x \in Item /\ x.op = "template" /\ x.s = s
  BY <1>3 DEF Item, TemplateItem, ResolveStep
<1>7. y \in Item /\ y.op = "subs" /\ y.s = s /\ y = SubsOf(s)
  BY <1>3 DEF Item, StepItem, SubsOf
<1>8. \A g \in 1..n : /\ G[g] \in Item /\ G[g].op = "gate" /\ G[g].s = s /\ G[g].g = g
                      /\ G[g] = GateOf(s, g)
  BY <1>3, <1>4 DEF Item, GateItem, GateOf
<1>9. G \in Seq(Item) /\ Len(G) = n
  <2>1. DOMAIN G = 1..n /\ G = [g \in 1..n |-> G[g]]
    BY <1>4
  <2> HIDE DEF G
  <2>2. G \in [1..n -> Item]
    BY <1>8, <2>1
  <2> HIDE DEF n
  <2> QED
    BY <1>4, <2>2, Tuples
<1> HIDE DEF x, y, G
<1>10. << x, y >> \in Seq(Item) /\ Len(<< x, y >>) = 2
       /\ << x, y >>[1] = x /\ << x, y >>[2] = y
  BY <1>6, <1>7
<1> HIDE DEF n
<1>11. /\ items \in Seq(Item) /\ Len(items) = 2 + n
       /\ items[1] = x /\ items[2] = y /\ \A g \in 1..n : items[2 + g] = G[g]
  <2>1. items \in Seq(Item) /\ Len(items) = Len(<< x, y >>) + Len(G)
        /\ \A i \in 1..(Len(<< x, y >>) + Len(G)) :
              items[i] = IF i <= Len(<< x, y >>) THEN << x, y >>[i] ELSE G[i - Len(<< x, y >>)]
    BY <1>9, <1>10, ConcatProperties
  <2> HIDE DEF items
  <2>2. \A i \in 1..(2 + n) : items[i] = IF i <= 2 THEN << x, y >>[i] ELSE G[i - 2]
    BY <1>9, <1>10, <2>1
  <2>3. items[1] = x /\ items[2] = y
    BY <1>4, <1>10, <2>2
  <2>4. \A g \in 1..n : items[2 + g] = G[g]
    <3> TAKE g \in 1..n
    <3>1. 2 + g \in 1..(2 + n) /\ ~(2 + g <= 2) /\ 2 + g - 2 = g
      BY <1>4
    <3> QED
      BY <2>2, <3>1
  <2> QED
    BY <1>9, <1>10, <2>1, <2>3, <2>4
<1> HIDE DEF items
<1>12. \A i \in 1..Len(items) :
          \/ i = 1 /\ items[i] = x
          \/ i = 2 /\ items[i] = y
          \/ \E g \in 1..n : i = 2 + g /\ items[i] = G[g]
  <2> TAKE i \in 1..Len(items)
  <2>1. CASE i > 2
    <3>1. i - 2 \in 1..n /\ i = 2 + (i - 2)
      BY <1>4, <1>11, <2>1
    <3> QED
      BY <1>11, <3>1
  <2>2. i > 2 \/ i = 1 \/ i = 2
    BY <1>4, <1>11
  <2> QED
    BY <1>11, <2>1, <2>2
<1>13. Fits(x) /\ Fits(y) /\ \A g \in 1..n : Fits(G[g])
  BY <1>4, <1>6, <1>7, <1>8 DEF Fits, PlainOps, CheckedOps
<1>14. \A i \in 1..Len(items) :
          /\ Fits(items[i]) /\ items[i].op \in {"template", "subs", "gate"}
          /\ items[i].op = "template" => i = 1
          /\ items[i].s = s
  BY <1>6, <1>7, <1>8, <1>12, <1>13
<1>15. \A op \in {"template", "subs", "gate"} :
          Below(op) = ControlOps /\ op \in ControlOps /\ op \notin CheckedOps /\ op # "task"
          /\ (op # "template" => op \notin PlainOps \cup FlowOps \cup {"template"})
  BY DEF Below, ControlOps, PlainOps, FlowOps, CheckedOps
<1>16. ASSUME NEW z \in Support(s) PROVE \E j \in 2..Len(items) : items[j] = z
  <2>1. CASE z = SubsOf(s)
    <3>1. 2 \in 2..Len(items)
      BY <1>4, <1>11
    <3> QED
      BY <1>7, <1>11, <2>1, <3>1
  <2>2. ASSUME NEW g \in 1..n, z = GateOf(s, g) PROVE \E j \in 2..Len(items) : items[j] = z
    <3>1. 2 + g \in 2..Len(items)
      BY <1>4, <1>11
    <3> QED
      BY <1>8, <1>11, <2>2, <3>1
  <2>3. z = SubsOf(s) \/ \E g \in DOMAIN Steps[s].gates : z = GateOf(s, g)
    BY <1>16 DEF Support
  <2> QED
    BY <1>4, <2>1, <2>2, <2>3
<1>17. \A i \in 1..Len(items) : Works(items[i]) =>
          \A z \in Support(items[i].s) : \E j \in 1..Len(items) : j > i /\ items[j] = z
  <2> SUFFICES ASSUME NEW i \in 1..Len(items), Works(items[i]), NEW z \in Support(s)
               PROVE  \E j \in 1..Len(items) : j > i /\ items[j] = z
    BY <1>14
  <2>1. i = 1
    BY <1>14, <1>15 DEF Works
  <2>2. PICK j \in 2..Len(items) : items[j] = z
    BY <1>16
  <2>3. j \in 1..Len(items) /\ j > i
    BY <1>4, <1>11, <2>1
  <2> QED
    BY <2>2, <2>3
<1>18. Support(s) \subseteq ToSet(items)
  <2>1. DOMAIN items = 1..Len(items) /\ \A j \in 2..Len(items) : j \in 1..Len(items)
    BY <1>4, <1>11, LenProperties
  <2> QED
    BY <1>16, <2>1 DEF ToSet
<1>19. /\ ran \subseteq ran' /\ \A u \in ran' : u \in DOMAIN Steps /\ Due(u)
       /\ \A u \in ran' : u \in ran \/ Support(u) \subseteq ToSet(items)
       /\ s \in ran'
  BY <1>2, <1>3, <1>18
<1>20. \A i \in 1..Len(items) :
          /\ Fits(items[i]) /\ items[i].op \notin CheckedOps /\ items[i].op # "task"
          /\ Below(Top.op) \subseteq Below(items[i].op)
          /\ items[i].op \notin {"step", "topstep"} /\ items[i].s \in ran'
          /\ items[i].op \in ControlOps
  BY <1>3, <1>14, <1>15, <1>19
<1>21. \A i, j \in 1..Len(items) : i < j => items[j].op \in Below(items[i].op)
  BY <1>14, <1>15
<1> QED
  BY <1>1, <1>2, <1>5, <1>11, <1>17, <1>19, <1>20, <1>21, ControlKeeps

\* The blocks or the flow of a template.
LEMMA TemplateCalls ==
    ASSUME NEW t \in DOMAIN Templates, NEW s \in InStep
    PROVE  LET items == IF Templates[t].flow # 0 THEN FlowItems(t, s) ELSE ProtocolItems(t, s)
           IN  /\ items \in Seq(Item) /\ Len(items) \in Nat
               /\ \A i \in 1..Len(items) :
                     /\ items[i].op \in {"block", "eval", "verdict"} /\ items[i].s = s
                     /\ Fits(items[i])
               /\ \A i, j \in 1..Len(items) : i < j => items[j].op \in Below(items[i].op)
<1>1. CASE Templates[t].flow # 0
  <2> DEFINE x == [op |-> "eval", n |-> Templates[t].flow, t |-> t, s |-> s]
             y == [op |-> "verdict", t |-> t, s |-> s]
  <2>1. Templates[t].flow \in DOMAIN Nodes
    BY <1>1, BlockFacts
  <2>2. x \in Item /\ x.op = "eval" /\ x.s = s
    BY <2>1 DEF Item, NodeItem
  <2>3. y \in Item /\ y.op = "verdict" /\ y.s = s
    BY DEF Item, VerdictItem
  <2>4. FlowItems(t, s) = << x, y >>
    BY DEF FlowItems
  <2> HIDE DEF x, y
  <2>5. << x, y >> \in Seq(Item) /\ Len(<< x, y >>) = 2
        /\ << x, y >>[1] = x /\ << x, y >>[2] = y
    BY <2>2, <2>3
  <2>6. Fits(x) /\ Fits(y) /\ y.op \in Below(x.op)
    BY <2>2, <2>3 DEF Fits, PlainOps, FlowOps, ControlOps, CheckedOps, Below
  <2>7. \A i \in 1..2 : i = 1 \/ i = 2
    OBVIOUS
  <2>8. /\ \A i \in 1..Len(<< x, y >>) :
              /\ << x, y >>[i].op \in {"block", "eval", "verdict"} /\ << x, y >>[i].s = s
              /\ Fits(<< x, y >>[i])
        /\ \A i, j \in 1..Len(<< x, y >>) : i < j => << x, y >>[j].op \in Below(<< x, y >>[i].op)
    BY <2>2, <2>3, <2>5, <2>6, <2>7
  <2> QED
    BY <1>1, <2>4, <2>5, <2>8
<1>2. CASE Templates[t].flow = 0
  <2> DEFINE items == ProtocolItems(t, s)
             n == Len(Templates[t].blocks)
  <2>1. n \in Nat /\ DOMAIN Templates[t].blocks = 1..n
    BY BlockFacts
  <2>2. items = [i \in 1..n |-> [op |-> "block", t |-> t, b |-> i, s |-> s]]
    BY <2>1 DEF ProtocolItems
  <2>3. ASSUME NEW i \in 1..n
        PROVE  LET x == [op |-> "block", t |-> t, b |-> i, s |-> s]
               IN  x \in Item /\ Fits(x)
    BY <2>1 DEF Item, BlockItem, Fits, PlainOps, CheckedOps
  <2> HIDE DEF n, items
  <2>4. items \in [1..n -> Item]
    BY <2>2, <2>3
  <2>5. items \in Seq(Item) /\ Len(items) = n
    BY <2>1, <2>4, Tuples
  <2>6. \A i \in 1..n : items[i].op = "block" /\ items[i].s = s /\ Fits(items[i])
    <3> TAKE i \in 1..n
    <3>1. items[i] = [op |-> "block", t |-> t, b |-> i, s |-> s]
      BY <2>2
    <3> QED
      BY <2>3, <3>1
  <2>7. "block" \in Below("block")
    BY DEF Below, PlainOps, FlowOps, ControlOps
  <2> QED
    BY <1>2, <2>1, <2>5, <2>6, <2>7 DEF items
<1> QED
  BY <1>1, <1>2

\* A template runs its flow, or its blocks one after the other.
LEMMA RunTemplateStep ==
    ASSUME IInv, RunTemplate
    PROVE  IInv'
<1>1. agenda # << >> /\ Top.op = "template" /\ Top.op \in ControlOps
  BY DEF RunTemplate, At, Top, ControlOps
<1>2. UNCHANGED <<settings, isCancelled, extracted, value, results, findings, sends,
                  late, ran>>
  BY DEF RunTemplate
<1>3. Top.s \in DOMAIN Steps /\ Below(Top.op) = ControlOps /\ Top \in TemplateItem
      /\ \A u \in ran : u \in DOMAIN Steps /\ Due(u)
  BY <1>1, ControlTop, ItemFacts
<1>4. CASE Return /\ UNCHANGED <<spmStop, reported, leaves>>
  <2>1. Call(<< >>) /\ << >> \in Seq(Item) /\ Len(<< >>) = 0
    BY <1>1, <1>4, ReturnIsCall, EmptySeq DEF IInv
  <2>2. DataTypes' /\ (stopAtFirstMatch /\ OthersReported' => OthersReported /\ spmStop')
    BY <1>2, <1>4, DataKept DEF DataTypes, IInv, StopInv, OthersReported, late
  <2> DEFINE items == << >>
  <2>3. \A i \in 1..Len(items) : FALSE
    BY <2>1
  <2>4. items \in Seq(Item) /\ Call(items)
    BY <2>1
  <2> HIDE DEF items
  <2> QED
    BY <1>1, <1>2, <1>3, <2>2, <2>3, <2>4, ControlKeeps
<1>5. ASSUME NEW t \in Top.todo,
             Call((IF Templates[t].flow # 0 THEN FlowItems(t, Top.s)
                                            ELSE ProtocolItems(t, Top.s))
                  \o << [Top EXCEPT !.todo = @ \ {t}] >>),
             spmStop' = FALSE, reported' = {}, leaves' = [n \in DOMAIN Nodes |-> "none"]
      PROVE  IInv'
  <2> DEFINE X == IF Templates[t].flow # 0 THEN FlowItems(t, Top.s) ELSE ProtocolItems(t, Top.s)
             y == [Top EXCEPT !.todo = @ \ {t}]
             items == X \o << y >>
             n == Len(X)
  <2>1. t \in DOMAIN Templates /\ Top.s \in InStep
    BY <1>3 DEF TemplateItem, InStep
  <2>2. /\ X \in Seq(Item) /\ n \in Nat
        /\ \A i \in 1..n : /\ X[i].op \in {"block", "eval", "verdict"} /\ X[i].s = Top.s
                           /\ Fits(X[i])
        /\ \A i, j \in 1..n : i < j => X[j].op \in Below(X[i].op)
    BY <2>1, TemplateCalls
  <2>3. y \in TemplateItem /\ y.op = "template" /\ y.s = Top.s
    BY <1>1, <1>3 DEF TemplateItem
  <2>4. Call(items)
    BY <1>5
  <2> HIDE DEF X, y
  <2>5. y \in Item /\ Fits(y)
    BY <2>3 DEF Item, Fits, PlainOps, CheckedOps
  <2>6. << y >> \in Seq(Item) /\ Len(<< y >>) = 1 /\ << y >>[1] = y
    BY <2>5
  <2>7. items \in Seq(Item) /\ Len(items) = n + 1
        /\ \A i \in 1..(n + 1) : items[i] = IF i <= n THEN X[i] ELSE y
    <3>1. items \in Seq(Item) /\ Len(items) = Len(X) + Len(<< y >>)
          /\ \A i \in 1..(Len(X) + Len(<< y >>)) :
                items[i] = IF i <= Len(X) THEN X[i] ELSE << y >>[i - Len(X)]
      BY <2>2, <2>6, ConcatProperties
    <3> HIDE DEF items
    <3>2. Len(<< y >>) = 1 /\ << y >>[1] = y
      BY <2>6
    <3>3. \A i \in 1..(n + 1) : ~(i <= n) => i - n = 1
      BY <2>2
    <3> QED
      BY <2>2, <3>1, <3>2, <3>3
  <2> HIDE DEF items, n
  <2>8. \A i \in 1..Len(items) :
           \/ i \in 1..n /\ items[i] = X[i]
           \/ i = n + 1 /\ items[i] = y
    BY <2>2, <2>7
  <2>9. \A i \in 1..Len(items) :
           /\ items[i].op \in {"block", "eval", "verdict", "template"} /\ items[i].s = Top.s
           /\ Fits(items[i])
    BY <2>2, <2>3, <2>5, <2>8
  <2>10. \A op \in {"block", "eval", "verdict", "template"} :
           /\ op \notin CheckedOps /\ op # "task" /\ op \notin {"step", "topstep", "subs", "gate"}
           /\ ControlOps \subseteq Below(op) /\ "template" \in Below(op)
    BY DEF Below, ControlOps, PlainOps, FlowOps, CheckedOps
  <2>11. Works(Top)
    BY <1>1, <1>3, Constants DEF Works
  <2>12. \A i, j \in 1..Len(items) : i < j => items[j].op \in Below(items[i].op)
    <3> SUFFICES ASSUME NEW i \in 1..Len(items), NEW j \in 1..Len(items), i < j
                 PROVE  items[j].op \in Below(items[i].op)
      OBVIOUS
    <3>1. CASE j \in 1..n
      <4>1. i \in 1..n
        BY <2>2, <3>1
      <4>2. items[i] = X[i] /\ items[j] = X[j]
        BY <2>2, <2>8, <3>1, <4>1
      <4> QED
        BY <2>2, <3>1, <4>1, <4>2
    <3>2. CASE j = n + 1 /\ items[j] = y
      BY <2>3, <2>9, <2>10, <3>2
    <3> QED
      BY <2>8, <3>1, <3>2
  <2>13. \A i \in 1..Len(items) :
           /\ Fits(items[i]) /\ items[i].op \notin CheckedOps /\ items[i].op # "task"
           /\ Below(Top.op) \subseteq Below(items[i].op)
           /\ items[i].s = Top.s
           /\ items[i].op \notin {"step", "topstep", "subs", "gate"}
    BY <1>3, <2>9, <2>10
  <2>14. leaves' \in [DOMAIN Nodes -> {"none", "true", "false"}]
    BY <1>5
  <2>15. DataTypes'
    BY <1>2, <1>5, <2>14, DataKept DEF DataTypes, late
  <2>16. ~(stopAtFirstMatch /\ OthersReported')
    BY <1>5 DEF OthersReported
  <2> QED
    BY <1>1, <1>2, <1>3, <2>4, <2>7, <2>11, <2>12, <2>13, <2>15, <2>16, ControlKeeps
<1> QED
  BY <1>4, <1>5 DEF RunTemplate

\* A task begins.
LEMMA ExecuteTaskStep ==
    ASSUME IInv, ExecuteTask
    PROVE  IInv'
<1>1. agenda # << >> /\ Top.op = "task"
  BY DEF ExecuteTask, At, Top
<1>2. /\ UNCHANGED <<settings, isCancelled, results, ran>> /\ DataTypes'
      /\ late' = late /\ OthersReported' = OthersReported /\ spmStop' = spmStop
  BY <1>1, DataUntouched DEF ExecuteTask
<1>3. ~(stopAtFirstMatch /\ OthersReported')
  BY <1>1, <1>2, Unreported DEF ControlOps
<1>4. Below(Top.op) = {}
  BY <1>1 DEF Below, ControlOps, PlainOps, FlowOps
<1>5. ran = {} /\ task \in DOMAIN Templates
  <2>1. Top \in Item /\ Top \in Left
    BY <1>1, TopFacts DEF IInv
  <2>2. Top = [op |-> "task"]
    BY <1>1, <2>1, ItemFacts
  <2> QED
    BY <2>1, <2>2 DEF IInv, HandInv, TypeOK
<1>6. Templates[task].workflow \in Seq(DOMAIN Steps)
  BY <1>5, BlockFacts
<1>7. CASE Return
  <2> DEFINE items == << >>
  <2>1. Call(items) /\ items \in Seq(Item) /\ Len(items) = 0
    BY <1>1, <1>7, ReturnIsCall, EmptySeq DEF IInv
  <2>2. items = << >> /\ \A i \in 1..Len(items) : FALSE
    BY <2>1
  <2> HIDE DEF items
  <2> QED
    BY <1>1, <1>2, <1>3, <1>5, <2>1, <2>2, ControlKeeps
<1>8. CASE Templates[task].workflow # << >> /\ Call(StepItems("topstep", Templates[task].workflow))
  <2> DEFINE steps == Templates[task].workflow
             items == StepItems("topstep", steps)
  <2>1. /\ items \in Seq(Item) /\ Len(items) \in Nat
        /\ \A i \in 1..Len(items) :
              items[i].op = "topstep" /\ items[i].s \in ToSet(steps) /\ Fits(items[i])
        /\ \A u \in ToSet(steps) : \E i \in 1..Len(items) : items[i].s = u
    BY <1>6, StepItemsFacts
  <2>2. Call(items) /\ TopSteps = ToSet(steps)
    BY <1>8 DEF TopSteps
  <2> HIDE DEF items, steps
  <2>3. /\ Below("topstep") = ControlOps /\ "topstep" \in ControlOps /\ "topstep" \notin CheckedOps
        /\ "topstep" \notin PlainOps \cup FlowOps \cup {"template"}
    BY DEF Below, ControlOps, PlainOps, FlowOps, CheckedOps
  <2>4. \A i \in 1..Len(items) : Due(items[i].s) /\ ~Works(items[i])
    BY <2>1, <2>2, <2>3 DEF Due, Works
  <2>5. \A i, j \in 1..Len(items) : i < j => items[j].op \in Below(items[i].op)
    BY <2>1, <2>3
  <2>6. \A u \in TopSteps : \E i \in 1..Len(items) :
           items[i].op = "topstep" /\ items[i].s = u
    BY <2>1, <2>2
  <2> QED
    BY <1>1, <1>2, <1>3, <1>4, <1>5, <2>1, <2>2, <2>3, <2>4, <2>5, <2>6, ControlKeeps
<1>9. CASE /\ Templates[task].workflow = << >>
           /\ Call(IF Templates[task].flow # 0 THEN FlowItems(task, 0) ELSE ProtocolItems(task, 0))
  <2> DEFINE items == IF Templates[task].flow # 0 THEN FlowItems(task, 0)
                      ELSE ProtocolItems(task, 0)
  <2>1. 0 \in InStep
    BY DEF InStep
  <2>2. /\ items \in Seq(Item) /\ Len(items) \in Nat
        /\ \A i \in 1..Len(items) :
              /\ items[i].op \in {"block", "eval", "verdict"} /\ items[i].s = 0
              /\ Fits(items[i])
        /\ \A i, j \in 1..Len(items) : i < j => items[j].op \in Below(items[i].op)
    BY <1>5, <2>1, TemplateCalls
  <2>3. Call(items)
    BY <1>9
  <2> HIDE DEF items
  <2>4. \A u : u \notin TopSteps
    <3>1. DOMAIN Templates[task].workflow = {}
      BY <1>6, <1>9, EmptySeq, LenProperties
    <3> QED
      BY <3>1 DEF TopSteps, ToSet
  <2>5. \A op \in {"block", "eval", "verdict"} :
           op \notin CheckedOps /\ op # "task" /\ op \notin {"step", "topstep", "subs", "gate"}
    BY DEF CheckedOps
  <2>6. \A i \in 1..Len(items) :
           /\ Fits(items[i]) /\ ~Works(items[i])
           /\ items[i].op \notin CheckedOps /\ items[i].op # "task"
           /\ items[i].op \notin {"step", "topstep", "subs", "gate"}
    BY <2>2, <2>5 DEF Works
  <2> QED
    BY <1>1, <1>2, <1>3, <1>4, <1>5, <2>2, <2>3, <2>4, <2>6, ControlKeeps
<1> QED
  BY <1>7, <1>8, <1>9 DEF ExecuteTask

\* Ctrl-C, at any time.
LEMMA CancelStep ==
    ASSUME IInv, Cancel
    PROVE  IInv'
<1>1. /\ UNCHANGED <<task, stopAtFirstMatch, agenda, extracted, spmStop, value, results, findings,
                     sends, lateSends, lateLeaves, reported, leaves, ran>>
      /\ isCancelled' = TRUE /\ ~isCancelled /\ agenda # << >> /\ allowed' = Pass(Top)
  BY DEF Cancel, settings
<1>2. Left' = Left /\ TopSteps' = TopSteps
  BY <1>1 DEF Left, TopSteps
<1>p. Pass(Top) \in Nat /\ Left = {Top} \cup Remaining /\ \A x \in Remaining : Pass(x) = 0
  BY <1>1, TopPass, TopFacts, PassBelow DEF IInv
<1>3. TypeOK'
  BY <1>1, <1>p DEF IInv, TypeOK
<1>4. NestedInv'
  BY <1>1 DEF IInv, NestedInv
<1>5. LateInv'
  <2>1. lateSends = 0 /\ lateLeaves = 0
    BY <1>1 DEF IInv, LateInv
  <2>2. \A x \in Left : Pass(x) \in Nat /\ Pass(x) <= Pass(Top)
    BY <1>p
  <2>3. lateSends' = 0 /\ lateLeaves' = 0 /\ allowed' = Pass(Top) /\ isCancelled'
    BY <1>1, <2>1
  <2>4. \A x \in Left' : lateSends' + Pass(x) <= allowed' + lateLeaves'
    BY <1>2, <1>p, <2>2, <2>3
  <2> QED
    BY <1>p, <2>3, <2>4 DEF LateInv, CancelStopsTask
<1>6. StopInv'
  BY <1>1, <1>2 DEF IInv, StopInv, OthersReported
<1>7. DueInv'
  BY <1>1, <1>2 DEF IInv, DueInv, Due
<1>8. HandInv'
  BY <1>1, <1>2 DEF IInv, HandInv
<1> QED
  BY <1>3, <1>4, <1>5, <1>6, <1>7, <1>8 DEF IInv

(***************************************************************************)
(* The theorems.                                                           *)
(***************************************************************************)
\* A task that has not begun.
LEMMA InitIInv == Init => IInv
<1> SUFFICES ASSUME Init PROVE IInv
  OBVIOUS
<1> DEFINE x == [op |-> "task"]
<1>1. x \in Item /\ Fits(x) /\ x.op = "task" /\ ~Works(x)
  BY DEF Item, Fits, Works, PlainOps, FlowOps, CheckedOps
<1>2. agenda = << x >>
  BY DEF Init
<1> HIDE DEF x
<1>3. agenda \in Seq(Item) /\ Len(agenda) = 1 /\ agenda[1] = x /\ DOMAIN agenda = 1..1
  BY <1>1, <1>2, LenProperties
<1>4. Left = {x}
  BY <1>3 DEF Left, ToSet
<1>5. TypeOK
  <2>1. << >> \in Seq([t : DOMAIN Templates, b : Nat]) /\ DOMAIN << >> = {}
    BY EmptySeq
  <2>2. findings \in Seq([t : DOMAIN Templates, b : Nat])
        /\ \A i \in DOMAIN findings : findings[i].b <= Len(Templates[findings[i].t].blocks)
    BY <2>1 DEF Init
  <2>3. results \in [DOMAIN Steps -> [matched : BOOLEAN, names : SUBSET Names]]
    BY DEF Init
  <2>4. leaves \in [DOMAIN Nodes -> {"none", "true", "false"}]
    BY DEF Init
  <2>5. stopAtFirstMatch \in BOOLEAN /\ isCancelled \in BOOLEAN /\ spmStop \in BOOLEAN
        /\ value \in BOOLEAN /\ reported \subseteq ToSet(Protocols)
    BY DEF Init
  <2>6. task \in DOMAIN Templates /\ extracted \subseteq Names /\ ran \subseteq DOMAIN Steps
    BY DEF Init
  <2>7. {sends, lateSends, lateLeaves, allowed} \subseteq Nat /\ lateSends <= sends
    BY DEF Init
  <2> QED
    BY <1>3, <2>2, <2>3, <2>4, <2>5, <2>6, <2>7 DEF TypeOK
<1>6. NestedInv
  BY <1>1, <1>3 DEF NestedInv, Nested
<1>7. LateInv /\ StopInv
  BY DEF Init, LateInv, StopInv, OthersReported
<1>8. DueInv /\ HandInv
  <2>1. ran = {} /\ [op |-> "task"] \in Left
    BY <1>4 DEF Init, x
  <2>2. DueInv
    BY <1>1, <1>4, <2>1 DEF DueInv
  <2>3. HandInv
    BY <2>1 DEF HandInv
  <2> QED
    BY <2>2, <2>3
<1> QED
  BY <1>5, <1>6, <1>7, <1>8 DEF IInv

\* Steps of others.
LEMMA StutterStep ==
    ASSUME IInv, UNCHANGED vars
    PROVE  IInv'
<1>1. UNCHANGED <<task, stopAtFirstMatch, isCancelled, agenda, extracted, spmStop, value, results,
                  findings, sends, lateSends, lateLeaves, allowed, reported, leaves, ran>>
  BY DEF vars, settings, history, late
<1>2. Left' = Left /\ TopSteps' = TopSteps
  BY <1>1 DEF Left, TopSteps
<1>3. TypeOK' /\ NestedInv'
  BY <1>1 DEF IInv, TypeOK, NestedInv
<1>4. LateInv' /\ StopInv'
  BY <1>1, <1>2 DEF IInv, LateInv, StopInv, CancelStopsTask, OthersReported
<1>5. DueInv'
  BY <1>1, <1>2 DEF IInv, DueInv, Due
<1>6. HandInv'
  BY <1>1, <1>2 DEF IInv, HandInv, InHand
<1> QED
  BY <1>3, <1>4, <1>5, <1>6 DEF IInv

\* Every action keeps the invariant, by the lemmas above.
LEMMA NextIInv == IInv /\ [Next]_vars => IInv'
<1> SUFFICES ASSUME IInv, [Next]_vars PROVE IInv'
  OBVIOUS
<1>1. CASE ExecuteTask \/ TopStep \/ RunStep \/ RunTemplate \/ Subtemplates \/ Gate
  BY <1>1, ExecuteTaskStep, TopStepStep, RunStepStep, RunTemplateStep, SubtemplatesStep, GateStep
<1>2. CASE \/ ExecuteDns \/ ExecuteNetwork \/ ExecuteSsl \/ ExecuteWhois \/ ExecuteCode
           \/ ExecuteWebsocket \/ ExecuteHeadless
  BY <1>2, ProbeStep
<1>3. CASE EnterBlock \/ ExecuteFile \/ ExecuteJs \/ NextRequest \/ SendHttp \/ EvaluateHttpResponse
  BY <1>3, EnterBlockStep, FileStep, JsStep, NextRequestStep, SendHttpStep, EvaluateStep
<1>4. CASE FlowMissing \/ FlowDns \/ FlowNetwork \/ FlowSsl \/ FlowCode \/ FlowJavascript
  BY <1>4, LeafStep
<1>5. CASE EvalBool \/ EvalOperator \/ Combine \/ FlowHttp \/ FlowNextRequest \/ FlowSendHttp
           \/ Verdict
  BY <1>5, EvalBoolStep, EvalOperatorStep, CombineStep, FlowHttpStep, FlowNextRequestStep,
     FlowSendHttpStep, VerdictStep
<1>6. CASE Cancel
  BY <1>6, CancelStep
<1>7. CASE Terminated \/ UNCHANGED vars
  BY <1>7, StutterStep DEF Terminated
<1> QED
  BY <1>1, <1>2, <1>3, <1>4, <1>5, <1>6, <1>7 DEF Next

\* IInv is an inductive invariant of a task.
THEOREM TaskInvariance == Spec => []IInv
<1>1. Init => IInv
  BY InitIInv
<1>2. IInv /\ [Next]_vars => IInv'
  BY NextIInv
<1> QED
  BY <1>1, <1>2, PTL DEF Spec

\* Every variable of a task keeps its type, whatever its template, flow or workflow.
THEOREM TaskTypeCorrect == Spec => []TypeOK
<1>1. IInv => TypeOK
  BY DEF IInv
<1> QED
  BY <1>1, TaskInvariance, PTL

\* After Ctrl-C a task sends at most what it had passed the check for, but for the blocks
\* of flows that look at no flag.
THEOREM CancelStopsTaskHolds == Spec => []CancelStopsTask
<1>1. IInv => CancelStopsTask
  <2> SUFFICES ASSUME IInv PROVE CancelStopsTask
    OBVIOUS
  <2>1. CASE isCancelled
    BY <2>1 DEF IInv, LateInv
  <2>2. CASE ~isCancelled
    BY <2>2 DEF IInv, LateInv, CancelStopsTask
  <2> QED
    BY <2>1, <2>2
<1> QED
  BY <1>1, TaskInvariance, PTL

\* The steps that a workflow runs are those that its open gates lead to.
THEOREM GatesRespectedHolds == Spec => []GatesRespected
<1>1. ASSUME IInv PROVE GatesRespected
  <2> DEFINE opened(s) == (IF results[s].matched THEN ToSet(Steps[s].subs) ELSE {})
                          \cup UNION {ToSet(g.subs) : g \in {h \in ToSet(Steps[s].gates) :
                                                            Satisfied(h, results[s])}}
             reachable == ToSet(Templates[task].workflow) \cup UNION {opened(s) : s \in ran}
  <2>1. \A s : opened(s) = Opened(s, results[s])
    BY DEF Opened
  <2> HIDE DEF opened
  <2>2. \A u : u \in reachable <=> Due(u)
    BY <2>1 DEF Due, TopSteps
  <2>3. ran \subseteq reachable
    BY <1>1, <2>2 DEF IInv, DueInv
  <2>4. ASSUME agenda = << >>, ran # {}, ~isCancelled, NEW u, Due(u) PROVE u \in ran
    <3>1. Left = {}
      <4>1. DOMAIN agenda = {}
        BY <2>4, EmptySeq, LenProperties
      <4> QED
        BY <4>1 DEF Left, ToSet
    <3>2. \A v : InHand(v) => v \in ran
      BY <3>1 DEF InHand
    <3>3. CASE u \in TopSteps
      BY <1>1, <2>4, <3>1, <3>2, <3>3 DEF IInv, HandInv
    <3>4. ASSUME NEW s \in ran, results[s].matched, u \in ToSet(Steps[s].subs) PROVE u \in ran
      BY <1>1, <2>4, <3>1, <3>2, <3>4 DEF IInv, HandInv
    <3>5. ASSUME NEW s \in ran, NEW g \in ToSet(Steps[s].gates), Satisfied(g, results[s]),
                 u \in ToSet(g.subs)
          PROVE  u \in ran
      <4>1. PICK i \in DOMAIN Steps[s].gates : g = Steps[s].gates[i]
        BY <3>5 DEF ToSet
      <4> QED
        BY <1>1, <2>4, <3>1, <3>2, <3>5, <4>1 DEF IInv, HandInv
    <3> QED
      BY <2>4, <3>3, <3>4, <3>5 DEF Due, Opened
  <2>5. agenda = << >> /\ ran # {} /\ ~isCancelled => ran = reachable
    BY <2>2, <2>3, <2>4
  <2> QED
    BY <2>3, <2>5 DEF GatesRespected, opened
<1> QED
  BY <1>1, TaskInvariance, PTL

\* With --stop-at-first-match nothing is sent for a template of which a block that is not
\* a javascript block has reported.
THEOREM StopsUnlessJavascriptHolds == Spec => StopsUnlessJavascript
<1>1. ASSUME IInv, [Next]_vars
      PROVE  [stopAtFirstMatch /\ OthersReported => sends' = sends]_vars
  <2> SUFFICES ASSUME Next, OthersReported, stopAtFirstMatch PROVE sends' = sends
    BY <1>1
  <2>1. agenda # << >> => Top.op \in ControlOps \cup {"block"}
    BY <1>1, Unreported
  <2>2. \A op \in {"probe", "armed", "flowsend", "eval"} : ~At(op)
    BY <2>1 DEF At, Top, ControlOps
  <2>3. CASE ExecuteTask \/ TopStep \/ RunStep \/ RunTemplate \/ Subtemplates \/ Gate \/ EnterBlock
             \/ NextRequest \/ Verdict \/ Cancel \/ Terminated
    BY <2>3 DEF ExecuteTask, TopStep, RunStep, RunTemplate, Subtemplates, Gate, EnterBlock,
                NextRequest, Verdict, Cancel, Terminated, history, vars
  <2>4. CASE EvaluateHttpResponse \/ Combine \/ FlowNextRequest
    BY <2>4 DEF EvaluateHttpResponse, Combine, FlowNextRequest
  <2>5. ~(\/ ExecuteDns \/ ExecuteNetwork \/ ExecuteSsl \/ ExecuteWhois \/ ExecuteFile
          \/ ExecuteCode \/ ExecuteWebsocket \/ ExecuteHeadless \/ ExecuteJs)
    BY <2>2 DEF ExecuteDns, ExecuteNetwork, ExecuteSsl, ExecuteWhois, ExecuteFile, ExecuteCode,
                ExecuteWebsocket, ExecuteHeadless, ExecuteJs, Probing
  <2>6. ~(\/ SendHttp \/ EvalBool \/ EvalOperator \/ FlowMissing \/ FlowDns \/ FlowNetwork
          \/ FlowSsl \/ FlowCode \/ FlowJavascript \/ FlowHttp \/ FlowSendHttp)
    BY <2>2 DEF SendHttp, EvalBool, EvalOperator, FlowMissing, FlowDns, FlowNetwork, FlowSsl,
                FlowCode, FlowJavascript, FlowHttp, FlowSendHttp, Calling
  <2> QED
    BY <2>3, <2>4, <2>5, <2>6 DEF Next
<1> QED
  BY <1>1, TaskInvariance, PTL DEF Spec, StopsUnlessJavascript

(***************************************************************************)
(* Flow expressions.                                                       *)
(***************************************************************************)
\* The nodes of all expressions.
Positions == DOMAIN Nodes

\* Nodes from which no operand leads out.
Closed(S) == \A k \in S : Operands(k) \subseteq S

\* The nodes of the expression at n: those that every closed set with n has.
Under(n) == {x \in Positions : \A S \in SUBSET Positions : n \in S /\ Closed(S) => x \in S}

\* The order of the numbers, as a relation.
Less == {p \in Nat \X Nat : p[1] < p[2]}

\* The order of the numbers is well-founded.
LEMMA LessIsWellFounded == IsWellFoundedOn(Less, Nat)
<1>1. IsWellFoundedOn(OpToRel(<, Nat), Nat)
  BY NatLessThanWellFounded
<1>2. OpToRel(<, Nat) = Less
  BY DEF OpToRel, Less
<1> QED
  BY <1>1, <1>2

\* A set that has each number all smaller ones of which it has has all numbers.
LEMMA CourseOfValues ==
    ASSUME NEW S \in SUBSET Nat,
           \A n \in Nat : (\A m \in Nat : m < n => m \in S) => n \in S
    PROVE  S = Nat
<1>1. SUFFICES ASSUME Nat \ S # {} PROVE FALSE
  OBVIOUS
<1>2. PICK n \in Nat \ S : \A m \in Nat \ S : <<m, n>> \notin Less
  BY <1>1, LessIsWellFounded, WFMin
<1>3. \A m \in Nat : m < n => m \in S
  BY <1>2 DEF Less
<1> QED
  BY <1>2, <1>3

\* Operands come before their node.
LEMMA OperandsBefore ==
    /\ Positions \subseteq Nat \ {0}
    /\ \A n \in Positions : \A m \in Operands(n) : m \in Positions /\ m < n
    /\ \A n \in Positions : Nodes[n].op \in {"bool", "call", "negate", "and", "or"}
<1>1. /\ Nodes \in Seq(NodeType)
      /\ \A n \in DOMAIN Nodes :
          /\ Nodes[n].op \in {"negate", "and", "or"} => Nodes[n].left \in 1..(n - 1)
          /\ Nodes[n].op \in {"and", "or"} => Nodes[n].right \in 1..(n - 1)
  BY TaskAssumption
<1>2. Len(Nodes) \in Nat /\ DOMAIN Nodes = 1..Len(Nodes)
  BY <1>1, LenProperties
<1>3. \A n \in Positions : Nodes[n] \in NodeType
  BY <1>1, ElementOfSeq, <1>2 DEF Positions
<1>4. ASSUME NEW n \in Positions, NEW m \in Operands(n) PROVE m \in 1..(n - 1)
  BY <1>1, <1>3, <1>4 DEF Operands, Positions
<1>5. ASSUME NEW n \in Positions, NEW m \in 1..(n - 1) PROVE m \in Positions /\ m < n
  BY <1>2 DEF Positions
<1>6. Positions \subseteq Nat \ {0}
  BY <1>2 DEF Positions
<1> QED
  BY <1>3, <1>4, <1>5, <1>6 DEF NodeType

\* A node is under itself, and what is under its operands is under it; nothing else is.
LEMMA UnderClosed ==
    ASSUME NEW n \in Positions
    PROVE  n \in Under(n) /\ Under(n) \subseteq Positions /\ Closed(Under(n))
<1>1. ASSUME NEW k \in Under(n), NEW m \in Operands(k) PROVE m \in Under(n)
  <2>1. m \in Positions
    BY OperandsBefore DEF Under
  <2>2. ASSUME NEW S \in SUBSET Positions, n \in S, Closed(S) PROVE m \in S
    BY <2>2 DEF Under, Closed
  <2> QED
    BY <2>1, <2>2 DEF Under
<1> QED
  BY <1>1 DEF Under, Closed

\* Under(n) is the least closed set with n.
LEMMA UnderLeast ==
    ASSUME NEW n \in Positions, NEW S \in SUBSET Positions, n \in S, Closed(S)
    PROVE  Under(n) \subseteq S
BY DEF Under

\* The expression at a node of an expression is part of it ...
LEMMA UnderTransitive ==
    ASSUME NEW n \in Positions, NEW k \in Under(n)
    PROVE  Under(k) \subseteq Under(n)
BY UnderClosed, UnderLeast

\* ... at an operand, too.
LEMMA UnderOperands ==
    ASSUME NEW n \in Positions, NEW m \in Operands(n)
    PROVE  m \in Positions /\ m \in Under(n) /\ Under(m) \subseteq Under(n)
BY UnderClosed, UnderTransitive, OperandsBefore DEF Closed

\* What is under n is n itself or under an operand of n.
LEMMA UnderSplits ==
    ASSUME NEW n \in Positions, NEW x \in Under(n), x # n
    PROVE  \E m \in Operands(n) : x \in Under(m)
<1> DEFINE S == {n} \cup UNION {Under(m) : m \in Operands(n)}
<1>1. S \subseteq Positions
  BY UnderClosed, OperandsBefore
<1>2. Closed(S)
  <2> SUFFICES ASSUME NEW k \in S, NEW m \in Operands(k) PROVE m \in S
    BY DEF Closed
  <2>1. CASE k = n
    BY <2>1, UnderClosed, OperandsBefore
  <2>2. CASE k # n
    <3>1. PICK o \in Operands(n) : k \in Under(o)
      BY <2>2
    <3>2. m \in Under(o)
      BY <3>1, UnderClosed, OperandsBefore DEF Closed
    <3> QED
      BY <3>1, <3>2
  <2> QED
    BY <2>1, <2>2
<1>3. Under(n) \subseteq S
  BY <1>1, <1>2, UnderLeast
<1> QED
  BY <1>3

\* Nothing under n comes after n.
LEMMA UnderBefore ==
    ASSUME NEW n \in Positions, NEW x \in Under(n)
    PROVE  x <= n
<1> DEFINE S == {k \in Positions : k <= n}
<1>1. n \in S
  BY OperandsBefore
<1>2. Closed(S)
  <2> SUFFICES ASSUME NEW k \in S, NEW m \in Operands(k) PROVE m \in S
    BY DEF Closed
  <2>1. m \in Positions /\ m < k /\ k <= n /\ {m, k, n} \subseteq Nat
    BY OperandsBefore
  <2> QED
    BY <2>1
<1>3. Under(n) \subseteq S
  BY <1>1, <1>2, UnderLeast
<1> QED
  BY <1>3

\* The node whose operand is under n, and not n, is under n: a node has one owner.
LEMMA OwnerUnder ==
    ASSUME NEW n \in Positions, NEW x \in Under(n), x # n, NEW k \in Positions, x \in Operands(k)
    PROVE  k \in Under(n)
<1> DEFINE S == {y \in Under(n) : y = n \/ \E o \in Under(n) : y \in Operands(o)}
<1>1. n \in S /\ S \subseteq Positions /\ Closed(S)
  BY UnderClosed DEF Closed
<1>2. x \in S
  BY <1>1, UnderLeast
<1>3. PICK o \in Under(n) : x \in Operands(o)
  BY <1>2
<1>4. o = k
  BY <1>3, FlowsAreTrees, UnderClosed DEF Positions
<1> QED
  BY <1>3, <1>4

\* Two expressions that share a node are one under the other ...
LEMMA UnderComparable ==
    ASSUME NEW a \in Positions, NEW b \in Positions, NEW x \in Under(a), x \in Under(b)
    PROVE  a \in Under(b) \/ b \in Under(a)
<1>1. SUFFICES ASSUME a \notin Under(b), b \notin Under(a) PROVE FALSE
  OBVIOUS
<1> DEFINE S == {y \in Under(a) : y \notin Under(b)}
<1>2. a \in S /\ S \subseteq Positions
  BY <1>1, UnderClosed
<1>3. Closed(S)
  <2> SUFFICES ASSUME NEW k \in S, NEW m \in Operands(k), m \in Under(b) PROVE FALSE
    BY UnderClosed DEF Closed
  <2>1. m \in Under(a) /\ k \in Positions
    BY UnderClosed DEF Closed
  <2>2. m # b
    BY <1>1, <2>1
  <2>3. k \in Under(b)
    BY <2>1, <2>2, OwnerUnder
  <2> QED
    BY <2>3
<1> QED
  BY <1>2, <1>3, UnderLeast

\* ... so the operands of a node share nothing.
LEMMA OperandsApart ==
    ASSUME NEW n \in Positions, NEW a \in Operands(n), NEW b \in Operands(n), a # b
    PROVE  Under(a) \cap Under(b) = {}
<1>0. {a, b} \subseteq Positions /\ {a, b, n} \subseteq Nat /\ a < n /\ b < n
  BY OperandsBefore
<1>1. ASSUME NEW c \in {a, b}, NEW d \in {a, b}, c # d, c \in Under(d) PROVE FALSE
  <2>1. n \in Under(d)
    BY <1>0, <1>1, OwnerUnder
  <2>2. n <= d
    BY <1>0, <2>1, UnderBefore
  <2> QED
    BY <1>0, <2>2
<1>2. SUFFICES ASSUME NEW x \in Under(a), x \in Under(b) PROVE FALSE
  OBVIOUS
<1>3. a \in Under(b) \/ b \in Under(a)
  BY <1>0, <1>2, UnderComparable
<1> QED
  BY <1>1, <1>3

(***************************************************************************)
(* What an expression is worth, and the calls it takes.                    *)
(***************************************************************************)
\* What a node may be worth, and what all blocks may have returned.
Values == {"none", "true", "false"}
Returns == [Positions -> Values]

\* F says of a node what a function w has there, and asks it for no more than the operands.
Defines(F, V) ==
    \A n \in Positions, w \in [Positions -> V] :
        /\ F[<<n, w>>] \in V
        /\ \A u \in [Positions -> V] :
              (\A o \in Operands(n) : w[o] = u[o]) => F[<<n, w>>] = F[<<n, u>>]

\* A function of the nodes is what F makes of it.
HasSolution(F, V) == \E w \in [Positions -> V] : \A n \in Positions : w[n] = F[<<n, w>>]

\* A function of the nodes may be defined from its values at the operands.
LEMMA RecursionExists ==
    ASSUME NEW V, NEW w0 \in [Positions -> V], NEW F, Defines(F, V)
    PROVE  HasSolution(F, V)
<1> DEFINE Upto(k) == \E w \in [Positions -> V] :
                         \A n \in Positions : n <= k => w[n] = F[<<n, w>>]
           S == {k \in Nat : Upto(k)}
<1>0. Positions \subseteq Nat \ {0} /\ Len(Nodes) \in Nat /\ Positions = 1..Len(Nodes)
  BY OperandsBefore, TaskAssumption, LenProperties DEF Positions
<1>1. ASSUME NEW k \in Nat, \A m \in Nat : m < k => m \in S PROVE Upto(k)
  <2>1. CASE k = 0
    BY <1>0, <2>1
  <2>2. CASE k # 0
    <3>1. k - 1 \in Nat /\ k - 1 < k
      BY <2>2
    <3>2. PICK w \in [Positions -> V] : \A n \in Positions : n <= k - 1 => w[n] = F[<<n, w>>]
      BY <1>1, <3>1
    <3> DEFINE u == [n \in Positions |-> IF n = k THEN F[<<k, w>>] ELSE w[n]]
    <3>3. u \in [Positions -> V]
      BY DEF Defines
    <3>4. ASSUME NEW n \in Positions, n <= k PROVE u[n] = F[<<n, u>>]
      <4>1. \A o \in Operands(n) : o \in Positions /\ o # k
        BY <1>0, <3>4, OperandsBefore
      <4>2. \A o \in Operands(n) : w[o] = u[o]
        BY <4>1
      <4>3. F[<<n, w>>] = F[<<n, u>>]
        BY <3>3, <4>2 DEF Defines
      <4>4. n = k \/ n <= k - 1
        BY <1>0, <3>4
      <4> QED
        BY <3>2, <4>3, <4>4
    <3> QED
      BY <3>3, <3>4
  <2> QED
    BY <2>1, <2>2
<1>2. S = Nat
  <2>1. S \in SUBSET Nat /\ \A n \in Nat : (\A m \in Nat : m < n => m \in S) => n \in S
    BY <1>1
  <2> HIDE DEF S
  <2> QED
    BY <2>1, CourseOfValues
<1>3. Upto(Len(Nodes))
  BY <1>0, <1>2
<1> QED
  BY <1>0, <1>3 DEF HasSolution

\* What a node is worth follows from its operands, or from what its block returned ...
LEMMA WorthOfDepends ==
    ASSUME NEW n \in Positions, NEW w, NEW u, \A o \in Operands(n) : w[o] = u[o],
           NEW l, NEW m, l[n] = m[n]
    PROVE  WorthOf(n, w, l) = WorthOf(n, u, m)
BY OperandsBefore DEF WorthOf, Operands

\* ... the calls it takes, from what they are worth too.
LEMMA CallsOfDepends ==
    ASSUME NEW n \in Positions, NEW w, NEW u, \A o \in Operands(n) : w[o] = u[o],
           NEW t, NEW s, \A o \in Operands(n) : t[o] = s[o]
    PROVE  CallsOf(n, t, w) = CallsOf(n, s, u)
BY OperandsBefore DEF CallsOf, Operands

\* The recursive definition of Worth has a solution, so Worth is one.
LEMMA WorthEquation ==
    ASSUME NEW l \in Returns
    PROVE  /\ Worth(l) \in [Positions -> Values]
           /\ \A n \in Positions : Worth(l)[n] = WorthOf(n, Worth(l), l)
<1> DEFINE F == [p \in Positions \X [Positions -> Values] |-> WorthOf(p[1], p[2], l)]
<1>1. ASSUME NEW n \in Positions, NEW w \in [Positions -> Values]
      PROVE  F[<<n, w>>] = WorthOf(n, w, l) /\ F[<<n, w>>] \in Values
  <2>1. \A o \in Operands(n) : w[o] \in Values
    BY OperandsBefore
  <2>2. l[n] \in Values
    BY DEF Returns
  <2>3. WorthOf(n, w, l) \in Values
    BY <2>1, <2>2, OperandsBefore DEF WorthOf, Operands, Values
  <2> QED
    BY <2>3
<1> HIDE DEF F
<1>2. ASSUME NEW n \in Positions, NEW w \in [Positions -> Values],
             NEW u \in [Positions -> Values], \A o \in Operands(n) : w[o] = u[o]
      PROVE  F[<<n, w>>] = F[<<n, u>>]
  <2>1. WorthOf(n, w, l) = WorthOf(n, u, l)
    BY <1>2, WorthOfDepends
  <2> QED
    BY <1>1, <2>1
<1>3. PICK w \in [Positions -> Values] : \A n \in Positions : w[n] = F[<<n, w>>]
  <2>1. l \in [Positions -> Values]
    BY DEF Returns
  <2>2. Defines(F, Values)
    BY <1>1, <1>2 DEF Defines
  <2>3. HasSolution(F, Values)
    BY <2>1, <2>2, RecursionExists
  <2> QED
    BY <2>3 DEF HasSolution
<1>4. w = [n \in Positions |-> WorthOf(n, w, l)]
  BY <1>1, <1>3
<1>5. Worth(l) = CHOOSE v : v = [n \in Positions |-> WorthOf(n, v, l)]
  BY DEF Worth, Positions
<1>6. Worth(l) = [n \in Positions |-> WorthOf(n, Worth(l), l)]
  BY <1>4, <1>5
<1> DEFINE S == {k \in Nat : k \in Positions => Worth(l)[k] \in Values}
<1>7. ASSUME NEW k \in Nat, \A m \in Nat : m < k => m \in S, k \in Positions
      PROVE  Worth(l)[k] \in Values
  <2>1. \A o \in Operands(k) : Worth(l)[o] \in Values
    BY <1>7, OperandsBefore
  <2>2. l[k] \in Values
    BY <1>7 DEF Returns
  <2>3. WorthOf(k, Worth(l), l) \in Values
    BY <1>7, <2>1, <2>2, OperandsBefore DEF WorthOf, Operands, Values
  <2> QED
    BY <1>6, <1>7, <2>3
<1>8. S = Nat
  <2>1. S \in SUBSET Nat /\ \A n \in Nat : (\A m \in Nat : m < n => m \in S) => n \in S
    BY <1>7
  <2> HIDE DEF S
  <2> QED
    BY <2>1, CourseOfValues
<1>9. \A n \in Positions : Worth(l)[n] \in Values
  BY <1>8, OperandsBefore
<1> QED
  BY <1>6, <1>9

\* ... and so is Touched.
LEMMA TouchedEquation ==
    ASSUME NEW w
    PROVE  \A n \in Positions : Touched(w)[n] = CallsOf(n, Touched(w), w)
<1> DEFINE V == SUBSET Positions
           F == [p \in Positions \X [Positions -> V] |-> CallsOf(p[1], p[2], w)]
<1>1. ASSUME NEW n \in Positions, NEW t \in [Positions -> V]
      PROVE  F[<<n, t>>] = CallsOf(n, t, w) /\ F[<<n, t>>] \in V
  <2>1. \A o \in Operands(n) : t[o] \in V
    BY OperandsBefore
  <2>2. CallsOf(n, t, w) \in V
    BY <2>1, OperandsBefore DEF CallsOf, Operands
  <2> QED
    BY <2>2
<1> HIDE DEF F, V
<1>2. ASSUME NEW n \in Positions, NEW t \in [Positions -> V],
             NEW u \in [Positions -> V], \A o \in Operands(n) : t[o] = u[o]
      PROVE  F[<<n, t>>] = F[<<n, u>>]
  <2>1. CallsOf(n, t, w) = CallsOf(n, u, w)
    BY <1>2, CallsOfDepends
  <2> QED
    BY <1>1, <2>1
<1>3. PICK t \in [Positions -> V] : \A n \in Positions : t[n] = F[<<n, t>>]
  <2>1. PICK t0 : t0 = [n \in Positions |-> {}]
    OBVIOUS
  <2>3. t0 \in [Positions -> V]
    BY <2>1 DEF V
  <2>2. Defines(F, V)
    BY <1>1, <1>2 DEF Defines
  <2>4. HasSolution(F, V)
    BY <2>2, <2>3, RecursionExists
  <2> QED
    BY <2>4 DEF HasSolution
<1>4. t = [n \in Positions |-> CallsOf(n, t, w)]
  BY <1>1, <1>3
<1>5. Touched(w) = CHOOSE v : v = [n \in Positions |-> CallsOf(n, v, w)]
  BY DEF Touched, Positions
<1>6. Touched(w) = [n \in Positions |-> CallsOf(n, Touched(w), w)]
  BY <1>4, <1>5
<1> QED
  BY <1>6

\* The calls it takes if the blocks returned l.
Calls(l) == Touched(Worth(l))

\* What the blocks under a node returned says what it is worth and which calls it takes.
LEMMA WorthIsLocal ==
    ASSUME NEW l \in Returns, NEW m \in Returns,
           NEW n \in Positions, \A x \in Under(n) : l[x] = m[x]
    PROVE  Worth(l)[n] = Worth(m)[n] /\ Calls(l)[n] = Calls(m)[n]
<1> DEFINE Same(k) == Worth(l)[k] = Worth(m)[k] /\ Calls(l)[k] = Calls(m)[k]
           S == {k \in Nat : k \in Under(n) => Same(k)}
<1>0. n \in Nat /\ Under(n) \subseteq Positions /\ Positions \subseteq Nat
  BY OperandsBefore, UnderClosed
<1>1. ASSUME NEW k \in Nat, \A i \in Nat : i < k => i \in S, k \in Under(n)
      PROVE  Same(k)
  <2>1. k \in Positions /\ \A o \in Operands(k) : o \in Under(n) /\ o \in Positions /\ o < k
    BY <1>0, <1>1, UnderClosed, OperandsBefore DEF Closed
  <2>2. \A o \in Operands(k) : Same(o)
    BY <1>0, <1>1, <2>1
  <2>3. l[k] = m[k]
    BY <1>1
  <2>4. WorthOf(k, Worth(l), l) = WorthOf(k, Worth(m), m)
    BY <2>1, <2>2, <2>3, WorthOfDepends
  <2>5. CallsOf(k, Calls(l), Worth(l)) = CallsOf(k, Calls(m), Worth(m))
    BY <2>1, <2>2, CallsOfDepends
  <2> QED
    BY <2>1, <2>4, <2>5, WorthEquation, TouchedEquation DEF Calls
<1>2. S = Nat
  <2>1. S \in SUBSET Nat /\ \A i \in Nat : (\A k \in Nat : k < i => k \in S) => i \in S
    BY <1>1
  <2> HIDE DEF S
  <2> QED
    BY <2>1, CourseOfValues
<1>3. n \in Under(n)
  BY UnderClosed
<1> QED
  BY <1>0, <1>2, <1>3

(***************************************************************************)
(* What an evaluation has come to.                                         *)
(***************************************************************************)
\* The calls that have returned; nothing else returns to the history.
Called(l) == {n \in Positions : l[n] # "none"}
OnlyCalls(l) == \A n \in Called(l) : Nodes[n].op = "call"

\* Apart from what is under n, the blocks returned the same.
Agree(m, l, n) == \A x \in Positions \ Under(n) : m[x] = l[x]

\* Whatever the blocks under n return, the expression at c is worth what n is, and what it
\* calls beyond n has been called.
LastOf(c, n, l) ==
    \A m \in Returns : Agree(m, l, n) =>
        /\ Worth(m)[c] = Worth(m)[n]
        /\ Calls(m)[c] = Calls(m)[n] \cup ((Called(l) \cap Under(c)) \ Under(n))

\* The expression at c has been evaluated, to v.
Done(c, l, v) ==
    /\ Worth(l)[c] = (IF v THEN "true" ELSE "false")
    /\ Called(l) \cap Under(c) = Calls(l)[c]

\* What the blocks under n return does not change what is settled above it.
LEMMA LastKept ==
    ASSUME NEW l \in Returns, NEW m \in Returns, NEW c \in Positions,
           NEW k \in Under(c), NEW n \in Under(k), Agree(m, l, n), LastOf(c, k, l)
    PROVE  LastOf(c, k, m)
<1>0. /\ k \in Positions /\ n \in Positions
      /\ Under(n) \subseteq Under(k) /\ Under(c) \subseteq Positions
  BY UnderClosed, UnderTransitive
<1>1. (Called(m) \cap Under(c)) \ Under(k) = (Called(l) \cap Under(c)) \ Under(k)
  BY <1>0 DEF Agree, Called
<1>2. ASSUME NEW i \in Returns, Agree(i, m, k) PROVE Agree(i, l, k)
  BY <1>0, <1>2 DEF Agree
<1> QED
  BY <1>1, <1>2 DEF LastOf

\* What ends with n is done when n is.
LEMMA LastDone ==
    ASSUME NEW l \in Returns, NEW m \in Returns, NEW c \in Positions, NEW n \in Under(c),
           Agree(m, l, n), LastOf(c, n, l), NEW v, Done(n, m, v)
    PROVE  Done(c, m, v)
<1>0. n \in Positions /\ Under(n) \subseteq Under(c) /\ Under(c) \subseteq Positions
  BY UnderClosed, UnderTransitive
<1>1. /\ Worth(m)[c] = Worth(m)[n]
      /\ Calls(m)[c] = Calls(m)[n] \cup ((Called(l) \cap Under(c)) \ Under(n))
  BY DEF LastOf
<1>2. (Called(m) \cap Under(c)) \ Under(n) = (Called(l) \cap Under(c)) \ Under(n)
  BY <1>0 DEF Agree, Called
<1>3. Called(m) \cap Under(c) = (Called(m) \cap Under(n)) \cup ((Called(m) \cap Under(c)) \ Under(n))
  BY <1>0
<1>4. Worth(m)[n] = (IF v THEN "true" ELSE "false") /\ Called(m) \cap Under(n) = Calls(m)[n]
  BY DEF Done
<1>5. Called(m) \cap Under(c) = Calls(m)[c]
  BY <1>1, <1>2, <1>3, <1>4
<1> QED
  BY <1>1, <1>4, <1>5 DEF Done

\* A node ends with itself.
LEMMA LastSelf == ASSUME NEW n, NEW l PROVE LastOf(n, n, l)
BY DEF LastOf

\* What operators have below them.
LEMMA OperatorFacts ==
    ASSUME NEW n \in Positions
    PROVE  /\ Nodes[n].op \in {"negate", "and", "or"} => Nodes[n].left \in Operands(n)
           /\ Nodes[n].op \in {"and", "or"} =>
                 /\ Nodes[n].right \in Operands(n) /\ Nodes[n].left # Nodes[n].right
           /\ Nodes[n].op = "negate" => Operands(n) = {Nodes[n].left}
           /\ Nodes[n].op \in {"and", "or"} => Operands(n) = {Nodes[n].left, Nodes[n].right}
           /\ Nodes[n].op \in {"bool", "call"} => Operands(n) = {}
BY FlowsAreTrees DEF Operands, Positions

\* The calls under a node are those under its operands, but for the node itself.
LEMMA CalledUnder ==
    ASSUME NEW n \in Positions, NEW l \in Returns, OnlyCalls(l), Nodes[n].op # "call"
    PROVE  /\ Nodes[n].op = "negate" =>
                 Called(l) \cap Under(n) = Called(l) \cap Under(Nodes[n].left)
           /\ Nodes[n].op \in {"and", "or"} =>
                 Called(l) \cap Under(n) = (Called(l) \cap Under(Nodes[n].left))
                                           \cup (Called(l) \cap Under(Nodes[n].right))
<1>1. n \notin Called(l)
  BY DEF OnlyCalls
<1>2. ASSUME NEW x \in Called(l), x \in Under(n) PROVE \E m \in Operands(n) : x \in Under(m)
  BY <1>1, <1>2, UnderSplits
<1>3. \A m \in Operands(n) : Under(m) \subseteq Under(n)
  BY UnderOperands
<1> QED
  BY <1>2, <1>3, OperatorFacts

\* The operators: a value that settles them ...
LEMMA DoneOperator ==
    ASSUME NEW n \in Positions, NEW l \in Returns, OnlyCalls(l), NEW v \in BOOLEAN,
           Nodes[n].op \in {"negate", "and", "or"}, Done(Nodes[n].left, l, v)
    PROVE  /\ Nodes[n].op = "negate" => Done(n, l, ~v)
           /\ (Nodes[n].op = "and" /\ ~v) \/ (Nodes[n].op = "or" /\ v) =>
                 (Called(l) \cap Under(Nodes[n].right) = {} => Done(n, l, v))
<1>1. /\ Worth(l)[n] = WorthOf(n, Worth(l), l) /\ Calls(l)[n] = CallsOf(n, Calls(l), Worth(l))
  BY WorthEquation, TouchedEquation DEF Calls
<1>2. /\ Worth(l)[Nodes[n].left] = (IF v THEN "true" ELSE "false")
      /\ Called(l) \cap Under(Nodes[n].left) = Calls(l)[Nodes[n].left]
  BY DEF Done
<1>3. ASSUME Nodes[n].op = "negate" PROVE Done(n, l, ~v)
  <2>1. Worth(l)[n] = (IF ~v THEN "true" ELSE "false")
    BY <1>1, <1>2, <1>3 DEF WorthOf
  <2>2. Calls(l)[n] = Calls(l)[Nodes[n].left]
    BY <1>1, <1>3 DEF CallsOf
  <2>3. Called(l) \cap Under(n) = Called(l) \cap Under(Nodes[n].left)
    BY <1>3, CalledUnder
  <2> QED
    BY <1>2, <2>1, <2>2, <2>3 DEF Done
<1>4. ASSUME (Nodes[n].op = "and" /\ ~v) \/ (Nodes[n].op = "or" /\ v),
             Called(l) \cap Under(Nodes[n].right) = {}
      PROVE  Done(n, l, v)
  <2>1. Worth(l)[n] = (IF v THEN "true" ELSE "false")
    BY <1>1, <1>2, <1>4 DEF WorthOf
  <2>2. Calls(l)[n] = Calls(l)[Nodes[n].left]
    BY <1>1, <1>2, <1>4 DEF CallsOf
  <2>3. Called(l) \cap Under(n) = Called(l) \cap Under(Nodes[n].left)
    BY <1>4, CalledUnder
  <2> QED
    BY <1>2, <2>1, <2>2, <2>3 DEF Done
<1> QED
  BY <1>3, <1>4

\* ... and one that leaves it to the right operand.
LEMMA LastRight ==
    ASSUME NEW c \in Positions, NEW n \in Under(c), NEW l \in Returns, OnlyCalls(l),
           NEW v \in BOOLEAN, (Nodes[n].op = "and" /\ v) \/ (Nodes[n].op = "or" /\ ~v),
           Done(Nodes[n].left, l, v), LastOf(c, n, l)
    PROVE  LastOf(c, Nodes[n].right, l)
<1> DEFINE p == Nodes[n].left
           r == Nodes[n].right
<1>0. /\ n \in Positions /\ p \in Positions /\ r \in Positions
      /\ Under(p) \subseteq Under(n) /\ Under(r) \subseteq Under(n) /\ Under(n) \subseteq Under(c)
      /\ Under(p) \cap Under(r) = {} /\ Under(p) \subseteq Positions
  <2>1. n \in Positions
    BY UnderClosed
  <2>2. p \in Operands(n) /\ r \in Operands(n) /\ p # r
    BY <2>1, OperatorFacts
  <2> HIDE DEF p, r
  <2> QED
    BY <2>1, <2>2, UnderOperands, OperandsApart, UnderTransitive, UnderClosed
<1>1. /\ Worth(l)[p] = (IF v THEN "true" ELSE "false")
      /\ Called(l) \cap Under(p) = Calls(l)[p]
  BY DEF Done
<1>2. ASSUME NEW m \in Returns, Agree(m, l, r)
      PROVE  /\ Worth(m)[c] = Worth(m)[r]
             /\ Calls(m)[c] = Calls(m)[r] \cup ((Called(l) \cap Under(c)) \ Under(r))
  <2>1. Agree(m, l, n)
    BY <1>0, <1>2 DEF Agree
  <2>2. /\ Worth(m)[c] = Worth(m)[n]
        /\ Calls(m)[c] = Calls(m)[n] \cup ((Called(l) \cap Under(c)) \ Under(n))
    BY <2>1 DEF LastOf
  <2>3. \A x \in Under(p) : m[x] = l[x]
    BY <1>0, <1>2 DEF Agree
  <2>4. Worth(m)[p] = Worth(l)[p] /\ Calls(m)[p] = Calls(l)[p]
    BY <1>0, <2>3, WorthIsLocal
  <2>5. Worth(m)[n] = WorthOf(n, Worth(m), m) /\ Calls(m)[n] = CallsOf(n, Calls(m), Worth(m))
    BY <1>0, WorthEquation, TouchedEquation DEF Calls
  <2>6. Worth(m)[r] \in Values
    BY <1>0, WorthEquation
  <2>7. Worth(m)[n] = Worth(m)[r]
    BY <1>1, <2>4, <2>5, <2>6 DEF WorthOf, Values
  <2>8. Calls(m)[n] = Calls(l)[p] \cup Calls(m)[r]
    BY <1>1, <2>4, <2>5 DEF CallsOf
  <2>9. Called(l) \cap Under(n) = (Called(l) \cap Under(p)) \cup (Called(l) \cap Under(r))
    BY <1>0, CalledUnder
  <2>10. (Called(l) \cap Under(c)) \ Under(r)
         = (Called(l) \cap Under(p)) \cup ((Called(l) \cap Under(c)) \ Under(n))
    BY <1>0, <2>9
  <2> QED
    BY <1>1, <2>2, <2>7, <2>8, <2>10
<1> QED
  BY <1>2 DEF LastOf

\* A literal is done at once ...
LEMMA DoneLiteral ==
    ASSUME NEW n \in Positions, NEW l \in Returns, Nodes[n].op = "bool",
           Called(l) \cap Under(n) = {}
    PROVE  Done(n, l, Nodes[n].bool)
<1>1. Worth(l)[n] = WorthOf(n, Worth(l), l) /\ Calls(l)[n] = CallsOf(n, Calls(l), Worth(l))
  BY WorthEquation, TouchedEquation DEF Calls
<1> QED
  BY <1>1 DEF WorthOf, CallsOf, Done

\* ... and a call with what its block returned.
LEMMA DoneCall ==
    ASSUME NEW n \in Positions, NEW l \in Returns, Nodes[n].op = "call", OnlyCalls(l),
           Called(l) \cap Under(n) = {}, NEW v \in BOOLEAN, NEW m,
           m = [l EXCEPT ![n] = IF v THEN "true" ELSE "false"]
    PROVE  m \in Returns /\ OnlyCalls(m) /\ Agree(m, l, n) /\ Done(n, m, v)
<1>0. n \in Under(n)
  BY UnderClosed
<1>1. m \in Returns /\ m[n] = (IF v THEN "true" ELSE "false")
      /\ \A x \in Positions : x # n => m[x] = l[x]
  BY DEF Returns, Values
<1>2. Agree(m, l, n)
  BY <1>0, <1>1 DEF Agree
<1>3. Called(m) = Called(l) \cup {n}
  BY <1>1 DEF Called
<1>4. OnlyCalls(m)
  BY <1>3 DEF OnlyCalls
<1>5. Worth(m)[n] = WorthOf(n, Worth(m), m) /\ Calls(m)[n] = CallsOf(n, Calls(m), Worth(m))
  BY <1>1, WorthEquation, TouchedEquation DEF Calls
<1>6. Worth(m)[n] = m[n] /\ Calls(m)[n] = {n}
  BY <1>5 DEF WorthOf, CallsOf
<1>7. Called(m) \cap Under(n) = {n}
  BY <1>0, <1>3
<1> QED
  BY <1>1, <1>2, <1>4, <1>6, <1>7 DEF Done

(***************************************************************************)
(* A flow that is under way.                                               *)
(***************************************************************************)
\* What evaluates a node, and what waits for an operand.
Evaluating == {"eval", "flowhttp", "flowsend"}
Operators == {"negate", "and", "or"}

\* The node whose value an item waits for.
Awaited(x) == IF x.op = "verdict" THEN Templates[x.t].flow ELSE Nodes[x.n].left

\* The verdict at j of the agenda a waits for the expression above it: each item is under
\* the left operand of those below it, and is what that operand ends with; nothing on a
\* right side, or under the node to be evaluated next, has been called; and if the next is
\* an operator or the verdict, what it waits for is done.
FlowAt(a, j, l, v) ==
    /\ Awaited(a[j]) \in Positions
    /\ Called(l) \subseteq Under(Awaited(a[j]))
    /\ \A i \in 1..(j - 1) : a[i].op # "verdict"
    /\ \A p, q \in 1..j : p < q => a[p].n \in Under(Awaited(a[q]))
    /\ \A i \in 1..(j - 1) : LastOf(Awaited(a[i + 1]), a[i].n, l)
    /\ \A i \in 1..(j - 1) :
          a[i].op \in {"and", "or"} => Called(l) \cap Under(Nodes[a[i].n].right) = {}
    /\ a[1].op \in Evaluating => Called(l) \cap Under(a[1].n) = {}
    /\ a[1].op \notin Evaluating => Done(Awaited(a[1]), l, v)

\* The items above a verdict are nodes that are evaluated, below the first one operators.
LEMMA FlowShape ==
    ASSUME NEW a, Nested(a), NEW j \in 1..Len(a), a[j].op = "verdict",
           \A i \in 1..(j - 1) : a[i].op # "verdict"
    PROVE  /\ Len(a) \in Nat /\ j \in Nat
           /\ \A i \in 1..(j - 1) :
                 /\ a[i].op \in Evaluating \cup Operators /\ a[i].n \in Positions
                 /\ i > 1 => a[i].op \in Operators
                 /\ a[i].op \in Operators =>
                       /\ Nodes[a[i].n].op = a[i].op /\ Awaited(a[i]) = Nodes[a[i].n].left
                       /\ Awaited(a[i]) \in Operands(a[i].n)
<1>0. a \in Seq(Item) /\ Len(a) \in Nat /\ j \in Nat
  BY LenProperties DEF Nested
<1>1. ASSUME NEW i \in 1..(j - 1)
      PROVE  /\ a[i].op \in Evaluating \cup Operators /\ a[i].n \in Positions
             /\ i > 1 => a[i].op \in Operators
  <2>1. i \in 1..Len(a) /\ i < j
    BY <1>0
  <2>2. a[i] \in Item /\ a[j].op \in Below(a[i].op)
    BY <1>0, <2>1, ElementOfSeq DEF Nested
  <2>3. a[i].op \in FlowOps /\ a[i].op # "verdict"
    BY <1>1, <2>2 DEF Below, ControlOps, PlainOps, FlowOps
  <2>4. a[i].op \in Evaluating \cup Operators
    BY <2>3 DEF FlowOps, Evaluating, Operators
  <2>5. a[i] \in NodeItem \/ a[i] \in FlowHttpItem
    BY <2>2, <2>4, ItemFacts DEF Evaluating, Operators
  <2>6. a[i].n \in Positions
    BY <2>5 DEF NodeItem, FlowHttpItem, Positions
  <2>7. ASSUME i > 1 PROVE a[i].op \in Operators
    <3>1. 1 \in 1..Len(a) /\ 1 \in 1..(j - 1) /\ 1 < j
      BY <1>0, <2>1, <2>7
    <3>2. a[i].op \in Below(a[1].op) /\ a[j].op \in Below(a[1].op)
      BY <2>1, <2>7, <3>1 DEF Nested
    <3>3. a[i].op \notin Evaluating
      BY <3>2 DEF Below, ControlOps, PlainOps, FlowOps, Evaluating
    <3> QED
      BY <2>4, <3>3
  <2> QED
    BY <2>4, <2>6, <2>7
<1>2. ASSUME NEW i \in 1..(j - 1), a[i].op \in Operators
      PROVE  /\ Nodes[a[i].n].op = a[i].op /\ Awaited(a[i]) = Nodes[a[i].n].left
             /\ Awaited(a[i]) \in Operands(a[i].n)
  <2>1. i \in 1..Len(a)
    BY <1>0
  <2>2. Nodes[a[i].n].op = a[i].op
    BY <1>2, <2>1 DEF Nested, Fits, Operators
  <2>3. Awaited(a[i]) = Nodes[a[i].n].left
    BY <1>2 DEF Awaited, Operators
  <2> QED
    BY <1>1, <1>2, <2>2, <2>3, OperatorFacts DEF Operators
<1> QED
  BY <1>0, <1>1, <1>2

\* What the items but the first one wait for are nodes.
LEMMA FlowAwaits ==
    ASSUME NEW a, Nested(a), NEW j \in 1..Len(a), a[j].op = "verdict",
           \A i \in 1..(j - 1) : a[i].op # "verdict", Awaited(a[j]) \in Positions
    PROVE  \A i \in 2..j : Awaited(a[i]) \in Positions
<1> TAKE i \in 2..j
<1>1. j \in Nat
  BY LenProperties DEF Nested
<1>2. CASE i = j
  BY <1>2
<1>3. CASE i # j
  <2>1. i \in 1..(j - 1) /\ i > 1
    BY <1>1, <1>3
  <2>2. Awaited(a[i]) \in Operands(a[i].n) /\ a[i].n \in Positions
    BY <2>1, FlowShape
  <2> QED
    BY <2>2, OperandsBefore
<1> QED
  BY <1>2, <1>3

\* The item on top returns w: nothing but what is under it was called meanwhile.
LEMMA FlowReturns ==
    ASSUME NEW a, Nested(a), NEW j \in 1..Len(a), a[j].op = "verdict", j > 1,
           NEW l \in Returns, NEW v, FlowAt(a, j, l, v),
           NEW m \in Returns, Agree(m, l, a[1].n), NEW w, Done(a[1].n, m, w),
           NEW b, \A i \in 1..(j - 1) : b[i] = a[i + 1]
    PROVE  FlowAt(b, j - 1, m, w)
<1> DEFINE n == a[1].n
<1>0. \A i \in 1..(j - 1) : a[i].op # "verdict"
  BY DEF FlowAt
<1>1. /\ Len(a) \in Nat /\ j \in Nat
      /\ \A i \in 1..(j - 1) :
                 /\ a[i].op \in Evaluating \cup Operators /\ a[i].n \in Positions
                 /\ i > 1 => a[i].op \in Operators
                 /\ a[i].op \in Operators =>
                       /\ Nodes[a[i].n].op = a[i].op /\ Awaited(a[i]) = Nodes[a[i].n].left
                       /\ Awaited(a[i]) \in Operands(a[i].n)
  BY <1>0, FlowShape
<1>2. n \in Positions
  BY <1>1
<1> HIDE DEF n
<1>3. \A i \in 2..j : n \in Under(Awaited(a[i]))
  BY <1>1 DEF FlowAt, n
<1>4. \A i \in 2..j : Awaited(a[i]) \in Positions
  BY <1>0, FlowAwaits DEF FlowAt
<1>5. \A i \in 2..(j - 1) : Under(Awaited(a[i])) \subseteq Under(a[i].n) /\ n \in Under(a[i].n)
  BY <1>1, <1>3, UnderOperands
<1>6. Awaited(b[j - 1]) \in Positions /\ Awaited(b[j - 1]) = Awaited(a[j])
  BY <1>1, <1>4
<1>7. Called(m) \subseteq Under(Awaited(b[j - 1]))
  <2>1. Under(n) \subseteq Under(Awaited(a[j]))
    BY <1>1, <1>3, <1>6, UnderTransitive
  <2>2. Called(m) \subseteq Called(l) \cup Under(n)
    BY DEF Called, Agree, n
  <2> QED
    BY <1>6, <2>1, <2>2 DEF FlowAt
<1>8. \A i \in 1..(j - 1 - 1) : b[i].op # "verdict"
  BY <1>0, <1>1
<1>9. \A p, q \in 1..(j - 1) : p < q => b[p].n \in Under(Awaited(b[q]))
  <2> TAKE p, q \in 1..(j - 1)
  <2>1. p + 1 \in 1..j /\ q + 1 \in 1..j /\ (p < q => p + 1 < q + 1)
    BY <1>1
  <2> QED
    BY <2>1 DEF FlowAt
<1>10. \A i \in 1..(j - 1 - 1) : LastOf(Awaited(b[i + 1]), b[i].n, m)
  <2> TAKE i \in 1..(j - 1 - 1)
  <2>1. /\ i + 1 \in 2..(j - 1) /\ i + 1 \in 1..(j - 1) /\ i + 2 \in 2..j /\ i + 1 + 1 = i + 2
        /\ i + 1 \in 1..j /\ i + 2 \in 1..j /\ i + 1 < i + 2 /\ i \in 1..(j - 1)
    <3>1. j \in Nat /\ i \in Int /\ 1 <= i /\ i <= j - 2
      BY <1>1
    <3> QED
      BY <3>1
  <2>5. b[i] = a[i + 1] /\ b[i + 1] = a[i + 2]
    BY <2>1
  <2>2. LastOf(Awaited(a[i + 2]), a[i + 1].n, l) /\ a[i + 1].n \in Under(Awaited(a[i + 2]))
    BY <2>1 DEF FlowAt
  <2>3. n \in Under(a[i + 1].n) /\ Awaited(a[i + 2]) \in Positions
    BY <1>4, <1>5, <2>1
  <2>4. LastOf(Awaited(a[i + 2]), a[i + 1].n, m)
    BY <2>2, <2>3, LastKept DEF n
  <2> QED
    BY <2>4, <2>5
<1>11. \A i \in 1..(j - 1 - 1) :
          b[i].op \in {"and", "or"} => Called(m) \cap Under(Nodes[b[i].n].right) = {}
  <2> SUFFICES ASSUME NEW i \in 1..(j - 1 - 1), b[i].op \in {"and", "or"},
                      NEW x \in Called(m), x \in Under(Nodes[b[i].n].right)
               PROVE  FALSE
    OBVIOUS
  <2>0. i + 1 \in 2..(j - 1) /\ i + 1 \in 1..(j - 1) /\ i \in 1..(j - 1) /\ i + 1 \in 2..j
    <3>1. j \in Nat /\ i \in Int /\ 1 <= i /\ i <= j - 2
      BY <1>1
    <3> QED
      BY <3>1
  <2>1. i + 1 \in 2..(j - 1) /\ i + 1 \in 1..(j - 1) /\ b[i] = a[i + 1] /\ i + 1 \in 2..j
    BY <2>0
  <2> DEFINE k == a[i + 1].n
             r == Nodes[k].right
  <2>2. Called(l) \cap Under(r) = {} /\ x \in Under(r)
    BY <2>1 DEF FlowAt
  <2>3. k \in Positions /\ Awaited(a[i + 1]) = Nodes[k].left /\ Nodes[k].op \in {"and", "or"}
    BY <1>1, <2>1 DEF Operators
  <2> HIDE DEF k
  <2>4. /\ Nodes[k].left \in Operands(k) /\ r \in Operands(k) /\ Nodes[k].left # r
    BY <2>3, OperatorFacts
  <2>5. Under(Nodes[k].left) \cap Under(r) = {}
    BY <2>3, <2>4, OperandsApart
  <2>6. Under(n) \subseteq Under(Nodes[k].left)
    BY <1>3, <1>4, <2>1, <2>3, UnderTransitive
  <2>7. x \in Called(l) \/ x \in Under(n)
    BY DEF Called, Agree, n
  <2> QED
    BY <2>2, <2>5, <2>6, <2>7
<1>12. b[1] = a[2] /\ a[2].op \notin Evaluating
  <2>1. 1 \in 1..(j - 1) /\ (j = 2 \/ 2 \in 1..(j - 1))
    BY <1>1
  <2>2. b[1] = a[2]
    BY <2>1
  <2>3. "verdict" \notin Evaluating /\ \A op \in Operators : op \notin Evaluating
    BY DEF Evaluating, Operators
  <2> QED
    BY <1>1, <2>1, <2>2, <2>3
<1>13. Done(Awaited(b[1]), m, w)
  <2>1. LastOf(Awaited(a[2]), n, l) /\ n \in Under(Awaited(a[2])) /\ Awaited(a[2]) \in Positions
    BY <1>1, <1>3, <1>4 DEF FlowAt, n
  <2> QED
    BY <1>12, <2>1, LastDone DEF n
<1> QED
  BY <1>6, <1>7, <1>8, <1>9, <1>10, <1>11, <1>12, <1>13 DEF FlowAt

\* Places in an agenda that is one longer, from the third one on.
LEMMA PlacesBelow ==
    ASSUME NEW j \in Nat, NEW i \in 1..(j + 1), NEW k \in 1..(j + 1), i < k, k # 2
    PROVE  /\ k \in 3..(j + 1)
           /\ i # 1 /\ i # 2 =>
                 i \in 3..(j + 1) /\ i - 1 \in 1..j /\ k - 1 \in 1..j /\ i - 1 < k - 1
<1>1. i \in Nat /\ k \in Nat /\ 1 <= i /\ k <= j + 1
  OBVIOUS
<1>2. k >= 3
  BY <1>1
<1>3. CASE i = 1 \/ i = 2
  BY <1>1, <1>2, <1>3
<1>4. CASE i >= 3
  BY <1>1, <1>2, <1>4
<1> QED
  BY <1>1, <1>3, <1>4

\* An operator is put below its left operand, which is to be evaluated.
LEMMA FlowDescends ==
    ASSUME NEW a, Nested(a), NEW j \in 1..Len(a), a[j].op = "verdict", j > 1,
           NEW l \in Returns, NEW v, FlowAt(a, j, l, v), a[1].op = "eval",
           NEW b, \A i \in 2..j : b[i + 1] = a[i],
           Nodes[a[1].n].op \in Operators,
           b[1].op = "eval", b[1].n = Nodes[a[1].n].left,
           b[2].op = Nodes[a[1].n].op, b[2].n = a[1].n
    PROVE  FlowAt(b, j + 1, l, v)
<1> DEFINE n == a[1].n
           p == Nodes[n].left
<1>0. \A i \in 1..(j - 1) : a[i].op # "verdict"
  BY DEF FlowAt
<1>1. Len(a) \in Nat /\ j \in Nat /\ n \in Positions /\ 1 \in 1..(j - 1)
  <2>1. j \in Nat /\ 1 \in 1..(j - 1)
    BY LenProperties DEF Nested
  <2> QED
    BY <1>0, <2>1, FlowShape
<1>2. /\ b[1].op = "eval" /\ b[1].n = p /\ b[2].op = Nodes[n].op /\ b[2].n = n
      /\ b[2].op \in Operators /\ Awaited(b[2]) = p
  BY DEF Awaited, Operators
<1>3. p \in Operands(n) /\ p \in Positions /\ Under(p) \subseteq Under(n) /\ p \in Under(n)
  <2>1. Nodes[n].op \in {"negate", "and", "or"}
    BY DEF Operators
  <2> HIDE DEF n
  <2> QED
    BY <1>1, <2>1, OperatorFacts, UnderOperands
<1>4. \A i \in 2..j : n \in Under(Awaited(a[i]))
  BY <1>1 DEF FlowAt
<1>5. Called(l) \cap Under(n) = {}
  BY DEF FlowAt, Evaluating
<1> HIDE DEF n, p
<1>6. \A i \in 2..j : Awaited(a[i]) \in Positions
  BY <1>0, FlowAwaits DEF FlowAt
<1>7. \A i \in 3..(j + 1) : i - 1 \in 2..j /\ b[i] = a[i - 1]
  <2> TAKE i \in 3..(j + 1)
  <2>1. i - 1 \in 2..j /\ (i - 1) + 1 = i
    BY <1>1
  <2> QED
    BY <2>1
<1>8. Awaited(b[j + 1]) = Awaited(a[j]) /\ b[j + 1] = a[j]
  BY <1>1
<1>9. \A i \in 1..(j + 1 - 1) : b[i].op # "verdict"
  <2> TAKE i \in 1..(j + 1 - 1)
  <2>1. i = 1 \/ i = 2 \/ (i \in 3..(j + 1) /\ i - 1 \in 1..(j - 1))
    BY <1>1
  <2>2. b[2].op # "verdict"
    BY <1>2 DEF Operators
  <2> QED
    BY <1>0, <1>2, <1>7, <2>1, <2>2
<1>10. \A i, k \in 1..(j + 1) : i < k => b[i].n \in Under(Awaited(b[k]))
  <2> SUFFICES ASSUME NEW i \in 1..(j + 1), NEW k \in 1..(j + 1), i < k
               PROVE  b[i].n \in Under(Awaited(b[k]))
    OBVIOUS
  <2>1. CASE k = 2
    <3>1. i = 1
      BY <2>1
    <3> QED
      BY <1>2, <1>3, <2>1, <3>1, UnderClosed
  <2>2. CASE k # 2
    <3>1. /\ k \in 3..(j + 1)
          /\ \/ i = 1
             \/ i = 2
             \/ i \in 3..(j + 1) /\ i - 1 \in 1..j /\ k - 1 \in 1..j /\ i - 1 < k - 1
      <4>1. j \in Nat
        BY <1>1
      <4> QED
        BY <2>2, <4>1, PlacesBelow
    <3>2. Awaited(b[k]) = Awaited(a[k - 1]) /\ k - 1 \in 2..j
      BY <1>7, <3>1
    <3>3. n \in Under(Awaited(b[k])) /\ Awaited(b[k]) \in Positions
      BY <1>4, <1>6, <3>2
    <3>4. p \in Under(Awaited(b[k]))
      BY <1>3, <3>3, UnderTransitive
    <3>5. i \in 3..(j + 1) => b[i].n \in Under(Awaited(b[k]))
      <4> SUFFICES ASSUME i \in 3..(j + 1) PROVE b[i].n \in Under(Awaited(b[k]))
        OBVIOUS
      <4>1. i - 1 \in 1..j /\ k - 1 \in 1..j /\ i - 1 < k - 1
        BY <1>1, <3>1
      <4>2. a[i - 1].n \in Under(Awaited(a[k - 1]))
        BY <4>1 DEF FlowAt
      <4> QED
        BY <1>7, <3>2, <4>2
    <3> QED
      BY <1>2, <3>1, <3>3, <3>4, <3>5
  <2> QED
    BY <2>1, <2>2
<1>11. \A i \in 1..(j + 1 - 1) : LastOf(Awaited(b[i + 1]), b[i].n, l)
  <2> TAKE i \in 1..(j + 1 - 1)
  <2>1. CASE i = 1
    BY <1>2, <2>1, LastSelf
  <2>2. CASE i = 2
    <3>1. 2 \in 2..j /\ 3 \in 3..(j + 1) /\ 3 - 1 = 2
      BY <1>1
    <3>2. b[3] = a[2]
      BY <1>7, <3>1
    <3>3. LastOf(Awaited(a[2]), n, l)
      BY <1>1 DEF FlowAt, n
    <3> QED
      BY <1>2, <2>2, <3>2, <3>3
  <2>3. CASE i > 2
    <3>1. /\ i \in 3..(j + 1) /\ i + 1 \in 3..(j + 1)
          /\ i - 1 \in 1..(j - 1) /\ (i + 1) - 1 = (i - 1) + 1
      BY <1>1, <2>3
    <3>2. b[i] = a[i - 1] /\ b[i + 1] = a[(i - 1) + 1]
      BY <1>7, <3>1
    <3> QED
      BY <3>1, <3>2 DEF FlowAt
  <2> QED
    BY <1>1, <2>1, <2>2, <2>3
<1>12. \A i \in 1..(j + 1 - 1) :
          b[i].op \in {"and", "or"} => Called(l) \cap Under(Nodes[b[i].n].right) = {}
  <2> SUFFICES ASSUME NEW i \in 1..(j + 1 - 1), b[i].op \in {"and", "or"}
               PROVE  Called(l) \cap Under(Nodes[b[i].n].right) = {}
    OBVIOUS
  <2>1. i # 1
    BY <1>2
  <2>2. CASE i = 2
    <3>1. Nodes[n].right \in Operands(n)
      BY <1>1, <1>2, <2>2, OperatorFacts
    <3> QED
      BY <1>1, <1>2, <1>5, <2>2, <3>1, UnderOperands
  <2>3. CASE i # 2
    <3>1. i \in 3..(j + 1) /\ i - 1 \in 1..(j - 1)
      BY <1>1, <2>1, <2>3
    <3> QED
      BY <1>7, <3>1 DEF FlowAt
  <2> QED
    BY <2>2, <2>3
<1>13. b[1].op \in Evaluating /\ Called(l) \cap Under(b[1].n) = {}
  BY <1>2, <1>3, <1>5 DEF Evaluating
<1>14. Awaited(b[j + 1]) \in Positions /\ Called(l) \subseteq Under(Awaited(b[j + 1]))
  BY <1>8 DEF FlowAt
<1> QED
  BY <1>9, <1>10, <1>11, <1>12, <1>13, <1>14 DEF FlowAt

\* The item on top gives way to a node under its own, with which all ends that ends with it.
LEMMA FlowMovesOn ==
    ASSUME NEW a, Nested(a), NEW j \in 1..Len(a), a[j].op = "verdict", j > 1,
           NEW l \in Returns, NEW v, FlowAt(a, j, l, v),
           NEW b, \A i \in 2..j : b[i] = a[i],
           b[1].op \in Evaluating, b[1].n \in Under(a[1].n),
           LastOf(Awaited(a[2]), b[1].n, l), Called(l) \cap Under(b[1].n) = {}
    PROVE  FlowAt(b, j, l, v)
<1>0. \A i \in 1..(j - 1) : a[i].op # "verdict"
  BY DEF FlowAt
<1>1. Len(a) \in Nat /\ j \in Nat /\ a[1].n \in Positions /\ 1 \in 1..(j - 1) /\ j \in 2..j
  <2>1. j \in Nat /\ 1 \in 1..(j - 1)
    BY LenProperties DEF Nested
  <2> QED
    BY <1>0, <2>1, FlowShape
<1>2. \A i \in 2..j : Awaited(a[i]) \in Positions
  BY <1>0, FlowAwaits DEF FlowAt
<1>3. \A i \in 1..(j - 1) : b[i].op # "verdict"
  <2> TAKE i \in 1..(j - 1)
  <2>1. i = 1 \/ i \in 2..j
    BY <1>1
  <2>2. b[1].op # "verdict"
    BY DEF Evaluating
  <2> QED
    BY <1>0, <2>1, <2>2
<1>4. \A p, q \in 1..j : p < q => b[p].n \in Under(Awaited(b[q]))
  <2> SUFFICES ASSUME NEW p \in 1..j, NEW q \in 1..j, p < q PROVE b[p].n \in Under(Awaited(b[q]))
    OBVIOUS
  <2>1. q \in 2..j /\ b[q] = a[q] /\ (p = 1 \/ p \in 2..j) /\ 1 \in 1..j
    BY <1>1
  <2>2. CASE p = 1
    <3>1. a[1].n \in Under(Awaited(a[q])) /\ Awaited(a[q]) \in Positions
      BY <1>2, <2>1, <2>2 DEF FlowAt
    <3> QED
      BY <2>1, <2>2, <3>1, UnderTransitive
  <2>3. CASE p \in 2..j
    BY <2>1, <2>3 DEF FlowAt
  <2> QED
    BY <2>1, <2>2, <2>3
<1>5. \A i \in 1..(j - 1) : LastOf(Awaited(b[i + 1]), b[i].n, l)
  <2> TAKE i \in 1..(j - 1)
  <2>1. i + 1 \in 2..j /\ b[i + 1] = a[i + 1] /\ (i = 1 \/ i \in 2..j)
    BY <1>1
  <2>2. i \in 2..j => LastOf(Awaited(a[i + 1]), b[i].n, l)
    BY DEF FlowAt
  <2>3. i = 1 => LastOf(Awaited(a[i + 1]), b[i].n, l)
    OBVIOUS
  <2> QED
    BY <2>1, <2>2, <2>3
<1>6. \A i \in 1..(j - 1) :
          b[i].op \in {"and", "or"} => Called(l) \cap Under(Nodes[b[i].n].right) = {}
  <2> TAKE i \in 1..(j - 1)
  <2>1. i = 1 \/ i \in 2..j
    BY <1>1
  <2>2. b[1].op \notin {"and", "or"}
    BY DEF Evaluating
  <2> QED
    BY <2>1, <2>2 DEF FlowAt
<1>7. Awaited(b[j]) \in Positions /\ Called(l) \subseteq Under(Awaited(b[j]))
  BY <1>1 DEF FlowAt
<1> QED
  BY <1>3, <1>4, <1>5, <1>6, <1>7 DEF FlowAt

(***************************************************************************)
(* The inductive invariant of a flow, and the steps outside of flows.      *)
(***************************************************************************)
\* Only calls return to the history; and of each flow that is under way what is left to do
\* is what its blocks leave open.
FlowInv ==
    /\ OnlyCalls(leaves)
    /\ At("task") => Called(leaves) = {}
    /\ agenda # << >> /\ Top.op \in {"flowhttp", "flowsend"} => Nodes[Top.n].op = "call"
    /\ \A j \in 1..Len(agenda) : agenda[j].op = "verdict" => FlowAt(agenda, j, leaves, value)

\* Nothing of a flow is below what is not of a flow.
LEMMA NoVerdict ==
    ASSUME NEW a, Nested(a), a[1].op \notin FlowOps, NEW j \in 1..Len(a)
    PROVE  a[j].op # "verdict"
<1>1. a \in Seq(Item) /\ Len(a) \in Nat
  BY LenProperties DEF Nested
<1>2. 1 \in 1..Len(a) /\ (j = 1 \/ 1 < j)
  BY <1>1
<1>3. CASE j = 1
  BY <1>3 DEF FlowOps
<1>4. CASE 1 < j
  BY <1>2, <1>4 DEF Nested, Below, ControlOps, PlainOps, FlowOps
<1> QED
  BY <1>2, <1>3, <1>4

\* An item in place of the one on top.
LEMMA PushedOne ==
    ASSUME NEW S, NEW a \in Seq(S), a # << >>, NEW x
    PROVE  /\ Len(<< x >> \o Tail(a)) = Len(a) /\ (<< x >> \o Tail(a))[1] = x
           /\ \A i \in 2..Len(a) : (<< x >> \o Tail(a))[i] = a[i]
<1>1. PICK T : T = S \cup {x}
  OBVIOUS
<1>2. a \in Seq(T)
  <2>1. Len(a) \in Nat /\ a \in [1..Len(a) -> S]
    BY LenProperties
  <2>2. a \in [1..Len(a) -> T]
    BY <1>1, <2>1
  <2> QED
    BY <2>1, <2>2, SeqDef
<1>3. PICK items : items = << x >>
  OBVIOUS
<1>4. items \in Seq(T) /\ Len(items) = 1 /\ items[1] = x
  BY <1>1, <1>3
<1>5. /\ Tail(a) \in Seq(T) /\ Len(Tail(a)) = Len(a) - 1 /\ Len(a) \in Nat \ {0}
      /\ \A i \in 1..Len(Tail(a)) : Tail(a)[i] = a[i + 1]
  BY <1>2, HeadTailProperties, LenProperties, EmptySeq
<1>6. PICK t : t = Tail(a)
  OBVIOUS
<1>7. /\ t \in Seq(T) /\ Len(t) = Len(a) - 1 /\ \A i \in 1..Len(t) : t[i] = a[i + 1]
  BY <1>5, <1>6
<1>8. /\ Len(items \o t) = Len(items) + Len(t)
      /\ \A i \in 1..Len(items) + Len(t) :
            (items \o t)[i] = IF i <= Len(items) THEN items[i] ELSE t[i - Len(items)]
  <2>1. items \in Seq(T) /\ t \in Seq(T)
    BY <1>4, <1>7
  <2> QED
    BY <2>1, ConcatProperties
<1>9. 1 \in 1..1 + Len(t) /\ \A i \in 2..Len(a) : i \in 1..1 + Len(t) /\ ~(i <= 1)
                                               /\ i - 1 \in 1..Len(t) /\ (i - 1) + 1 = i
  BY <1>5, <1>7
<1>10. \A i \in 2..Len(a) : (items \o t)[i] = a[i]
  BY <1>4, <1>7, <1>8, <1>9
<1>11. Len(items \o t) = Len(a) /\ (items \o t)[1] = x
  BY <1>4, <1>5, <1>7, <1>8, <1>9
<1> QED
  BY <1>3, <1>6, <1>10, <1>11

\* What is on top after a return or a call.
LEMMA NewTop ==
    ASSUME IInv, agenda # << >>
    PROVE  /\ Return => Len(agenda') = Len(agenda) - 1
                        /\ \A i \in 1..Len(agenda') : agenda'[i] = agenda[i + 1]
           /\ \A x : Call(<< x >>) => Len(agenda') = Len(agenda) /\ agenda'[1] = x
                                      /\ \A i \in 2..Len(agenda) : agenda'[i] = agenda[i]
           /\ Len(agenda) \in Nat \ {0} /\ agenda \in Seq(Item)
<1>1. agenda \in Seq(Item) /\ Len(agenda) \in Nat \ {0}
  BY EmptySeq, LenProperties DEF IInv, NestedInv, Nested
<1>2. ASSUME Return PROVE Len(agenda') = Len(agenda) - 1
                          /\ \A i \in 1..Len(agenda') : agenda'[i] = agenda[i + 1]
  BY <1>1, <1>2, HeadTailProperties DEF Return
<1>3. ASSUME NEW x, Call(<< x >>)
      PROVE  Len(agenda') = Len(agenda) /\ agenda'[1] = x
             /\ \A i \in 2..Len(agenda) : agenda'[i] = agenda[i]
  BY <1>1, <1>3, PushedOne DEF Call
<1> QED
  BY <1>1, <1>2, <1>3

\* Steps after which nothing of a flow is on top.
Quiet(a) == a = << >> \/ a[1].op \in ControlOps \cup PlainOps

\* They keep the invariant.
LEMMA QuietKeeps ==
    ASSUME IInv', Quiet(agenda'), OnlyCalls(leaves')
    PROVE  FlowInv'
<1>1. Nested(agenda') /\ agenda' \in Seq(Item)
  BY DEF IInv, NestedInv, Nested
<1>2. ~(At("task")') /\ ~(agenda' # << >> /\ Top'.op \in {"flowhttp", "flowsend"})
  BY DEF Quiet, At, Top, ControlOps, PlainOps
<1>3. ASSUME NEW j \in 1..Len(agenda') PROVE agenda'[j].op # "verdict"
  <2>1. agenda' # << >>
    BY <1>3, EmptySeq
  <2>2. agenda'[1].op \notin FlowOps
    BY <2>1 DEF Quiet, ControlOps, PlainOps, FlowOps
  <2> QED
    BY <1>1, <1>3, <2>2, NoVerdict
<1> QED
  BY <1>2, <1>3 DEF FlowInv

\* What is not of a flow was not called by a flow.
LEMMA QuietReturn ==
    ASSUME IInv, agenda # << >>, Top.op \notin FlowOps, Return
    PROVE  Quiet(agenda')
<1>1. agenda \in Seq(Item) /\ Len(agenda) \in Nat \ {0} /\ Len(agenda') = Len(agenda) - 1
      /\ \A i \in 1..Len(agenda') : agenda'[i] = agenda[i + 1]
  BY NewTop
<1>2. agenda' \in Seq(Item)
  BY <1>1, HeadTailProperties DEF Return
<1>3. CASE Len(agenda) = 1
  BY <1>1, <1>2, <1>3, EmptySeq DEF Quiet
<1>4. CASE Len(agenda) # 1
  <2>1. 1 \in 1..Len(agenda') /\ 1 \in 1..Len(agenda) /\ 2 \in 1..Len(agenda) /\ 1 < 2 /\ 1 + 1 = 2
    BY <1>1, <1>4
  <2>2. agenda'[1] = agenda[2] /\ agenda[2].op \in Below(agenda[1].op)
    BY <1>1, <2>1 DEF IInv, NestedInv, Nested
  <2>3. agenda[1].op \notin FlowOps
    BY DEF Top
  <2>4. agenda[2].op \in ControlOps \cup PlainOps
    BY <2>2, <2>3 DEF Below, ControlOps, PlainOps, FlowOps
  <2> QED
    BY <2>2, <2>4 DEF Quiet
<1> QED
  BY <1>3, <1>4

\* What a block outside of flows may do.
LEMMA PlainKeeps ==
    ASSUME IInv, FlowInv, IInv', agenda # << >>, Top.op \notin FlowOps, leaves' = leaves,
           \/ agenda' = << >>
           \/ Return
           \/ \E x : x.op \in ControlOps \cup PlainOps /\ Call(<< x >>)
    PROVE  FlowInv'
<1>1. CASE agenda' = << >>
  BY <1>1, QuietKeeps DEF Quiet, FlowInv
<1>2. CASE Return
  BY <1>2, QuietReturn, QuietKeeps DEF FlowInv
<1>3. ASSUME NEW x, x.op \in ControlOps \cup PlainOps, Call(<< x >>) PROVE FlowInv'
  BY <1>3, NewTop, QuietKeeps DEF Quiet, FlowInv
<1> QED
  BY <1>1, <1>2, <1>3

\* The actions that begin a workflow step or run the blocks of a plain template.
LEMMA PlainFlow ==
    ASSUME IInv, FlowInv, IInv',
           \/ TopStep \/ EnterBlock
           \/ ExecuteDns \/ ExecuteNetwork \/ ExecuteSsl \/ ExecuteWhois \/ ExecuteFile
           \/ ExecuteCode \/ ExecuteWebsocket \/ ExecuteHeadless \/ ExecuteJs
           \/ NextRequest \/ SendHttp \/ EvaluateHttpResponse
    PROVE  FlowInv'
<1> USE DEF At
<1>1. CASE TopStep
  <2> DEFINE x == [op |-> "step", s |-> Top.s]
  <2>1. x.op \in ControlOps /\ (agenda' = << >> \/ Call(<< x >>))
    BY <1>1 DEF TopStep, ControlOps
  <2>2. agenda # << >> /\ Top.op \notin FlowOps /\ leaves' = leaves
    BY <1>1 DEF TopStep, Top, FlowOps
  <2> HIDE DEF x
  <2> QED
    BY <2>1, <2>2, PlainKeeps
<1>2. CASE EnterBlock
  <2> DEFINE op == IF BlockAt.proto = "http" THEN "http" ELSE "probe"
             x == [op |-> op, t |-> Top.t, b |-> Top.b, s |-> Top.s, r |-> 1, left |-> 0,
                   bound |-> extracted]
  <2>1. x.op \in PlainOps /\ (Return \/ Call(<< x >>))
    BY <1>2 DEF EnterBlock, PlainOps
  <2>2. agenda # << >> /\ Top.op \notin FlowOps /\ leaves' = leaves
    BY <1>2 DEF EnterBlock, Top, FlowOps
  <2> HIDE DEF x
  <2> QED
    BY <2>1, <2>2, PlainKeeps
<1>3. CASE \/ ExecuteDns \/ ExecuteNetwork \/ ExecuteSsl \/ ExecuteWhois \/ ExecuteCode
           \/ ExecuteWebsocket \/ ExecuteHeadless \/ ExecuteJs
  <2>1. At("probe") /\ UnlessProbe
    BY <1>3 DEF ExecuteDns, ExecuteNetwork, ExecuteSsl, ExecuteWhois, ExecuteCode, ExecuteWebsocket,
         ExecuteHeadless, ExecuteJs, Probing
  <2>2. Return
    BY <1>3 DEF ExecuteDns, ExecuteNetwork, ExecuteSsl, ExecuteWhois, ExecuteCode, ExecuteWebsocket,
         ExecuteHeadless, ExecuteJs, Extracting, Bare, Answered, NoAnswer
  <2>3. agenda # << >> /\ Top.op \notin FlowOps /\ leaves' = leaves
    BY <2>1 DEF Top, FlowOps, UnlessProbe
  <2> QED
    BY <2>2, <2>3, PlainKeeps
<1>4. CASE ExecuteFile
  <2>1. agenda # << >> /\ Top.op = "probe" /\ leaves' = leaves
    BY <1>4 DEF ExecuteFile, Probing, Top, UnlessProbe
  <2>2. Top \in RequestItem
    BY <2>1, RequestTop
  <2> DEFINE x == [Top EXCEPT !.r = @ + 1]
  <2>3. Return \/ Call(<< x >>)
    BY <1>4 DEF ExecuteFile
  <2>4. x.op \in PlainOps
    BY <2>1, <2>2 DEF RequestItem, PlainOps
  <2>5. Top.op \notin FlowOps
    BY <2>1 DEF FlowOps
  <2> HIDE DEF x
  <2> QED
    BY <2>1, <2>3, <2>4, <2>5, PlainKeeps
<1>5. CASE NextRequest
  <2>1. agenda # << >> /\ Top.op = "http" /\ leaves' = leaves
    BY <1>5 DEF NextRequest, Top
  <2>2. Top \in RequestItem
    BY <2>1, RequestTop
  <2> DEFINE x == [Top EXCEPT !.op = "armed"]
             y == [Top EXCEPT !.r = @ + 1]
  <2>3. Return \/ Call(<< x >>) \/ Call(<< y >>)
    BY <1>5 DEF NextRequest
  <2>4. x.op \in PlainOps /\ y.op \in PlainOps
    BY <2>1, <2>2 DEF RequestItem, PlainOps
  <2>5. Top.op \notin FlowOps
    BY <2>1 DEF FlowOps
  <2> HIDE DEF x, y
  <2> QED
    BY <2>1, <2>3, <2>4, <2>5, PlainKeeps
<1>6. CASE SendHttp
  <2>1. agenda # << >> /\ Top.op = "armed" /\ leaves' = leaves
    BY <1>6 DEF SendHttp, Top
  <2>2. Top \in RequestItem
    BY <2>1, RequestTop
  <2>3. PICK n \in 0..RequestAt.race :
          Call(<< IF n = 0 THEN [Top EXCEPT !.op = "http", !.r = @ + 1]
                           ELSE [Top EXCEPT !.op = "answers", !.left = n] >>)
    BY <1>6 DEF SendHttp
  <2> DEFINE x == [Top EXCEPT !.op = "http", !.r = @ + 1]
             y == [Top EXCEPT !.op = "answers", !.left = n]
  <2>4. Call(<< x >>) \/ Call(<< y >>)
    BY <2>3
  <2>5. x.op \in PlainOps /\ y.op \in PlainOps
    BY <2>1, <2>2 DEF RequestItem, PlainOps
  <2>6. Top.op \notin FlowOps
    BY <2>1 DEF FlowOps
  <2> HIDE DEF x, y
  <2> QED
    BY <2>1, <2>4, <2>5, <2>6, PlainKeeps
<1>7. CASE EvaluateHttpResponse
  <2>1. agenda # << >> /\ Top.op = "answers" /\ leaves' = leaves
    BY <1>7 DEF EvaluateHttpResponse, Top
  <2>2. Top \in RequestItem
    BY <2>1, RequestTop
  <2> DEFINE x == [Top EXCEPT !.left = @ - 1]
             y == [Top EXCEPT !.op = "http", !.r = @ + 1]
  <2>4. Return \/ Call(<< x >>) \/ Call(<< y >>)
    BY <1>7 DEF EvaluateHttpResponse
  <2>5. x.op \in PlainOps /\ y.op \in PlainOps
    BY <2>1, <2>2 DEF RequestItem, PlainOps
  <2>6. Top.op \notin FlowOps
    BY <2>1 DEF FlowOps
  <2> HIDE DEF x, y
  <2> QED
    BY <2>1, <2>4, <2>5, <2>6, PlainKeeps
<1> QED
  BY <1>1, <1>2, <1>3, <1>4, <1>5, <1>6, <1>7

(***************************************************************************)
(* The steps of flows.                                                     *)
(***************************************************************************)
\* A block of a flow, an operator or the verdict returns: it was called by an operator, by the
\* verdict, or for a step.
LEMMA ReturnTop ==
    ASSUME IInv, agenda # << >>, Top.op \in FlowOps, Return
    PROVE  ~(At("task")') /\ ~(agenda' # << >> /\ Top'.op \in {"flowhttp", "flowsend"})
<1>1. agenda \in Seq(Item) /\ Len(agenda) \in Nat \ {0} /\ Len(agenda') = Len(agenda) - 1
      /\ \A i \in 1..Len(agenda') : agenda'[i] = agenda[i + 1]
  BY NewTop
<1>2. agenda' \in Seq(Item)
  BY <1>1, HeadTailProperties DEF Return
<1>3. CASE Len(agenda) = 1
  <2>1. agenda' = << >>
    BY <1>1, <1>2, <1>3, EmptySeq
  <2> QED
    BY <2>1 DEF At
<1>4. CASE Len(agenda) # 1
  <2>1. 1 \in 1..Len(agenda') /\ 1 \in 1..Len(agenda) /\ 2 \in 1..Len(agenda) /\ 1 < 2 /\ 1 + 1 = 2
    BY <1>1, <1>4
  <2>2. agenda'[1] = agenda[2] /\ agenda[2].op \in Below(agenda[1].op)
    BY <1>1, <2>1 DEF IInv, NestedInv, Nested
  <2>3. agenda[2].op \notin {"task", "flowhttp", "flowsend"}
    BY <2>2 DEF Below, ControlOps, PlainOps, FlowOps, Top
  <2> QED
    BY <2>2, <2>3 DEF At, Top
<1> QED
  BY <1>3, <1>4

\* What is known of a node of a flow that is on top, with the verdict at j.
LEMMA OverVerdict ==
    ASSUME IInv, FlowInv, agenda # << >>, Top.op \in Evaluating \cup Operators,
           NEW j \in 1..Len(agenda), agenda[j].op = "verdict"
    PROVE  /\ Nested(agenda) /\ j > 1 /\ leaves \in Returns
           /\ FlowAt(agenda, j, leaves, value)
           /\ Top.n \in Positions
           /\ Awaited(agenda[2]) \in Positions /\ Top.n \in Under(Awaited(agenda[2]))
           /\ LastOf(Awaited(agenda[2]), Top.n, leaves)
           /\ Top.op \in Evaluating => Called(leaves) \cap Under(Top.n) = {}
           /\ Top.op \in Operators => /\ Nodes[Top.n].op = Top.op
                                      /\ Done(Nodes[Top.n].left, leaves, value)
           /\ Top.op \in {"and", "or"} => Called(leaves) \cap Under(Nodes[Top.n].right) = {}
<1>1. Nested(agenda) /\ Len(agenda) \in Nat /\ j \in Nat
  <2>1. Nested(agenda)
    BY DEF IInv, NestedInv
  <2>2. agenda \in Seq(Item)
    BY <2>1 DEF Nested
  <2>3. Len(agenda) \in Nat
    BY <2>2, LenProperties
  <2>4. j \in Nat
    BY <2>3
  <2> QED
    BY <2>1, <2>3, <2>4
<1>2. leaves \in Returns
  BY DEF IInv, TypeOK, Returns, Values, Positions
<1>3. FlowAt(agenda, j, leaves, value)
  BY DEF FlowInv
<1>4. j > 1
  <2>1. "verdict" \notin Evaluating \cup Operators
    BY DEF Evaluating, Operators
  <2>2. j # 1
    BY <2>1 DEF Top
  <2> QED
    BY <1>1, <2>2
<1>5. 1 \in 1..(j - 1) /\ 1 \in 1..j /\ 2 \in 1..j /\ 2 \in 2..j /\ 1 < 2 /\ 1 + 1 = 2
  BY <1>1, <1>4
<1>6. \A i \in 1..(j - 1) : agenda[i].op # "verdict"
  BY <1>3 DEF FlowAt
<1>7. /\ agenda[1].n \in Positions
      /\ agenda[1].op \in Operators =>
            Nodes[agenda[1].n].op = agenda[1].op /\ Awaited(agenda[1]) = Nodes[agenda[1].n].left
  BY <1>1, <1>5, <1>6, FlowShape
<1>8. Awaited(agenda[2]) \in Positions
  BY <1>1, <1>3, <1>5, <1>6, FlowAwaits DEF FlowAt
<1>9. agenda[1].n \in Under(Awaited(agenda[2])) /\ LastOf(Awaited(agenda[2]), agenda[1].n, leaves)
  BY <1>3, <1>5 DEF FlowAt
<1>10. /\ agenda[1].op \in Evaluating => Called(leaves) \cap Under(agenda[1].n) = {}
       /\ agenda[1].op \notin Evaluating => Done(Awaited(agenda[1]), leaves, value)
       /\ agenda[1].op \in {"and", "or"} =>
             Called(leaves) \cap Under(Nodes[agenda[1].n].right) = {}
  BY <1>3, <1>5 DEF FlowAt
<1>11. \A op \in Operators : op \notin Evaluating
  BY DEF Operators, Evaluating
<1> QED
  BY <1>1, <1>2, <1>3, <1>4, <1>7, <1>8, <1>9, <1>10, <1>11 DEF Top

\* A node of a flow returns, and with it is done what ends with it.
LEMMA YieldFlow ==
    ASSUME IInv, FlowInv, IInv', agenda # << >>, Top.op \in Evaluating \cup Operators, Return,
           OnlyCalls(leaves'), Agree(leaves', leaves, Top.n),
           (\E j \in 1..Len(agenda) : agenda[j].op = "verdict") => Done(Top.n, leaves', value')
    PROVE  FlowInv'
<1>1. ~(At("task")') /\ ~(agenda' # << >> /\ Top'.op \in {"flowhttp", "flowsend"})
  BY ReturnTop DEF Evaluating, Operators, FlowOps
<1>2. ASSUME NEW k \in 1..Len(agenda'), agenda'[k].op = "verdict"
      PROVE  FlowAt(agenda', k, leaves', value')
  <2>1. /\ Len(agenda) \in Nat \ {0} /\ Len(agenda') = Len(agenda) - 1
        /\ \A i \in 1..Len(agenda') : agenda'[i] = agenda[i + 1]
    BY NewTop
  <2>2. PICK j : j = k + 1
    OBVIOUS
  <2>3. j \in 1..Len(agenda) /\ k = j - 1 /\ \A i \in 1..(j - 1) : i \in 1..Len(agenda')
    BY <2>1, <2>2
  <2>4. agenda[j].op = "verdict" /\ \A i \in 1..(j - 1) : agenda'[i] = agenda[i + 1]
    BY <1>2, <2>1, <2>2, <2>3
  <2>5. Nested(agenda) /\ j > 1 /\ leaves \in Returns /\ FlowAt(agenda, j, leaves, value)
    BY <2>3, <2>4, OverVerdict
  <2>6. Done(agenda[1].n, leaves', value') /\ Agree(leaves', leaves, agenda[1].n)
    BY <2>3, <2>4 DEF Top
  <2>7. leaves' \in Returns
    BY DEF IInv, TypeOK, Returns, Values, Positions
  <2> QED
    BY <2>3, <2>4, <2>5, <2>6, <2>7, FlowReturns
<1> QED
  BY <1>1, <1>2 DEF FlowInv

\* A node of a flow goes on with the node x under it.
LEMMA MoveFlow ==
    ASSUME IInv, FlowInv, IInv', agenda # << >>, Top.op \in Evaluating \cup Operators,
           leaves' = leaves, value' = value,
           NEW x, Call(<< x >>), x.op \in Evaluating,
           x.op \in {"flowhttp", "flowsend"} => Nodes[x.n].op = "call",
           (\E j \in 1..Len(agenda) : agenda[j].op = "verdict") =>
              /\ x.n \in Under(Top.n)
              /\ LastOf(Awaited(agenda[2]), x.n, leaves)
              /\ Called(leaves) \cap Under(x.n) = {}
    PROVE  FlowInv'
<1>1. /\ Len(agenda) \in Nat \ {0} /\ Len(agenda') = Len(agenda) /\ agenda'[1] = x
      /\ \A i \in 2..Len(agenda) : agenda'[i] = agenda[i]
  BY NewTop
<1>2. ~(At("task")') /\ (Top'.op \in {"flowhttp", "flowsend"} => Nodes[Top'.n].op = "call")
  BY <1>1 DEF At, Top, Evaluating
<1>3. ASSUME NEW j \in 1..Len(agenda'), agenda'[j].op = "verdict"
      PROVE  FlowAt(agenda', j, leaves', value')
  <2>1. j # 1
    BY <1>1, <1>3 DEF Evaluating
  <2>2. j \in 1..Len(agenda) /\ agenda[j].op = "verdict" /\ \A i \in 2..j : agenda'[i] = agenda[i]
    BY <1>1, <1>3, <2>1
  <2>3. Nested(agenda) /\ j > 1 /\ leaves \in Returns /\ FlowAt(agenda, j, leaves, value)
    BY <2>2, OverVerdict
  <2>4. /\ agenda'[1].n \in Under(agenda[1].n) /\ agenda'[1].op \in Evaluating
        /\ LastOf(Awaited(agenda[2]), agenda'[1].n, leaves)
        /\ Called(leaves) \cap Under(agenda'[1].n) = {}
    BY <1>1, <2>2 DEF Top
  <2>5. FlowAt(agenda', j, leaves, value)
    BY <2>2, <2>3, <2>4, FlowMovesOn
  <2> QED
    BY <2>5
<1>4. OnlyCalls(leaves')
  BY DEF FlowInv
<1> QED
  BY <1>2, <1>3, <1>4 DEF FlowInv

\* A block returned.
LEMMA LeafYieldFlow ==
    ASSUME IInv, FlowInv, IInv', agenda # << >>, Top.op \in Evaluating,
           Nodes[Top.n].op = "call", NEW v \in BOOLEAN, LeafYields(v)
    PROVE  FlowInv'
<1>1. Return /\ value' = v
      /\ leaves' = [leaves EXCEPT ![Top.n] = IF v THEN "true" ELSE "false"]
  BY DEF LeafYields, Yields
<1>2. leaves \in Returns /\ OnlyCalls(leaves)
  BY DEF IInv, TypeOK, Returns, Values, Positions, FlowInv
<1>3. Top.n \in Positions
  <2>1. Top.op \in FlowOps /\ Top.op # "verdict"
    BY DEF Evaluating, FlowOps
  <2> QED
    BY <2>1, NodeTop DEF Positions
<1>4. OnlyCalls(leaves') /\ Agree(leaves', leaves, Top.n)
  <2>1. /\ leaves'[Top.n] = (IF v THEN "true" ELSE "false")
        /\ \A x \in Positions : x # Top.n => leaves'[x] = leaves[x]
    BY <1>1, <1>2, <1>3 DEF Returns
  <2>2. Top.n \in Under(Top.n)
    BY <1>3, UnderClosed
  <2> QED
    BY <1>2, <2>1, <2>2 DEF OnlyCalls, Called, Agree
<1>5. ASSUME NEW j \in 1..Len(agenda), agenda[j].op = "verdict"
      PROVE  Done(Top.n, leaves', value')
  <2>1. Called(leaves) \cap Under(Top.n) = {}
    BY <1>5, OverVerdict
  <2>2. PICK m : m = leaves'
    OBVIOUS
  <2>3. Done(Top.n, m, v)
    BY <1>1, <1>2, <1>3, <2>1, <2>2, DoneCall
  <2> QED
    BY <1>1, <2>2, <2>3
<1> QED
  BY <1>1, <1>4, <1>5, YieldFlow

\* The actions of eval_flow_node.
LEMMA FlowKeeps ==
    ASSUME IInv, FlowInv, IInv',
           \/ EvalBool \/ EvalOperator \/ Combine \/ FlowMissing
           \/ FlowDns \/ FlowNetwork \/ FlowSsl \/ FlowCode \/ FlowJavascript
           \/ FlowHttp \/ FlowNextRequest \/ FlowSendHttp
    PROVE  FlowInv'
<1>0. /\ leaves \in Returns /\ OnlyCalls(leaves) /\ value \in BOOLEAN
      /\ \A n : Agree(leaves, leaves, n)
  BY DEF IInv, TypeOK, Returns, Values, Positions, FlowInv, Agree
<1>1. CASE EvalBool
  <2>1. agenda # << >> /\ Top.op = "eval" /\ Node.op = "bool" /\ Return /\ value' = Node.bool
        /\ leaves' = leaves
    BY <1>1 DEF EvalBool, At, Top, Yields
  <2>2. Top.op \in Evaluating
    BY <2>1 DEF Evaluating
  <2>3. ASSUME NEW j \in 1..Len(agenda), agenda[j].op = "verdict"
        PROVE  Done(Top.n, leaves, Node.bool)
    BY <1>0, <2>1, <2>2, <2>3, OverVerdict, DoneLiteral DEF Node
  <2> QED
    BY <1>0, <2>1, <2>2, <2>3, YieldFlow
<1>2. CASE EvalOperator
  <2> DEFINE x == Eval(Node.left)
             y == Rest(Node.op)
  <2>1. agenda # << >> /\ Top.op = "eval" /\ Node.op \in Operators /\ Call(<< x, y >>)
        /\ leaves' = leaves /\ value' = value
    BY <1>2 DEF EvalOperator, At, Top, Operators
  <2>2. Top.op \in Evaluating /\ Top.op \in FlowOps /\ Top.op # "verdict"
    BY <2>1 DEF Evaluating, FlowOps
  <2>3. x.op = "eval" /\ x.n = Node.left /\ y.op = Node.op /\ y.n = Top.n
    BY DEF Eval, Rest
  <2>4. x \in Item /\ y \in Item
    <3>1. Top.n \in DOMAIN Nodes
      BY <2>1, <2>2, NodeTop
    <3>2. Node.left \in DOMAIN Nodes
      BY <2>1, <3>1, Constants DEF Node, Operators
    <3> QED
      BY <2>1, <3>2, NodeItems DEF Operators
  <2> HIDE DEF x, y
  <2>5. PICK items : items = << x, y >>
    OBVIOUS
  <2>6. items \in Seq(Item) /\ Len(items) = 2 /\ items[1] = x /\ items[2] = y
    BY <2>4, <2>5
  <2>7. agenda \in Seq(Item) /\ Len(agenda) \in Nat \ {0}
    BY <2>1, NewTop
  <2>8. /\ Len(agenda') = Len(agenda) + 1 /\ agenda'[1] = x /\ agenda'[2] = y
        /\ \A i \in 2..Len(agenda) : agenda'[i + 1] = agenda[i]
    <3>1. agenda' = items \o Tail(agenda)
      BY <2>1, <2>5 DEF Call
    <3>2. items \in Seq(Item)
      BY <2>6
    <3>3. LET b == items \o Tail(agenda)
          IN  /\ Len(b) = Len(items) + Len(agenda) - 1
              /\ \A i \in 1..Len(items) : b[i] = items[i]
              /\ \A i \in 2..Len(agenda) : b[Len(items) + i - 1] = agenda[i]
      BY <2>1, <2>7, <3>2, Pushed
    <3>4. 1 \in 1..2 /\ 2 \in 1..2 /\ \A i \in 2..Len(agenda) : 2 + i - 1 = i + 1
      OBVIOUS
    <3> QED
      BY <2>6, <2>7, <3>1, <3>3, <3>4
  <2>9. ~(At("task")') /\ Top'.op \notin {"flowhttp", "flowsend"}
    BY <2>3, <2>8 DEF At, Top
  <2>10. ASSUME NEW k \in 1..Len(agenda'), agenda'[k].op = "verdict"
         PROVE  FlowAt(agenda', k, leaves', value')
    <3>1. k # 1 /\ k # 2
      BY <2>1, <2>3, <2>8, <2>10 DEF Operators
    <3>2. PICK j : j = k - 1
      OBVIOUS
    <3>3. j \in 1..Len(agenda) /\ k = j + 1 /\ j \in 2..Len(agenda)
          /\ \A i \in 2..j : i \in 2..Len(agenda)
      BY <2>7, <2>8, <3>1, <3>2
    <3>4. agenda[j].op = "verdict" /\ \A i \in 2..j : agenda'[i + 1] = agenda[i]
      BY <2>8, <2>10, <3>3
    <3>5. Nested(agenda) /\ j > 1 /\ leaves \in Returns /\ FlowAt(agenda, j, leaves, value)
      BY <2>1, <2>2, <3>3, <3>4, OverVerdict
    <3>6. /\ agenda[1].op = "eval" /\ Nodes[agenda[1].n].op \in Operators
          /\ agenda'[1].op = "eval" /\ agenda'[1].n = Nodes[agenda[1].n].left
          /\ agenda'[2].op = Nodes[agenda[1].n].op /\ agenda'[2].n = agenda[1].n
      BY <2>1, <2>3, <2>8 DEF Top, Node
    <3>7. FlowAt(agenda', j + 1, leaves, value)
      BY <3>3, <3>4, <3>5, <3>6, FlowDescends
    <3> QED
      BY <2>1, <3>3, <3>7
  <2> QED
    BY <1>0, <2>1, <2>9, <2>10 DEF FlowInv
<1>3. CASE Combine
  <2>1. agenda # << >> /\ Top.op \in Operators /\ leaves' = leaves
    BY <1>3 DEF Combine, At, Top, Operators
  <2>2. ASSUME NEW j \in 1..Len(agenda), agenda[j].op = "verdict"
        PROVE  /\ Nodes[Top.n].op = Top.op /\ Top.n \in Positions
               /\ Done(Nodes[Top.n].left, leaves, value)
               /\ Top.op \in {"and", "or"} => Called(leaves) \cap Under(Nodes[Top.n].right) = {}
               /\ Awaited(agenda[2]) \in Positions /\ Top.n \in Under(Awaited(agenda[2]))
               /\ LastOf(Awaited(agenda[2]), Top.n, leaves)
    BY <2>1, <2>2, OverVerdict
  <2>3. CASE At("negate") /\ Yields(~value)
    <3>1. ASSUME NEW j \in 1..Len(agenda), agenda[j].op = "verdict"
          PROVE  Done(Top.n, leaves, ~value)
      BY <1>0, <2>1, <2>2, <2>3, <3>1, DoneOperator DEF At, Top
    <3> QED
      BY <1>0, <2>1, <2>3, <3>1, YieldFlow DEF Yields
  <2>4. CASE /\ (At("and") /\ ~value) \/ (At("or") /\ value)
             /\ Return /\ UNCHANGED value
    <3>1. ASSUME NEW j \in 1..Len(agenda), agenda[j].op = "verdict"
          PROVE  Done(Top.n, leaves, value)
      BY <1>0, <2>1, <2>2, <2>4, <3>1, DoneOperator DEF At, Top
    <3> QED
      BY <1>0, <2>1, <2>4, <3>1, YieldFlow
  <2>5. CASE /\ (At("and") /\ value) \/ (At("or") /\ ~value)
             /\ Call(<< Eval(Node.right) >>) /\ UNCHANGED value
    <3> DEFINE x == Eval(Node.right)
    <3>1. x.op \in Evaluating /\ x.op = "eval" /\ x.n = Nodes[Top.n].right
      BY DEF Eval, Evaluating, Node
    <3> HIDE DEF x
    <3>2. ASSUME NEW j \in 1..Len(agenda), agenda[j].op = "verdict"
          PROVE  /\ x.n \in Under(Top.n) /\ LastOf(Awaited(agenda[2]), x.n, leaves)
                 /\ Called(leaves) \cap Under(x.n) = {}
      <4>1. (Nodes[Top.n].op = "and" /\ value) \/ (Nodes[Top.n].op = "or" /\ ~value)
        BY <2>2, <2>5, <3>2 DEF At, Top
      <4>2. LastOf(Awaited(agenda[2]), Nodes[Top.n].right, leaves)
        BY <1>0, <2>2, <3>2, <4>1, LastRight
      <4>3. Nodes[Top.n].right \in Under(Top.n)
        BY <2>2, <3>2, <4>1, OperatorFacts, UnderOperands
      <4> QED
        BY <2>2, <3>1, <3>2, <4>1, <4>2, <4>3
    <3>3. Call(<< x >>) /\ value' = value
      BY <2>5 DEF x
    <3> QED
      BY <2>1, <3>1, <3>2, <3>3, MoveFlow
  <2> QED
    BY <1>3, <2>3, <2>4, <2>5 DEF Combine
<1>4. CASE FlowMissing \/ FlowDns \/ FlowNetwork \/ FlowSsl \/ FlowCode \/ FlowJavascript
  <2>1. agenda # << >> /\ Top.op = "eval" /\ Node.op = "call"
    BY <1>4 DEF FlowMissing, FlowDns, FlowNetwork, FlowSsl, FlowCode, FlowJavascript, Calling, At, Top
  <2>2. LeafYields(FALSE) \/ \E v \in BOOLEAN : LeafYields(v)
    BY <1>4 DEF FlowMissing, FlowDns, FlowNetwork, FlowSsl, FlowCode, FlowJavascript, LeafAnswers
  <2>3. PICK v \in BOOLEAN : LeafYields(v)
    <3>1. PICK u : u = FALSE
      OBVIOUS
    <3>2. (u \in BOOLEAN /\ LeafYields(u)) \/ \E v \in BOOLEAN : LeafYields(v)
      BY <2>2, <3>1
    <3> QED
      BY <3>2
  <2> QED
    BY <2>1, <2>3, LeafYieldFlow DEF Node, Evaluating
<1>5. ASSUME agenda # << >>, Top.op \in Evaluating, Nodes[Top.n].op = "call",
             leaves' = leaves, value' = value, NEW x, Call(<< x >>),
             x.op \in {"flowhttp", "flowsend"}, x.n = Top.n
      PROVE  FlowInv'
  <2>1. x.op \in Evaluating /\ (x.op \in {"flowhttp", "flowsend"} => Nodes[x.n].op = "call")
    BY <1>5 DEF Evaluating
  <2>2. ASSUME NEW j \in 1..Len(agenda), agenda[j].op = "verdict"
        PROVE  /\ x.n \in Under(Top.n) /\ LastOf(Awaited(agenda[2]), x.n, leaves)
               /\ Called(leaves) \cap Under(x.n) = {}
    BY <1>5, <2>2, OverVerdict, UnderClosed
  <2> QED
    BY <1>5, <2>1, <2>2, MoveFlow
<1>6. CASE FlowHttp
  <2> DEFINE x == [op |-> "flowhttp", n |-> Top.n, t |-> Top.t, s |-> Top.s, b |-> Node.b, r |-> 1,
                   bound |-> extracted, any |-> FALSE, hit |-> FALSE]
  <2>1. agenda # << >> /\ Top.op = "eval" /\ Nodes[Top.n].op = "call" /\ Call(<< x >>)
        /\ leaves' = leaves /\ value' = value /\ x.op = "flowhttp" /\ x.n = Top.n
    BY <1>6 DEF FlowHttp, Calling, At, Top, Node
  <2> HIDE DEF x
  <2> QED
    BY <1>5, <2>1 DEF Evaluating
<1>7. CASE FlowNextRequest
  <2>1. agenda # << >> /\ Top.op = "flowhttp" /\ Top.op \in Evaluating
    BY <1>7 DEF FlowNextRequest, At, Top, Evaluating
  <2>2. Nodes[Top.n].op = "call" /\ Top \in FlowHttpItem
    BY <2>1, FlowHttpTop DEF FlowInv
  <2>3. CASE Top.r > Len(BlockAt.requests) \/ isCancelled
    <3>1. PICK v : v = IF BlockAt.matchers = "none" THEN Top.any ELSE Top.hit
      OBVIOUS
    <3>2. LeafYields(v)
      BY <1>7, <2>3, <3>1 DEF FlowNextRequest
    <3>3. v \in BOOLEAN
      BY <2>2, <3>1 DEF FlowHttpItem
    <3> QED
      BY <2>1, <2>2, <3>2, <3>3, LeafYieldFlow
  <2>4. CASE ~(Top.r > Len(BlockAt.requests) \/ isCancelled)
    <3> DEFINE x == [Top EXCEPT !.op = "flowsend"]
               y == [Top EXCEPT !.r = @ + 1]
    <3>1. Call(<< x >>) \/ Call(<< y >>)
      BY <1>7, <2>4 DEF FlowNextRequest
    <3>2. x.op = "flowsend" /\ x.n = Top.n /\ y.op = "flowhttp" /\ y.n = Top.n
      BY <2>1, <2>2 DEF FlowHttpItem
    <3>3. leaves' = leaves /\ value' = value
      BY <1>7, <2>4 DEF FlowNextRequest
    <3> HIDE DEF x, y
    <3> QED
      BY <1>5, <2>1, <2>2, <3>1, <3>2, <3>3
  <2> QED
    BY <2>3, <2>4
<1>8. CASE FlowSendHttp
  <2>1. agenda # << >> /\ Top.op = "flowsend" /\ Top.op \in Evaluating
        /\ leaves' = leaves /\ value' = value
    BY <1>8 DEF FlowSendHttp, At, Top, Evaluating
  <2>2. Nodes[Top.n].op = "call" /\ Top \in FlowHttpItem
    BY <2>1, FlowHttpTop DEF FlowInv
  <2>3. CASE Call(<< [Top EXCEPT !.op = "flowhttp", !.r = @ + 1] >>)
    <3> DEFINE x == [Top EXCEPT !.op = "flowhttp", !.r = @ + 1]
    <3>1. x.op = "flowhttp" /\ x.n = Top.n /\ Call(<< x >>)
      BY <2>2, <2>3 DEF FlowHttpItem
    <3> HIDE DEF x
    <3> QED
      BY <1>5, <2>1, <2>2, <3>1
  <2>4. ASSUME NEW hit \in Hits,
               Call(<< [Top EXCEPT !.op = "flowhttp", !.any = TRUE, !.hit = @ \/ hit,
                           !.r = IF hit /\ BlockAt.stop THEN Len(BlockAt.requests) + 1
                                                        ELSE @ + 1] >>)
        PROVE  FlowInv'
    <3> DEFINE r == IF hit /\ BlockAt.stop THEN Len(BlockAt.requests) + 1 ELSE Top.r + 1
               h == Top.hit \/ hit
               x == [Top EXCEPT !.op = "flowhttp", !.any = TRUE, !.hit = h, !.r = r]
    <3>1. Call(<< x >>)
      BY <2>4
    <3> HIDE DEF r, h
    <3>2. x.op = "flowhttp" /\ x.n = Top.n
      BY <2>2 DEF FlowHttpItem
    <3> HIDE DEF x
    <3> QED
      BY <1>5, <2>1, <2>2, <3>1, <3>2
  <2> QED
    BY <1>8, <2>3, <2>4 DEF FlowSendHttp
<1> QED
  BY <1>1, <1>2, <1>3, <1>4, <1>6, <1>7, <1>8

\* The verdict is the end of the flow.
LEMMA VerdictFlow ==
    ASSUME IInv, FlowInv, IInv', Verdict
    PROVE  FlowInv'
<1>1. agenda # << >> /\ Top.op = "verdict" /\ Top.op \in FlowOps /\ Return /\ leaves' = leaves
  BY DEF Verdict, At, Top, FlowOps
<1>2. ~(At("task")') /\ ~(agenda' # << >> /\ Top'.op \in {"flowhttp", "flowsend"})
  BY <1>1, ReturnTop
<1>3. ASSUME NEW k \in 1..Len(agenda'), agenda'[k].op = "verdict" PROVE FALSE
  <2>1. /\ Len(agenda) \in Nat \ {0} /\ Len(agenda') = Len(agenda) - 1
        /\ \A i \in 1..Len(agenda') : agenda'[i] = agenda[i + 1]
    BY <1>1, NewTop
  <2>2. PICK j : j = k + 1
    OBVIOUS
  <2>3. j \in 1..Len(agenda) /\ 1 \in 1..(j - 1) /\ agenda[j] = agenda'[k]
    BY <2>1, <2>2
  <2>4. FlowAt(agenda, j, leaves, value)
    BY <1>3, <2>3 DEF FlowInv
  <2>5. agenda[1].op # "verdict"
    BY <2>3, <2>4 DEF FlowAt
  <2> QED
    BY <1>1, <2>5 DEF Top
<1>4. OnlyCalls(leaves')
  BY <1>1 DEF FlowInv
<1> QED
  BY <1>2, <1>3, <1>4 DEF FlowInv

(***************************************************************************)
(* The steps that call flows.                                              *)
(***************************************************************************)
\* A call from outside a flow of what is not of a flow.
LEMMA QuietCall ==
    ASSUME IInv, IInv', FlowInv, agenda # << >>, Top.op \notin FlowOps, leaves' = leaves,
           NEW items \in Seq(Item), Call(items),
           \A i \in 1..Len(items) : items[i].op \in ControlOps \cup PlainOps
    PROVE  FlowInv'
<1>1. agenda \in Seq(Item) /\ Len(agenda) \in Nat \ {0}
  BY NewTop
<1>2. CASE items = << >>
  <2>1. Tail(agenda) \in Seq(Item)
    BY <1>1, HeadTailProperties
  <2>2. Return
    BY <1>2, <2>1, ConcatEmptySeq DEF Call, Return
  <2> QED
    BY <2>2, PlainKeeps
<1>3. CASE items # << >>
  <2>1. Len(items) \in Nat \ {0}
    BY <1>3, EmptySeq, LenProperties
  <2>2. 1 \in 1..Len(items)
    BY <2>1
  <2>3. LET b == items \o Tail(agenda) IN \A i \in 1..Len(items) : b[i] = items[i]
    BY <1>1, Pushed
  <2>4. agenda'[1] = items[1]
    BY <2>2, <2>3 DEF Call
  <2> QED
    BY <2>2, <2>4, QuietKeeps DEF Quiet, FlowInv
<1> QED
  BY <1>2, <1>3

\* A call of a flow of which no block has returned.
LEMMA FlowBegins ==
    ASSUME IInv, agenda # << >>, Top.op \notin PlainOps \cup FlowOps,
           Called(leaves') = {},
           NEW items \in Seq(Item), Call(items), Len(items) > 1,
           items[1].op = "eval", items[2].op = "verdict",
           items[1].n = Templates[items[2].t].flow, items[1].n \in Positions,
           \A i \in 3..Len(items) : items[i].op # "verdict"
    PROVE  FlowInv'
<1> DEFINE n == items[1].n
           m == Len(items)
<1>1. /\ Len(agenda) \in Nat \ {0} /\ m \in Nat
      /\ Len(agenda') = m + Len(agenda) - 1
      /\ \A i \in 1..m : agenda'[i] = items[i]
      /\ \A i \in 2..Len(agenda) : agenda'[m + i - 1] = agenda[i]
  <2>1. agenda \in Seq(Item)
    BY NewTop
  <2> QED
    BY <2>1, Pushed DEF Call
<1>2. \A i \in 2..Len(agenda) : agenda[i].op # "verdict"
  <2> TAKE i \in 2..Len(agenda)
  <2>1. 1 \in 1..Len(agenda) /\ i \in 1..Len(agenda) /\ 1 < i
    BY <1>1
  <2>2. agenda[i].op \in Below(Top.op)
    BY <2>1 DEF IInv, NestedInv, Nested, Top
  <2> QED
    BY <2>2 DEF Below, ControlOps, PlainOps, FlowOps
<1>3. agenda'[1] = items[1] /\ agenda'[2] = items[2]
  <2>1. 1 \in 1..m /\ 2 \in 1..m
    BY <1>1
  <2> QED
    BY <1>1, <2>1
<1>4. ASSUME NEW j \in 1..Len(agenda'), agenda'[j].op = "verdict" PROVE j = 2
  <2>0. j \in Nat
    BY <1>1
  <2>1. CASE j > m
    <3>1. j - m + 1 \in 2..Len(agenda) /\ m + (j - m + 1) - 1 = j
      BY <1>1, <2>0, <2>1
    <3>2. agenda'[j] = agenda[j - m + 1]
      BY <1>1, <3>1
    <3> QED
      BY <1>2, <1>4, <3>1, <3>2
  <2>2. CASE j <= m /\ j > 2
    <3>1. j \in 3..m /\ j \in 1..m
      BY <1>1, <2>0, <2>2
    <3> QED
      BY <1>1, <1>4, <3>1
  <2>3. j # 1
    BY <1>3, <1>4
  <2>4. j = 1 \/ j = 2 \/ j > 2
    BY <2>0, <1>4
  <2> QED
    BY <1>1, <2>0, <2>1, <2>2, <2>3, <2>4
<1>5. FlowAt(agenda', 2, leaves', value')
  <2>1. Awaited(agenda'[2]) = n /\ n \in Positions
    BY <1>3 DEF Awaited
  <2>2. \A i \in 1..(2 - 1) : i = 1
    OBVIOUS
  <2>3. \A p, q \in 1..2 : p < q => p = 1 /\ q = 2
    OBVIOUS
  <2>4. n \in Under(n)
    BY UnderClosed
  <2>5. LastOf(n, n, leaves')
    BY LastSelf
  <2>6. agenda'[1].op = "eval" /\ "eval" \in Evaluating /\ agenda'[1].n = n
    BY <1>3 DEF Evaluating
  <2> HIDE DEF n
  <2>7. \A i \in 1..(2 - 1) : /\ LastOf(Awaited(agenda'[i + 1]), agenda'[i].n, leaves')
                              /\ agenda'[i].op = "eval"
    <3>1. agenda'[1 + 1] = agenda'[2]
      OBVIOUS
    <3> QED
      BY <2>1, <2>2, <2>5, <2>6, <3>1
  <2>8. \A p, q \in 1..2 : p < q => agenda'[p].n \in Under(Awaited(agenda'[q]))
    BY <2>1, <2>3, <2>4, <2>6
  <2> QED
    BY <2>1, <2>6, <2>7, <2>8 DEF FlowAt
<1>6. agenda' # << >> /\ Top'.op = "eval"
  <2>1. Len(agenda') # 0
    BY <1>1
  <2> QED
    BY <1>3, <2>1, EmptySeq DEF Top
<1>7. ~(At("task")') /\ ~(Top'.op \in {"flowhttp", "flowsend"})
  BY <1>6 DEF At, Top
<1>8. OnlyCalls(leaves')
  BY DEF OnlyCalls
<1> QED
  BY <1>4, <1>5, <1>7, <1>8 DEF FlowInv

\* What a step calls.
LEMMA StepCalls ==
    ASSUME NEW s \in DOMAIN Steps
    PROVE  LET items == << [op |-> "template", s |-> s, todo |-> ResolveStep(Steps[s])],
                           [op |-> "subs", s |-> s] >>
                        \o [g \in DOMAIN Steps[s].gates |-> [op |-> "gate", s |-> s, g |-> g]]
           IN  /\ items \in Seq(Item)
               /\ \A i \in 1..Len(items) : items[i].op \in ControlOps
<1> DEFINE gates == Steps[s].gates
           x == [op |-> "template", s |-> s, todo |-> ResolveStep(Steps[s])]
           y == [op |-> "subs", s |-> s]
           G == [g \in DOMAIN gates |-> [op |-> "gate", s |-> s, g |-> g]]
           n == Len(gates)
           S == {z \in Item : z.op \in ControlOps}
<1>1. n \in Nat /\ DOMAIN gates = 1..n
  BY StepFacts
<1>2. x \in S
  <2>1. x \in Item
    BY DEF Item, TemplateItem, ResolveStep
  <2> QED
    BY <2>1 DEF ControlOps
<1>3. y \in S
  <2>1. y \in Item
    BY DEF Item, StepItem
  <2> QED
    BY <2>1 DEF ControlOps
<1>4. \A g \in 1..n : [op |-> "gate", s |-> s, g |-> g] \in S
  <2>1. \A g \in 1..n : [op |-> "gate", s |-> s, g |-> g] \in Item
    BY <1>1 DEF Item, GateItem
  <2> QED
    BY <2>1 DEF ControlOps
<1> HIDE DEF S
<1>5. G \in Seq(S)
  <2>1. G = [g \in 1..n |-> [op |-> "gate", s |-> s, g |-> g]]
    BY <1>1
  <2> HIDE DEF G
  <2>2. G \in [1..n -> S]
    BY <1>4, <2>1
  <2> HIDE DEF n
  <2> QED
    BY <1>1, <2>2, Tuples
<1> HIDE DEF x, y, G
<1>6. << x, y >> \in Seq(S)
  BY <1>2, <1>3
<1>7. PICK items : items = << x, y >> \o G
  OBVIOUS
<1>8. items \in Seq(S)
  BY <1>5, <1>6, <1>7, ConcatProperties
<1>9. Len(items) \in Nat /\ DOMAIN items = 1..Len(items) /\ \A i \in 1..Len(items) : items[i] \in S
  BY <1>8, LenProperties, ElementOfSeq
<1>10. items \in [1..Len(items) -> Item]
  <2>1. items \in [1..Len(items) -> S]
    BY <1>8, LenProperties
  <2> QED
    BY <2>1 DEF S
<1>11. items \in Seq(Item)
  BY <1>9, <1>10, SeqDef
<1>12. \A i \in 1..Len(items) : items[i].op \in ControlOps
  BY <1>9 DEF S
<1> QED
  BY <1>7, <1>11, <1>12 DEF x, y, G

\* The actions of the workflow executor that run no template.
LEMMA StepFlow ==
    ASSUME IInv, FlowInv, IInv', RunStep \/ Subtemplates \/ Gate
    PROVE  FlowInv'
<1>1. agenda # << >> /\ Top.op \in ControlOps /\ Top.op \notin FlowOps /\ leaves' = leaves
  BY DEF RunStep, Subtemplates, Gate, At, Top, ControlOps, FlowOps
<1>2. Top.s \in DOMAIN Steps /\ Fits(Top)
  BY <1>1, ControlTop
<1>3. CASE RunStep
  <2>1. PICK s : s = Top.s
    OBVIOUS
  <2>2. PICK items : items = << [op |-> "template", s |-> s, todo |-> ResolveStep(Steps[s])],
                           [op |-> "subs", s |-> s] >>
                        \o [g \in DOMAIN Steps[s].gates |-> [op |-> "gate", s |-> s, g |-> g]]
    OBVIOUS
  <2>3. Call(items)
    BY <1>3, <2>1, <2>2 DEF RunStep
  <2>4. items \in Seq(Item) /\ \A i \in 1..Len(items) : items[i].op \in ControlOps
    BY <1>2, <2>1, <2>2, StepCalls
  <2> QED
    BY <1>1, <2>3, <2>4, QuietCall
<1>4. ASSUME NEW steps \in Seq(DOMAIN Steps), NEW open,
             Call(IF open THEN StepItems("step", steps) ELSE << >>)
      PROVE  FlowInv'
  <2>1. /\ StepItems("step", steps) \in Seq(Item)
        /\ \A i \in 1..Len(StepItems("step", steps)) : StepItems("step", steps)[i].op = "step"
    BY StepItemsFacts
  <2>2. PICK none : none = << >>
    OBVIOUS
  <2>3. none \in Seq(Item) /\ Len(none) = 0 /\ \A i \in 1..Len(none) : FALSE
    <3>1. none \in Seq(Item) /\ Len(none) = 0
      BY <2>2, EmptySeq
    <3> QED
      BY <3>1
  <2>4. PICK items : items = IF open THEN StepItems("step", steps) ELSE << >>
    OBVIOUS
  <2>5. items \in Seq(Item) /\ \A i \in 1..Len(items) : items[i].op \in ControlOps
    <3>1. CASE open
      BY <2>1, <2>4, <3>1 DEF ControlOps
    <3>2. CASE ~open
      BY <2>2, <2>3, <2>4, <3>2
    <3> QED
      BY <3>1, <3>2
  <2>6. Call(items)
    BY <1>4, <2>4
  <2> QED
    BY <1>1, <2>5, <2>6, QuietCall
<1>5. CASE Subtemplates
  <2>1. Steps[Top.s].subs \in Seq(DOMAIN Steps)
    BY <1>2, StepFacts
  <2> QED
    BY <1>4, <1>5, <2>1 DEF Subtemplates
<1>6. CASE Gate
  <2>1. Top.g \in DOMAIN Steps[Top.s].gates
    BY <1>2, <1>6 DEF Gate, At, Top, Fits
  <2>2. Steps[Top.s].gates[Top.g].subs \in Seq(DOMAIN Steps)
    BY <1>2, <2>1, StepFacts
  <2>3. PICK gate : gate = Steps[Top.s].gates[Top.g]
    OBVIOUS
  <2>4. PICK open : open = Satisfied(gate, results[Top.s])
    OBVIOUS
  <2>5. Call(IF open THEN StepItems("step", gate.subs) ELSE << >>)
    BY <1>6, <2>3, <2>4 DEF Gate
  <2> QED
    BY <1>4, <2>2, <2>3, <2>5
<1> QED
  BY <1>3, <1>5, <1>6

\* The first two calls of a template with a flow.
LEMMA FlowItemsFacts ==
    ASSUME NEW t \in DOMAIN Templates, Templates[t].flow # 0, NEW s
    PROVE  /\ Len(FlowItems(t, s)) = 2
           /\ FlowItems(t, s)[1].op = "eval" /\ FlowItems(t, s)[1].n = Templates[t].flow
           /\ FlowItems(t, s)[2].op = "verdict" /\ FlowItems(t, s)[2].t = t
           /\ Templates[t].flow \in Positions
BY BlockFacts DEF FlowItems, Positions

\* Without a flow the calls are blocks.
LEMMA ProtocolItemsFacts ==
    ASSUME NEW t \in DOMAIN Templates, NEW s, NEW i \in 1..Len(ProtocolItems(t, s)),
           ProtocolItems(t, s) \in Seq(Item)
    PROVE  ProtocolItems(t, s)[i].op = "block"
<1>1. DOMAIN ProtocolItems(t, s) = DOMAIN Templates[t].blocks
  BY DEF ProtocolItems
<1>2. DOMAIN ProtocolItems(t, s) = 1..Len(ProtocolItems(t, s))
  BY LenProperties
<1>3. ProtocolItems(t, s)[i] = [op |-> "block", t |-> t, b |-> i, s |-> s]
  BY <1>1, <1>2 DEF ProtocolItems
<1> QED
  BY <1>3

\* A task begins.
LEMMA TaskFlow ==
    ASSUME IInv, FlowInv, IInv', ExecuteTask
    PROVE  FlowInv'
<1>1. agenda # << >> /\ Top.op = "task" /\ Top.op \notin FlowOps /\ Top.op \notin PlainOps
      /\ leaves' = leaves /\ Called(leaves) = {}
  BY DEF ExecuteTask, At, Top, FlowOps, PlainOps, FlowInv
<1>2. task \in DOMAIN Templates /\ 0 \in InStep
  BY DEF IInv, TypeOK, InStep
<1>3. CASE Return
  BY <1>1, <1>3, PlainKeeps
<1>4. CASE Call(StepItems("topstep", Templates[task].workflow))
  <2>1. Templates[task].workflow \in Seq(DOMAIN Steps)
    BY <1>2, BlockFacts
  <2>2. PICK items : items = StepItems("topstep", Templates[task].workflow)
    OBVIOUS
  <2>3. items \in Seq(Item) /\ \A i \in 1..Len(items) : items[i].op = "topstep"
    BY <2>1, <2>2, StepItemsFacts
  <2>4. Call(items) /\ "topstep" \in ControlOps
    BY <1>4, <2>2 DEF ControlOps
  <2> QED
    BY <1>1, <2>3, <2>4, QuietCall
<1>5. CASE Call(IF Templates[task].flow # 0 THEN FlowItems(task, 0) ELSE ProtocolItems(task, 0))
  <2>1. PICK items : items = IF Templates[task].flow # 0 THEN FlowItems(task, 0)
                                                        ELSE ProtocolItems(task, 0)
    OBVIOUS
  <2>2. items \in Seq(Item) /\ Call(items)
    BY <1>2, <1>5, <2>1, TemplateCalls
  <2>3. CASE Templates[task].flow # 0
    <3>1. /\ Len(items) = 2 /\ items[1].op = "eval" /\ items[2].op = "verdict"
          /\ items[1].n = Templates[task].flow /\ items[2].t = task
          /\ Templates[task].flow \in Positions
      BY <1>2, <2>1, <2>3, FlowItemsFacts
    <3>2. Len(items) > 1 /\ \A i \in 3..Len(items) : items[i].op # "verdict"
      BY <3>1
    <3> QED
      BY <1>1, <2>2, <3>1, <3>2, FlowBegins
  <2>4. CASE Templates[task].flow = 0
    <3>1. \A i \in 1..Len(items) : items[i].op = "block"
      BY <1>2, <2>1, <2>2, <2>4, ProtocolItemsFacts
    <3>2. "block" \in PlainOps
      BY DEF PlainOps
    <3> QED
      BY <1>1, <2>2, <3>1, <3>2, QuietCall
  <2> QED
    BY <2>3, <2>4
<1> QED
  BY <1>3, <1>4, <1>5 DEF ExecuteTask

\* A template of a step.
LEMMA TemplateFlow ==
    ASSUME IInv, FlowInv, IInv', RunTemplate
    PROVE  FlowInv'
<1>1. agenda # << >> /\ Top.op = "template" /\ Top.op \in ControlOps /\ Top.op \notin FlowOps
      /\ Top.op \notin PlainOps
  BY DEF RunTemplate, At, Top, ControlOps, PlainOps, FlowOps
<1>2. Top \in TemplateItem
  BY <1>1, ControlTop, ItemFacts
<1>3. CASE Return /\ leaves' = leaves
  BY <1>1, <1>3, PlainKeeps
<1>4. ASSUME NEW t \in Top.todo,
             Call((IF Templates[t].flow # 0 THEN FlowItems(t, Top.s)
                                            ELSE ProtocolItems(t, Top.s))
                  \o << [Top EXCEPT !.todo = @ \ {t}] >>),
             leaves' = [n \in DOMAIN Nodes |-> "none"]
      PROVE  FlowInv'
  <2>1. t \in DOMAIN Templates /\ Top.s \in InStep
    BY <1>2 DEF TemplateItem, InStep
  <2>2. PICK first : first = IF Templates[t].flow # 0 THEN FlowItems(t, Top.s)
                                                      ELSE ProtocolItems(t, Top.s)
    OBVIOUS
  <2>3. PICK y : y = [Top EXCEPT !.todo = @ \ {t}]
    OBVIOUS
  <2>4. PICK last : last = << y >>
    OBVIOUS
  <2>5. PICK items : items = first \o last
    OBVIOUS
  <2>6. first \in Seq(Item) /\ Len(first) \in Nat
    BY <2>1, <2>2, TemplateCalls
  <2>7. y \in Item /\ y.op = "template"
    <3>1. y \in TemplateItem /\ y.op = "template"
      BY <1>1, <1>2, <2>3 DEF TemplateItem
    <3> QED
      BY <3>1 DEF Item
  <2>8. last \in Seq(Item) /\ Len(last) = 1 /\ last[1].op = "template"
    BY <2>4, <2>7
  <2>9. Call(items)
    BY <1>4, <2>2, <2>3, <2>4, <2>5
  <2>10. /\ items \in Seq(Item) /\ Len(items) = Len(first) + Len(last)
         /\ \A i \in 1..Len(first) + Len(last) :
               items[i] = IF i <= Len(first) THEN first[i] ELSE last[i - Len(first)]
    <3>1. first \in Seq(Item) /\ last \in Seq(Item)
      BY <2>6, <2>8
    <3> QED
      BY <2>5, <3>1, ConcatProperties
  <2>11. Called(leaves') = {} /\ OnlyCalls(leaves')
    BY <1>4 DEF Called, OnlyCalls, Positions
  <2>12. CASE Templates[t].flow # 0
    <3>1. /\ Len(first) = 2 /\ first[1].op = "eval" /\ first[2].op = "verdict"
          /\ first[1].n = Templates[t].flow /\ first[2].t = t
          /\ Templates[t].flow \in Positions
      BY <2>1, <2>2, <2>12, FlowItemsFacts
    <3>2. Len(items) = 3 /\ items[1] = first[1] /\ items[2] = first[2] /\ items[3] = last[1]
      <4>1. /\ 1 \in 1..3 /\ 2 \in 1..3 /\ 3 \in 1..3 /\ 1 <= 2 /\ 2 <= 2 /\ ~(3 <= 2) /\ 3 - 2 = 1
            /\ Len(first) + Len(last) = 3
        BY <2>8, <3>1
      <4> QED
        BY <2>10, <3>1, <4>1
    <3>3. Len(items) > 1 /\ \A i \in 3..Len(items) : items[i].op # "verdict"
      BY <2>8, <3>2
    <3> QED
      BY <1>1, <2>9, <2>10, <2>11, <3>1, <3>2, <3>3, FlowBegins
  <2>13. CASE Templates[t].flow = 0
    <3>1. \A i \in 1..Len(first) : first[i].op = "block"
      BY <2>1, <2>2, <2>6, <2>13, ProtocolItemsFacts
    <3>2. 1 \in 1..Len(items)
      BY <2>6, <2>8, <2>10
    <3>3. items[1].op \in {"block", "template"}
      <4>1. 1 \in 1..Len(first) + Len(last) /\ (1 <= Len(first) => 1 \in 1..Len(first))
            /\ (~(1 <= Len(first)) => 1 - Len(first) = 1)
        BY <2>6, <2>8
      <4> QED
        BY <2>8, <2>10, <3>1, <4>1
    <3>4. agenda'[1] = items[1]
      <4>1. agenda \in Seq(Item)
        BY <1>1, NewTop
      <4>2. \A i \in 1..Len(items) : (items \o Tail(agenda))[i] = items[i]
        BY <1>1, <2>10, <4>1, Pushed
      <4> QED
        BY <2>9, <3>2, <4>2 DEF Call
    <3>5. Quiet(agenda')
      BY <3>3, <3>4 DEF Quiet, ControlOps, PlainOps
    <3> QED
      BY <2>11, <3>5, QuietKeeps
  <2> QED
    BY <2>12, <2>13
<1> QED
  BY <1>3, <1>4 DEF RunTemplate

(***************************************************************************)
(* The theorems about flows.                                               *)
(***************************************************************************)
\* Before the task no flow is under way ...
LEMMA InitFlowInv == Init => FlowInv
<1> SUFFICES ASSUME Init PROVE FlowInv
  OBVIOUS
<1>1. Len(agenda) = 1 /\ agenda[1].op = "task"
  BY DEF Init
<1>2. Called(leaves) = {}
  BY DEF Init, Called, Positions
<1>3. \A j \in 1..Len(agenda) : j = 1
  BY <1>1
<1> QED
  BY <1>1, <1>2, <1>3 DEF FlowInv, OnlyCalls, Top

\* ... and every action keeps the invariant.
LEMMA NextFlowInv == IInv /\ FlowInv /\ [Next]_vars => FlowInv'
<1> SUFFICES ASSUME IInv, FlowInv, [Next]_vars PROVE FlowInv'
  OBVIOUS
<1>0. IInv'
  BY NextIInv
<1>1. CASE ExecuteTask \/ RunStep \/ RunTemplate \/ Subtemplates \/ Gate
  BY <1>0, <1>1, TaskFlow, StepFlow, TemplateFlow
<1>2. CASE \/ TopStep \/ EnterBlock
           \/ ExecuteDns \/ ExecuteNetwork \/ ExecuteSsl \/ ExecuteWhois \/ ExecuteFile
           \/ ExecuteCode \/ ExecuteWebsocket \/ ExecuteHeadless \/ ExecuteJs
           \/ NextRequest \/ SendHttp \/ EvaluateHttpResponse
  BY <1>0, <1>2, PlainFlow
<1>3. CASE \/ EvalBool \/ EvalOperator \/ Combine \/ FlowMissing
           \/ FlowDns \/ FlowNetwork \/ FlowSsl \/ FlowCode \/ FlowJavascript
           \/ FlowHttp \/ FlowNextRequest \/ FlowSendHttp
  BY <1>0, <1>3, FlowKeeps
<1>4. CASE Verdict
  BY <1>0, <1>4, VerdictFlow
<1>5. CASE Cancel \/ Terminated \/ UNCHANGED vars
  <2>1. agenda' = agenda /\ leaves' = leaves /\ value' = value
    BY <1>5 DEF Cancel, Terminated, vars
  <2> QED
    BY <2>1 DEF FlowInv, At, Top
<1> QED
  BY <1>1, <1>2, <1>3, <1>4, <1>5 DEF Next

\* IInv and FlowInv together are an inductive invariant: at any time what is left of a flow is
\* what its blocks' results so far leave open.
THEOREM FlowInvariance == Spec => [](IInv /\ FlowInv)
<1>1. Init => IInv /\ FlowInv
  BY InitIInv, InitFlowInv
<1>2. IInv /\ FlowInv /\ [Next]_vars => (IInv /\ FlowInv)'
  BY NextIInv, NextFlowInv
<1> QED
  BY <1>1, <1>2, PTL DEF Spec

\* A flow reports exactly if its expression is true of what its blocks returned, and runs
\* exactly the blocks that short-circuit evaluation calls for.
THEOREM FlowAsWrittenHolds == Spec => []FlowAsWritten
<1>1. ASSUME IInv, FlowInv PROVE FlowAsWritten
  <2> SUFFICES ASSUME At("verdict")
               PROVE  LET root == Templates[Top.t].flow
                      IN  /\ Worth(leaves)[root] = (IF value THEN "true" ELSE "false")
                          /\ {n \in DOMAIN Nodes : leaves[n] # "none"}
                             = Touched(Worth(leaves))[root]
    BY DEF FlowAsWritten
  <2> DEFINE root == Templates[Top.t].flow
  <2>1. agenda # << >> /\ Top.op = "verdict"
    BY DEF At, Top
  <2>2. 1 \in 1..Len(agenda)
    <3>1. Len(agenda) \in Nat \ {0}
      BY <1>1, <2>1, NewTop
    <3> QED
      BY <3>1
  <2>3. FlowAt(agenda, 1, leaves, value)
    BY <1>1, <2>1, <2>2 DEF FlowInv, Top
  <2>4. Awaited(agenda[1]) = root /\ agenda[1].op \notin Evaluating
    BY <2>1 DEF Awaited, Top, Evaluating
  <2>5. Called(leaves) \subseteq Under(root) /\ Done(root, leaves, value)
    BY <2>3, <2>4 DEF FlowAt
  <2>6. Called(leaves) = Calls(leaves)[root]
    BY <2>5 DEF Done
  <2>7. Called(leaves) = {n \in DOMAIN Nodes : leaves[n] # "none"}
    BY DEF Called, Positions
  <2> QED
    BY <2>5, <2>6, <2>7 DEF Done, Calls
<1> QED
  BY <1>1, FlowInvariance, PTL
================================================================================

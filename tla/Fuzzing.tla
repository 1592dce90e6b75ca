---------------------------------- MODULE Fuzzing ----------------------------------
(***************************************************************************)
(* FuzzingEngine of src/src/engine/fuzzing.rs: the requests a fuzzing block   *)
(* makes of one base request.  Names, values, payloads and the body are texts, *)
(* sequences of letters, for a name may be found inside another text.  The    *)
(* map of payloads is iterated in any order of its keys.                      *)
(***************************************************************************)
EXTENDS Integers, Sequences, SequencesExt, FiniteSetsExt, Functions

CONSTANTS
    Spelled,        \* the text of each name and of each payload
    Wide            \* the letters of two bytes

(***************************************************************************)
(* Texts.                                                                  *)
(***************************************************************************)
StandsAt(text, part, i) ==
    i + Len(part) - 1 <= Len(text) /\ SubSeq(text, i, i + Len(part) - 1) = part

Inside(part, text) == \E i \in DOMAIN text : StandsAt(text, part, i)

\* str::replace: wherever the text stands, from left to right.
Replace(text, old, new) ==
    LET from[i \in 1..(Len(text) + 1)] ==
            IF i > Len(text) THEN << >>
            ELSE IF StandsAt(text, old, i) THEN new \o from[i + Len(old)]
                                           ELSE << text[i] >> \o from[i + 1]
    IN  from[1]

ByteLen(text) == Len(text) + Cardinality({i \in DOMAIN text : text[i] \in Wide})

(***************************************************************************)
(* apply_injection.  A request: query, parameters in order; headers, the      *)
(* value of each header there is; body, << >> if there is none.               *)
(***************************************************************************)
\* mutate, as a set: infix cuts the text in the middle of its bytes, and there is no
\* result where that is inside a letter, for the slice then panics.
Mutate(mode, payload, original) ==
    CASE mode = "prefix" -> {payload \o original}
      [] mode = "postfix" -> {original \o payload}
      [] mode = "infix" ->
            {SubSeq(original, 1, half) \o payload \o SubSeq(original, half + 1, Len(original)) :
                half \in {i \in 0..Len(original) :
                            ByteLen(SubSeq(original, 1, i)) = ByteLen(original) \div 2}}
      [] OTHER -> {payload}

EndsWith(name, key) == IsSuffix(Spelled[key], Spelled[name])

\* The text "name=" is replaced wherever it is, also at the end of a longer name, and
\* what was the value stays behind the payload, whatever the mode.
InjectQuery(query, name, payload) ==
    IF \E i \in DOMAIN query : EndsWith(query[i].name, name)
    THEN [i \in DOMAIN query |->
            IF EndsWith(query[i].name, name)
            THEN [query[i] EXCEPT !.value = payload \o @] ELSE query[i]]
    ELSE Append(query, [name |-> name, value |-> payload])

InjectHeader(headers, name, payload, mode) ==
    {(name :> value) @@ headers :
        value \in IF name \in DOMAIN headers THEN Mutate(mode, payload, headers[name])
                                              ELSE {payload}}

\* The name itself is replaced, wherever it stands; only a body without it is mutated.
InjectBody(body, name, payload, mode) ==
    CASE body = << >> -> {payload}
      [] body # << >> /\ Inside(Spelled[name], body) -> {Replace(body, Spelled[name], payload)}
      [] OTHER -> Mutate(mode, payload, body)

ApplyInjection(request, block, name, payload) ==
    CASE block.part = "header" ->
            {[request EXCEPT !.headers = h] :
                h \in InjectHeader(request.headers, name, payload, block.mode)}
      [] block.part = "body" ->
            {[request EXCEPT !.body = b] :
                b \in InjectBody(request.body, name, payload, block.mode)}
      [] OTHER -> {[request EXCEPT !.query = InjectQuery(@, name, payload)]}

(***************************************************************************)
(* generate: an assignment gives some of the keys a payload; keys, the order  *)
(* in which the map yields them.                                           *)
(***************************************************************************)
\* The request with the payloads of an assignment, or none after a panic.
Request(base, block, keys, assignment) ==
    FoldLeft(LAMBDA requests, key :
                IF key \in DOMAIN assignment
                THEN UNION {ApplyInjection(r, block, key, Spelled[assignment[key]]) :
                               r \in requests}
                ELSE requests,
             {base}, keys)

\* Mutant of Pitchfork: only as many steps as the shortest list has.
PitchforkShortest(payloads) ==
    [i \in 1..Min({Len(payloads[k]) : k \in DOMAIN payloads}) |->
        [k \in DOMAIN payloads |-> payloads[k][i]]]

\* As many steps as the longest list has; a list that is shorter gives nothing more.
Pitchfork(payloads) ==
    [i \in 1..Max({Len(payloads[k]) : k \in DOMAIN payloads}) |->
        [k \in {j \in DOMAIN payloads : i <= Len(payloads[j])} |-> payloads[k][i]]]

\* The product, the last key changing fastest.
Clusterbomb(payloads, keys) ==
    FoldLeft(LAMBDA combinations, key :
                FlattenSeq([c \in DOMAIN combinations |->
                    [p \in DOMAIN payloads[key] |->
                        (key :> payloads[key][p]) @@ combinations[c]]]),
             << << >> >>, keys)

Sniper(payloads, keys) ==
    FlattenSeq([k \in DOMAIN keys |->
        [p \in DOMAIN payloads[keys[k]] |-> keys[k] :> payloads[keys[k]][p]]])

Generate(block, base, keys) ==
    LET assignments == CASE block.attack = "pitchfork" -> Pitchfork(block.payloads)
                         [] block.attack = "clusterbomb" -> Clusterbomb(block.payloads, keys)
                         [] OTHER -> Sniper(block.payloads, keys)
        made == [i \in DOMAIN assignments |-> Request(base, block, keys, assignments[i])]
    IN  IF {} \in Range(made) THEN << >>       \* the task panics
        ELSE [i \in DOMAIN made |-> CHOOSE r \in made[i] : TRUE]

(***************************************************************************)
(* Property.                                                               *)
(***************************************************************************)
\* Where the part of a block holds the payload of a key.  Of a body, anywhere.
Carries(request, block, key, payload) ==
    LET text == Spelled[payload]
    IN  CASE block.part = "header" -> key \in DOMAIN request.headers
                                      /\ Inside(text, request.headers[key])
          [] block.part = "body" -> Inside(text, request.body)
          [] OTHER -> \E i \in DOMAIN request.query :
                         request.query[i].name = key /\ Inside(text, request.query[i].value)

\* What an attack wants tried together.
Wanted(block) ==
    LET lists == block.payloads
    IN  CASE block.attack = "pitchfork" ->
                {{<< k, lists[k][i] >> : k \in {j \in DOMAIN lists : i <= Len(lists[j])}} :
                    i \in UNION {DOMAIN lists[k] : k \in DOMAIN lists}}
          [] block.attack = "clusterbomb" ->
                {{<< k, f[k] >> : k \in DOMAIN lists} :
                    f \in {g \in [DOMAIN lists -> UNION {ToSet(lists[k]) : k \in DOMAIN lists}] :
                              \A k \in DOMAIN lists : g[k] \in ToSet(lists[k])}}
          [] OTHER -> {{<< k, p >>} : <<k, p>> \in
                          UNION {{k} \X ToSet(lists[k]) : k \in DOMAIN lists}}

\* Of several payloads for one body, one may be lost: in another payload the key is
\* found and replaced; or a key is not found, or no more because a key inside of it was
\* replaced before, and the body with what it carries is replaced or cut as a whole.
Overwritten(block, base) ==
    LET keys == DOMAIN block.payloads
        apart == \A k \in keys : /\ Inside(Spelled[k], base.body)
                                 /\ \A j \in keys \ {k} : ~Inside(Spelled[j], Spelled[k])
    IN  /\ block.part = "body" /\ block.attack \in {"pitchfork", "clusterbomb"}
        /\ \/ \E k \in keys : \E j \in keys \ {k} : \E p \in ToSet(block.payloads[j]) :
                  Inside(Spelled[k], Spelled[p])
           \/ block.mode \in {"replace", "infix"} /\ Cardinality(keys) > 1 /\ ~apart

\* The task may panic: a text with a wide letter is cut in the middle.
CutsWide(block, base) ==
    LET texts == Range(base.headers) \cup {base.body}
                 \cup {Spelled[p] : p \in UNION {ToSet(l) : l \in Range(block.payloads)}}
    IN  block.mode = "infix" /\ \E text \in texts : ToSet(text) \cap Wide # {}

\* A key that the query does not have is not added, if the name of another parameter or
\* of another key ends with it: the payload then goes into that one.
Shadowed(block, base) ==
    LET names == {base.query[i].name : i \in DOMAIN base.query}
        keys == DOMAIN block.payloads
    IN  /\ block.part = "query"
        /\ \E key \in keys \ names : \E other \in (names \cup keys) \ {key} : EndsWith(other, key)

\* Unless it panics, every combination the attack wants is carried by a request, no
\* payload overwritten by that of another key, and there is one request for each, in
\* whatever order the map yields the keys; and it panics on wide letters only.
FuzzCovers(block, base, keys) ==
    LET requests == Generate(block, base, keys)
    IN  \/ requests = << >> /\ CutsWide(block, base)
        \/ /\ Len(requests) = Cardinality(Wanted(block))
           /\ \/ Overwritten(block, base) \/ Shadowed(block, base)
              \/ \A wanted \in Wanted(block) : \E i \in DOMAIN requests :
                    \A w \in wanted : Carries(requests[i], block, w[1], w[2])
================================================================================

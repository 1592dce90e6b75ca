--------------------------------- MODULE Matching ---------------------------------
(***************************************************************************)
(* MatcherEngine of src/src/engine/matcher: words sought with Aho-Corasick,   *)
(* the matchers of a block with their conditions and negations, and the name *)
(* put on a finding.  What the other types of matcher compute is taken as    *)
(* given.  The text and the words are sequences of letters.  All of it is a   *)
(* function of the answer and its matchers: a behaviour is one call.         *)
(***************************************************************************)
EXTENDS Integers, Sequences, FiniteSetsExt

CONSTANTS
    Letters,
    WordInputs,     \* words, text, all
    MatcherInputs   \* matchers, all, interaction

\* A matcher: whether its part is one of an interaction, its negation, whether its own
\* condition is met, and its name.  The word "" is left out.
ASSUME MatchingAssumption ==
    /\ WordInputs \subseteq [words : Seq(Seq(Letters) \ {<< >>}), text : Seq(Letters),
                             all : BOOLEAN]
    /\ MatcherInputs \subseteq
          [matchers : Seq([outOfBand : BOOLEAN, met : BOOLEAN, negative : BOOLEAN, name : STRING]),
           all : BOOLEAN, interaction : BOOLEAN]

\* What the engine is called for: words, a block of matchers, or nothing.
VARIABLE asked

Questions == [kind : {"words"}, of : WordInputs] \cup [kind : {"matchers"}, of : MatcherInputs]
NoQuestion == [kind |-> "none"]

MatchInit == asked \in Questions \cup {NoQuestion}
MatchSpec == MatchInit /\ [][FALSE]_asked

(***************************************************************************)
(* match_words.                                                            *)
(***************************************************************************)
OccursAt(word, text, i) == /\ i >= 1 /\ i + Len(word) - 1 <= Len(text)
                           /\ SubSeq(text, i, i + Len(word) - 1) = word

\* Where and which patterns end at e, if their beginning is not before p.
Ending(words, text, p, e) ==
    {k \in DOMAIN words : LET i == e - Len(words[k]) + 1
                          IN  i >= p /\ OccursAt(words[k], text, i)}

\* AhoCorasick::find_iter from p on: the match that ends first; of those the longest;
\* of the same word the first; then what is found behind it.
FoundFrom(words, text, p, found) ==
    LET ends == {e \in p..Len(text) : Ending(words, text, p, e) # {}}
    IN  IF ends = {} THEN {}
        ELSE LET candidates == Ending(words, text, p, Min(ends))
                 long == {k \in candidates :
                             \A j \in candidates : Len(words[j]) <= Len(words[k])}
             IN  {Min(long)} \cup found[Min(ends) + 1]

Found(words, text) ==
    LET found[p \in 1..(Len(text) + 1)] == FoundFrom(words, text, p, found) IN found[1]

\* Mutant of MatchWords: all words are there as soon as one is.
MatchWordsAny(words, text, all) == words # << >> /\ Found(words, text) # {}

MatchWords(words, text, all) ==
    /\ words # << >>
    /\ IF all THEN Found(words, text) = DOMAIN words
              ELSE Found(words, text) # {}

(***************************************************************************)
(* MatcherEngine.                                                          *)
(***************************************************************************)
\* evaluate: without an interaction a matcher of one is false, negative or not.
Evaluate(m, interaction) ==
    /\ m.outOfBand => interaction
    /\ m.met # m.negative

\* evaluate_all
EvaluateAll(matchers, all, interaction) ==
    /\ matchers # << >>
    /\ IF all THEN \A i \in DOMAIN matchers : Evaluate(matchers[i], interaction)
              ELSE \E i \in DOMAIN matchers : Evaluate(matchers[i], interaction)

\* matched_matcher_name: "" for none.
MatchedMatcherName(matchers, all, interaction) ==
    LET named == {i \in DOMAIN matchers :
                    Evaluate(matchers[i], interaction) /\ matchers[i].name # ""}
    IN  IF named = {} \/ (all /\ ~EvaluateAll(matchers, all, interaction)) THEN ""
        ELSE matchers[Min(named)].name

(***************************************************************************)
(* Properties.                                                             *)
(***************************************************************************)
HasWord(text, word) == \E i \in DOMAIN text : OccursAt(word, text, i)

\* What a word matcher reports is in the text, though the search skips what overlaps
\* with a match: of one word, or of any, exactly then; of all only then, as words
\* that overlap or repeat are not all found.
WordsAreThere(words, text, all) ==
    LET there == IF all THEN \A k \in DOMAIN words : HasWord(text, words[k])
                        ELSE \E k \in DOMAIN words : HasWord(text, words[k])
        matched == MatchWords(words, text, all)
    IN  /\ matched => there
        /\ ~all \/ Len(words) = 1 => (there => matched)

\* A finding bears a name only if its block matched, by a matcher of that name, and
\* never for want of an interaction.
NamesAreEarned(matchers, all, interaction) ==
    LET name == MatchedMatcherName(matchers, all, interaction)
    IN  name # "" =>
            /\ EvaluateAll(matchers, all, interaction)
            /\ \E i \in DOMAIN matchers :
                  /\ matchers[i].name = name
                  /\ matchers[i].met # matchers[i].negative
                  /\ ~interaction => ~matchers[i].outOfBand

\* What word matchers report is in the text, and the name of a finding is that of a
\* matcher that made the block match.
MatchersTell ==
    /\ asked.kind = "words" => WordsAreThere(asked.of.words, asked.of.text, asked.of.all)
    /\ asked.kind = "matchers" =>
          NamesAreEarned(asked.of.matchers, asked.of.all, asked.of.interaction)
================================================================================

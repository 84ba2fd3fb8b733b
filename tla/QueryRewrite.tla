---------------------------- MODULE QueryRewrite ----------------------------
(***************************************************************************)
(* How a question becomes the text that is searched: a follow-up through   *)
(* the rewriting model, and every text through the canned texts of the     *)
(* retriever. A text is a sequence of fragments, each a word or a part of  *)
(* one with the space that follows it; "phrase in text" is that the phrase *)
(* is a contiguous part of it.                                             *)
(***************************************************************************)
EXTENDS Integers, Sequences, SequencesExt, FiniteSetsExt

CONSTANTS
    Fragment,       \* what texts are made of
    Reference,      \* PRIOR_CONTEXT_REFERENCE_MARKERS: "that", "said", "it"
    UiReferences,   \* UNRESOLVED_REFERENCE_REPLACEMENTS, in their order: each
                    \* <<"that", "button">> becomes <<"button">>
    Expansions,     \* expand_retrieval_query, in its order: [all, any: phrases, text]
    Question,       \* what is asked
    Candidates,     \* [turn number -> [query, answer: text]], the earlier turns
    Written,        \* what the model writes as resolvedQuery ...
    Named,          \* ... and as contextPhrase
    MaxQuery        \* MAX_QUERY_LENGTH, in fragments

\* What fits a field of user_query or resolved_query.
IsText(t) == t \in Seq(Fragment) /\ Len(t) \in 1..MaxQuery

ASSUME RewriteAssumption ==
    /\ MaxQuery \in Nat
    /\ Reference \subseteq Fragment
    /\ UiReferences \in Seq(Reference \X (Fragment \ Reference))
    /\ DOMAIN Expansions \subseteq Nat
    /\ \A t \in Question \cup Written \cup Named : IsText(t)
    /\ DOMAIN Candidates \subseteq Nat \ {0}
    /\ \A t \in DOMAIN Candidates :
          IsText(Candidates[t].query) /\ Candidates[t].answer \in Seq(Fragment)

Within(phrase, text) == phrase \in SubSeqs(text)

\* resolution.decision, the text to search and the turn it was taken from
\* (0: none).
Resolution(decision, text, turn) == [decision |-> decision, text |-> text, turn |-> turn]
Unresolved == Resolution("FOLLOW_UP_UNRESOLVED", <<>>, 0)
NewTopic(question) == Resolution("NEW_TOPIC", question, 0)

\* What the model may answer: a decision that fits its fields. Any other
\* answer is the outcome INVALID of an attempt.
Outputs ==
    {[decision |-> d, turn |-> 0, phrase |-> <<>>, text |-> <<>>] :
        d \in {"NEW_TOPIC", "FOLLOW_UP_UNRESOLVED"}}
    \cup [decision : {"FOLLOW_UP_RESOLVED"}, turn : DOMAIN Candidates \cup {99},
          phrase : Named, text : Written]

\* Where a phrase of a follow-up may come from.
OfTurn(phrase, turn) ==
    Within(phrase, Candidates[turn].query) \/ Within(phrase, Candidates[turn].answer)

\* A slip: the phrase need not stand in the new text.
AcceptableAnyText(output) ==
    \/ output.decision # "FOLLOW_UP_RESOLVED"
    \/ output.turn \in DOMAIN Candidates

\* The rules that _resolve_query_rewrite_output puts to a resolved follow-up:
\* the phrase stands in the turn, and in the text as the model wrote it.
Acceptable(output) ==
    \/ output.decision # "FOLLOW_UP_RESOLVED"
    \/ /\ output.turn \in DOMAIN Candidates
       /\ OfTurn(output.phrase, output.turn)
       /\ Within(output.phrase, output.text)

\* str.replace of one UI reference: its first word is left out wherever the
\* reference stands. What is left may read as a reference again.
Replaced(text, reference) ==
    LET begins(i) == i < Len(text) /\ <<text[i], text[i + 1]>> = reference
        kept == {i \in DOMAIN text : ~begins(i)}
    IN [n \in 1..Cardinality(kept) |->
          text[CHOOSE i \in kept : Cardinality({j \in kept : j < i}) = n - 1]]

\* _normalize_reference_phrases: one reference after the other, each once.
Normalized(text) == FoldLeft(Replaced, text, UiReferences)

HasUiReference(text) == \E i \in DOMAIN UiReferences : Within(UiReferences[i], text)

\* _preserve_previous_scope_for_ui_reference: "that button" needs the question
\* in which the button was named.
WithScope(question, previous, text) ==
    LET merged == previous \o Normalized(question)
    IN IF \/ ~HasUiReference(question)
          \/ Within(previous, text)
          \/ Len(merged) > MaxQuery
         THEN text
         ELSE merged

\* A follow-up that already names its topic and refers to nothing is a new
\* topic, and searched as it was asked.
Resolved(question, output) ==
    LET previous == Candidates[output.turn].query
        text == WithScope(question, previous, Normalized(output.text))
    IN IF Within(output.phrase, question) /\ ToSet(question) \cap Reference = {}
         THEN NewTopic(question)
         ELSE Resolution("FOLLOW_UP_RESOLVED", text, output.turn)

\* _resolve_query_rewrite_output, of an acceptable output
Resolve(question, output) ==
    CASE output.decision = "NEW_TOPIC" -> NewTopic(question)
      [] output.decision = "FOLLOW_UP_UNRESOLVED" -> Unresolved
      [] OTHER -> Resolved(question, output)

-----------------------------------------------------------------------------
(* The text that the retrievers get *)

\* The rule speaks of the text: it has all of these phrases, and one of those.
Applies(rule, text) ==
    /\ \A phrase \in rule.all : Within(phrase, text)
    /\ \E phrase \in rule.any : Within(phrase, text)

\* expand_retrieval_query: the first rule that applies replaces the text by its own.
Expanded(text) ==
    LET applying == {i \in DOMAIN Expansions : Applies(Expansions[i], text)}
    IN IF applying = {} THEN text ELSE Expansions[Min(applying)].text

=============================================================================

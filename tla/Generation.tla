----------------------------- MODULE Generation -----------------------------
(***************************************************************************)
(* The plan, the draft and the check of an answer. A source is the place of *)
(* its chunk in the evidence: SOURCE_1 is the first one.                   *)
(***************************************************************************)
EXTENDS Retrieval

\* What a model call ends with: a parsed output, an output that does not fit
\* its schema, an error that is worth another attempt, or any other error.
Outcomes == {"PARSED", "INVALID", "TRANSIENT", "OTHER"}
Sources == 1..TopK
UnknownSource == TopK + 1

WithheldReasons == {"INSUFFICIENT_EVIDENCE", "AMBIGUOUS_QUESTION", "OUT_OF_SCOPE"}
Guiding == {"INSUFFICIENT_EVIDENCE", "AMBIGUOUS_QUESTION"}

\* Plans that GenerationSourcePlan accepts, with the sources that
\* select_required_sources takes from them: evidence and optional context of an
\* answer, related guidance otherwise. Never none, they may be unknown ones.
Plan(status, kind, sources) == [status |-> status, kind |-> kind, sources |-> sources]
NoPlan == Plan("NONE", "ANY", {})
Plans ==
    [status : {"ANSWERABLE"}, kind : {"PROCEDURE", "ANY"},
     sources : (SUBSET (Sources \cup {UnknownSource})) \ {{}}]
    \cup [status : {"RELATED_GUIDANCE"}, kind : {"ANY"},
          sources : (SUBSET (Sources \cup {UnknownSource})) \ {{}}]
Selectable(plan, evidence) == plan.sources \subseteq DOMAIN evidence

\* Drafts that GenerationResult accepts: withheld for a reason, or a body with
\* its citation markers in order of appearance and with or without a limitation.
\* A body that is not clean (it links somewhere, has HTML or naked source ids, or
\* a limitation that cites) is refused whatever it cites.
Withheld(reason) == [status |-> "WITHHELD", reason |-> reason]
Body(markers, clean, limited) ==
    [status |-> "ANSWERABLE", markers |-> markers, clean |-> clean, limited |-> limited]
Drafts ==
    {Withheld(reason) : reason \in WithheldReasons}
    \cup {Body(<<1>>, FALSE, FALSE)}
    \cup {Body(markers, TRUE, limited) :
            markers \in UNION {{s \in [1..n -> Sources] : IsInjective(s)} : n \in 0..TopK},
            limited \in BOOLEAN}

\* generate_answer: the plan saw evidence, the writer says there is none. A
\* procedure may be missing a step that only the writer notices.
Contradicts(draft, plan) ==
    draft.status = "WITHHELD" /\ plan.status = "ANSWERABLE" /\ plan.kind # "PROCEDURE"

\* A slip: citations are checked against everything that was found.
VerifiableAnywhere(draft, plan, evidence) ==
    /\ draft.clean
    /\ draft.limited <=> plan.status # "ANSWERABLE"
    /\ draft.markers # <<>>
    /\ ToSet(draft.markers) \subseteq DOMAIN evidence

\* validate_generation_result, validate_citations
Verifiable(draft, plan, evidence) ==
    /\ draft.clean
    /\ draft.limited <=> plan.status # "ANSWERABLE"
    /\ draft.markers # <<>>
    /\ ToSet(draft.markers) \subseteq plan.sources

\* The sections a list of markers cites, each once, in order of appearance.
CitedSections(markers, evidence) ==
    Distinct([i \in DOMAIN markers |-> Section(evidence[markers[i]])])

\* The citations of a verified draft, by the chunk each stands for: the first
\* one of its section.
Citations(markers, evidence) ==
    [n \in DOMAIN CitedSections(markers, evidence) |->
        LET section == CitedSections(markers, evidence)[n]
            first == CHOOSE i \in DOMAIN markers :
                        /\ Section(evidence[markers[i]]) = section
                        /\ \A j \in 1..(i - 1) : Section(evidence[markers[j]]) # section
        IN evidence[markers[first]]]

\* The numbers that replace the markers in the answer.
Numbers(markers, evidence) ==
    [i \in DOMAIN markers |->
        CHOOSE n \in DOMAIN Citations(markers, evidence) :
            Section(Citations(markers, evidence)[n]) = Section(evidence[markers[i]])]

=============================================================================

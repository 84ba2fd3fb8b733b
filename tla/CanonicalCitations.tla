------------------------- MODULE CanonicalCitations -------------------------
(***************************************************************************)
(* Where the citations of an approved answer are found in the index of the *)
(* turn that it is served to. The answer was approved against an index of  *)
(* its time: documents have new versions since, with other chunk ids, and  *)
(* sections that were rewritten, moved or copied.                          *)
(***************************************************************************)
EXTENDS Retrieval

CONSTANTS
    SourceOf,   \* the document of a version, of the index or of an older one
    ContentOf,  \* content_hash of the section of a chunk
    IdentityOf, \* its node_identity_hash, 0 for none
    OrderOf,    \* its node_order
    Off,        \* documents that are switched off but still in the index
    Approved    \* canonical answers: what their citations were, in order

ASSUME CitationAssumption ==
    /\ \A c, d \in Chunk :
          VersionOf[c] = VersionOf[d] /\ OrderOf[c] = OrderOf[d] => c = d
    \* The index holds one version of a document.
    /\ \A c, d \in Chunk :
          SourceOf[VersionOf[c]] = SourceOf[VersionOf[d]] => VersionOf[c] = VersionOf[d]
    /\ \A c \in Chunk : OrderOf[c] \in Nat
    /\ \A answer \in Approved : \A n \in DOMAIN answer :
          /\ answer[n].order \in Nat
          /\ answer[n].chunk \in Chunk =>
                /\ answer[n].content = ContentOf[answer[n].chunk]
                /\ answer[n].identity = IdentityOf[answer[n].chunk]

\* load_citation_contexts: the sections with the cited content in the version of
\* the cited document that the index of the turn holds. None, if it holds none or
\* the document is off.
Kept(citation) ==
    {c \in Chunk :
        /\ SourceOf[VersionOf[c]] = SourceOf[citation.version]
        /\ SourceOf[VersionOf[c]] \notin Off
        /\ ContentOf[c] = citation.content}

Distance(citation, c) ==
    IF OrderOf[c] < citation.order THEN citation.order - OrderOf[c]
                                   ELSE OrderOf[c] - citation.order

\* The one next to the place of the cited one, the earlier one of two.
Nearest(citation, sections) ==
    CHOOSE c \in sections : \A d \in sections \ {c} :
        \/ Distance(citation, c) < Distance(citation, d)
        \/ /\ Distance(citation, c) = Distance(citation, d)
           /\ OrderOf[c] < OrderOf[d]

\* resolve_citation: the chunk itself, else the first section of its identity
\* that says the same, else the nearest one that says the same.
Located(citation) ==
    LET kept == Kept(citation)
        same == {c \in kept : citation.identity # 0 /\ IdentityOf[c] = citation.identity}
    IN IF citation.chunk \in kept THEN citation.chunk
       ELSE IF same # {} THEN CHOOSE c \in same : \A d \in same : OrderOf[c] <= OrderOf[d]
       ELSE Nearest(citation, kept)

\* The citations of evaluate_cache_gate: there are some, and all are found.
Resolvable(answer) ==
    answer # <<>> /\ \A n \in DOMAIN answer : Kept(answer[n]) # {}

\* served_citation_logs
ServedCitations(answer) == [n \in DOMAIN answer |-> Located(answer[n])]

=============================================================================

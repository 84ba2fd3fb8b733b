---------------------------- MODULE MCAnswerPath ----------------------------
(* Four chunks: 1 and 2 are parts of one section of document 11, 3 is its    *)
(* section "Install > Linux", 4 is in document 12, uploaded in the console.  *)
EXTENDS AnswerPath

MCVersionOf == [c \in Chunk |-> IF c = 4 THEN 12 ELSE 11]
MCPathOf ==
    [c \in Chunk |->
        CASE c \in {1, 2} -> <<<<"Guide">>, <<"Start">>>>
          [] c = 3 -> <<<<"Guide">>, <<"Install", "Linux">>>>
          [] OTHER -> <<<<"News">>>>]

\* Subproblems 2 and 3 are of different documents and have one key.
MCKeyOf == [s \in Subproblem |-> IF s = 1 THEN 1 ELSE 2]

\* "that button" and "said button", of which "said that button" leaves one.
MCUiReferences == <<<<"SAID", "BUTTON">>, <<"THAT", "BUTTON">>>>
MCExpansions ==
    <<[all |-> {<<"RIIDO">>}, any |-> {<<"WHICH", "SERVICE">>, <<"DOES">>}, text |-> <<"INTRO">>],
      [all |-> {<<"PLAN">>, <<"PAY">>}, any |-> {<<"USER">>}, text |-> <<"PRO", "PLAN">>]>>
MCQuestion ==
    {<<"EXPORT">>, <<"IT">>, <<"EXPORT", "IT">>, <<"RIIDO", "WHICH", "SERVICE">>,
     <<"PLAN", "PAY", "USER">>, <<"THAT", "BUTTON">>, <<"SAID", "THAT", "BUTTON">>}
MCCandidates ==
    <<[query |-> <<"EXPORT", "BUTTON">>, answer |-> <<"RIIDO", "DOES">>],
      [query |-> <<"THAT", "BUTTON">>, answer |-> <<"EXPORT">>]>>
MCWritten ==
    {<<"EXPORT", "THAT", "BUTTON">>, <<"SAID", "THAT", "BUTTON">>, <<"RIIDO", "DOES">>,
     <<"EXPORT", "BUTTON", "PAY">>}
MCNamed == {<<"EXPORT">>, <<"THAT", "BUTTON">>, <<"RIIDO">>}

\* Document 1 has version 11 in the index and had version 10, document 2 has
\* version 12 and is off. Chunks 1 and 3 say the same.
MCSourceOf == [v \in {10, 11, 12, 13} |-> CASE v \in {10, 11} -> 1 [] v = 12 -> 2 [] OTHER -> 3]
MCContentOf == [c \in Chunk |-> CASE c \in {1, 3} -> "S" [] c = 2 -> "T" [] OTHER -> "N"]
MCIdentityOf == [c \in Chunk |-> IF c = 4 THEN 0 ELSE c]
MCOrderOf == [c \in Chunk |-> c]
MCCite(chunk, version, content, identity, order) ==
    [chunk |-> chunk, version |-> version, content |-> content,
     identity |-> identity, order |-> order]
MCApproved ==
    {\* the chunk itself, and the section of an old version
     <<MCCite(2, 11, "T", 2, 2), MCCite(103, 10, "S", 3, 1)>>,
     \* a section with another identity, between two that say the same
     <<MCCite(102, 10, "S", 9, 2)>>,
     \* a section that was rewritten
     <<MCCite(2, 11, "T", 2, 2), MCCite(102, 10, "Old", 2, 2)>>,
     \* a document that is off, and one that left the index
     <<MCCite(4, 12, "N", 0, 4)>>,
     <<MCCite(105, 13, "N", 5, 1)>>}

=============================================================================

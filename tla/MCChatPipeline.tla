--------------------------- MODULE MCChatPipeline ---------------------------
(* Answers, measurements and configurations for the TLC run of ChatPipeline. *)
EXTENDS ChatPipeline

Chunk(level, archived) ==
    [approved |-> TRUE, level |-> level, acl |-> TRUE, valid |-> TRUE, archived |-> archived]

\* Two chunks to cite, one above the clearance and one in the archive
MCCorpus == {Chunk(0, FALSE), Chunk(2, FALSE), Chunk(3, FALSE), Chunk(0, TRUE)}

MCScoreLists == {<<80, 70>>, <<80>>, <<40, 30>>}

Seg(type, cites, groups) == [type |-> type, cites |-> cites, groups |-> groups]

\* Markers in and out of range, doubled, and not a number
Plain == {Seg(t, c, <<>>) : t \in {"direct", "none", "synthesis", "inference"},
                          c \in {<<>>, <<1>>, <<1, 2>>, <<1, NotAnInt, 7>>}}
         \cup {Seg("other", <<2, 1>>, <<>>)}

\* No group, one, two that differ, one named twice, one that is not cited
Conflicts == {Seg("conflict", <<1, 2>>, g) :
                 g \in {<<>>, <<{1}>>, <<{1}, {2}>>, <<{1}, {1}>>, <<{1}, {3}>>}}
             \cup {Seg("conflict", <<1, 2, 3>>, <<{1}, {2}>>)}

Other == {Seg("direct", <<>>, <<>>), Seg("direct", <<2, 2>>, <<>>), Seg("inference", <<2>>, <<>>)}

MCAnswers == {<<s>> : s \in Plain \cup Conflicts}
             \cup {<<s, t>> : s \in {Seg("direct", <<1>>, <<>>), Seg("synthesis", <<1, 2>>, <<>>),
                                     Seg("inference", <<1>>, <<>>),
                                     Seg("conflict", <<1, 2>>, <<{1}, {2}>>)}, t \in Other}

MCSimilarities == {[c \in 1 .. 3 |-> "strong"], [c \in 1 .. 3 |-> "weak"],
                   <<"strong", "medium", "weak">>, <<"weak", "strong", "strong">>}

\* Nothing found; two values that differ; one value that is the same in both
MCReadings == {<<>>, << <<{"a"}, {"a"}, {}>>, <<{"a"}, {"b"}, {}>> >>}

Config(judge, heuristic, plain, mask) ==
    [judge |-> judge, heuristic |-> heuristic, plain |-> plain, mask |-> mask,
     rewrite |-> judge, exams |-> mask, figures |-> judge, lora |-> judge, archive |-> ~mask,
     refuses |-> IF heuristic THEN {} ELSE {"document_qa"},
     shared |-> IF plain THEN {} ELSE {"assessment_generation"}]

MCConfigs == {Config(TRUE, TRUE, TRUE, TRUE), Config(FALSE, FALSE, TRUE, TRUE),
              Config(TRUE, FALSE, FALSE, FALSE)}
=============================================================================

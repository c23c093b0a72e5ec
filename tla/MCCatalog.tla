----------------------------- MODULE MCCatalog -----------------------------
(* Small instances of CourseCatalog and CourseContent for TLC.             *)
EXTENDS CourseContent, TLC

CONSTANTS c1, c2, l1, l2

Options(correct1, correct2) == <<[id |-> "a", correct |-> correct1], [id |-> "b", correct |-> correct2]>>

Entered(type, position, points) ==
    [type |-> type, position |-> position, points |-> points,
     options |-> <<>>, truth |-> None, accepted |-> {}]

Single == [Entered("single_choice", 0, 1) EXCEPT !.options = Options(TRUE, FALSE)]
TwoKeys == [Entered("single_choice", 0, 1) EXCEPT !.options = Options(TRUE, TRUE)]
Multiple == [Entered("multiple_choice", 0, 0) EXCEPT !.options = Options(TRUE, TRUE)]
Truth == [Entered("true_false", 1, 2) EXCEPT !.truth = TRUE]
TruthLast == [Truth EXCEPT !.position = 3]
Short == [Entered("short_answer", 0, 1) EXCEPT !.accepted = {"Go", " "}]

MCQuizzes == {<<>>, <<Multiple, Single>>, <<Short, TruthLast>>, <<TwoKeys>>, <<Multiple, Truth>>}

Reply(selected, truth, text) ==
    [question |-> None, selected |-> selected, truth |-> truth, text |-> text]

MCResponses ==
    {Reply(<<"a">>, None, None), Reply(<<"b", " ", "a", "b">>, TRUE, "GO"),
     Reply(<<>>, FALSE, " ")}

Forms(statuses, percents, certificates, quizzes) ==
    [status : statuses, percent : percents, certificate : certificates, quiz : quizzes]

(* One course is saved twice while a learner opens and answers its quiz;   *)
(* or two courses get content, and reviews, while they come and go.        *)
MCBounds ==
    {[saves |-> 2, courses |-> {c1}, learners |-> {l1}, edits |-> 0, moderators |-> {},
      forms |-> Forms(Statuses \cup {""}, {0, 50}, BOOLEAN \cup {None}, MCQuizzes)],
     [saves |-> 2, courses |-> {c1, c2}, learners |-> {}, edits |-> 4, moderators |-> {},
      forms |-> Forms({"draft"}, {0}, {FALSE}, {<<>>})],
     [saves |-> 1, courses |-> {c1}, learners |-> {}, edits |-> 4, moderators |-> {"a1", "a2"},
      forms |-> Forms({"draft"}, {0}, {FALSE}, {<<>>})]}

Block(type, url, languages, provider, number, filename) ==
    [type |-> type, payload |-> [url |-> url, languages |-> languages, provider |-> provider,
                                 number |-> number, filename |-> filename]]

MCBlockForms ==
    {Block("text", "", Languages, "", 0, FALSE), Block("file", "absolute", {"ru"}, "", 1, TRUE),
     Block("photo", "absolute", {"ru"}, "", 1, TRUE)}

MCFold == [text \in {"Go", "GO", "go", " "} |-> IF text = " " THEN " " ELSE "go"]
=============================================================================

------------------------------ MODULE Grading ------------------------------
(***************************************************************************)
(* The rules of a quiz: what the course use case accepts as questions      *)
(* (usecase/quizzes.go) and how the attempt use case scores answers        *)
(* (usecase/attempts.go).  Both read the JSON config of a question on      *)
(* their own, so that they must agree is a property, not a definition.     *)
(*                                                                         *)
(* Texts and option ids are values; Fold stands for trimming and           *)
(* lower-casing a text, Blank for the text that trims to nothing.  Points  *)
(* are whole numbers of the smallest unit in use.  Prompts are left out.   *)
(***************************************************************************)
EXTENDS Integers, Sequences, FiniteSets, FiniteSetsExt

CONSTANTS
    None,       \* an absent value: a null pointer in the code
    Blank,      \* a text that is empty once trimmed
    Fold        \* a function on texts: ToLower(TrimSpace(text))

Choice == {"single_choice", "multiple_choice"}
Written == {"short_answer", "fill_blank"}
QuestionTypes == Choice \cup Written \cup {"true_false"}

(* ------------------------- accepting questions ------------------------- *)

(* Options have non-blank, pairwise different ids, and there is one. *)
ChoiceOptionsValid(options) ==
    /\ options # <<>>
    /\ \A i, j \in DOMAIN options :
         /\ options[i].id # Blank
         /\ options[i].id = options[j].id => i = j

CorrectCount(options) == Cardinality({i \in DOMAIN options : options[i].correct})

(* Mutant of ConfigValid: a single choice may have several right options.  *)
ConfigValidLoose(q) ==
    /\ q.type \in Choice => ChoiceOptionsValid(q.options)
    /\ q.type \in Choice => CorrectCount(q.options) >= 1
    /\ q.type = "true_false" => q.truth # None
    /\ q.type \in Written => \E text \in q.accepted : Fold[text] # Blank

ConfigValid(q) ==
    /\ q.type \in Choice => ChoiceOptionsValid(q.options)
    /\ q.type = "single_choice" => CorrectCount(q.options) = 1
    /\ q.type = "multiple_choice" => CorrectCount(q.options) >= 1
    /\ q.type = "true_false" => q.truth # None
    /\ q.type \in Written => \E text \in q.accepted : Fold[text] # Blank

(* A position that is not given is the place in the list. *)
PositionOf(quiz, i) == IF quiz[i].position <= 0 THEN i ELSE quiz[i].position

QuizAccepted(quiz) ==
    \A i \in DOMAIN quiz :
        /\ quiz[i].type \in QuestionTypes
        /\ ConfigValid(quiz[i])
        /\ \A j \in DOMAIN quiz : PositionOf(quiz, i) = PositionOf(quiz, j) => i = j

(* Mutant of NormalizedQuiz: points that are not given stay zero. *)
NormalizedQuizUnscored(quiz) ==
    [i \in DOMAIN quiz |-> [quiz[i] EXCEPT !.position = PositionOf(quiz, i)]]

NormalizedQuiz(quiz) ==
    [i \in DOMAIN quiz |->
        [quiz[i] EXCEPT !.position = PositionOf(quiz, i),
                        !.points = IF @ <= 0 THEN 1 ELSE @]]

(* ---------------------------- scoring answers -------------------------- *)

(* normalizeStringSlice: trimmed, without blanks and repetitions. *)
Cleaned(texts) == {texts[i] : i \in DOMAIN texts} \ {Blank}

NormalizedAnswer(a) ==
    [question |-> a.question,
     selected |-> Cleaned(a.selected),
     truth    |-> a.truth,
     text     |-> IF a.text # None /\ Fold[a.text] = Blank THEN None ELSE a.text]

(* A sheet answers something, and no question twice. *)
SheetAccepted(answers) ==
    /\ answers # {}
    /\ \A a, b \in answers : a.question = b.question => a = b

CorrectOptionIDs(q) ==
    {q.options[i].id : i \in {j \in DOMAIN q.options : q.options[j].correct}} \ {Blank}

AcceptedAnswers(q) == {Fold[text] : text \in q.accepted} \ {Blank}

(* Mutant of AnsweredRight: some of the right options are enough. *)
AnsweredPartly(q, a) ==
    \/ q.type = "single_choice" /\ CorrectOptionIDs(q) = a.selected
    \/ /\ q.type = "multiple_choice"
       /\ a.selected # {}
       /\ a.selected \subseteq CorrectOptionIDs(q)
    \/ q.type = "true_false" /\ q.truth # None /\ q.truth = a.truth
    \/ q.type \in Written /\ a.text # None /\ Fold[a.text] \in AcceptedAnswers(q)

(* The first disjunct compares the only element of two slices. *)
AnsweredRight(q, a) ==
    \/ /\ q.type = "single_choice"
       /\ Cardinality(CorrectOptionIDs(q)) = 1
       /\ Cardinality(a.selected) = 1
       /\ CorrectOptionIDs(q) = a.selected
    \/ /\ q.type = "multiple_choice"
       /\ CorrectOptionIDs(q) = a.selected
    \/ /\ q.type = "true_false"
       /\ q.truth # None
       /\ q.truth = a.truth
    \/ /\ q.type \in Written
       /\ a.text # None
       /\ Fold[a.text] \in AcceptedAnswers(q)

EvaluateQuestion(q, a) == IF AnsweredRight(q, a) THEN q.points ELSE 0

(* Answers find their question by its id, whatever quiz they were given to. *)
EarnedOn(q, answers) ==
    LET given == {a \in answers : a.question = q.id}
    IN  IF given = {} THEN 0 ELSE EvaluateQuestion(q, CHOOSE a \in given : TRUE)

TotalEarned(questions, answers) ==
    MapThenSumSet(LAMBDA q : EarnedOn(q, answers), questions)

TotalMax(questions) == MapThenSumSet(LAMBDA q : q.points, questions)

(* The score in hundredths of a percent, as roundToTwo leaves it. *)
ScoreHundredths(earned, max) ==
    IF max > 0 THEN (20000 * earned + max) \div (2 * max) ELSE 0

PassingPercent(percent) == IF percent > 0 THEN percent ELSE 80

(* Mutant of Passes: the passing score itself does not pass. *)
PassesAbove(earned, max, percent) ==
    ScoreHundredths(earned, max) > 100 * PassingPercent(percent)

Passes(earned, max, percent) ==
    ScoreHundredths(earned, max) >= 100 * PassingPercent(percent)
=============================================================================

--------------------------- MODULE CourseCatalog ---------------------------
(***************************************************************************)
(* Courses and the questions of their quizzes: the course use case and its *)
(* PostgreSQL repository, the two forms through which administrators save  *)
(* a course (/courses and /quizzes), and the learners that open a quiz and *)
(* submit answers to it.                                                   *)
(*                                                                         *)
(* A save is one transaction: it writes the course row, deletes all its    *)
(* questions and inserts the new ones under new ids.  A read is two        *)
(* statements, the row and then the questions, and is not a transaction.   *)
(* Limits on attempts and certificates are in Certification.               *)
(***************************************************************************)
EXTENDS Grading

CONSTANTS
    Courses,     \* ids the database may give to courses
    Learners,
    Responses,   \* what may be entered under one question
    Bounds       \* bounds of an instance, of which a behaviour takes one

(* A question as it is entered, and the course form with its quiz. *)
Payload == [type : STRING, position : Int, points : Int,
            options : Seq([id : STRING, correct : BOOLEAN]),
            truth : BOOLEAN \cup {None}, accepted : SUBSET STRING]
Statuses == {"draft", "published", "archived"}
Form == [status : Statuses \cup {""}, percent : Nat,
         certificate : BOOLEAN \cup {None}, quiz : Seq(Payload)]

(* saves: of courses; forms: what administrators enter; edits, moderators: *)
(* see CourseContent.                                                      *)
Bound == [saves : Nat, forms : SUBSET Form, courses : SUBSET Courses,
          learners : SUBSET Learners, edits : Nat, moderators : SUBSET STRING]

ASSUME CatalogAssumption == None \notin Courses \cup BOOLEAN /\ Bounds \subseteq Bound

VARIABLES
    bound,       \* the bounds of this behaviour
    courses,     \* course id -> row, or None
    questions,   \* rows of the questions table
    given,       \* course ids given out so far: ids are never given twice
    saved,       \* history: what each save made of the course's questions
    pc,          \* learner -> where its request is
    sheet,       \* learner -> the quiz as the learner has it on screen
    loc,         \* learner -> what its submission has read so far
    attempts     \* learner -> the stored attempt, or None

vars == <<bound, courses, questions, given, saved, pc, sheet, loc, attempts>>

(* The row keeps the number of the save that wrote it (not in the table). *)
Row == [status : Statuses, percent : Nat, certificate : BOOLEAN, save : Nat]
ASSUME RowAssumption == None \notin Row /\ None \notin STRING

(* What is entered under a question; the form adds which question it is. *)
Response == [question : {None}, selected : Seq(STRING),
             truth : BOOLEAN \cup {None}, text : STRING \cup {None}]
ASSUME ResponsesAssumption == Responses \subseteq Response

Question == [id : Nat \X Nat, course : Courses, type : QuestionTypes,
             position : Nat \ {0}, points : Nat \ {0}, options : Seq([id : STRING, correct : BOOLEAN]),
             truth : BOOLEAN \cup {None}, accepted : SUBSET STRING]

NoSheet == [course |-> None, row |-> None, questions |-> {}]
NoLoc == [course |-> None, answers |-> {}, row |-> None, questions |-> {}]

(* Positions are unique within a course: UNIQUE (course_id, position). *)
PositionsUnique(qs) ==
    \A q, r \in qs : q.course = r.course /\ q.position = r.position => q = r

Init ==
    /\ bound \in Bounds
    /\ courses = [c \in Courses |-> None]
    /\ questions = {}
    /\ given = {}
    /\ saved = <<>>
    /\ pc = [l \in Learners |-> "away"]
    /\ sheet = [l \in Learners |-> NoSheet]
    /\ loc = [l \in Learners |-> NoLoc]
    /\ attempts = [l \in Learners |-> None]

(* --------------------------- saving a course --------------------------- *)

(* Mutant of NewQuestions: a question keeps its id from save to save. *)
NewQuestionsSameIDs(c, quiz, save) ==
    {[id |-> <<0, quiz[i].position>>, course |-> c, type |-> quiz[i].type,
      position |-> quiz[i].position, points |-> quiz[i].points,
      options |-> quiz[i].options, truth |-> quiz[i].truth,
      accepted |-> quiz[i].accepted] : i \in DOMAIN quiz}

(* The inserted rows: the form's questions under ids nobody has seen. *)
NewQuestions(c, quiz, save) ==
    {[id |-> <<save, i>>, course |-> c, type |-> quiz[i].type,
      position |-> quiz[i].position, points |-> quiz[i].points,
      options |-> quiz[i].options, truth |-> quiz[i].truth,
      accepted |-> quiz[i].accepted] : i \in DOMAIN quiz}

(* Mutant of ReplaceQuestions: questions are replaced place by place. *)
ReplaceQuestionsInPlace(qs, c, quiz, save) ==
    {q \in qs : q.course # c \/ q.position \notin {quiz[i].position : i \in DOMAIN quiz}}
        \cup NewQuestions(c, quiz, save)

ReplaceQuestions(qs, c, quiz, save) ==
    {q \in qs : q.course # c} \cup NewQuestions(c, quiz, save)

(* The quiz form has no certificate switch: both conversions say TRUE. *)
QuizToCreate(f) == [f EXCEPT !.certificate = TRUE]
QuizToUpdate(f) == [f EXCEPT !.certificate = TRUE]

(* Scoring settings: 0 stands for the default and 100 is the limit. *)
SettingsAccepted(f) == PassingPercent(f.percent) <= 100

CreateAccepted(f) == SettingsAccepted(f) /\ QuizAccepted(f.quiz)

CreatedRow(f, save) ==
    [status      |-> IF f.status = "" THEN "draft" ELSE f.status,
     percent     |-> PassingPercent(f.percent),
     certificate |-> IF f.certificate = None THEN TRUE ELSE f.certificate,
     save        |-> save]

(* An update has no default for the status. *)
UpdateAccepted(f) ==
    /\ f.status \in Statuses
    /\ SettingsAccepted(f)
    /\ QuizAccepted(f.quiz)

(* An update always allows certificates. *)
UpdatedRow(f, save) ==
    [status |-> f.status, percent |-> PassingPercent(f.percent),
     certificate |-> TRUE, save |-> save]

NextSave == Len(saved) + 1

(* One transaction: INSERT or UPDATE, the questions, COMMIT. *)
Write(c, row, quiz) ==
    /\ courses' = [courses EXCEPT ![c] = row]
    /\ questions' = ReplaceQuestions(questions, c, NormalizedQuiz(quiz), NextSave)
    /\ saved' = Append(saved, [course   |-> c,
                              questions |-> NewQuestions(c, NormalizedQuiz(quiz), NextSave)])

Create(f) ==
    /\ Len(saved) < bound.saves
    /\ CreateAccepted(f)
    /\ \E c \in bound.courses \ given :
         /\ given' = given \cup {c}
         /\ Write(c, CreatedRow(f, NextSave), f.quiz)
    /\ UNCHANGED <<bound, pc, sheet, loc, attempts>>

Update(c, f) ==
    /\ Len(saved) < bound.saves
    /\ courses[c] # None
    /\ UpdateAccepted(f)
    /\ Write(c, UpdatedRow(f, NextSave), f.quiz)
    /\ UNCHANGED <<bound, given, pc, sheet, loc, attempts>>

(* "Archive" deletes the row; questions and attempts go with it. *)
Archive(c) ==
    /\ courses[c] # None
    /\ courses' = [courses EXCEPT ![c] = None]
    /\ questions' = {q \in questions : q.course # c}
    /\ attempts' = [l \in Learners |->
                      IF attempts[l] # None /\ attempts[l].course = c THEN None
                      ELSE attempts[l]]
    /\ UNCHANGED <<bound, given, saved, pc, sheet, loc>>

(* The handlers: /courses takes the course form, /quizzes the quiz form,   *)
(* and /course-packages a course form of its own.                          *)
CreateCourse == \E f \in bound.forms : Create(f)
CreatePackage == \E f \in bound.forms : Create(f)
CreateQuiz == \E f \in bound.forms : Create(QuizToCreate(f))
UpdateCourse(c) == \E f \in bound.forms : Update(c, f)
UpdateQuiz(c) == \E f \in bound.forms : Update(c, QuizToUpdate(f))

(* ------------------------ opening and submitting ----------------------- *)

GoTo(l, place) == pc' = [pc EXCEPT ![l] = place]

RowStatement(c) == courses[c]
(* Mutant of QuestionsStatement: a limit forgotten in the query. *)
QuestionsPage(c) == {q \in questions : q.course = c /\ q.position <= 2}

QuestionsStatement(c) == {q \in questions : q.course = c}

(* GET /quizzes/{id}: first statement of the read. *)
OpenReadRow(l, c) ==
    /\ pc[l] = "away"
    /\ RowStatement(c) # None
    /\ sheet' = [sheet EXCEPT ![l] = [course |-> c, row |-> RowStatement(c), questions |-> {}]]
    /\ GoTo(l, "opening")
    /\ UNCHANGED <<bound, courses, questions, given, saved, loc, attempts>>

(* GET /courses and /quizzes read a page of rows: those of one status, or  *)
(* those that are not archived.  Archived courses cannot be asked for.     *)
ListAccepted(status) == status # "archived"
Listed(row, status) == IF status = None THEN row.status # "archived" ELSE row.status = status

(* Of a page, the course whose quiz the learner will answer.  The second   *)
(* statement reads the questions of all its courses at once.               *)
OpenFromList(l, c, status) ==
    /\ ListAccepted(status)
    /\ RowStatement(c) # None /\ Listed(RowStatement(c), status)
    /\ OpenReadRow(l, c)

(* Second statement; GET of one archived course reports it as not found. *)
OpenReadQuestions(l) ==
    /\ pc[l] = "opening"
    /\ IF sheet[l].row.status = "archived"
       THEN sheet' = [sheet EXCEPT ![l] = NoSheet] /\ GoTo(l, "away")
       ELSE /\ sheet' = [sheet EXCEPT ![l].questions = QuestionsStatement(sheet[l].course)]
            /\ GoTo(l, "open")
    /\ UNCHANGED <<bound, courses, questions, given, saved, loc, attempts>>

(* The answers are normalised first; then the course row is read. *)
SubmitReadRow(l, answers) ==
    /\ pc[l] = "open"
    /\ SheetAccepted(answers)
    /\ IF RowStatement(sheet[l].course) = None
       THEN loc' = loc /\ GoTo(l, "done")
       ELSE /\ loc' = [loc EXCEPT ![l] =
                        [course |-> sheet[l].course, row |-> RowStatement(sheet[l].course),
                         answers |-> {NormalizedAnswer(a) : a \in answers}, questions |-> {}]]
            /\ GoTo(l, "submitting")
    /\ UNCHANGED <<bound, courses, questions, given, saved, sheet, attempts>>

SubmitReadQuestions(l) ==
    /\ pc[l] = "submitting"
    /\ loc' = [loc EXCEPT ![l].questions = QuestionsStatement(loc[l].course)]
    /\ GoTo(l, "grading")
    /\ UNCHANGED <<bound, courses, questions, given, saved, sheet, attempts>>

(* The stored attempt: the questions as read and the answers, with the score. *)
AttemptRecord(l) ==
    LET earned == TotalEarned(loc[l].questions, loc[l].answers)
        max == TotalMax(loc[l].questions)
    IN  [course |-> loc[l].course, row |-> loc[l].row,
         questions |-> loc[l].questions, answers |-> loc[l].answers,
         earned |-> earned, max |-> max,
         score |-> ScoreHundredths(earned, max),
         passed |-> Passes(earned, max, loc[l].row.percent)]

(* The insert fails when the course is gone: course_id is a foreign key. *)
SubmitInsert(l) ==
    /\ pc[l] = "grading"
    /\ attempts' = IF courses[loc[l].course] = None THEN attempts
                   ELSE [attempts EXCEPT ![l] = AttemptRecord(l)]
    /\ GoTo(l, "done")
    /\ UNCHANGED <<bound, courses, questions, given, saved, sheet, loc>>

(* What a learner may enter under the questions on the screen. *)
Entries(f, answered) == {[f[q] EXCEPT !.question = q.id] : q \in answered}
AnswerChoices(qs) == {Entries(f, answered) : f \in [qs -> Responses], answered \in SUBSET qs}

Save ==
    \/ CreateCourse \/ CreatePackage \/ CreateQuiz
    \/ \E c \in Courses : UpdateCourse(c) \/ UpdateQuiz(c)

Learn ==
    \E l \in bound.learners :
        \/ \E c \in Courses :
             \/ OpenReadRow(l, c)
             \/ \E status \in Statuses \cup {None} : OpenFromList(l, c, status)
        \/ OpenReadQuestions(l)
        \/ \E answers \in AnswerChoices(sheet[l].questions) : SubmitReadRow(l, answers)
        \/ SubmitReadQuestions(l)
        \/ SubmitInsert(l)

CatalogNext == Save \/ Learn \/ \E c \in Courses : Archive(c)

CatalogSpec == Init /\ [][CatalogNext]_vars

(* ------------------------------ properties ----------------------------- *)

Places == {"away", "opening", "open", "submitting", "grading", "done"}
Read == [course : Courses, row : Row, questions : SUBSET Question]

(* Types of the variables, and the keys of the two tables. *)
TypeOK ==
    /\ bound \in Bounds
    /\ courses \in [Courses -> Row \cup {None}]
    /\ questions \subseteq Question
    /\ PositionsUnique(questions)
    /\ given \subseteq Courses
    /\ \A i \in DOMAIN saved : saved[i].course \in given
    /\ pc \in [Learners -> Places]
    /\ \A l \in Learners :
         /\ sheet[l] = NoSheet \/ sheet[l] \in Read
         /\ loc[l] = NoLoc \/ [course |-> loc[l].course, row |-> loc[l].row,
                                questions |-> loc[l].questions] \in Read
         /\ attempts[l] # None => attempts[l].course \in given

(* The questions a read found are all those of one save, not older than    *)
(* the row it found; none are found when the course was deleted meanwhile. *)
WholeVersion(read) ==
    \/ \E n \in DOMAIN saved :
         /\ n >= read.row.save
         /\ saved[n] = [course |-> read.course, questions |-> read.questions]
    \/ read.questions = {} /\ courses[read.course] = None

(* GetByID reads a course in two statements while saves replace its        *)
(* questions: a sheet or an attempt never holds questions of two saves, a  *)
(* part of a quiz, or a quiz older than the settings it is judged by.      *)
ReadsWholeVersion ==
    \A l \in Learners :
        /\ pc[l] \in {"open", "submitting", "grading"} => WholeVersion(sheet[l])
        /\ pc[l] = "grading" => WholeVersion(loc[l])
        /\ attempts[l] # None => WholeVersion(attempts[l])

(* The stored quiz of a course is the one its last save put there.         *)
StoredQuizIsLastSaved ==
    \A c \in Courses :
        {q \in questions : q.course = c} =
            IF courses[c] = None THEN {} ELSE saved[courses[c].save].questions

(* Answers given to a quiz that was saved again before they were submitted *)
(* meet questions with new ids: they earn nothing, and the attempt counts. *)
StaleSheetEarnsNothing ==
    \A l \in Learners :
        attempts[l] # None /\ attempts[l].questions # sheet[l].questions =>
            attempts[l].earned = 0 /\ ~attempts[l].passed

(* The answer agrees with the key the administrator entered. *)
Agrees(q, a) ==
    CASE q.type \in Choice ->
           a.selected = {q.options[i].id : i \in {j \in DOMAIN q.options : q.options[j].correct}}
      [] q.type = "true_false" -> a.truth = q.truth
      [] OTHER -> \E text \in q.accepted : a.text # None /\ Fold[text] = Fold[a.text]

(* The score that evaluateAttempt stores is the points of the questions    *)
(* whose answer agrees with the key, out of the points of all questions.   *)
ScoreMatchesKey ==
    \A l \in Learners : attempts[l] # None =>
        LET right == {q \in attempts[l].questions :
                        \E a \in attempts[l].answers : a.question = q.id /\ Agrees(q, a)}
        IN  /\ attempts[l].earned = MapThenSumSet(LAMBDA q : q.points, right)
            /\ attempts[l].max = MapThenSumSet(LAMBDA q : q.points, attempts[l].questions)

(* Rounding to two decimals never decides, in a quiz of less than 200      *)
(* whole points: an attempt passes if and only if there is something to    *)
(* earn and it earned the passing percentage.                              *)
PassedByPercentage ==
    \A l \in Learners : attempts[l] # None /\ attempts[l].max < 200 =>
        (attempts[l].passed <=>
            /\ attempts[l].max > 0
            /\ 100 * attempts[l].earned >= attempts[l].row.percent * attempts[l].max)

(* What validateQuestionConfig lets into the table the grader can reward:  *)
(* entering the key under a stored question earns all its points.          *)
StoredQuestionIsAnswerable ==
    \A q \in questions :
        \E text \in q.accepted \cup {None} :
            EvaluateQuestion(q, NormalizedAnswer(
                [question |-> q.id, truth |-> q.truth, text |-> text,
                 selected |-> [i \in DOMAIN q.options |->
                                 IF q.options[i].correct THEN q.options[i].id ELSE Blank]]))
            = q.points
=============================================================================

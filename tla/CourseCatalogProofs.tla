------------------------ MODULE CourseCatalogProofs ------------------------
(***************************************************************************)
(* Theorems about CourseCatalog and Grading.                               *)
(***************************************************************************)
EXTENDS CourseCatalog, FiniteSetTheorems, TLAPS

(* Integer division by a positive divisor, as a bound. *)
LEMMA QuotientAtLeast ==
    ASSUME NEW a \in Nat, NEW d \in Nat \ {0}, NEW q \in Nat
    PROVE  a \div d >= q <=> a >= q * d
<1> DEFINE x == a \div d
<1>1. x \in Int /\ a = d * x + (a % d) /\ 0 <= a % d /\ a % d < d
    OBVIOUS
<1>2. d * x <= a /\ a < d * (x + 1)
    BY <1>1
<1> HIDE DEF x
<1>3. CASE x >= q
    <2>1. d * x >= d * q
        BY <1>1, <1>3
    <2> QED BY <2>1, <1>2, <1>3, <1>1 DEF x
<1>4. CASE ~(x >= q)
    <2>1. x + 1 <= q
        BY <1>1, <1>4
    <2>2. d * (x + 1) <= d * q
        BY <2>1, <1>1
    <2> QED BY <2>2, <1>2, <1>4, <1>1 DEF x
<1> QED BY <1>3, <1>4

(* roundToTwo before the comparison in evaluateAttempt changes nothing: up *)
(* to 199 points the score passes exactly when the points earned are the   *)
(* passing percentage of all points.                                       *)
THEOREM RoundingNeverDecides ==
    ASSUME NEW earned \in Nat, NEW max \in 1 .. 199, NEW percent \in Nat
    PROVE  Passes(earned, max, percent) <=> 100 * earned >= PassingPercent(percent) * max
<1> DEFINE P == PassingPercent(percent)
           k == P * max
<1>1. P \in Nat
    BY DEF PassingPercent
<1>2. k \in Nat
    BY <1>1
<1>3. Passes(earned, max, percent) <=> (20000 * earned + max) \div (2 * max) >= 100 * P
    BY DEF Passes, ScoreHundredths
<1>4. (100 * P) * (2 * max) = 200 * k
    BY <1>1
<1>5. (20000 * earned + max) \div (2 * max) >= 100 * P <=> 20000 * earned + max >= 200 * k
    <2> HIDE DEF P, k
    <2> QED BY <1>1, <1>4, QuotientAtLeast, 20000 * earned + max \in Nat, 2 * max \in Nat \ {0}, 100 * P \in Nat
<1> HIDE DEF k
<1>6. 20000 * earned + max >= 200 * k <=> 100 * earned >= k
    BY <1>2
<1> QED BY <1>3, <1>5, <1>6 DEF k

-----------------------------------------------------------------------------
(* Rows, saves and reads.                                                  *)

BoundTyped == bound \in Bound

(* Rows are rows, and belong to courses whose id was given out. *)
RowsTyped ==
    /\ courses \in [Courses -> Row \cup {None}]
    /\ given \subseteq Courses
    /\ \A c \in Courses : courses[c] # None => c \in given

(* Questions as the course use case lets them into the table. *)
Stored(c) == {q \in Question : q.course = c /\ ConfigValid(q)}

(* Every save has written such questions of a course, and a row names the  *)
(* save that wrote it.                                                     *)
RowsFollowSaves ==
    /\ saved \in Seq([course : Courses, questions : SUBSET Question])
    /\ \A n \in DOMAIN saved :
         /\ saved[n].course \in given
         /\ saved[n].questions \subseteq Stored(saved[n].course)
         /\ PositionsUnique(saved[n].questions)
    /\ \A c \in Courses : courses[c] # None =>
         courses[c].save \in DOMAIN saved /\ saved[courses[c].save].course = c

(* A read that has its row and not yet its questions: the row is that of a *)
(* save, and the course was since then deleted or saved not earlier.       *)
RowRead(read) ==
    /\ read.course \in given
    /\ read.row \in Row
    /\ read.row.save \in DOMAIN saved
    /\ courses[read.course] # None => courses[read.course].save >= read.row.save

(* A read that has both. *)
BothRead(read) ==
    /\ read.course \in given
    /\ WholeVersion(read)

ReadsTyped ==
    /\ pc \in [Learners -> Places]
    /\ DOMAIN sheet = Learners /\ DOMAIN loc = Learners /\ DOMAIN attempts = Learners
    /\ \A l \in Learners :
         /\ pc[l] = "opening" => RowRead(sheet[l])
         /\ pc[l] \in {"open", "submitting", "grading"} => BothRead(sheet[l])
         /\ pc[l] = "submitting" => RowRead(loc[l])
         /\ pc[l] = "grading" => BothRead(loc[l])
         /\ attempts[l] # None => BothRead(attempts[l])

VersionInv ==
    /\ BoundTyped
    /\ RowsTyped
    /\ RowsFollowSaves
    /\ questions \subseteq Question
    /\ StoredQuizIsLastSaved
    /\ ReadsTyped

(* What the use case passes to the repository. *)
LEMMA QuizNormalized ==
    ASSUME NEW quiz \in Seq(Payload), QuizAccepted(quiz)
    PROVE  LET new == NormalizedQuiz(quiz)
           IN  /\ DOMAIN new = DOMAIN quiz
               /\ \A i \in DOMAIN quiz :
                    /\ new[i].type \in QuestionTypes
                    /\ new[i].position \in Nat \ {0}
                    /\ new[i].points \in Nat \ {0}
                    /\ new[i].options = quiz[i].options
                    /\ new[i].truth = quiz[i].truth
                    /\ new[i].accepted = quiz[i].accepted
                    /\ new[i].type = quiz[i].type
                    /\ \A j \in DOMAIN quiz : new[i].position = new[j].position => i = j
<1>1. \A i \in DOMAIN quiz : quiz[i] \in Payload /\ i \in Nat \ {0}
    OBVIOUS
<1>2. \A i \in DOMAIN quiz : NormalizedQuiz(quiz)[i] =
        [type |-> quiz[i].type, position |-> PositionOf(quiz, i),
         points |-> IF quiz[i].points <= 0 THEN 1 ELSE quiz[i].points,
         options |-> quiz[i].options, truth |-> quiz[i].truth, accepted |-> quiz[i].accepted]
    BY <1>1 DEF NormalizedQuiz, Payload
<1>3. \A i \in DOMAIN quiz : PositionOf(quiz, i) \in Nat \ {0}
    BY <1>1 DEF PositionOf, Payload
<1>4. \A i \in DOMAIN quiz : (IF quiz[i].points <= 0 THEN 1 ELSE quiz[i].points) \in Nat \ {0}
    BY <1>1 DEF Payload
<1>5. DOMAIN NormalizedQuiz(quiz) = DOMAIN quiz
    BY DEF NormalizedQuiz
<1> QED BY <1>2, <1>3, <1>4, <1>5 DEF QuizAccepted

LEMMA NewQuestionsStored ==
    ASSUME NEW quiz \in Seq(Payload), QuizAccepted(quiz), NEW c \in Courses, NEW save \in Nat
    PROVE  LET new == NewQuestions(c, NormalizedQuiz(quiz), save)
           IN  new \subseteq Stored(c) /\ PositionsUnique(new)
<1> DEFINE n == NormalizedQuiz(quiz)
           row(i) == [id |-> <<save, i>>, course |-> c, type |-> n[i].type,
                      position |-> n[i].position, points |-> n[i].points,
                      options |-> n[i].options, truth |-> n[i].truth, accepted |-> n[i].accepted]
<1>1. NewQuestions(c, n, save) = {row(i) : i \in DOMAIN quiz}
    BY QuizNormalized DEF NewQuestions
<1>2. ASSUME NEW i \in DOMAIN quiz PROVE row(i) \in Question
    <2>1. quiz[i] \in Payload /\ i \in Nat
        OBVIOUS
    <2> QED BY <2>1, QuizNormalized DEF Question, Payload
<1>3. ASSUME NEW i \in DOMAIN quiz PROVE ConfigValid(row(i))
    <2>1. ConfigValid(quiz[i])
        BY DEF QuizAccepted
    <2>2. /\ row(i).type = quiz[i].type /\ row(i).options = quiz[i].options
          /\ row(i).truth = quiz[i].truth /\ row(i).accepted = quiz[i].accepted
        BY QuizNormalized
    <2> HIDE DEF row
    <2> QED BY <2>1, <2>2 DEF ConfigValid
<1>4. \A i, j \in DOMAIN quiz : row(i).position = row(j).position => i = j
    BY QuizNormalized
<1>5. \A i \in DOMAIN quiz : row(i).course = c
    OBVIOUS
<1> HIDE DEF row
<1> QED BY <1>1, <1>2, <1>3, <1>4, <1>5 DEF Stored, PositionsUnique

LEMMA VersionInvInit == Init => VersionInv
<1> SUFFICES ASSUME Init PROVE VersionInv
    OBVIOUS
<1>1. BoundTyped
    BY CatalogAssumption DEF Init, BoundTyped
<1>2. RowsTyped /\ RowsFollowSaves
    BY DEF Init, RowsTyped, RowsFollowSaves
<1>3. questions \subseteq Question /\ StoredQuizIsLastSaved
    BY DEF Init, StoredQuizIsLastSaved
<1>4. ReadsTyped
    BY DEF Init, ReadsTyped, Places
<1> QED BY <1>1, <1>2, <1>3, <1>4 DEF VersionInv

(* A save keeps what a read has found. *)
LEMMA ReadsOutlastWrites ==
    ASSUME VersionInv, NEW c \in Courses, NEW row \in Row, NEW quiz, Write(c, row, quiz),
           row.save = NextSave, given \subseteq given', c \in given => courses[c] # None,
           UNCHANGED <<pc, sheet, loc, attempts>>
    PROVE  ReadsTyped'
<1> USE DEF VersionInv
<1>1. /\ Len(saved) \in Nat /\ DOMAIN saved = 1 .. Len(saved)
      /\ DOMAIN saved' = 1 .. Len(saved) + 1
      /\ \A n \in DOMAIN saved : saved'[n] = saved[n]
    BY DEF RowsFollowSaves, Write
<1>2. \A d \in Courses : courses'[d] = IF d = c THEN row ELSE courses[d]
    BY DEF RowsTyped, Write
<1>3. given \subseteq Courses
    BY DEF RowsTyped
<1>4. ASSUME NEW read, RowRead(read) PROVE read.course \in given' /\ read.row \in Row
        /\ read.row.save \in DOMAIN saved'
        /\ (courses'[read.course] # None => courses'[read.course].save >= read.row.save)
    BY <1>1, <1>2, <1>3, <1>4 DEF RowRead, NextSave
<1>5. ASSUME NEW read, BothRead(read)
      PROVE  /\ read.course \in given'
             /\ \/ \E n \in DOMAIN saved' :
                     /\ n >= read.row.save
                     /\ saved'[n] = [course |-> read.course, questions |-> read.questions]
                \/ read.questions = {} /\ courses'[read.course] = None
    BY <1>1, <1>2, <1>3, <1>5 DEF BothRead, WholeVersion
<1> QED BY <1>4, <1>5 DEF ReadsTyped, RowRead, BothRead, WholeVersion

LEMMA WriteKeepsVersionInv ==
    ASSUME VersionInv, NEW c \in Courses, NEW row \in Row, NEW quiz \in Seq(Payload),
           QuizAccepted(quiz), Write(c, row, quiz), row.save = NextSave,
           given' = given \cup {c}, c \in given => courses[c] # None,
           UNCHANGED <<bound, pc, sheet, loc, attempts>>
    PROVE  VersionInv'
<1> DEFINE new == NewQuestions(c, NormalizedQuiz(quiz), NextSave)
           entry == [course |-> c, questions |-> new]
<1>1. NextSave \in Nat /\ saved \in Seq([course : Courses, questions : SUBSET Question])
    BY DEF VersionInv, RowsFollowSaves, NextSave
<1>2. new \subseteq Stored(c) /\ PositionsUnique(new)
    BY <1>1, NewQuestionsStored
<1>3. new \subseteq Question /\ \A q \in new : q.course = c
    BY <1>2 DEF Stored
<1> HIDE DEF new
<1>4. /\ courses' = [courses EXCEPT ![c] = row]
      /\ questions' = {q \in questions : q.course # c} \cup new
      /\ saved' = Append(saved, entry)
    BY DEF Write, ReplaceQuestions, new
<1>5. entry \in [course : Courses, questions : SUBSET Question]
    BY <1>3
<1>6. /\ saved' \in Seq([course : Courses, questions : SUBSET Question])
      /\ DOMAIN saved' = DOMAIN saved \cup {NextSave} /\ NextSave \notin DOMAIN saved
      /\ saved'[NextSave] = entry
      /\ \A n \in DOMAIN saved : saved'[n] = saved[n]
    <2> HIDE DEF entry
    <2> QED BY <1>1, <1>4, <1>5 DEF NextSave
<1>7. \A d \in Courses : courses'[d] = IF d = c THEN row ELSE courses[d]
    BY <1>4 DEF VersionInv, RowsTyped
<1>8. BoundTyped' /\ RowsTyped'
    BY <1>4, <1>7 DEF VersionInv, BoundTyped, RowsTyped
<1>9. RowsFollowSaves'
    <2>1. \A n \in DOMAIN saved' :
            /\ saved'[n].course \in given'
            /\ saved'[n].questions \subseteq Stored(saved'[n].course)
            /\ PositionsUnique(saved'[n].questions)
        BY <1>2, <1>6 DEF VersionInv, RowsFollowSaves
    <2>2. \A d \in Courses : courses'[d] # None =>
            courses'[d].save \in DOMAIN saved' /\ saved'[courses'[d].save].course = d
        <3> SUFFICES ASSUME NEW d \in Courses, courses'[d] # None
                     PROVE  courses'[d].save \in DOMAIN saved' /\ saved'[courses'[d].save].course = d
            OBVIOUS
        <3>1. CASE d = c
            <4>1. courses'[d].save = NextSave
                BY <3>1, <1>7
            <4> QED BY <4>1, <3>1, <1>6
        <3>2. CASE d # c
            <4>1. courses'[d] = courses[d]
                BY <3>2, <1>7
            <4> QED BY <4>1, <1>6 DEF VersionInv, RowsFollowSaves
        <3> QED BY <3>1, <3>2
    <2> QED BY <1>6, <2>1, <2>2 DEF RowsFollowSaves, PositionsUnique
<1>10. questions' \subseteq Question
    BY <1>3, <1>4 DEF VersionInv
<1>11. StoredQuizIsLastSaved'
    <2>1. ASSUME NEW d \in Courses
          PROVE  {q \in questions' : q.course = d} =
                   IF courses'[d] = None THEN {} ELSE saved'[courses'[d].save].questions
        <3>1. CASE d = c
            <4>1. courses'[d] = row /\ row # None
                BY <1>7, <3>1, RowAssumption
            <4> QED BY <4>1, <3>1, <1>3, <1>4, <1>6
        <3>2. CASE d # c
            <4>1. {q \in questions' : q.course = d} = {q \in questions : q.course = d}
                BY <3>2, <1>3, <1>4
            <4>2. courses'[d] = courses[d]
                BY <1>7, <3>2
            <4> QED BY <4>1, <4>2, <1>6 DEF VersionInv, StoredQuizIsLastSaved, RowsFollowSaves
        <3> QED BY <3>1, <3>2
    <2> QED BY <2>1 DEF StoredQuizIsLastSaved
<1>12. ReadsTyped'
    BY ReadsOutlastWrites
<1> QED BY <1>8, <1>9, <1>10, <1>11, <1>12 DEF VersionInv

LEMMA FormTyped ==
    ASSUME VersionInv, NEW f \in bound.forms
    PROVE  f \in Form /\ QuizToCreate(f) \in Form /\ QuizToUpdate(f) \in Form
BY DEF VersionInv, BoundTyped, Bound, Form, QuizToCreate, QuizToUpdate

LEMMA CreateKeepsVersionInv ==
    ASSUME VersionInv, NEW f \in Form, Create(f)
    PROVE  VersionInv'
<1>1. NextSave \in Nat
    BY DEF VersionInv, RowsFollowSaves, NextSave
<1>2. CreatedRow(f, NextSave) \in Row /\ CreatedRow(f, NextSave).save = NextSave
    <2>1. (IF f.status = "" THEN "draft" ELSE f.status) \in Statuses
        BY DEF Form, Statuses
    <2>2. PassingPercent(f.percent) \in Nat
        BY DEF Form, PassingPercent
    <2>3. (IF f.certificate = None THEN TRUE ELSE f.certificate) \in BOOLEAN
        BY DEF Form
    <2> QED BY <1>1, <2>1, <2>2, <2>3 DEF CreatedRow, Row
<1>3. f.quiz \in Seq(Payload) /\ QuizAccepted(f.quiz)
    BY DEF Create, CreateAccepted, Form
<1>4. PICK c \in bound.courses \ given :
        given' = given \cup {c} /\ Write(c, CreatedRow(f, NextSave), f.quiz)
    BY DEF Create
<1>5. c \in Courses
    BY <1>4 DEF VersionInv, BoundTyped, Bound
<1>6. UNCHANGED <<bound, pc, sheet, loc, attempts>>
    BY DEF Create
<1> QED BY <1>2, <1>3, <1>4, <1>5, <1>6, WriteKeepsVersionInv

LEMMA UpdateKeepsVersionInv ==
    ASSUME VersionInv, NEW c \in Courses, NEW f \in Form, Update(c, f)
    PROVE  VersionInv'
<1>1. NextSave \in Nat
    BY DEF VersionInv, RowsFollowSaves, NextSave
<1>2. UpdatedRow(f, NextSave) \in Row /\ UpdatedRow(f, NextSave).save = NextSave
    BY <1>1 DEF Update, UpdateAccepted, Form, PassingPercent, UpdatedRow, Row
<1>3. f.quiz \in Seq(Payload) /\ QuizAccepted(f.quiz)
    BY DEF Update, UpdateAccepted, Form
<1>4. courses[c] # None /\ Write(c, UpdatedRow(f, NextSave), f.quiz)
      /\ UNCHANGED <<bound, given, pc, sheet, loc, attempts>>
    BY DEF Update
<1>5. given' = given \cup {c}
    BY <1>4 DEF VersionInv, RowsTyped
<1> QED BY <1>2, <1>3, <1>4, <1>5, WriteKeepsVersionInv
LEMMA ArchiveKeepsVersionInv ==
    ASSUME VersionInv, NEW c \in Courses, Archive(c)
    PROVE  VersionInv'
<1> USE DEF VersionInv
<1>1. /\ \A d \in Courses : courses'[d] = IF d = c THEN None ELSE courses[d]
      /\ courses' \in [Courses -> Row \cup {None}]
      /\ UNCHANGED <<bound, given, saved, pc, sheet, loc>>
    BY DEF Archive, RowsTyped
<1>2. BoundTyped' /\ RowsTyped' /\ RowsFollowSaves'
    BY <1>1 DEF BoundTyped, RowsTyped, RowsFollowSaves, PositionsUnique
<1>3. questions' = {q \in questions : q.course # c}
    BY DEF Archive
<1>4. StoredQuizIsLastSaved'
    BY <1>1, <1>3 DEF StoredQuizIsLastSaved
<1>5. ASSUME NEW read, RowRead(read) PROVE RowRead(read)'
    BY <1>1, <1>5 DEF RowRead, RowsTyped
<1>6. ASSUME NEW read, BothRead(read) PROVE BothRead(read)'
    BY <1>1, <1>6 DEF BothRead, WholeVersion, RowsTyped
<1>7. ReadsTyped'
    <2>1. DOMAIN attempts' = Learners
          /\ \A l \in Learners : attempts'[l] # None => attempts'[l] = attempts[l]
        BY DEF Archive
    <2> QED BY <1>1, <1>5, <1>6, <2>1 DEF ReadsTyped, RowRead, BothRead, WholeVersion
<1> QED BY <1>2, <1>3, <1>4, <1>7

(* A request of one learner leaves what the others have read.              *)
OnlyReader(l) ==
    /\ \A k \in Learners \ {l} : pc'[k] = pc[k] /\ sheet'[k] = sheet[k]
                                /\ loc'[k] = loc[k] /\ attempts'[k] = attempts[k]
    /\ DOMAIN pc' = Learners /\ DOMAIN sheet' = Learners
    /\ DOMAIN loc' = Learners /\ DOMAIN attempts' = Learners

ReaderTyped(l) ==
    /\ pc[l] \in Places
    /\ pc[l] = "opening" => RowRead(sheet[l])
    /\ pc[l] \in {"open", "submitting", "grading"} => BothRead(sheet[l])
    /\ pc[l] = "submitting" => RowRead(loc[l])
    /\ pc[l] = "grading" => BothRead(loc[l])
    /\ attempts[l] # None => BothRead(attempts[l])

LEMMA ReaderKeepsVersionInv ==
    ASSUME VersionInv, NEW l \in Learners, OnlyReader(l), ReaderTyped(l)',
           pc' = [pc EXCEPT ![l] = pc'[l]],
           UNCHANGED <<bound, courses, questions, given, saved>>
    PROVE  VersionInv'
<1>1. BoundTyped' /\ RowsTyped' /\ RowsFollowSaves' /\ questions' \subseteq Question
    BY DEF VersionInv, BoundTyped, RowsTyped, RowsFollowSaves, PositionsUnique
<1>2. StoredQuizIsLastSaved'
    BY DEF VersionInv, StoredQuizIsLastSaved
<1>3. ASSUME NEW k \in Learners \ {l} PROVE ReaderTyped(k)'
    BY DEF VersionInv, ReadsTyped, OnlyReader, ReaderTyped, RowRead, BothRead, WholeVersion
<1>4. \A k \in Learners : ReaderTyped(k)'
    BY <1>3
<1>5. pc' \in [Learners -> Places]
    BY <1>4 DEF ReaderTyped, VersionInv, ReadsTyped
<1>6. ReadsTyped'
    BY <1>4, <1>5 DEF ReadsTyped, ReaderTyped, OnlyReader
<1> QED BY <1>1, <1>2, <1>6 DEF VersionInv

LEMMA EntryType ==
    ASSUME NEW T, NEW s \in Seq(T), NEW n \in DOMAIN s
    PROVE  s[n] \in T
OBVIOUS

(* The row that the first statement of a read finds, ... *)
LEMMA RowStatementReads ==
    ASSUME VersionInv, NEW c \in Courses, RowStatement(c) # None,
           NEW read, read.course = c, read.row = RowStatement(c)
    PROVE  RowRead(read)
BY DEF VersionInv, RowsTyped, RowsFollowSaves, RowStatement, RowRead, Row

(* ... and the questions that the second finds for it.                     *)
LEMMA QuestionsStatementReads ==
    ASSUME VersionInv, NEW row, RowRead(row),
           NEW read, read.course = row.course, read.row = row.row,
           read.questions = QuestionsStatement(row.course)
    PROVE  BothRead(read)
<1> DEFINE c == row.course
<1>1. c \in Courses /\ c \in given
    BY DEF RowRead, VersionInv, RowsTyped
<1>2. CASE courses[c] = None
    BY <1>1, <1>2 DEF VersionInv, StoredQuizIsLastSaved, BothRead, WholeVersion, QuestionsStatement
<1>3. CASE courses[c] # None
    <2> DEFINE n == courses[c].save
    <2>0. n \in DOMAIN saved /\ saved[n].course = c
        BY <1>1, <1>3 DEF VersionInv, RowsFollowSaves
    <2>1. n >= row.row.save /\ saved[n] \in [course : Courses, questions : SUBSET Question]
        <3>1. n >= row.row.save
            BY <1>3 DEF RowRead
        <3>2. saved \in Seq([course : Courses, questions : SUBSET Question])
            BY DEF VersionInv, RowsFollowSaves
        <3>3. n \in DOMAIN saved
            BY <2>0
        <3> HIDE DEF n
        <3>4. saved[n] \in [course : Courses, questions : SUBSET Question]
            BY <3>2, <3>3, EntryType
        <3> QED BY <3>1, <3>4
    <2>2. saved[n].questions = read.questions
        BY <1>1, <1>3 DEF VersionInv, StoredQuizIsLastSaved, QuestionsStatement
    <2>3. saved[n] = [course |-> read.course, questions |-> read.questions]
        BY <2>0, <2>1, <2>2
    <2> HIDE DEF n
    <2> QED BY <1>1, <2>0, <2>1, <2>3 DEF BothRead, WholeVersion
<1> QED BY <1>2, <1>3
LEMMA OpenReadRowKeeps ==
    ASSUME VersionInv, NEW l \in Learners, NEW c \in Courses, OpenReadRow(l, c)
    PROVE  VersionInv'
<1>1. UNCHANGED <<bound, courses, questions, given, saved, loc, attempts>>
    BY DEF OpenReadRow
<1>2. /\ pc' = [pc EXCEPT ![l] = "opening"]
      /\ sheet' = [sheet EXCEPT ![l] = [course |-> c, row |-> RowStatement(c), questions |-> {}]]
      /\ RowStatement(c) # None
    BY DEF OpenReadRow, GoTo
<1>3. OnlyReader(l) /\ pc'[l] = "opening"
      /\ sheet'[l] = [course |-> c, row |-> RowStatement(c), questions |-> {}]
    BY <1>1, <1>2 DEF OnlyReader, VersionInv, ReadsTyped
<1>4. RowRead(sheet'[l])
    BY <1>2, <1>3, RowStatementReads
<1>5. ReaderTyped(l)'
    BY <1>1, <1>3, <1>4 DEF ReaderTyped, Places, RowRead, BothRead, WholeVersion, VersionInv, ReadsTyped
<1> QED BY <1>1, <1>2, <1>3, <1>5, ReaderKeepsVersionInv

LEMMA OpenReadQuestionsKeeps ==
    ASSUME VersionInv, NEW l \in Learners, OpenReadQuestions(l)
    PROVE  VersionInv'
<1>1. UNCHANGED <<bound, courses, questions, given, saved, loc, attempts>>
    BY DEF OpenReadQuestions
<1>2. RowRead(sheet[l])
    BY DEF OpenReadQuestions, VersionInv, ReadsTyped
<1>3. CASE sheet[l].row.status = "archived"
    <2>1. pc' = [pc EXCEPT ![l] = "away"] /\ sheet' = [sheet EXCEPT ![l] = NoSheet]
        BY <1>3 DEF OpenReadQuestions, GoTo
    <2>2. OnlyReader(l) /\ pc'[l] = "away"
        BY <1>1, <2>1 DEF OnlyReader, VersionInv, ReadsTyped
    <2>3. ReaderTyped(l)'
        BY <1>1, <2>2 DEF ReaderTyped, Places, BothRead, WholeVersion, VersionInv, ReadsTyped
    <2> QED BY <1>1, <2>1, <2>2, <2>3, ReaderKeepsVersionInv
<1>4. CASE sheet[l].row.status # "archived"
    <2> DEFINE read == [sheet[l] EXCEPT !.questions = QuestionsStatement(sheet[l].course)]
    <2>1. pc' = [pc EXCEPT ![l] = "open"] /\ sheet' = [sheet EXCEPT ![l] = read]
        BY <1>4 DEF OpenReadQuestions, GoTo
    <2>2. OnlyReader(l) /\ pc'[l] = "open" /\ sheet'[l] = read
        BY <1>1, <2>1 DEF OnlyReader, VersionInv, ReadsTyped
    <2>3. read.course = sheet[l].course /\ read.row = sheet[l].row
          /\ read.questions = QuestionsStatement(sheet[l].course)
        OBVIOUS
    <2>4. BothRead(read)
        <3> HIDE DEF read
        <3> QED BY <1>2, <2>3, QuestionsStatementReads
    <2>5. ReaderTyped(l)'
        <3> HIDE DEF read
        <3> QED BY <1>1, <2>2, <2>4 DEF ReaderTyped, Places, BothRead, WholeVersion, VersionInv, ReadsTyped
    <2> QED BY <1>1, <2>1, <2>2, <2>5, ReaderKeepsVersionInv
<1> QED BY <1>3, <1>4

LEMMA SubmitReadRowKeeps ==
    ASSUME VersionInv, NEW l \in Learners, NEW answers, SubmitReadRow(l, answers)
    PROVE  VersionInv'
<1> DEFINE c == sheet[l].course
           read == [course |-> c, row |-> RowStatement(c),
                    answers |-> {NormalizedAnswer(a) : a \in answers}, questions |-> {}]
<1>1. UNCHANGED <<bound, courses, questions, given, saved, sheet, attempts>>
    BY DEF SubmitReadRow
<1>2. BothRead(sheet[l]) /\ c \in Courses
    BY DEF SubmitReadRow, VersionInv, ReadsTyped, BothRead, RowsTyped
<1>3. CASE RowStatement(c) = None
    <2>1. pc' = [pc EXCEPT ![l] = "done"] /\ loc' = loc
        BY <1>3 DEF SubmitReadRow, GoTo
    <2>2. OnlyReader(l) /\ pc'[l] = "done"
        BY <1>1, <2>1 DEF OnlyReader, VersionInv, ReadsTyped
    <2>3. ReaderTyped(l)'
        BY <1>1, <2>2 DEF ReaderTyped, Places, BothRead, WholeVersion, VersionInv, ReadsTyped
    <2> QED BY <1>1, <2>1, <2>2, <2>3, ReaderKeepsVersionInv
<1>4. CASE RowStatement(c) # None
    <2>1. pc' = [pc EXCEPT ![l] = "submitting"] /\ loc' = [loc EXCEPT ![l] = read]
        BY <1>4 DEF SubmitReadRow, GoTo
    <2>2. OnlyReader(l) /\ pc'[l] = "submitting" /\ loc'[l] = read
        BY <1>1, <2>1 DEF OnlyReader, VersionInv, ReadsTyped
    <2>3. read.course = c /\ read.row = RowStatement(c)
        OBVIOUS
    <2>4. RowRead(read)
        <3> HIDE DEF read, c
        <3> QED BY <1>2, <1>4, <2>3, RowStatementReads
    <2>5. ReaderTyped(l)'
        <3> HIDE DEF read
        <3> QED BY <1>1, <1>2, <2>2, <2>4
                DEF ReaderTyped, Places, RowRead, BothRead, WholeVersion, VersionInv, ReadsTyped
    <2> QED BY <1>1, <2>1, <2>2, <2>5, ReaderKeepsVersionInv
<1> QED BY <1>3, <1>4

LEMMA SubmitReadQuestionsKeeps ==
    ASSUME VersionInv, NEW l \in Learners, SubmitReadQuestions(l)
    PROVE  VersionInv'
<1> DEFINE read == [loc[l] EXCEPT !.questions = QuestionsStatement(loc[l].course)]
<1>1. UNCHANGED <<bound, courses, questions, given, saved, sheet, attempts>>
    BY DEF SubmitReadQuestions
<1>2. RowRead(loc[l]) /\ BothRead(sheet[l])
    BY DEF SubmitReadQuestions, VersionInv, ReadsTyped
<1>3. pc' = [pc EXCEPT ![l] = "grading"] /\ loc' = [loc EXCEPT ![l] = read]
    BY DEF SubmitReadQuestions, GoTo
<1>4. OnlyReader(l) /\ pc'[l] = "grading" /\ loc'[l] = read
    BY <1>1, <1>3 DEF OnlyReader, VersionInv, ReadsTyped
<1>5. read.course = loc[l].course /\ read.row = loc[l].row
      /\ read.questions = QuestionsStatement(loc[l].course)
    OBVIOUS
<1>6. BothRead(read)
    <2> HIDE DEF read
    <2> QED BY <1>2, <1>5, QuestionsStatementReads
<1>7. ReaderTyped(l)'
    <2> HIDE DEF read
    <2> QED BY <1>1, <1>2, <1>4, <1>6 DEF ReaderTyped, Places, BothRead, WholeVersion, VersionInv, ReadsTyped
<1> QED BY <1>1, <1>3, <1>4, <1>7, ReaderKeepsVersionInv

LEMMA SubmitInsertKeeps ==
    ASSUME VersionInv, NEW l \in Learners, SubmitInsert(l)
    PROVE  VersionInv'
<1>1. UNCHANGED <<bound, courses, questions, given, saved, sheet, loc>>
    BY DEF SubmitInsert
<1>2. BothRead(loc[l]) /\ BothRead(sheet[l])
    BY DEF SubmitInsert, VersionInv, ReadsTyped
<1>3. pc' = [pc EXCEPT ![l] = "done"]
    BY DEF SubmitInsert, GoTo
<1>4. OnlyReader(l) /\ pc'[l] = "done" /\ (attempts'[l] = attempts[l] \/ attempts'[l] = AttemptRecord(l))
    BY <1>1, <1>3 DEF SubmitInsert, OnlyReader, VersionInv, ReadsTyped
<1>5. BothRead(AttemptRecord(l))
    BY <1>2 DEF AttemptRecord, BothRead, WholeVersion
<1>6. ReaderTyped(l)'
    BY <1>1, <1>4, <1>5 DEF ReaderTyped, Places, BothRead, WholeVersion, VersionInv, ReadsTyped
<1> QED BY <1>1, <1>3, <1>4, <1>6, ReaderKeepsVersionInv

LEMMA StutterKeepsVersionInv ==
    ASSUME VersionInv, UNCHANGED vars
    PROVE  VersionInv'
<1>1. BoundTyped' /\ RowsTyped' /\ RowsFollowSaves' /\ questions' \subseteq Question
    BY DEF VersionInv, vars, BoundTyped, RowsTyped, RowsFollowSaves, PositionsUnique
<1>2. StoredQuizIsLastSaved' /\ ReadsTyped'
    BY DEF VersionInv, vars, StoredQuizIsLastSaved, ReadsTyped, RowRead, BothRead, WholeVersion
<1> QED BY <1>1, <1>2 DEF VersionInv

LEMMA NextKeepsVersionInv == VersionInv /\ [CatalogNext]_vars => VersionInv'
<1> SUFFICES ASSUME VersionInv, [CatalogNext]_vars PROVE VersionInv'
    OBVIOUS
<1>1. CASE Save
    <2>1. ASSUME NEW f \in bound.forms, Create(f) \/ Create(QuizToCreate(f)) PROVE VersionInv'
        BY <2>1, FormTyped, CreateKeepsVersionInv
    <2>2. ASSUME NEW c \in Courses, NEW f \in bound.forms, Update(c, f) \/ Update(c, QuizToUpdate(f))
          PROVE  VersionInv'
        BY <2>2, FormTyped, UpdateKeepsVersionInv
    <2> QED BY <1>1, <2>1, <2>2 DEF Save, CreateCourse, CreatePackage, CreateQuiz, UpdateCourse, UpdateQuiz
<1>2. CASE Learn
    <2>1. bound.learners \subseteq Learners
        BY DEF VersionInv, BoundTyped, Bound
    <2> QED BY <1>2, <2>1, OpenReadRowKeeps, OpenReadQuestionsKeeps, SubmitReadRowKeeps,
               SubmitReadQuestionsKeeps, SubmitInsertKeeps DEF Learn, OpenFromList
<1>3. CASE \E c \in Courses : Archive(c)
    BY <1>3, ArchiveKeepsVersionInv
<1>4. CASE UNCHANGED vars
    BY <1>4, StutterKeepsVersionInv
<1> QED BY <1>1, <1>2, <1>3, <1>4 DEF CatalogNext

LEMMA CatalogVersions == CatalogSpec => []VersionInv
BY VersionInvInit, NextKeepsVersionInv, PTL DEF CatalogSpec

(* The stored quiz of a course is the one its last save put there, for any *)
(* number of saves, courses and forms.                                     *)
THEOREM QuizIsLastSaved == CatalogSpec => []StoredQuizIsLastSaved
<1>1. VersionInv => StoredQuizIsLastSaved
    BY DEF VersionInv
<1> QED BY <1>1, CatalogVersions, PTL

(* GetByID's two statements find the whole quiz of one save, no older than *)
(* the row, for any number of learners and saves in between.               *)
THEOREM ReadsFindOneVersion == CatalogSpec => []ReadsWholeVersion
<1>1. VersionInv => ReadsWholeVersion
    BY DEF VersionInv, ReadsTyped, BothRead, ReadsWholeVersion
<1> QED BY <1>1, CatalogVersions, PTL

-----------------------------------------------------------------------------
(* Types.                                                                  *)

ReadOf(l) == [course |-> loc[l].course, row |-> loc[l].row, questions |-> loc[l].questions]

SheetsTyped ==
    \A l \in Learners :
        /\ sheet[l] = NoSheet \/ sheet[l] \in Read
        /\ loc[l] = NoLoc \/ ReadOf(l) \in Read

LEMMA QuestionsStatementType ==
    ASSUME VersionInv, NEW c
    PROVE  QuestionsStatement(c) \in SUBSET Question
BY DEF VersionInv, QuestionsStatement

LEMMA SheetsTypedStep ==
    ASSUME VersionInv, SheetsTyped, [CatalogNext]_vars
    PROVE  SheetsTyped'
<1>0. /\ DOMAIN sheet = Learners /\ DOMAIN loc = Learners /\ given \subseteq Courses
      /\ courses \in [Courses -> Row \cup {None}]
    BY DEF VersionInv, ReadsTyped, RowsTyped
<1>1. CASE UNCHANGED <<sheet, loc>>
    BY <1>1 DEF SheetsTyped, ReadOf
<1>2. ASSUME NEW l \in Learners, NEW c \in Courses, OpenReadRow(l, c) PROVE SheetsTyped'
    <2>1. sheet' = [sheet EXCEPT ![l] = [course |-> c, row |-> courses[c], questions |-> {}]]
          /\ courses[c] \in Row /\ loc' = loc
        BY <1>0, <1>2 DEF OpenReadRow, RowStatement
    <2> QED BY <1>0, <2>1 DEF SheetsTyped, ReadOf, Read
<1>3. ASSUME NEW l \in Learners, OpenReadQuestions(l) PROVE SheetsTyped'
    <2>1. sheet[l] \in Read
        BY <1>3, RowAssumption DEF OpenReadQuestions, VersionInv, ReadsTyped, RowRead, SheetsTyped, NoSheet
    <2>2. loc' = loc /\ (\/ sheet' = [sheet EXCEPT ![l] = NoSheet]
                        \/ sheet' = [sheet EXCEPT ![l] = [sheet[l] EXCEPT !.questions =
                                                           QuestionsStatement(sheet[l].course)]])
        BY <1>3 DEF OpenReadQuestions
    <2>3. [sheet[l] EXCEPT !.questions = QuestionsStatement(sheet[l].course)] \in Read
        BY <2>1, QuestionsStatementType DEF Read
    <2> QED BY <1>0, <2>2, <2>3 DEF SheetsTyped, ReadOf
<1>4. ASSUME NEW l \in Learners, NEW answers, SubmitReadRow(l, answers) PROVE SheetsTyped'
    <2>1. sheet[l].course \in Courses
        BY <1>0, <1>4 DEF SubmitReadRow, VersionInv, ReadsTyped, BothRead
    <2>2. CASE RowStatement(sheet[l].course) = None
        BY <1>4, <2>2 DEF SubmitReadRow, SheetsTyped, ReadOf
    <2>3. CASE RowStatement(sheet[l].course) # None
        <3> DEFINE new == [course |-> sheet[l].course, row |-> RowStatement(sheet[l].course),
                           answers |-> {NormalizedAnswer(a) : a \in answers}, questions |-> {}]
        <3>1. loc' = [loc EXCEPT ![l] = new] /\ sheet' = sheet
            BY <1>4, <2>3 DEF SubmitReadRow
        <3>2. RowStatement(sheet[l].course) \in Row
            BY <1>0, <2>1, <2>3 DEF RowStatement
        <3>3. [course |-> new.course, row |-> new.row, questions |-> new.questions] \in Read
            BY <2>1, <3>2 DEF Read
        <3> HIDE DEF new
        <3> QED BY <1>0, <3>1, <3>3 DEF SheetsTyped, ReadOf
    <2> QED BY <2>2, <2>3
<1>5. ASSUME NEW l \in Learners, SubmitReadQuestions(l) PROVE SheetsTyped'
    <2> DEFINE new == [loc[l] EXCEPT !.questions = QuestionsStatement(loc[l].course)]
    <2>1. ReadOf(l) \in Read
        BY <1>5, RowAssumption DEF SubmitReadQuestions, VersionInv, ReadsTyped, RowRead, SheetsTyped, NoLoc
    <2>2. loc' = [loc EXCEPT ![l] = new] /\ sheet' = sheet
        BY <1>5 DEF SubmitReadQuestions
    <2>3. [course |-> loc[l].course, row |-> loc[l].row,
           questions |-> QuestionsStatement(loc[l].course)] \in Read
        BY <2>1, QuestionsStatementType DEF Read, ReadOf
    <2>4. loc[l] # NoLoc
        BY <1>5, RowAssumption DEF SubmitReadQuestions, VersionInv, ReadsTyped, RowRead, NoLoc
    <2>5. new.course = loc[l].course /\ new.row = loc[l].row
          /\ (new.questions = QuestionsStatement(loc[l].course) \/ new = loc[l])
        OBVIOUS
    <2>6. [course |-> new.course, row |-> new.row, questions |-> new.questions] \in Read
        BY <2>1, <2>3, <2>5 DEF ReadOf
    <2> HIDE DEF new
    <2> QED BY <1>0, <2>2, <2>6 DEF SheetsTyped, ReadOf
<1>6. ASSUME NEW l \in Learners, SubmitInsert(l) PROVE SheetsTyped'
    BY <1>1, <1>6 DEF SubmitInsert
<1>7. CASE Learn
    <2>1. bound.learners \subseteq Learners
        BY DEF VersionInv, BoundTyped, Bound
    <2> QED BY <1>7, <2>1, <1>2, <1>3, <1>4, <1>5, <1>6 DEF Learn, OpenFromList
<1>8. CASE Save \/ \E c \in Courses : Archive(c)
    BY <1>1, <1>8 DEF Save, CreateCourse, CreatePackage, CreateQuiz, UpdateCourse, UpdateQuiz, Create, Update,
       Archive
<1>9. CASE UNCHANGED vars
    BY <1>1, <1>9 DEF vars
<1> QED BY <1>7, <1>8, <1>9 DEF CatalogNext

(* The types, the foreign keys of saves and attempts, and the unique       *)
(* positions of the questions of a course hold throughout.                 *)
THEOREM CatalogTyped == CatalogSpec => []TypeOK
<1>1. Init => SheetsTyped
    BY DEF Init, SheetsTyped
<1>2. CatalogSpec => []SheetsTyped
    BY <1>1, SheetsTypedStep, CatalogVersions, PTL DEF CatalogSpec
<1>3. ASSUME VersionInv PROVE PositionsUnique(questions)
    <2> SUFFICES ASSUME NEW q \in questions, NEW r \in questions,
                        q.course = r.course, q.position = r.position
                 PROVE  q = r
        BY DEF PositionsUnique
    <2>1. q.course \in Courses
        BY <1>3 DEF VersionInv, Question
    <2> DEFINE n == courses[q.course].save
    <2>2. courses[q.course] # None /\ q \in saved[n].questions /\ r \in saved[n].questions
        BY <1>3, <2>1 DEF VersionInv, StoredQuizIsLastSaved
    <2>3. PositionsUnique(saved[n].questions)
        BY <1>3, <2>1, <2>2 DEF VersionInv, RowsFollowSaves
    <2> QED BY <2>2, <2>3 DEF PositionsUnique
<1>4. ASSUME VersionInv, SheetsTyped, bound \in Bounds PROVE TypeOK
    <2>1. \A l \in Learners : attempts[l] # None => attempts[l].course \in given
        BY <1>4 DEF VersionInv, ReadsTyped, BothRead
    <2> QED BY <1>3, <1>4, <2>1 DEF TypeOK, VersionInv, RowsTyped, RowsFollowSaves, ReadsTyped, SheetsTyped, ReadOf
<1>5. CatalogSpec => [](bound \in Bounds)
    <2>1. Init => bound \in Bounds
        BY DEF Init
    <2>2. bound \in Bounds /\ [CatalogNext]_vars => (bound \in Bounds)'
        BY DEF CatalogNext, vars, Save, CreateCourse, CreatePackage, CreateQuiz, UpdateCourse, UpdateQuiz,
           Create, Update, Learn, OpenFromList, OpenReadRow, OpenReadQuestions, SubmitReadRow, SubmitReadQuestions,
           SubmitInsert, Archive
    <2> QED BY <2>1, <2>2, PTL DEF CatalogSpec
<1> QED BY <1>2, <1>4, <1>5, CatalogVersions, PTL

-----------------------------------------------------------------------------
(* The validator and the grader agree.                                     *)

LEMMA OneCorrectOption ==
    ASSUME NEW q \in Question, ChoiceOptionsValid(q.options), CorrectCount(q.options) = 1
    PROVE  Cardinality(CorrectOptionIDs(q)) = 1
<1> DEFINE right == {i \in DOMAIN q.options : q.options[i].correct}
<1>1. IsFiniteSet(right)
    <2>1. q.options \in Seq([id : STRING, correct : BOOLEAN])
        BY DEF Question
    <2>2. DOMAIN q.options = 1 .. Len(q.options) /\ Len(q.options) \in Nat
        BY <2>1
    <2>3. IsFiniteSet(DOMAIN q.options)
        BY <2>2, FS_Interval
    <2> QED BY <2>3, FS_Subset
<1>2. PICK i : right = {i}
    BY <1>1, FS_Singleton DEF CorrectCount
<1>3. CorrectOptionIDs(q) = {q.options[i].id}
    BY <1>2 DEF CorrectOptionIDs, ChoiceOptionsValid
<1> QED BY <1>3, FS_Singleton

(* A question that validateQuestionConfig accepts can earn all its points, *)
(* by the answer that was entered as its key.                              *)
LEMMA KeyEarnsAllPoints ==
    ASSUME NEW q \in Question, ConfigValid(q)
    PROVE  \E text \in q.accepted \cup {None} :
            EvaluateQuestion(q, NormalizedAnswer(
                [question |-> q.id, truth |-> q.truth, text |-> text,
                 selected |-> [i \in DOMAIN q.options |->
                                 IF q.options[i].correct THEN q.options[i].id ELSE Blank]]))
            = q.points
<1> DEFINE key(text) == [question |-> q.id, truth |-> q.truth, text |-> text,
                         selected |-> [i \in DOMAIN q.options |->
                                         IF q.options[i].correct THEN q.options[i].id ELSE Blank]]
           answer(text) == NormalizedAnswer(key(text))
<1>1. \A text : answer(text).selected = CorrectOptionIDs(q)
    BY DEF NormalizedAnswer, Cleaned, CorrectOptionIDs
<1>2. \A text : answer(text).truth = q.truth
    BY DEF NormalizedAnswer
<1>3. \A text : text # None /\ Fold[text] # Blank => answer(text).text = text
    BY DEF NormalizedAnswer
<1>4. q.type \in QuestionTypes
    BY DEF Question
<1> HIDE DEF answer
<1>5. CASE q.type = "single_choice"
    <2>1. AnsweredRight(q, answer(None))
        BY <1>1, <1>5, OneCorrectOption DEF ConfigValid, AnsweredRight, Choice
    <2> QED BY <2>1 DEF EvaluateQuestion, answer
<1>6. CASE q.type = "multiple_choice"
    <2>1. AnsweredRight(q, answer(None))
        BY <1>1, <1>6 DEF AnsweredRight
    <2> QED BY <2>1 DEF EvaluateQuestion, answer
<1>7. CASE q.type = "true_false"
    <2>1. AnsweredRight(q, answer(None))
        BY <1>2, <1>7 DEF AnsweredRight, ConfigValid
    <2> QED BY <2>1 DEF EvaluateQuestion, answer
<1>8. CASE q.type \in Written
    <2>1. PICK text \in q.accepted : Fold[text] # Blank
        BY <1>8 DEF ConfigValid
    <2>2. text # None
        BY <2>1, RowAssumption DEF Question
    <2>3. AnsweredRight(q, answer(text))
        BY <1>3, <1>8, <2>1, <2>2 DEF AnsweredRight, AcceptedAnswers
    <2> QED BY <2>1, <2>3 DEF EvaluateQuestion, answer
<1> QED BY <1>4, <1>5, <1>6, <1>7, <1>8 DEF QuestionTypes, Choice

(* Every stored question can be answered for all its points, whatever      *)
(* forms were saved: the two readings of its config agree.                 *)
THEOREM QuestionsAnswerable == CatalogSpec => []StoredQuestionIsAnswerable
<1>1. ASSUME VersionInv PROVE StoredQuestionIsAnswerable
    <2>1. ASSUME NEW q \in questions PROVE q \in Question /\ ConfigValid(q)
        <3>1. q \in Question /\ q.course \in Courses
            BY <1>1 DEF VersionInv, Question
        <3>2. courses[q.course] # None /\ q \in saved[courses[q.course].save].questions
            BY <1>1, <3>1 DEF VersionInv, StoredQuizIsLastSaved
        <3>3. q \in Stored(q.course)
            BY <1>1, <3>1, <3>2 DEF VersionInv, RowsFollowSaves
        <3> QED BY <3>3 DEF Stored
    <2> QED BY <2>1, KeyEarnsAllPoints DEF StoredQuestionIsAnswerable
<1> QED BY <1>1, CatalogVersions, PTL
-----------------------------------------------------------------------------
(* Sums over the questions of a quiz.  MapThenSumSet takes the elements of *)
(* a set in an order of its own; what it returns is found by looking at a  *)
(* smallest subset for which it would not.                                 *)

LEMMA LeastOf ==
    ASSUME NEW B \in SUBSET Nat, B # {}
    PROVE  \E n \in B : \A m \in B : n <= m
<1>1. PICK n \in B : \A m \in B : <<m, n>> \notin OpToRel(<, Nat)
    BY NatLessThanWellFounded, WFMin
<1>2. \A m \in B : ~(m < n)
    BY <1>1 DEF OpToRel
<1> QED BY <1>2

(* A family of finite sets that is not empty has a smallest member. *)
LEMMA SmallestOf ==
    ASSUME NEW F, F # {}, \A s \in F : IsFiniteSet(s)
    PROVE  \E s \in F : \A r \in F : Cardinality(s) <= Cardinality(r)
<1> DEFINE B == {Cardinality(s) : s \in F}
<1>1. B \in SUBSET Nat /\ B # {}
    BY FS_CardinalityType
<1>2. PICK n \in B : \A m \in B : n <= m
    BY <1>1, LeastOf
<1> QED BY <1>2

LEMMA SmallerWithout ==
    ASSUME NEW s, IsFiniteSet(s), NEW x \in s
    PROVE  /\ IsFiniteSet(s \ {x}) /\ Cardinality(s) \in Nat
           /\ Cardinality(s \ {x}) = Cardinality(s) - 1 /\ Cardinality(s \ {x}) \in Nat
BY FS_RemoveElement, FS_CardinalityType

Picked(s) == CHOOSE x \in s : TRUE

(* g adds up w over the subsets of Q, in the order of MapThenSumSet. *)
Sums(g, Q, w) ==
    g = [s \in SUBSET Q |-> IF s = {} THEN 0 ELSE w[Picked(s)] + g[s \ {Picked(s)}]]

LEMMA SumsStep ==
    ASSUME NEW g, NEW Q, NEW w, Sums(g, Q, w)
    PROVE  /\ g[{}] = 0
           /\ \A s \in SUBSET Q : s # {} => /\ Picked(s) \in s
                                            /\ g[s] = w[Picked(s)] + g[s \ {Picked(s)}]
<1>1. \A s \in SUBSET Q : g[s] = IF s = {} THEN 0 ELSE w[Picked(s)] + g[s \ {Picked(s)}]
    BY DEF Sums
<1>2. \A s : s # {} => Picked(s) \in s
    BY DEF Picked
<1> QED BY <1>1, <1>2

(* The recursion of MapThenSumSet has a solution: one for the subsets of   *)
(* up to n elements, for each n.                                           *)
LEMMA SumsExist ==
    ASSUME NEW Q, IsFiniteSet(Q), NEW w
    PROVE  \E g : Sums(g, Q, w)
<1> DEFINE Rec(g) == [s \in SUBSET Q |-> IF s = {} THEN 0 ELSE w[Picked(s)] + g[s \ {Picked(s)}]]
           UpTo(g, n) == \A s \in SUBSET Q : Cardinality(s) <= n => g[s] = Rec(g)[s]
           Bad == {n \in Nat : ~ \E g : UpTo(g, n)}
<1>1. \A s \in SUBSET Q : IsFiniteSet(s) /\ Cardinality(s) \in Nat /\ Cardinality(s) <= Cardinality(Q)
    BY FS_Subset, FS_CardinalityType
<1>2. \A s \in SUBSET Q : s # {} => /\ Picked(s) \in s /\ s \ {Picked(s)} \in SUBSET Q
                                    /\ Cardinality(s \ {Picked(s)}) = Cardinality(s) - 1
    <2> SUFFICES ASSUME NEW s \in SUBSET Q, s # {}
                 PROVE  /\ Picked(s) \in s /\ s \ {Picked(s)} \in SUBSET Q
                        /\ Cardinality(s \ {Picked(s)}) = Cardinality(s) - 1
        OBVIOUS
    <2>1. Picked(s) \in s
        BY DEF Picked
    <2> QED BY <1>1, <2>1, SmallerWithout
<1>3. \A g : \A s \in SUBSET Q : s # {} => Rec(g)[s] = w[Picked(s)] + g[s \ {Picked(s)}]
    OBVIOUS
<1>4. \A g : Rec(g)[{}] = 0
    OBVIOUS
<1>5. ASSUME NEW g, NEW n \in Nat, \A s \in SUBSET Q : Cardinality(s) < n => g[s] = Rec(g)[s]
      PROVE  UpTo(Rec(g), n)
    <2> SUFFICES ASSUME NEW s \in SUBSET Q, Cardinality(s) <= n
                 PROVE  Rec(g)[s] = Rec(Rec(g))[s]
        OBVIOUS
    <2>1. CASE s = {}
        BY <2>1, <1>4
    <2>2. CASE s # {}
        <3> DEFINE r == s \ {Picked(s)}
        <3>1. r \in SUBSET Q /\ Cardinality(r) < n
            BY <1>1, <1>2, <2>2
        <3>2. g[r] = Rec(g)[r]
            BY <1>5, <3>1
        <3> HIDE DEF Rec
        <3> QED BY <1>3, <2>2, <3>2
    <2> QED BY <2>1, <2>2
<1>6. Bad = {}
    <2> SUFFICES ASSUME Bad # {} PROVE FALSE
        OBVIOUS
    <2>0. Bad \in SUBSET Nat
        OBVIOUS
    <2>1. PICK n \in Bad : \A m \in Bad : n <= m
        <3> HIDE DEF Bad
        <3> QED BY <2>0, LeastOf
    <2>2. \E g : \A s \in SUBSET Q : Cardinality(s) < n => g[s] = Rec(g)[s]
        <3>1. CASE n = 0
            <4> HIDE DEF Rec
            <4> QED BY <1>1, <3>1
        <3>2. CASE n # 0
            <4> HIDE DEF Bad
            <4>1. n - 1 \in Nat /\ n - 1 \notin Bad
                BY <2>1, <3>2, <2>0
            <4> HIDE DEF UpTo
            <4>2. PICK g : UpTo(g, n - 1)
                BY <4>1 DEF Bad
            <4> USE DEF UpTo
            <4>3. \A s \in SUBSET Q : Cardinality(s) < n => Cardinality(s) <= n - 1
                BY <1>1, <2>0, <2>1
            <4> HIDE DEF Rec
            <4> QED BY <4>2, <4>3
        <3> QED BY <3>1, <3>2
    <2>3. \E g : UpTo(g, n)
        <3> HIDE DEF Rec
        <3>1. PICK g : \A s \in SUBSET Q : Cardinality(s) < n => g[s] = Rec(g)[s]
            BY <2>2
        <3> HIDE DEF UpTo
        <3> QED BY <1>5, <2>1, <3>1
    <2> HIDE DEF UpTo
    <2> QED BY <2>1, <2>3
<1>7. PICK g : UpTo(g, Cardinality(Q))
    <2> HIDE DEF UpTo
    <2> QED BY <1>1, <1>6
<1>8. \A s \in SUBSET Q : g[s] = Rec(g)[s]
    <2> HIDE DEF Rec
    <2> QED BY <1>1, <1>7
<1> DEFINE f == Rec(g)
<1>9. f = Rec(f)
    <2>1. \A s \in SUBSET Q : f[s] = g[s]
        BY <1>8
    <2>2. \A s \in SUBSET Q : f[s] = Rec(f)[s]
        <3> SUFFICES ASSUME NEW s \in SUBSET Q PROVE f[s] = Rec(f)[s]
            OBVIOUS
        <3>1. CASE s = {}
            BY <1>4, <3>1
        <3>2. CASE s # {}
            <4>1. f[s \ {Picked(s)}] = g[s \ {Picked(s)}]
                BY <2>1
            <4> HIDE DEF Rec
            <4> QED BY <1>3, <3>2, <4>1
        <3> QED BY <3>1, <3>2
    <2> QED BY <2>2
<1> QED BY <1>9 DEF Sums

(* Every order gives the same sum: any element may be taken first. *)
LEMMA SumsSplit ==
    ASSUME NEW Q, IsFiniteSet(Q), NEW w \in [Q -> Nat], NEW g, Sums(g, Q, w)
    PROVE  \A s \in SUBSET Q : g[s] \in Nat /\ \A x \in s : g[s] = w[x] + g[s \ {x}]
<1> DEFINE Fine(s) == g[s] \in Nat /\ \A x \in s : g[s] = w[x] + g[s \ {x}]
           Bad == {s \in SUBSET Q : ~Fine(s)}
<1> SUFFICES ASSUME Bad # {} PROVE FALSE
    OBVIOUS
<1>1. \A s \in SUBSET Q : IsFiniteSet(s)
    BY FS_Subset
<1>2. PICK s \in Bad : \A r \in Bad : Cardinality(s) <= Cardinality(r)
    BY <1>1, SmallestOf
<1>3. \A x \in s : Fine(s \ {x})
    <2> SUFFICES ASSUME NEW x \in s, s \ {x} \in Bad PROVE FALSE
        OBVIOUS
    <2> HIDE DEF Fine
    <2> QED BY <1>1, <1>2, SmallerWithout
<1>4. s # {}
    <2>1. Fine({})
        BY SumsStep
    <2> HIDE DEF Fine
    <2> QED BY <1>2, <2>1
<1> DEFINE p == Picked(s)
<1>5. p \in s /\ p \in Q /\ g[s] = w[p] + g[s \ {p}]
    BY SumsStep, <1>2, <1>4
<1> HIDE DEF p
<1>6. g[s \ {p}] \in Nat /\ w[p] \in Nat
    BY <1>3, <1>5
<1>7. g[s] \in Nat
    BY <1>5, <1>6
<1>8. ASSUME NEW x \in s, x # p PROVE g[s] = w[x] + g[s \ {x}]
    <2> DEFINE r == (s \ {p}) \ {x}
    <2>1. r = (s \ {x}) \ {p} /\ x \in s \ {p} /\ p \in s \ {x} /\ x \in Q
        BY <1>2, <1>5, <1>8
    <2>2. g[s \ {p}] = w[x] + g[r]
        BY <1>3, <1>5, <2>1
    <2>3. g[s \ {x}] = w[p] + g[r] /\ g[s \ {x}] \in Nat
        BY <1>3, <1>8, <2>1
    <2>4. g[r] \in Nat
        <3>1. r \in SUBSET Q /\ r \notin Bad
            <4>1. IsFiniteSet(s \ {p}) /\ Cardinality(s) \in Nat /\ Cardinality(s \ {p}) = Cardinality(s) - 1
                BY <1>1, <1>5, SmallerWithout
            <4>2. Cardinality(r) = Cardinality(s \ {p}) - 1
                BY <2>1, <4>1, SmallerWithout
            <4> HIDE DEF Fine
            <4> QED BY <1>2, <4>1, <4>2
        <3> QED BY <3>1
    <2> HIDE DEF r
    <2> QED BY <1>5, <1>6, <2>1, <2>2, <2>3, <2>4
<1>9. Fine(s)
    BY <1>5, <1>7, <1>8
<1> QED BY <1>2, <1>9

(* Elements that count nothing may be left out of a sum. *)
LEMMA SumsAgree ==
    ASSUME NEW Q, IsFiniteSet(Q), NEW w \in [Q -> Nat], NEW g, Sums(g, Q, w),
           NEW R \in SUBSET Q, NEW v \in [R -> Nat], NEW h, Sums(h, R, v),
           \A x \in R : v[x] = w[x], \A x \in Q \ R : w[x] = 0
    PROVE  g[Q] = h[R]
<1> DEFINE Fine(s) == g[s] = h[s \cap R]
           Bad == {s \in SUBSET Q : ~Fine(s)}
<1>1. \A s \in SUBSET Q : IsFiniteSet(s)
    BY FS_Subset
<1>2. ASSUME NEW s \in Bad, \A r \in Bad : Cardinality(s) <= Cardinality(r) PROVE FALSE
    <2>1. \A x \in s : Fine(s \ {x})
        <3> SUFFICES ASSUME NEW x \in s, s \ {x} \in Bad PROVE FALSE
            OBVIOUS
        <3> HIDE DEF Fine
        <3>1. IsFiniteSet(s) /\ Cardinality(s) <= Cardinality(s \ {x})
            BY <1>1, <1>2
        <3> QED BY <3>1, SmallerWithout
    <2>2. s # {}
        BY <1>2, SumsStep, {} \cap R = {}
    <2>3. PICK x \in s : TRUE
        BY <2>2
    <2>4. g[s] = w[x] + g[s \ {x}] /\ g[s \ {x}] \in Nat
        <3>1. s \in SUBSET Q /\ s \ {x} \in SUBSET Q
            OBVIOUS
        <3> HIDE DEF Bad
        <3> QED BY <2>3, <3>1, SumsSplit
    <2>5. g[s \ {x}] = h[(s \ {x}) \cap R]
        BY <2>1
    <2>6. CASE x \in R
        <3>1. x \in s \cap R /\ s \cap R \in SUBSET R /\ (s \cap R) \ {x} = (s \ {x}) \cap R /\ IsFiniteSet(R)
            BY <1>1, <2>6
        <3>2. h[s \cap R] = v[x] + h[(s \cap R) \ {x}]
            BY <3>1, SumsSplit
        <3> QED BY <2>4, <2>5, <2>6, <3>1, <3>2
    <2>7. CASE x \notin R
        <3>1. (s \ {x}) \cap R = s \cap R /\ w[x] = 0
            BY <2>7
        <3> QED BY <2>4, <2>5, <3>1
    <2> QED BY <2>6, <2>7
<1>3. Bad = {}
    <2> SUFFICES ASSUME Bad # {} PROVE FALSE
        OBVIOUS
    <2>1. PICK s \in Bad : \A r \in Bad : Cardinality(s) <= Cardinality(r)
        <3> HIDE DEF Fine
        <3> QED BY <1>1, SmallestOf
    <2> QED BY <1>2, <2>1
<1> QED BY <1>3, Q \cap R = R

LEMMA TotalMaxSums ==
    ASSUME NEW Q, IsFiniteSet(Q), NEW w, \A q \in Q : w[q] = q.points
    PROVE  \E g : Sums(g, Q, w) /\ TotalMax(Q) = g[Q]
<1> DEFINE Rec(g) == [s \in SUBSET Q |-> IF s = {} THEN 0
                        ELSE (CHOOSE x \in s : TRUE).points + g[s \ {CHOOSE x \in s : TRUE}]]
           f == CHOOSE g : g = Rec(g)
<1>1. TotalMax(Q) = f[Q]
    BY DEF TotalMax, MapThenSumSet, MapThenFoldSet
<1>2. PICK g : Sums(g, Q, w)
    BY SumsExist
<1>3. g = Rec(g)
    BY <1>2 DEF Sums, Picked
<1>4. f = Rec(f)
    BY <1>3
<1>5. Sums(f, Q, w)
    BY <1>4 DEF Sums, Picked
<1> QED BY <1>1, <1>5

LEMMA TotalEarnedSums ==
    ASSUME NEW Q, IsFiniteSet(Q), NEW answers, NEW w, \A q \in Q : w[q] = EarnedOn(q, answers)
    PROVE  \E g : Sums(g, Q, w) /\ TotalEarned(Q, answers) = g[Q]
<1> DEFINE Rec(g) == [s \in SUBSET Q |-> IF s = {} THEN 0
                        ELSE EarnedOn(CHOOSE x \in s : TRUE, answers) + g[s \ {CHOOSE x \in s : TRUE}]]
           f == CHOOSE g : g = Rec(g)
<1>1. TotalEarned(Q, answers) = f[Q]
    BY DEF TotalEarned, MapThenSumSet, MapThenFoldSet
<1>2. PICK g : Sums(g, Q, w)
    BY SumsExist
<1>3. g = Rec(g)
    BY <1>2 DEF Sums, Picked
<1>4. f = Rec(f)
    BY <1>3
<1>5. Sums(f, Q, w)
    BY <1>4 DEF Sums, Picked
<1> QED BY <1>1, <1>5

LEMMA EarnedOnType ==
    ASSUME NEW q \in Question, NEW answers
    PROVE  EarnedOn(q, answers) \in Nat /\ q.points \in Nat
BY DEF EarnedOn, EvaluateQuestion, Question

(* Of a finite quiz, the points of some questions are earned and those of  *)
(* the others are not: the total is the points of these.                   *)
LEMMA TotalOfEarned ==
    ASSUME NEW Q \in SUBSET Question, IsFiniteSet(Q), NEW answers, NEW R \in SUBSET Q,
           \A q \in R : EarnedOn(q, answers) = q.points,
           \A q \in Q \ R : EarnedOn(q, answers) = 0
    PROVE  TotalEarned(Q, answers) = TotalMax(R) /\ TotalMax(R) \in Nat
<1> DEFINE w == [q \in Q |-> EarnedOn(q, answers)]
           v == [q \in R |-> q.points]
<1>1. w \in [Q -> Nat] /\ v \in [R -> Nat]
    BY EarnedOnType
<1>2. /\ \A q \in Q : w[q] = EarnedOn(q, answers)
      /\ \A q \in R : v[q] = q.points /\ v[q] = w[q]
      /\ \A q \in Q \ R : w[q] = 0
    OBVIOUS
<1>3. IsFiniteSet(R)
    BY FS_Subset
<1> HIDE DEF w, v
<1>4. PICK g : Sums(g, Q, w) /\ TotalEarned(Q, answers) = g[Q]
    BY <1>2, TotalEarnedSums
<1>5. PICK h : Sums(h, R, v) /\ TotalMax(R) = h[R]
    BY <1>2, <1>3, TotalMaxSums
<1>6. g[Q] = h[R]
    BY <1>1, <1>2, <1>4, <1>5, SumsAgree
<1>7. h[R] \in Nat
    BY <1>1, <1>3, <1>5, SumsSplit
<1> QED BY <1>4, <1>5, <1>6, <1>7

LEMMA TotalsAreNumbers ==
    ASSUME NEW Q \in SUBSET Question, IsFiniteSet(Q), NEW answers
    PROVE  TotalMax(Q) \in Nat /\ TotalEarned(Q, answers) \in Nat
<1> DEFINE w == [q \in Q |-> EarnedOn(q, answers)]
           v == [q \in Q |-> q.points]
<1>1. w \in [Q -> Nat] /\ v \in [Q -> Nat]
    BY EarnedOnType
<1>2. \A q \in Q : w[q] = EarnedOn(q, answers) /\ v[q] = q.points
    OBVIOUS
<1> HIDE DEF w, v
<1>3. PICK g : Sums(g, Q, w) /\ TotalEarned(Q, answers) = g[Q]
    BY <1>2, TotalEarnedSums
<1>4. PICK h : Sums(h, Q, v) /\ TotalMax(Q) = h[Q]
    BY <1>2, TotalMaxSums
<1>5. g[Q] \in Nat /\ h[Q] \in Nat
    BY <1>1, <1>3, <1>4, SumsSplit
<1> QED BY <1>3, <1>4, <1>5

LEMMA NothingToEarn == TotalMax({}) = 0
<1>1. PICK h : Sums(h, {}, <<>>) /\ TotalMax({}) = h[{}]
    BY FS_EmptySet, TotalMaxSums
<1> QED BY <1>1, SumsStep

-----------------------------------------------------------------------------
(* The answers, what they earn, and who passes.                            *)

(* An answer as the use case normalises it. *)
CleanAnswer(a) == Blank \notin a.selected /\ (a.text # None => Fold[a.text] # Blank)

(* Such answers to the questions qs, one to each. *)
AnswersFrom(answers, qs) ==
    \A a \in answers :
        /\ CleanAnswer(a)
        /\ \E q \in qs : a.question = q.id
        /\ \A b \in answers : a.question = b.question => a = b

SomeQuiz(qs, history) == qs = {} \/ \E n \in DOMAIN history : qs = history[n].questions

(* What evaluateAttempt computed. *)
Graded(attempt) ==
    /\ attempt.earned = TotalEarned(attempt.questions, attempt.answers)
    /\ attempt.max = TotalMax(attempt.questions)
    /\ attempt.passed = Passes(attempt.earned, attempt.max, attempt.row.percent)

(* A learner has the quiz of some save on screen until the end, answers    *)
(* that one, and is judged by a course's own percentage.                   *)
Answering(p, screen, l, attempt, history) ==
    /\ p \in {"open", "submitting", "grading", "done"} => SomeQuiz(screen.questions, history)
    /\ p \in {"submitting", "grading"} => l.row.percent \in Nat \ {0} /\ AnswersFrom(l.answers, screen.questions)
    /\ attempt # None => /\ p = "done"
                         /\ AnswersFrom(attempt.answers, screen.questions)
                         /\ attempt.row.percent \in Nat \ {0}
                         /\ Graded(attempt)

(* The questions of a save carry its number in their ids: this is what     *)
(* keeps the answers to one save from meeting the questions of another.    *)
IDsTellSave(history) ==
    \A n \in DOMAIN history :
        /\ IsFiniteSet(history[n].questions)
        /\ \A q \in history[n].questions : q.id[1] = n

PercentsSet(rows) == \A c \in Courses : rows[c] # None => rows[c].percent \in Nat \ {0}

AnswersInv ==
    /\ IDsTellSave(saved)
    /\ PercentsSet(courses)
    /\ \A l \in Learners : Answering(pc[l], sheet[l], loc[l], attempts[l], saved)

LEMMA AnswersNormalized ==
    ASSUME NEW qs, NEW answers \in AnswerChoices(qs), SheetAccepted(answers)
    PROVE  AnswersFrom({NormalizedAnswer(a) : a \in answers}, qs)
<1>0. answers \in AnswerChoices(qs)
    OBVIOUS
<1>1. PICK f \in [qs -> Responses], answered \in SUBSET qs : answers = Entries(f, answered)
    BY <1>0 DEF AnswerChoices
<1>2. \A q \in answered : f[q] \in Response
    BY ResponsesAssumption
<1>3. \A q \in answered : [f[q] EXCEPT !.question = q.id].question = q.id
    BY <1>2 DEF Response
<1>4. \A a \in answers : \E q \in qs : a.question = q.id
    BY <1>1, <1>3 DEF Entries
<1>5. \A a : NormalizedAnswer(a).question = a.question /\ CleanAnswer(NormalizedAnswer(a))
    BY DEF NormalizedAnswer, CleanAnswer, Cleaned
<1>6. \A a, b \in answers : a.question = b.question => a = b
    BY DEF SheetAccepted
<1> QED BY <1>4, <1>5, <1>6 DEF AnswersFrom

LEMMA FiniteQuiz ==
    ASSUME NEW c, NEW quiz, NEW n \in Nat, DOMAIN quiz = 1 .. n, NEW save
    PROVE  /\ IsFiniteSet(NewQuestions(c, quiz, save))
           /\ \A q \in NewQuestions(c, quiz, save) : q.id[1] = save
<1> DEFINE row(i) == [id |-> <<save, i>>, course |-> c, type |-> quiz[i].type,
                      position |-> quiz[i].position, points |-> quiz[i].points,
                      options |-> quiz[i].options, truth |-> quiz[i].truth,
                      accepted |-> quiz[i].accepted]
           f == [i \in 1 .. n |-> row(i)]
           new == NewQuestions(c, quiz, save)
<1>1. \A q \in new : \E i \in 1 .. n : q = row(i)
    BY DEF NewQuestions
<1>2. \A i \in 1 .. n : row(i) \in new /\ row(i).id[1] = save
    BY DEF NewQuestions
<1> HIDE DEF row, new
<1>3. f \in Surjection(1 .. n, new)
    BY <1>1, <1>2 DEF Surjection
<1>4. IsFiniteSet(1 .. n)
    BY FS_Interval
<1>5. IsFiniteSet(new)
    BY <1>3, <1>4, FS_Surjection
<1> QED BY <1>1, <1>2, <1>5 DEF new

LEMMA WriteAnswers ==
    ASSUME VersionInv, AnswersInv, NEW c \in Courses, NEW row, row.percent \in Nat \ {0},
           NEW quiz \in Seq(Payload), Write(c, row, quiz), UNCHANGED <<pc, sheet, loc, attempts>>
    PROVE  AnswersInv'
<1> DEFINE new == NormalizedQuiz(quiz)
           entry == [course |-> c, questions |-> NewQuestions(c, new, NextSave)]
<1>1. saved' = Append(saved, entry) /\ courses' = [courses EXCEPT ![c] = row]
    BY DEF Write
<1>2. saved \in Seq([course : Courses, questions : SUBSET Question]) /\ DOMAIN courses = Courses
    BY DEF VersionInv, RowsFollowSaves, RowsTyped
<1>3. NextSave = Len(saved) + 1 /\ Len(saved) \in Nat /\ DOMAIN saved = 1 .. Len(saved)
    BY <1>2 DEF NextSave
<1>4. IsFiniteSet(entry.questions) /\ \A q \in entry.questions : q.id[1] = NextSave
    <2>1. DOMAIN new = 1 .. Len(quiz) /\ Len(quiz) \in Nat
        BY DEF NormalizedQuiz
    <2> HIDE DEF new
    <2>2. IsFiniteSet(NewQuestions(c, new, NextSave)) /\ \A q \in NewQuestions(c, new, NextSave) : q.id[1] = NextSave
        BY <2>1, FiniteQuiz
    <2> QED BY <2>2
<1> HIDE DEF entry
<1>5. /\ DOMAIN saved' = DOMAIN saved \cup {NextSave}
      /\ saved'[NextSave] = entry
      /\ \A n \in DOMAIN saved : saved'[n] = saved[n]
    <2>1. DOMAIN saved' = 1 .. Len(saved) + 1
        BY <1>1, <1>2
    <2> QED BY <1>1, <1>2, <1>3, <2>1
<1>6. IDsTellSave(saved')
    BY <1>4, <1>5 DEF AnswersInv, IDsTellSave
<1>7. PercentsSet(courses')
    BY <1>1, <1>2 DEF AnswersInv, PercentsSet
<1>8. \A qs : SomeQuiz(qs, saved) => SomeQuiz(qs, saved')
    BY <1>5 DEF SomeQuiz
<1>9. \A l \in Learners : Answering(pc[l], sheet[l], loc[l], attempts[l], saved')
    BY <1>8 DEF AnswersInv, Answering
<1> QED BY <1>6, <1>7, <1>9 DEF AnswersInv

LEMMA SaveAnswers == ASSUME VersionInv, AnswersInv, Save PROVE AnswersInv'
<1>1. \A f \in bound.forms : f \in Form /\ QuizToCreate(f) \in Form
    BY FormTyped
<1>2. \A f \in Form : PassingPercent(f.percent) \in Nat \ {0} /\ f.quiz \in Seq(Payload)
    <2>1. \A f \in Form : f.percent \in Nat /\ f.quiz \in Seq(Payload)
        BY DEF Form
    <2>2. \A n \in Nat : PassingPercent(n) \in Nat \ {0}
        BY DEF PassingPercent
    <2> QED BY <2>1, <2>2
<1>3. \A f \in Form : \A n : CreatedRow(f, n).percent \in Nat \ {0} /\ UpdatedRow(f, n).percent \in Nat \ {0}
    BY <1>2 DEF CreatedRow, UpdatedRow
<1>4. ASSUME NEW f \in Form, Create(f) PROVE AnswersInv'
    <2>1. PICK c \in Courses : Write(c, CreatedRow(f, NextSave), f.quiz)
        BY <1>4 DEF Create, VersionInv, BoundTyped, Bound
    <2> QED BY <1>2, <1>3, <1>4, <2>1, WriteAnswers DEF Create
<1>5. ASSUME NEW f \in Form, NEW c \in Courses, Update(c, f) PROVE AnswersInv'
    BY <1>2, <1>3, <1>5, WriteAnswers DEF Update
<1> QED BY <1>1, <1>4, <1>5 DEF Save, CreateCourse, CreatePackage, CreateQuiz, UpdateCourse, UpdateQuiz, QuizToCreate,
           QuizToUpdate

LEMMA ArchiveAnswers == ASSUME VersionInv, AnswersInv, NEW c \in Courses, Archive(c) PROVE AnswersInv'
<1>1. UNCHANGED <<saved, pc, sheet, loc>> /\ courses' = [courses EXCEPT ![c] = None]
    BY DEF Archive
<1>2. \A l \in Learners : attempts'[l] = None \/ attempts'[l] = attempts[l]
    BY DEF Archive
<1>3. PercentsSet(courses')
    BY <1>1 DEF AnswersInv, PercentsSet, VersionInv, RowsTyped
<1>4. \A l \in Learners : Answering(pc[l], sheet[l], loc[l], attempts'[l], saved)
    BY <1>2 DEF AnswersInv, Answering
<1> QED BY <1>1, <1>3, <1>4 DEF AnswersInv

(* A request of one learner. *)
LEMMA OneAnswers ==
    ASSUME VersionInv, AnswersInv, NEW l \in Learners, UNCHANGED <<courses, saved>>,
           \A k \in Learners \ {l} : /\ pc'[k] = pc[k] /\ sheet'[k] = sheet[k]
                                    /\ loc'[k] = loc[k] /\ attempts'[k] = attempts[k],
           Answering(pc'[l], sheet'[l], loc'[l], attempts'[l], saved)
    PROVE  AnswersInv'
<1>1. \A k \in Learners : Answering(pc'[k], sheet'[k], loc'[k], attempts'[k], saved)
    BY DEF AnswersInv
<1> QED BY <1>1 DEF AnswersInv

LEMMA LearnAnswers == ASSUME VersionInv, AnswersInv, Learn PROVE AnswersInv'
<1>0. /\ DOMAIN pc = Learners /\ DOMAIN sheet = Learners /\ DOMAIN loc = Learners /\ DOMAIN attempts = Learners
      /\ bound.learners \subseteq Learners
    BY DEF VersionInv, ReadsTyped, BoundTyped, Bound
<1>1. ASSUME NEW l \in Learners, NEW c \in Courses, OpenReadRow(l, c) PROVE AnswersInv'
    <2>1. /\ pc[l] = "away" /\ pc' = [pc EXCEPT ![l] = "opening"]
          /\ UNCHANGED <<courses, saved, loc, attempts>>
          /\ \A k \in Learners \ {l} : pc'[k] = pc[k] /\ sheet'[k] = sheet[k]
        BY <1>1 DEF OpenReadRow, GoTo
    <2>2. Answering(pc'[l], sheet'[l], loc'[l], attempts'[l], saved)
        BY <1>0, <2>1 DEF AnswersInv, Answering
    <2> QED BY <2>1, <2>2, OneAnswers
<1>2. ASSUME NEW l \in Learners, OpenReadQuestions(l) PROVE AnswersInv'
    <2>1. /\ pc[l] = "opening" /\ UNCHANGED <<courses, saved, loc, attempts>>
          /\ \A k \in Learners \ {l} : pc'[k] = pc[k] /\ sheet'[k] = sheet[k]
          /\ pc'[l] \in {"away", "open"}
        BY <1>0, <1>2 DEF OpenReadQuestions, GoTo
    <2>2. attempts[l] = None
        BY <2>1 DEF AnswersInv, Answering
    <2>3. pc'[l] = "open" => SomeQuiz(sheet'[l].questions, saved)
        <3> SUFFICES ASSUME pc'[l] = "open" PROVE SomeQuiz(sheet'[l].questions, saved)
            OBVIOUS
        <3>1. VersionInv'
            BY <1>2, OpenReadQuestionsKeeps
        <3>2. BothRead(sheet[l])'
            BY <3>1 DEF VersionInv, ReadsTyped
        <3> QED BY <2>1, <3>2 DEF BothRead, WholeVersion, SomeQuiz
    <2>4. Answering(pc'[l], sheet'[l], loc'[l], attempts'[l], saved)
        BY <2>1, <2>2, <2>3 DEF Answering
    <2> QED BY <2>1, <2>4, OneAnswers
<1>3. ASSUME NEW l \in Learners, NEW answers \in AnswerChoices(sheet[l].questions), SubmitReadRow(l, answers)
      PROVE  AnswersInv'
    <2>1. /\ pc[l] = "open" /\ UNCHANGED <<courses, saved, sheet, attempts>>
          /\ \A k \in Learners \ {l} : pc'[k] = pc[k] /\ loc'[k] = loc[k]
          /\ SheetAccepted(answers)
        BY <1>0, <1>3 DEF SubmitReadRow, GoTo
    <2>2. attempts[l] = None /\ SomeQuiz(sheet[l].questions, saved)
        BY <2>1 DEF AnswersInv, Answering
    <2>3. \/ pc'[l] = "done"
          \/ /\ pc'[l] = "submitting" /\ loc'[l].row = courses[sheet[l].course] /\ loc'[l].row # None
             /\ loc'[l].answers = {NormalizedAnswer(a) : a \in answers}
        BY <1>0, <1>3 DEF SubmitReadRow, GoTo, RowStatement
    <2>4. CASE pc'[l] = "done"
        <3>1. Answering(pc'[l], sheet'[l], loc'[l], attempts'[l], saved)
            BY <2>1, <2>2, <2>4 DEF Answering
        <3> QED BY <2>1, <3>1, OneAnswers
    <2>5. CASE pc'[l] = "submitting"
        <3>1. sheet[l].course \in Courses
            BY <2>1 DEF VersionInv, ReadsTyped, BothRead, RowsTyped
        <3>2. loc'[l].row.percent \in Nat \ {0}
            BY <2>3, <2>5, <3>1 DEF AnswersInv, PercentsSet
        <3>3. AnswersFrom(loc'[l].answers, sheet[l].questions)
            BY <2>1, <2>3, <2>5, AnswersNormalized
        <3>4. Answering(pc'[l], sheet'[l], loc'[l], attempts'[l], saved)
            BY <2>1, <2>2, <2>5, <3>2, <3>3 DEF Answering
        <3> QED BY <2>1, <3>4, OneAnswers
    <2> QED BY <2>3, <2>4, <2>5
<1>4. ASSUME NEW l \in Learners, SubmitReadQuestions(l) PROVE AnswersInv'
    <2>1. /\ pc[l] = "submitting" /\ UNCHANGED <<courses, saved, sheet, attempts>>
          /\ \A k \in Learners \ {l} : pc'[k] = pc[k] /\ loc'[k] = loc[k]
          /\ pc'[l] = "grading"
          /\ loc'[l].row = loc[l].row /\ loc'[l].answers = loc[l].answers
        BY <1>0, <1>4 DEF SubmitReadQuestions, GoTo
    <2>2. Answering(pc'[l], sheet'[l], loc'[l], attempts'[l], saved)
        BY <2>1 DEF AnswersInv, Answering
    <2> QED BY <2>1, <2>2, OneAnswers
<1>5. ASSUME NEW l \in Learners, SubmitInsert(l) PROVE AnswersInv'
    <2>1. /\ pc[l] = "grading" /\ UNCHANGED <<courses, saved, sheet, loc>>
          /\ \A k \in Learners \ {l} : pc'[k] = pc[k] /\ attempts'[k] = attempts[k]
          /\ pc'[l] = "done"
          /\ attempts'[l] = attempts[l] \/ attempts'[l] = AttemptRecord(l)
        BY <1>0, <1>5 DEF SubmitInsert, GoTo
    <2>2. attempts[l] = None
        BY <2>1 DEF AnswersInv, Answering
    <2>3. Graded(AttemptRecord(l)) /\ AttemptRecord(l).answers = loc[l].answers /\ AttemptRecord(l).row = loc[l].row
        BY DEF AttemptRecord, Graded
    <2>4. Answering(pc'[l], sheet'[l], loc'[l], attempts'[l], saved)
        BY <2>1, <2>2, <2>3 DEF AnswersInv, Answering
    <2> QED BY <2>1, <2>4, OneAnswers
<1> QED BY <1>0, <1>1, <1>2, <1>3, <1>4, <1>5 DEF Learn, OpenFromList

LEMMA CatalogAnswers == CatalogSpec => []AnswersInv
<1>1. Init => AnswersInv
    BY DEF Init, AnswersInv, IDsTellSave, PercentsSet, Answering
<1>2. VersionInv /\ AnswersInv /\ [CatalogNext]_vars => AnswersInv'
    <2> SUFFICES ASSUME VersionInv, AnswersInv, [CatalogNext]_vars PROVE AnswersInv'
        OBVIOUS
    <2>1. CASE UNCHANGED vars
        BY <2>1 DEF vars, AnswersInv
    <2> QED BY <2>1, SaveAnswers, ArchiveAnswers, LearnAnswers DEF CatalogNext
<1> QED BY <1>1, <1>2, CatalogVersions, PTL DEF CatalogSpec

(* The grader and the key agree on a stored question and a clean answer.   *)
LEMMA GradedByKey ==
    ASSUME NEW q \in Question, ConfigValid(q), NEW a, CleanAnswer(a)
    PROVE  AnsweredRight(q, a) <=> Agrees(q, a)
<1> DEFINE key == {q.options[i].id : i \in {j \in DOMAIN q.options : q.options[j].correct}}
<1>1. q.type \in QuestionTypes
    BY DEF Question
<1>2. q.type \in Choice => CorrectOptionIDs(q) = key
    BY DEF ConfigValid, ChoiceOptionsValid, CorrectOptionIDs
<1>3. /\ q.type = "single_choice" => (Agrees(q, a) <=> a.selected = key)
      /\ q.type = "multiple_choice" => (Agrees(q, a) <=> a.selected = key)
    BY DEF Agrees, Choice
<1>4. CASE q.type = "single_choice"
    <2>1. Cardinality(CorrectOptionIDs(q)) = 1
        BY <1>4, OneCorrectOption DEF ConfigValid, Choice
    <2>2. AnsweredRight(q, a) <=> a.selected = CorrectOptionIDs(q)
        BY <1>4, <2>1 DEF AnsweredRight, Written
    <2> QED BY <1>2, <1>3, <1>4, <2>2 DEF Choice
<1>5. CASE q.type = "multiple_choice"
    <2>1. AnsweredRight(q, a) <=> a.selected = CorrectOptionIDs(q)
        BY <1>5 DEF AnsweredRight, Written
    <2> QED BY <1>2, <1>3, <1>5, <2>1 DEF Choice
<1>6. CASE q.type = "true_false"
    BY <1>6 DEF AnsweredRight, Agrees, ConfigValid, Choice, Written
<1>7. CASE q.type \in Written
    <2>1. AnsweredRight(q, a) <=> a.text # None /\ Fold[a.text] \in AcceptedAnswers(q)
        BY <1>7 DEF AnsweredRight, Written
    <2>2. Agrees(q, a) <=> \E text \in q.accepted : a.text # None /\ Fold[text] = Fold[a.text]
        BY <1>7 DEF Agrees, Choice, Written
    <2> QED BY <2>1, <2>2 DEF AcceptedAnswers, CleanAnswer
<1> QED BY <1>1, <1>4, <1>5, <1>6, <1>7 DEF QuestionTypes, Choice

(* What an attempt is about: the questions of one save. *)
LEMMA AttemptAbout ==
    ASSUME VersionInv, AnswersInv, NEW l \in Learners, attempts[l] # None
    PROVE  /\ SomeQuiz(attempts[l].questions, saved) /\ SomeQuiz(sheet[l].questions, saved)
           /\ IsFiniteSet(attempts[l].questions)
           /\ \A q \in attempts[l].questions : q \in Question /\ ConfigValid(q)
           /\ AnswersFrom(attempts[l].answers, sheet[l].questions)
           /\ Graded(attempts[l]) /\ attempts[l].row.percent \in Nat \ {0}
<1>1. BothRead(attempts[l])
    BY DEF VersionInv, ReadsTyped
<1>2. SomeQuiz(attempts[l].questions, saved)
    BY <1>1 DEF BothRead, WholeVersion, SomeQuiz
<1>3. IsFiniteSet(attempts[l].questions)
    BY <1>2, FS_EmptySet DEF SomeQuiz, AnswersInv, IDsTellSave
<1>4. \A q \in attempts[l].questions : q \in Question /\ ConfigValid(q)
    BY <1>2 DEF SomeQuiz, VersionInv, RowsFollowSaves, Stored
<1> QED BY <1>2, <1>3, <1>4 DEF AnswersInv, Answering

(* The stored score is the points of the questions answered by the key,    *)
(* and the maximum those of all questions, for any quiz and any answers.   *)
THEOREM ScoresMatchTheKey == CatalogSpec => []ScoreMatchesKey
<1>1. ASSUME VersionInv, AnswersInv PROVE ScoreMatchesKey
    <2> SUFFICES ASSUME NEW l \in Learners, attempts[l] # None
                 PROVE  LET right == {q \in attempts[l].questions :
                                        \E a \in attempts[l].answers : a.question = q.id /\ Agrees(q, a)}
                        IN  /\ attempts[l].earned = MapThenSumSet(LAMBDA q : q.points, right)
                            /\ attempts[l].max = MapThenSumSet(LAMBDA q : q.points, attempts[l].questions)
        BY DEF ScoreMatchesKey
    <2> DEFINE Q == attempts[l].questions
               answers == attempts[l].answers
               right == {q \in Q : \E a \in answers : a.question = q.id /\ Agrees(q, a)}
    <2>1. /\ IsFiniteSet(Q) /\ Q \in SUBSET Question /\ \A q \in Q : ConfigValid(q)
          /\ AnswersFrom(answers, sheet[l].questions)
          /\ attempts[l].earned = TotalEarned(Q, answers) /\ attempts[l].max = TotalMax(Q)
        BY <1>1, AttemptAbout DEF Graded
    <2>2. ASSUME NEW q \in Q PROVE EarnedOn(q, answers) = IF q \in right THEN q.points ELSE 0
        <3> DEFINE mine == {a \in answers : a.question = q.id}
        <3>1. CASE mine = {}
            BY <3>1 DEF EarnedOn
        <3>2. CASE mine # {}
            <4>1. PICK a \in answers : a.question = q.id
                BY <3>2
            <4>2. mine = {a}
                BY <2>1, <4>1 DEF AnswersFrom
            <4>3. (CHOOSE b \in mine : TRUE) = a
                BY <4>2
            <4>4. EarnedOn(q, answers) = EvaluateQuestion(q, a)
                BY <3>2, <4>3 DEF EarnedOn
            <4>5. AnsweredRight(q, a) <=> Agrees(q, a)
                BY <2>1, <4>1, GradedByKey DEF AnswersFrom
            <4>6. q \in right <=> Agrees(q, a)
                BY <4>1, <4>2
            <4> QED BY <4>4, <4>5, <4>6 DEF EvaluateQuestion
        <3> QED BY <3>1, <3>2
    <2>3. right \in SUBSET Q
        OBVIOUS
    <2> HIDE DEF right, answers
    <2>4. TotalEarned(Q, answers) = TotalMax(right)
        BY <2>1, <2>2, <2>3, TotalOfEarned
    <2> QED BY <2>1, <2>4 DEF TotalMax, right, answers
<1> QED BY <1>1, CatalogVersions, CatalogAnswers, PTL

(* Answers to a quiz that was replaced meet none of the new questions: the *)
(* attempt earns nothing and fails, whatever was saved in between.         *)
THEOREM StaleSheetsEarnNothing == CatalogSpec => []StaleSheetEarnsNothing
<1>1. ASSUME VersionInv, AnswersInv PROVE StaleSheetEarnsNothing
    <2> SUFFICES ASSUME NEW l \in Learners, attempts[l] # None, attempts[l].questions # sheet[l].questions
                 PROVE  attempts[l].earned = 0 /\ ~attempts[l].passed
        BY DEF StaleSheetEarnsNothing
    <2> DEFINE Q == attempts[l].questions
               answers == attempts[l].answers
    <2>1. /\ IsFiniteSet(Q) /\ Q \in SUBSET Question
          /\ SomeQuiz(Q, saved) /\ SomeQuiz(sheet[l].questions, saved)
          /\ AnswersFrom(answers, sheet[l].questions)
          /\ attempts[l].earned = TotalEarned(Q, answers) /\ attempts[l].max = TotalMax(Q)
          /\ attempts[l].passed = Passes(attempts[l].earned, attempts[l].max, attempts[l].row.percent)
        BY <1>1, AttemptAbout DEF Graded
    <2>2. ASSUME NEW q \in Q, NEW a \in answers PROVE a.question # q.id
        <3>1. PICK r \in sheet[l].questions : a.question = r.id
            BY <2>1 DEF AnswersFrom
        <3>2. PICK n \in DOMAIN saved : Q = saved[n].questions
            BY <2>1, <2>2 DEF SomeQuiz
        <3>3. PICK m \in DOMAIN saved : sheet[l].questions = saved[m].questions
            BY <2>1, <3>1 DEF SomeQuiz
        <3>4. q.id[1] = n /\ r.id[1] = m /\ n # m
            BY <1>1, <3>1, <3>2, <3>3 DEF AnswersInv, IDsTellSave
        <3> QED BY <3>1, <3>4
    <2>3. \A q \in Q : EarnedOn(q, answers) = 0
        BY <2>2 DEF EarnedOn
    <2> HIDE DEF Q, answers
    <2>4. attempts[l].earned = 0
        BY <2>1, <2>3, TotalOfEarned, NothingToEarn, {} \in SUBSET Q
    <2>5. attempts[l].max \in Nat
        BY <2>1, TotalsAreNumbers
    <2>6. ScoreHundredths(0, attempts[l].max) = 0
        <3>1. \A max \in Nat \ {0} : (20000 * 0 + max) \div (2 * max) = 0
            <4> SUFFICES ASSUME NEW max \in Nat \ {0} PROVE (20000 * 0 + max) \div (2 * max) = 0
                OBVIOUS
            <4> DEFINE x == max \div (2 * max)
            <4>1. 2 * max \in Nat \ {0} /\ x \in Nat
                OBVIOUS
            <4>2. ~(x >= 1)
                BY <4>1, QuotientAtLeast
            <4> QED BY <4>1, <4>2
        <3> QED BY <2>5, <3>1 DEF ScoreHundredths
    <2>7. PassingPercent(attempts[l].row.percent) \in Nat \ {0}
        BY <1>1, AttemptAbout DEF PassingPercent
    <2>8. ~Passes(0, attempts[l].max, attempts[l].row.percent)
        BY <2>6, <2>7 DEF Passes
    <2> QED BY <2>1, <2>4, <2>8
<1> QED BY <1>1, CatalogVersions, CatalogAnswers, PTL

(* Up to 199 points, an attempt passes exactly with the percentage of the  *)
(* course row it was judged by: rounding to two decimals decides nothing.  *)
THEOREM PercentageDecides == CatalogSpec => []PassedByPercentage
<1>1. ASSUME VersionInv, AnswersInv PROVE PassedByPercentage
    <2> SUFFICES ASSUME NEW l \in Learners, attempts[l] # None, attempts[l].max < 200
                 PROVE  attempts[l].passed <=>
                            /\ attempts[l].max > 0
                            /\ 100 * attempts[l].earned >= attempts[l].row.percent * attempts[l].max
        BY DEF PassedByPercentage
    <2> DEFINE earned == attempts[l].earned
               max == attempts[l].max
               percent == attempts[l].row.percent
    <2>1. /\ max \in Nat /\ max < 200 /\ earned \in Nat
          /\ attempts[l].passed = Passes(earned, max, percent)
        BY <1>1, AttemptAbout, TotalsAreNumbers DEF Graded
    <2>2. percent \in Nat \ {0} /\ PassingPercent(percent) = percent
        BY <1>1, AttemptAbout DEF PassingPercent
    <2> HIDE DEF earned, max, percent
    <2>3. Passes(earned, max, percent) <=> max > 0 /\ 100 * earned >= percent * max
        <3>1. CASE max = 0
            BY <2>2, <3>1 DEF Passes, ScoreHundredths
        <3>2. CASE max # 0
            <4>1. max \in 1 .. 199
                BY <2>1, <3>2
            <4>2. Passes(earned, max, percent) <=> 100 * earned >= PassingPercent(percent) * max
                BY <2>1, <2>2, <4>1, RoundingNeverDecides
            <4> QED BY <2>2, <4>1, <4>2
        <3> QED BY <3>1, <3>2
    <2> QED BY <2>1, <2>3 DEF earned, max, percent
<1> QED BY <1>1, CatalogVersions, CatalogAnswers, PTL
=============================================================================

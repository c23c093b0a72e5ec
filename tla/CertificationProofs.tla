------------------------ MODULE CertificationProofs ------------------------
(***************************************************************************)
(* Theorems about Certification, for any number of requests, courses,      *)
(* users and settings.                                                     *)
(***************************************************************************)
EXTENDS Certification, TLAPS

-----------------------------------------------------------------------------
(* Types.                                                                  *)

(* What the program counter says about the local variables of a request:   *)
(* the values a statement uses have been assigned by an earlier one.       *)
Assigned(p, l) ==
    /\ p \in SubmitPC \cup {"insertEnrollment"} =>
          l.user \in Users /\ l.course \in Courses
    /\ p \in SubmitPC => l.settings \in QuizSettings
    /\ p = "insertAttempt" => l.finishedAt \in Int
    /\ p \in IssuePC => l.enrollment \in Requests
    /\ p \in {"checkPair", "loadContext", "insertCertificate"} =>
          l.attempt \in Requests
    /\ p = "insertCertificate" => l.course \in Courses /\ l.holder \in Users

LocalsAssigned == \A r \in Requests : Assigned(pc[r], loc[r])

TypeInv == TypeOK /\ LocalsAssigned

(* The part of TypeInv that a step of a request changes.                   *)
ControlTyped ==
    /\ pc \in [Requests -> PC]
    /\ loc \in [Requests -> Locals]
    /\ LocalsAssigned

(* The part of TypeInv that is about the rows.                             *)
RowsTyped ==
    /\ enrollments \subseteq EnrollmentRow
    /\ attempts \subseteq AttemptRow
    /\ certificates \subseteq CertificateRow

LEMMA NoLocalsType == NoLocals \in Locals
BY DEF NoLocals, Locals

LEMMA InitTypeInv == Init => TypeInv
<1> SUFFICES ASSUME Init PROVE TypeInv
    OBVIOUS
<1>1. saved \in [Courses -> QuizSettings]
    BY SettingsAssumption DEF Init
<1>2. TypeOK
    BY <1>1, NoLocalsType DEF Init, TypeOK, PC
<1>3. LocalsAssigned
    BY DEF Init, LocalsAssigned, Assigned, SubmitPC, IssuePC
<1> QED BY <1>2, <1>3 DEF TypeInv

(* Going on to a statement whose local variables have been assigned.       *)
LEMMA GotoType ==
    ASSUME TypeInv, NEW r \in Requests, NEW p \in PC, NEW l \in Locals,
           Assigned(p, l), Goto(r, p, l)
    PROVE  ControlTyped'
BY DEF TypeInv, TypeOK, LocalsAssigned, ControlTyped, Goto

(* A request that ends, answered or cut short.                             *)
LEMMA FinishType ==
    ASSUME TypeInv, NEW r \in Requests, Finish(r) \/ Goto(r, "aborted", NoLocals)
    PROVE  ControlTyped'
<1>1. Assigned("done", NoLocals) /\ Assigned("aborted", NoLocals)
    BY DEF Assigned, SubmitPC, IssuePC
<1>2. "done" \in PC /\ "aborted" \in PC
    BY DEF PC
<1> QED BY <1>1, <1>2, NoLocalsType, GotoType DEF Finish

(* A step that only reads the tables.                                      *)
LEMMA ReadOnlyType ==
    ASSUME TypeInv, ControlTyped', UNCHANGED <<world, tables, ghosts>>
    PROVE  TypeInv'
BY DEF TypeInv, TypeOK, LocalsAssigned, ControlTyped, world, tables, ghosts

(* The steps of a request that only read the tables.                      *)
LEMMA ReadStepsType ==
    ASSUME TypeInv, NEW r \in Requests,
           \/ SubmitCheckCertificate(r)
           \/ SubmitFetchAttempt(r)
           \/ SubmitFindEnrollment(r)
           \/ AutoIssueCheckExisting(r)
           \/ AutoIssueFindCandidate(r)
           \/ IssueCheckPair(r)
           \/ \E e, a \in Requests : IssueCertificate(r, e, a)
           \/ IssueLoadContext(r)
           \/ \E c \in Courses, u \in Users : EnrollCheck(r, c, u)
           \/ Abort(r)
    PROVE  TypeInv'
<1>1. /\ pc[r] \in PC
      /\ loc[r] \in Locals
      /\ Assigned(pc[r], loc[r])
    BY DEF TypeInv, TypeOK, LocalsAssigned
<1>2. CASE SubmitCheckCertificate(r)
    <2>1. Assigned("readWindow", loc[r]) /\ "readWindow" \in PC
        BY <1>1, <1>2 DEF SubmitCheckCertificate, Assigned, SubmitPC, IssuePC, PC
    <2>2. ControlTyped'
        BY <1>1, <1>2, <2>1, GotoType, FinishType DEF SubmitCheckCertificate
    <2> QED BY <1>2, <2>2, ReadOnlyType DEF SubmitCheckCertificate
<1>3. CASE SubmitFetchAttempt(r)
    <2>1. Assigned("findEnrollment", loc[r]) /\ "findEnrollment" \in PC
        BY <1>1, <1>3 DEF SubmitFetchAttempt, Assigned, SubmitPC, IssuePC, PC
    <2>2. ControlTyped'
        BY <1>1, <1>3, <2>1, GotoType, FinishType DEF SubmitFetchAttempt
    <2> QED BY <1>3, <2>2, ReadOnlyType DEF SubmitFetchAttempt
<1>4. CASE SubmitFindEnrollment(r)
    <2>1. ASSUME NEW e \in LatestEnrollments(loc[r].course, loc[r].user),
                 Goto(r, "checkExisting", [loc[r] EXCEPT !.enrollment = e.id])
          PROVE  ControlTyped'
        <3>1. e.id \in Requests
            BY DEF LatestEnrollments, TypeInv, TypeOK, EnrollmentRow
        <3> DEFINE l == [loc[r] EXCEPT !.enrollment = e.id]
        <3>2. l \in Locals
            BY <1>1, <3>1 DEF Locals
        <3>3. Assigned("checkExisting", l)
            BY <1>1, <3>1 DEF Assigned, SubmitPC, IssuePC, Locals
        <3>4. "checkExisting" \in PC
            BY DEF PC, IssuePC
        <3> QED BY <2>1, <3>2, <3>3, <3>4, GotoType
    <2>2. ControlTyped'
        BY <1>4, <2>1, FinishType DEF SubmitFindEnrollment
    <2> QED BY <1>4, <2>2, ReadOnlyType DEF SubmitFindEnrollment
<1>5. CASE AutoIssueCheckExisting(r)
    <2>1. Assigned("findCandidate", loc[r]) /\ "findCandidate" \in PC
        BY <1>1, <1>5 DEF AutoIssueCheckExisting, Assigned, SubmitPC, IssuePC, PC
    <2>2. ControlTyped'
        BY <1>1, <1>5, <2>1, GotoType, FinishType DEF AutoIssueCheckExisting
    <2> QED BY <1>5, <2>2, ReadOnlyType DEF AutoIssueCheckExisting
<1>6. CASE AutoIssueFindCandidate(r)
    <2>1. ASSUME NEW e \in enrollments, NEW a \in AutoIssueCandidates(e),
                 Goto(r, "checkPair", [loc[r] EXCEPT !.attempt = a.id])
          PROVE  ControlTyped'
        <3>1. a.id \in Requests
            BY DEF AutoIssueCandidates, PassedAttempts, TypeInv, TypeOK, AttemptRow
        <3> DEFINE l == [loc[r] EXCEPT !.attempt = a.id]
        <3>2. l \in Locals
            BY <1>1, <3>1 DEF Locals
        <3>3. Assigned("checkPair", l)
            BY <1>1, <1>6, <3>1 DEF Assigned, SubmitPC, IssuePC, Locals, AutoIssueFindCandidate
        <3>4. "checkPair" \in PC
            BY DEF PC, IssuePC
        <3> QED BY <2>1, <3>2, <3>3, <3>4, GotoType
    <2>2. ControlTyped'
        BY <1>6, <2>1, FinishType DEF AutoIssueFindCandidate
    <2> QED BY <1>6, <2>2, ReadOnlyType DEF AutoIssueFindCandidate
<1>7. CASE IssueCheckPair(r)
    <2>1. Assigned("loadContext", loc[r]) /\ "loadContext" \in PC
        BY <1>1, <1>7 DEF IssueCheckPair, Assigned, SubmitPC, IssuePC, PC
    <2>2. ControlTyped'
        BY <1>1, <1>7, <2>1, GotoType, FinishType DEF IssueCheckPair
    <2> QED BY <1>7, <2>2, ReadOnlyType DEF IssueCheckPair
<1>8. ASSUME NEW e \in Requests, NEW a \in Requests, IssueCertificate(r, e, a)
      PROVE  TypeInv'
    <2> DEFINE l == [NoLocals EXCEPT !.enrollment = e, !.attempt = a]
    <2>1. l \in Locals /\ Assigned("loadContext", l) /\ "loadContext" \in PC
        BY NoLocalsType DEF Locals, NoLocals, Assigned, SubmitPC, IssuePC, PC
    <2>2. ControlTyped'
        BY <1>8, <2>1, GotoType, FinishType DEF IssueCertificate
    <2> QED BY <1>8, <2>2, ReadOnlyType DEF IssueCertificate
<1>9. CASE IssueLoadContext(r)
    <2>1. ASSUME NEW e \in enrollments, NEW a \in attempts, Issuable(e, a),
                 Goto(r, "insertCertificate",
                      [loc[r] EXCEPT !.course = e.course, !.holder = e.user])
          PROVE  ControlTyped'
        <3>1. e.course \in Courses /\ e.user \in Users
            BY <2>1 DEF Issuable, TypeInv, TypeOK
        <3> DEFINE l == [loc[r] EXCEPT !.course = e.course, !.holder = e.user]
        <3>2. l \in Locals
            BY <1>1, <3>1 DEF Locals
        <3>3. Assigned("insertCertificate", l)
            BY <1>1, <1>9, <3>1 DEF Assigned, SubmitPC, IssuePC, Locals, IssueLoadContext
        <3>4. "insertCertificate" \in PC
            BY DEF PC, IssuePC
        <3> QED BY <2>1, <3>2, <3>3, <3>4, GotoType
    <2>2. ControlTyped'
        BY <1>9, <2>1, FinishType DEF IssueLoadContext
    <2> QED BY <1>9, <2>2, ReadOnlyType DEF IssueLoadContext
<1>10. ASSUME NEW c \in Courses, NEW u \in Users, EnrollCheck(r, c, u)
       PROVE  TypeInv'
    <2> DEFINE l == [NoLocals EXCEPT !.user = u, !.course = c]
    <2>1. l \in Locals /\ Assigned("insertEnrollment", l) /\ "insertEnrollment" \in PC
        BY NoLocalsType DEF Locals, NoLocals, Assigned, SubmitPC, IssuePC, PC
    <2>2. ControlTyped'
        BY <1>10, <2>1, GotoType, FinishType DEF EnrollCheck
    <2> QED BY <1>10, <2>2, ReadOnlyType DEF EnrollCheck
<1>11. CASE Abort(r)
    BY <1>11, FinishType, ReadOnlyType DEF Abort
<1> QED
    BY <1>2, <1>3, <1>4, <1>5, <1>6, <1>7, <1>8, <1>9, <1>10, <1>11

(* The steps of a request that write a table or make a promise.           *)
LEMMA SubmitLoadCourseType ==
    ASSUME TypeInv, NEW r \in Requests, NEW c \in Courses, NEW u \in Users,
           SubmitLoadCourse(r, c, u)
    PROVE  TypeInv'
<1> DEFINE l == [NoLocals EXCEPT !.user = u, !.course = c, !.settings = saved[c]]
<1>1. saved[c] \in QuizSettings
    BY DEF TypeInv, TypeOK
<1>2. l \in Locals /\ Assigned("checkCertificate", l) /\ "checkCertificate" \in PC
    BY <1>1, NoLocalsType DEF Locals, NoLocals, Assigned, SubmitPC, IssuePC, PC
<1>3. ControlTyped'
    BY <1>2, GotoType, FinishType DEF SubmitLoadCourse
<1>4. arrivedCertified' \subseteq Requests
    BY DEF SubmitLoadCourse, TypeInv, TypeOK
<1> QED
    BY <1>3, <1>4 DEF SubmitLoadCourse, TypeInv, TypeOK, ControlTyped, world, tables

LEMMA PromiseType ==
    ASSUME TypeInv, NEW c \in Courses, NEW u \in Users, NEW day \in Int \cup {None},
           promised' = [promised EXCEPT ![c][u] = day]
    PROVE  promised' \in [Courses -> [Users -> Int \cup {None}]]
BY DEF TypeInv, TypeOK

LEMMA SubmitReadWindowType ==
    ASSUME TypeInv, NEW r \in Requests, SubmitReadWindow(r)
    PROVE  TypeInv'
<1>1. /\ pc[r] = "readWindow"
      /\ loc[r] \in Locals
      /\ Assigned(pc[r], loc[r])
    BY DEF SubmitReadWindow, TypeInv, TypeOK, LocalsAssigned
<1>2. /\ loc[r].course \in Courses
      /\ loc[r].user \in Users
      /\ loc[r].settings \in QuizSettings
    BY <1>1 DEF Assigned, SubmitPC
<1> DEFINE s == loc[r].settings
           window == AttemptWindow(loc[r].course, loc[r].user, today, s.cooldownDays)
           l == [loc[r] EXCEPT !.finishedAt = today]
<1>3. ASSUME NEW a \in Earliest(window)
      PROVE  a.startedAt + s.cooldownDays \in Int
    BY <1>2 DEF Earliest, AttemptWindow, TypeInv, TypeOK, AttemptRow, QuizSettings
<1>4. promised' \in [Courses -> [Users -> Int \cup {None}]]
    <2>1. CASE UNCHANGED promised
        BY <2>1 DEF TypeInv, TypeOK
    <2>2. CASE \E a \in Earliest(window) :
                  promised' = [promised EXCEPT ![loc[r].course][loc[r].user] =
                                   a.startedAt + s.cooldownDays]
        BY <2>2, <1>2, <1>3, PromiseType
    <2>3. CASE promised' = [promised EXCEPT ![loc[r].course][loc[r].user] = None]
        BY <2>3, <1>2, PromiseType
    <2> QED BY <2>1, <2>2, <2>3 DEF SubmitReadWindow
<1>5. today \in Int
    BY DEF TypeInv, TypeOK
<1>6. l \in Locals /\ Assigned("insertAttempt", l) /\ "insertAttempt" \in PC
    BY <1>1, <1>2, <1>5 DEF Locals, Assigned, SubmitPC, IssuePC, PC
<1>7. ControlTyped'
    BY <1>6, GotoType, FinishType DEF SubmitReadWindow
<1> QED
    BY <1>4, <1>7 DEF SubmitReadWindow, TypeInv, TypeOK, ControlTyped, world, tables

LEMMA SubmitInsertAttemptType ==
    ASSUME TypeInv, NEW r \in Requests, NEW score \in Scores, NEW delay \in StartDelays,
           SubmitInsertAttempt(r, score, delay)
    PROVE  TypeInv'
<1>1. /\ pc[r] = "insertAttempt"
      /\ loc[r] \in Locals
      /\ Assigned(pc[r], loc[r])
    BY DEF SubmitInsertAttempt, TypeInv, TypeOK, LocalsAssigned
<1>2. /\ loc[r].course \in Courses
      /\ loc[r].user \in Users
      /\ loc[r].settings \in QuizSettings
      /\ loc[r].finishedAt \in Int
    BY <1>1 DEF Assigned, SubmitPC
<1>3. score \in Int /\ delay \in Int
    BY ScoresAssumption, DaysAssumption
<1>4. ASSUME NEW passed \in BOOLEAN
      PROVE  [id |-> r, course |-> loc[r].course, user |-> loc[r].user,
              startedAt |-> loc[r].finishedAt - delay,
              finishedAt |-> loc[r].finishedAt, score |-> score,
              passed |-> passed] \in AttemptRow
    BY <1>2, <1>3 DEF AttemptRow
<1>5. attempts' \subseteq AttemptRow
    <2>1. (score >= EffectivePassingPercent(loc[r].settings)) \in BOOLEAN
        OBVIOUS
    <2>2. attempts \subseteq AttemptRow
        BY DEF TypeInv, TypeOK
    <2> QED BY <1>4, <2>1, <2>2, Zenon DEF SubmitInsertAttempt
<1>6. promised' \in [Courses -> [Users -> Int \cup {None}]]
    BY <1>2, PromiseType DEF SubmitInsertAttempt, TypeInv, TypeOK
<1>7. Assigned("fetchAttempt", loc[r]) /\ "fetchAttempt" \in PC
    BY <1>1 DEF Assigned, SubmitPC, IssuePC, PC
<1>8. ControlTyped'
    BY <1>1, <1>7, GotoType, FinishType DEF SubmitInsertAttempt
<1> QED
    BY <1>5, <1>6, <1>8 DEF SubmitInsertAttempt, TypeInv, TypeOK, ControlTyped, world

LEMMA IssueInsertCertificateType ==
    ASSUME TypeInv, NEW r \in Requests, IssueInsertCertificate(r)
    PROVE  TypeInv'
<1>1. pc[r] = "insertCertificate" /\ Assigned(pc[r], loc[r])
    BY DEF IssueInsertCertificate, TypeInv, LocalsAssigned
<1>2. /\ loc[r].enrollment \in Requests
      /\ loc[r].attempt \in Requests
      /\ loc[r].course \in Courses
      /\ loc[r].holder \in Users
    BY <1>1 DEF Assigned, IssuePC
<1>3. certificates' \subseteq CertificateRow
    BY <1>2 DEF IssueInsertCertificate, TypeInv, TypeOK, CertificateRow
<1>4. ControlTyped'
    BY FinishType DEF IssueInsertCertificate
<1> QED
    BY <1>3, <1>4 DEF IssueInsertCertificate, TypeInv, TypeOK, ControlTyped, world, ghosts

LEMMA EnrollInsertType ==
    ASSUME TypeInv, NEW r \in Requests, EnrollInsert(r)
    PROVE  TypeInv'
<1>1. pc[r] = "insertEnrollment" /\ Assigned(pc[r], loc[r])
    BY DEF EnrollInsert, TypeInv, LocalsAssigned
<1>2. loc[r].course \in Courses /\ loc[r].user \in Users /\ today \in Int
    BY <1>1 DEF Assigned, TypeInv, TypeOK
<1>3. enrollments' \subseteq EnrollmentRow
    BY <1>2 DEF EnrollInsert, TypeInv, TypeOK, EnrollmentRow, EnrollmentStatus
<1>4. ControlTyped'
    BY FinishType DEF EnrollInsert
<1> QED
    BY <1>3, <1>4 DEF EnrollInsert, TypeInv, TypeOK, ControlTyped, world, ghosts

LEMMA CompletedType ==
    ASSUME TypeInv, NEW e \in EnrollmentRow
    PROVE  /\ Completed(e) \in EnrollmentRow
           /\ Completed(e).id = e.id
           /\ Completed(e).course = e.course
           /\ Completed(e).user = e.user
<1> DEFINE day == IF e.completedAt = None THEN today ELSE e.completedAt
<1>1. day \in Int \cup {None}
    BY DEF TypeInv, TypeOK, EnrollmentRow
<1>2. Completed(e) = [e EXCEPT !.status = "completed", !.completedAt = day]
    BY DEF Completed
<1> HIDE DEF day
<1> QED
    BY <1>1, <1>2 DEF EnrollmentRow, EnrollmentStatus

LEMMA CompleteEnrollmentType ==
    ASSUME TypeInv, NEW r \in Requests, NEW id \in Requests, CompleteEnrollment(r, id)
    PROVE  TypeInv'
<1> DEFINE l == [NoLocals EXCEPT !.enrollment = id]
<1>1. l \in Locals /\ Assigned("checkExisting", l) /\ "checkExisting" \in PC
    BY NoLocalsType DEF Locals, NoLocals, Assigned, SubmitPC, IssuePC, PC
<1>2. ControlTyped'
    BY <1>1, GotoType, FinishType DEF CompleteEnrollment
<1>3. enrollments' \subseteq EnrollmentRow
    BY CompletedType DEF CompleteEnrollment, TypeInv, TypeOK
<1> QED
    BY <1>2, <1>3 DEF CompleteEnrollment, TypeInv, TypeOK, ControlTyped, world, ghosts

LEMMA UserClearedType ==
    ASSUME NEW u \in Users
    PROVE  /\ \A e \in EnrollmentRow :
                [e EXCEPT !.user = IF @ = u THEN None ELSE @] \in EnrollmentRow
           /\ \A a \in AttemptRow :
                [a EXCEPT !.user = IF @ = u THEN None ELSE @] \in AttemptRow
<1>1. ASSUME NEW e \in EnrollmentRow
      PROVE  [e EXCEPT !.user = IF @ = u THEN None ELSE @] \in EnrollmentRow
    <2>1. CASE e.user = u
        BY <2>1 DEF EnrollmentRow, EnrollmentStatus
    <2>2. CASE e.user # u
        BY <2>2 DEF EnrollmentRow, EnrollmentStatus
    <2> QED BY <2>1, <2>2
<1>2. ASSUME NEW a \in AttemptRow
      PROVE  [a EXCEPT !.user = IF @ = u THEN None ELSE @] \in AttemptRow
    <2>1. CASE a.user = u
        BY <2>1 DEF AttemptRow
    <2>2. CASE a.user # u
        BY <2>2 DEF AttemptRow
    <2> QED BY <2>1, <2>2
<1> QED BY <1>1, <1>2

(* What happens around the requests.                                       *)
LEMMA EnvironmentType ==
    ASSUME TypeInv, Environment
    PROVE  TypeInv'
<1>1. LocalsAssigned'
    BY DEF TypeInv, LocalsAssigned, Environment, UpdateCourse, ArchiveCourse,
           DeactivateUser, NextDay
<1>2. ASSUME NEW c \in Courses, NEW s \in Settings, UpdateCourse(c, s)
      PROVE  TypeOK'
    <2>1. [s EXCEPT !.certificateEnabled = TRUE] \in QuizSettings
        BY SettingsAssumption DEF QuizSettings
    <2>2. saved' \in [Courses -> QuizSettings]
        BY <1>2, <2>1 DEF UpdateCourse, TypeInv, TypeOK
    <2>3. promised' \in [Courses -> [Users -> Int \cup {None}]]
        BY <1>2 DEF UpdateCourse, TypeInv, TypeOK
    <2> QED BY <1>2, <2>2, <2>3 DEF UpdateCourse, TypeInv, TypeOK, tables
<1>3. ASSUME NEW c \in Courses, ArchiveCourse(c)
      PROVE  TypeOK'
    BY <1>3 DEF ArchiveCourse, TypeInv, TypeOK, ghosts
<1>4. ASSUME NEW u \in Users, DeactivateUser(u)
      PROVE  TypeOK'
    <2>1. enrollments' \subseteq EnrollmentRow /\ attempts' \subseteq AttemptRow
        BY <1>4, UserClearedType DEF DeactivateUser, TypeInv, TypeOK
    <2> QED BY <1>4, <2>1 DEF DeactivateUser, TypeInv, TypeOK, ghosts
<1>5. CASE NextDay
    BY <1>1, <1>5 DEF NextDay, TypeInv, TypeOK, tables, ghosts
<1> QED
    BY <1>1, <1>2, <1>3, <1>4, <1>5 DEF Environment, TypeInv

LEMMA TypeInvNext == TypeInv /\ [Next]_vars => TypeInv'
<1> SUFFICES ASSUME TypeInv, [Next]_vars PROVE TypeInv'
    OBVIOUS
<1>1. ASSUME NEW r \in Requests, Arrive(r)
      PROVE  TypeInv'
    BY <1>1, ReadStepsType, SubmitLoadCourseType, CompleteEnrollmentType DEF Arrive
<1>2. ASSUME NEW r \in Requests, Continue(r)
      PROVE  TypeInv'
    BY <1>2, ReadStepsType, SubmitReadWindowType, SubmitInsertAttemptType,
       IssueInsertCertificateType, EnrollInsertType DEF Continue
<1>3. ASSUME NEW r \in Requests, Abort(r)
      PROVE  TypeInv'
    BY <1>3, ReadStepsType
<1>4. CASE Environment
    BY <1>4, EnvironmentType
<1>5. CASE UNCHANGED vars
    BY <1>5 DEF TypeInv, TypeOK, LocalsAssigned, vars, world, tables, ghosts
<1> QED
    BY <1>1, <1>2, <1>3, <1>4, <1>5 DEF Next

LEMMA TypeInvAlways == Spec => []TypeInv
<1> QED BY InitTypeInv, TypeInvNext, PTL DEF Spec

(* Every row, program counter and local variable has its type.             *)
THEOREM TypeCorrect == Spec => []TypeOK
<1>1. TypeInv => TypeOK
    BY DEF TypeInv
<1> QED BY <1>1, TypeInvAlways, PTL

-----------------------------------------------------------------------------
(* Safety.                                                                 *)

(* The statements before a request has inserted its attempt.               *)
BeforeAttempt == {"idle", "insertEnrollment", "checkCertificate", "readWindow",
                  "insertAttempt"}

(* A key is not taken before its request inserts the row.                  *)
FreshKeys ==
    \A r \in Requests :
        /\ pc[r] \in BeforeAttempt => \A a \in attempts : a.id # r
        /\ pc[r] \notin {"done", "aborted"} => \A x \in certificates : x.id # r

(* What GetIssuanceContext has read is still true when the certificate is  *)
(* inserted, or a foreign key will refuse it: rows are deleted only with   *)
(* their course or their user, and neither comes back.                     *)
ContextHolds ==
    \A r \in Requests :
        pc[r] = "insertCertificate" =>
            \/ loc[r].course \notin liveCourses
            \/ loc[r].holder \notin liveUsers
            \/ Backed(loc[r].attempt, loc[r].enrollment, loc[r].course, loc[r].holder)

SafetyInv ==
    /\ TypeInv
    /\ FreshKeys
    /\ ContextHolds
    /\ CertificateBacked

(* Where a request has ended.                                              *)
Ended == {"done", "aborted"}

(* A submission that arrived too late never gets past the check, or its    *)
(* course or its learner has been deleted and the INSERT will fail.        *)
LateSubmit(r) ==
    /\ \A a \in attempts : a.id # r
    /\ pc[r] \in {"checkCertificate", "readWindow", "insertAttempt"} \cup Ended
    /\ pc[r] \notin Ended => \/ loc[r].course \notin liveCourses
                             \/ loc[r].user \notin liveUsers
                             \/ /\ pc[r] = "checkCertificate"
                                /\ HasCertificate(loc[r].course, loc[r].user)

LateSubmits == \A r \in arrivedCertified : LateSubmit(r)

(* The steps of Continue that leave the three tables alone.               *)
ReadStep(r) ==
    \/ SubmitCheckCertificate(r)
    \/ SubmitReadWindow(r)
    \/ SubmitFetchAttempt(r)
    \/ SubmitFindEnrollment(r)
    \/ AutoIssueCheckExisting(r)
    \/ AutoIssueFindCandidate(r)
    \/ IssueCheckPair(r)
    \/ IssueLoadContext(r)

(* What a step does to the program counters: it moves its own request.     *)
LEMMA GotoMoves ==
    ASSUME TypeInv, NEW r \in Requests, NEW p, NEW l, Goto(r, p, l)
    PROVE  /\ pc'[r] = p
           /\ loc'[r] = l
           /\ \A q \in Requests : q # r => pc'[q] = pc[q] /\ loc'[q] = loc[q]
BY DEF Goto, TypeInv, TypeOK

LEMMA FinishMoves ==
    ASSUME TypeInv, NEW r \in Requests, Finish(r)
    PROVE  /\ pc'[r] = "done"
           /\ \A q \in Requests : q # r => pc'[q] = pc[q] /\ loc'[q] = loc[q]
BY GotoMoves DEF Finish

LEMMA AbortMoves ==
    ASSUME TypeInv, NEW r \in Requests, Abort(r)
    PROVE  /\ pc'[r] = "aborted"
           /\ \A q \in Requests : q # r => pc'[q] = pc[q] /\ loc'[q] = loc[q]
BY GotoMoves DEF Abort

LEMMA ReadStepMoves ==
    ASSUME TypeInv, NEW r \in Requests, ReadStep(r)
    PROVE  /\ UNCHANGED <<world, tables, arrivedCertified>>
           /\ pc[r] \notin {"idle", "done", "aborted"}
           /\ pc'[r] \in BeforeAttempt => pc[r] \in BeforeAttempt
           /\ pc'[r] = "insertCertificate" => pc[r] = "loadContext"
           /\ \A q \in Requests : q # r => pc'[q] = pc[q] /\ loc'[q] = loc[q]
<1>1. CASE SubmitCheckCertificate(r)
    BY <1>1, GotoMoves, FinishMoves DEF SubmitCheckCertificate, BeforeAttempt, ghosts
<1>2. CASE SubmitReadWindow(r)
    BY <1>2, GotoMoves, FinishMoves DEF SubmitReadWindow, BeforeAttempt
<1>3. CASE SubmitFetchAttempt(r)
    BY <1>3, GotoMoves, FinishMoves DEF SubmitFetchAttempt, BeforeAttempt, ghosts
<1>4. CASE SubmitFindEnrollment(r)
    <2>1. Finish(r) \/ \E l : Goto(r, "checkExisting", l)
        BY <1>4 DEF SubmitFindEnrollment
    <2> QED BY <1>4, <2>1, GotoMoves, FinishMoves
        DEF SubmitFindEnrollment, BeforeAttempt, ghosts
<1>5. CASE AutoIssueCheckExisting(r)
    BY <1>5, GotoMoves, FinishMoves DEF AutoIssueCheckExisting, BeforeAttempt, ghosts
<1>6. CASE AutoIssueFindCandidate(r)
    <2>1. Finish(r) \/ \E l : Goto(r, "checkPair", l)
        BY <1>6 DEF AutoIssueFindCandidate
    <2> QED BY <1>6, <2>1, GotoMoves, FinishMoves
        DEF AutoIssueFindCandidate, BeforeAttempt, ghosts
<1>7. CASE IssueCheckPair(r)
    BY <1>7, GotoMoves, FinishMoves DEF IssueCheckPair, BeforeAttempt, ghosts
<1>8. CASE IssueLoadContext(r)
    <2>1. Finish(r) \/ \E l : Goto(r, "insertCertificate", l)
        BY <1>8 DEF IssueLoadContext
    <2>2. pc[r] = "loadContext" /\ UNCHANGED <<world, tables, ghosts>>
        BY <1>8 DEF IssueLoadContext
    <2>3. /\ pc'[r] \in {"done", "insertCertificate"}
          /\ \A q \in Requests : q # r => pc'[q] = pc[q] /\ loc'[q] = loc[q]
        BY <2>1, GotoMoves, FinishMoves
    <2> QED BY <2>2, <2>3 DEF BeforeAttempt, ghosts
<1> QED
    BY <1>1, <1>2, <1>3, <1>4, <1>5, <1>6, <1>7, <1>8 DEF ReadStep

LEMMA ArriveMoves ==
    ASSUME TypeInv, NEW r \in Requests, Arrive(r)
    PROVE  /\ UNCHANGED <<world, attempts, certificates>>
           /\ pc[r] = "idle"
           /\ pc'[r] # "insertCertificate"
           /\ \A q \in Requests : q # r => pc'[q] = pc[q] /\ loc'[q] = loc[q]
<1>1. ASSUME NEW c \in Courses, NEW u \in Users, SubmitLoadCourse(r, c, u)
      PROVE  /\ UNCHANGED <<world, attempts, certificates>>
             /\ pc[r] = "idle"
             /\ pc'[r] # "insertCertificate"
             /\ \A q \in Requests : q # r => pc'[q] = pc[q] /\ loc'[q] = loc[q]
    BY <1>1, GotoMoves, FinishMoves DEF SubmitLoadCourse, MaySend, tables
<1>2. ASSUME NEW c \in Courses, NEW u \in Users, EnrollCheck(r, c, u)
      PROVE  /\ UNCHANGED <<world, attempts, certificates>>
             /\ pc[r] = "idle"
             /\ pc'[r] # "insertCertificate"
             /\ \A q \in Requests : q # r => pc'[q] = pc[q] /\ loc'[q] = loc[q]
    BY <1>2, GotoMoves, FinishMoves DEF EnrollCheck, MaySend, tables
<1>3. ASSUME NEW id \in Requests, CompleteEnrollment(r, id)
      PROVE  /\ UNCHANGED <<world, attempts, certificates>>
             /\ pc[r] = "idle"
             /\ pc'[r] # "insertCertificate"
             /\ \A q \in Requests : q # r => pc'[q] = pc[q] /\ loc'[q] = loc[q]
    BY <1>3, GotoMoves, FinishMoves DEF CompleteEnrollment
<1>4. ASSUME NEW e \in Requests, NEW a \in Requests, IssueCertificate(r, e, a)
      PROVE  /\ UNCHANGED <<world, attempts, certificates>>
             /\ pc[r] = "idle"
             /\ pc'[r] # "insertCertificate"
             /\ \A q \in Requests : q # r => pc'[q] = pc[q] /\ loc'[q] = loc[q]
    BY <1>4, GotoMoves, FinishMoves DEF IssueCertificate, tables
<1> QED BY <1>1, <1>2, <1>3, <1>4 DEF Arrive

(* A step that deletes neither course c nor user u.                       *)
Stays(c, u) ==
    /\ c \in liveCourses => c \in liveCourses'
    /\ u \in liveUsers => u \in liveUsers'

(* Deletions bring no key, and take a certificate or its backing only with *)
(* its course or its user.                                                 *)
LEMMA EnvironmentRows ==
    ASSUME TypeInv, Environment
    PROVE  /\ UNCHANGED <<pc, loc, arrivedCertified>>
           /\ liveUsers' \subseteq liveUsers
           /\ liveCourses' \subseteq liveCourses
           /\ certificates' = {x \in certificates : Stays(x.course, x.user)}
           /\ \A a \in attempts' : \E b \in attempts : a.id = b.id
           /\ \A a, e \in Requests, c \in Courses, u \in Users :
                  Stays(c, u) /\ Backed(a, e, c, u) => Backed(a, e, c, u)'
<1> DEFINE P ==
           /\ UNCHANGED <<pc, loc, arrivedCertified>>
           /\ liveUsers' \subseteq liveUsers
           /\ liveCourses' \subseteq liveCourses
           /\ certificates' = {x \in certificates : Stays(x.course, x.user)}
           /\ \A a \in attempts' : \E b \in attempts : a.id = b.id
           /\ \A a, e \in Requests, c \in Courses, u \in Users :
                  Stays(c, u) /\ Backed(a, e, c, u) => Backed(a, e, c, u)'
<1>1. CASE (\E c \in Courses, s \in Settings : UpdateCourse(c, s)) \/ NextDay
    BY <1>1 DEF UpdateCourse, NextDay, tables, ghosts, Backed, Stays
<1>2. ASSUME NEW d \in Courses, ArchiveCourse(d) PROVE P
    BY <1>2 DEF ArchiveCourse, ghosts, Backed, Stays, TypeInv, TypeOK, CertificateRow
<1>3. ASSUME NEW v \in Users, DeactivateUser(v) PROVE P
    <2>1. /\ UNCHANGED <<pc, loc, arrivedCertified, liveCourses>>
          /\ liveUsers' = liveUsers \ {v}
          /\ certificates' = {cert \in certificates : cert.user # v}
        BY <1>3 DEF DeactivateUser, ghosts
    <2>2. ASSUME NEW a \in attempts
          PROVE  LET b == [a EXCEPT !.user = IF @ = v THEN None ELSE @]
                 IN  /\ b \in attempts'
                     /\ b.id = a.id
                     /\ a.user # v => b = a
        <3>1. a \in AttemptRow
            BY DEF TypeInv, TypeOK
        <3> QED BY <1>3, <3>1 DEF DeactivateUser, AttemptRow
    <2>3. ASSUME NEW b \in attempts'
          PROVE  \E a \in attempts : b.id = a.id
        BY <1>3 DEF DeactivateUser, AttemptRow, TypeInv, TypeOK
    <2>4. ASSUME NEW e \in enrollments, e.user # v
          PROVE  e \in enrollments'
        <3>1. e \in EnrollmentRow
            BY DEF TypeInv, TypeOK
        <3>2. [e EXCEPT !.user = IF @ = v THEN None ELSE @] = e
            BY <2>4, <3>1 DEF EnrollmentRow
        <3> QED BY <1>3, <3>2 DEF DeactivateUser
    <2>5. ASSUME NEW a \in Requests, NEW e \in Requests, NEW c \in Courses, NEW u \in Users,
                 Stays(c, u), Backed(a, e, c, u)
          PROVE  Backed(a, e, c, u)'
        <3>1. u # v
            BY <1>3, <2>1, <2>5 DEF Stays, DeactivateUser
        <3> QED BY <3>1, <2>1, <2>2, <2>4, <2>5 DEF Backed
    <2>6. certificates' = {x \in certificates : Stays(x.course, x.user)}
        BY <1>3, <2>1 DEF DeactivateUser, Stays
    <2> QED BY <2>1, <2>3, <2>5, <2>6
<1> QED BY <1>1, <1>2, <1>3 DEF Environment

(* A step of a request never takes the backing of a certificate away.      *)
LEMMA RequestRows ==
    ASSUME TypeInv, NEW r \in Requests, Arrive(r) \/ Continue(r) \/ Abort(r)
    PROVE  /\ UNCHANGED <<liveUsers, liveCourses>>
           /\ certificates \subseteq certificates'
           /\ \A a, e, c, u : Backed(a, e, c, u) => Backed(a, e, c, u)'
<1>1. CASE ReadStep(r) \/ Abort(r)
    BY <1>1, ReadStepMoves DEF Abort, world, tables, Backed
<1>2. ASSUME NEW score \in Scores, NEW delay \in StartDelays,
             SubmitInsertAttempt(r, score, delay)
      PROVE  /\ UNCHANGED <<liveUsers, liveCourses, certificates, enrollments>>
             /\ attempts \subseteq attempts'
    BY <1>2 DEF SubmitInsertAttempt, world
<1>3. CASE IssueInsertCertificate(r)
    BY <1>3 DEF IssueInsertCertificate, world, Backed
<1>4. CASE EnrollInsert(r)
    BY <1>4 DEF EnrollInsert, world, Backed
<1>5. CASE Arrive(r)
    <2>1. UNCHANGED <<liveUsers, liveCourses, attempts, certificates>>
        BY <1>5, ArriveMoves DEF world
    <2>2. UNCHANGED enrollments \/ \E id \in Requests : CompleteEnrollment(r, id)
        BY <1>5 DEF Arrive, SubmitLoadCourse, EnrollCheck, IssueCertificate, tables
    <2>3. ASSUME NEW id \in Requests, CompleteEnrollment(r, id), NEW e \in enrollments
          PROVE  \E f \in enrollments' :
                    f.id = e.id /\ f.course = e.course /\ f.user = e.user
        <3>1. CASE e.id = id /\ e.status # "dropped"
            <4>1. e \in EnrollmentRow
                BY DEF TypeInv, TypeOK
            <4>2. Completed(e) \in enrollments'
                BY <2>3, <3>1 DEF CompleteEnrollment
            <4> QED BY <4>1, <4>2, CompletedType
        <3>2. CASE ~(e.id = id /\ e.status # "dropped")
            BY <2>3, <3>2 DEF CompleteEnrollment
        <3> QED BY <3>1, <3>2
    <2> QED BY <2>1, <2>2, <2>3 DEF Backed
<1>6. ASSUME NEW score \in Scores, NEW delay \in StartDelays,
             SubmitInsertAttempt(r, score, delay)
      PROVE  /\ UNCHANGED <<liveUsers, liveCourses>>
             /\ certificates \subseteq certificates'
             /\ \A a, e, c, u : Backed(a, e, c, u) => Backed(a, e, c, u)'
    BY <1>2, <1>6 DEF Backed
<1> QED
    BY <1>1, <1>3, <1>4, <1>5, <1>6 DEF Continue, ReadStep

LEMMA FreshKeysNext ==
    ASSUME TypeInv, FreshKeys, [Next]_vars
    PROVE  FreshKeys'
<1>1. ASSUME NEW r \in Requests, ReadStep(r)
      PROVE  FreshKeys'
    <2>1. attempts' = attempts /\ certificates' = certificates
        BY <1>1, ReadStepMoves DEF tables
    <2> QED BY <1>1, <2>1, ReadStepMoves DEF FreshKeys
<1>2. ASSUME NEW r \in Requests, NEW score \in Scores, NEW delay \in StartDelays,
             SubmitInsertAttempt(r, score, delay)
      PROVE  FreshKeys'
    <2>1. /\ pc[r] = "insertAttempt"
          /\ pc'[r] \in {"fetchAttempt", "done"}
          /\ \A q \in Requests : q # r => pc'[q] = pc[q]
        BY <1>2, GotoMoves, FinishMoves DEF SubmitInsertAttempt
    <2>2. certificates' = certificates
        BY <1>2 DEF SubmitInsertAttempt
    <2>3. \A a \in attempts' : a \in attempts \/ a.id = r
        BY <1>2 DEF SubmitInsertAttempt
    <2> QED BY <2>1, <2>2, <2>3 DEF FreshKeys, BeforeAttempt
<1>3. ASSUME NEW r \in Requests, IssueInsertCertificate(r)
      PROVE  FreshKeys'
    <2>1. /\ pc'[r] = "done"
          /\ \A q \in Requests : q # r => pc'[q] = pc[q]
        BY <1>3, FinishMoves DEF IssueInsertCertificate
    <2>2. attempts' = attempts
        BY <1>3 DEF IssueInsertCertificate
    <2>3. \A x \in certificates' : x \in certificates \/ x.id = r
        BY <1>3 DEF IssueInsertCertificate
    <2> QED BY <2>1, <2>2, <2>3 DEF FreshKeys, BeforeAttempt
<1>4. ASSUME NEW r \in Requests, EnrollInsert(r) \/ Abort(r)
      PROVE  FreshKeys'
    <2>1. attempts' = attempts /\ certificates' = certificates
        BY <1>4 DEF EnrollInsert, Abort, tables
    <2>2. /\ pc'[r] \in {"done", "aborted"}
          /\ \A q \in Requests : q # r => pc'[q] = pc[q]
        BY <1>4, FinishMoves, AbortMoves DEF EnrollInsert
    <2>3. pc[r] \notin {"done", "aborted"}
        BY <1>4 DEF EnrollInsert, Abort
    <2> QED BY <2>1, <2>2, <2>3 DEF FreshKeys, BeforeAttempt
<1>5. ASSUME NEW r \in Requests, Arrive(r)
      PROVE  FreshKeys'
    BY <1>5, ArriveMoves DEF FreshKeys, BeforeAttempt
<1>6. CASE Environment
    BY <1>6, EnvironmentRows DEF FreshKeys
<1>7. CASE UNCHANGED vars
    BY <1>7 DEF FreshKeys, vars, tables
<1> QED
    BY <1>1, <1>2, <1>3, <1>4, <1>5, <1>6, <1>7
    DEF Next, Continue, ReadStep

LEMMA ContextHoldsNext ==
    ASSUME TypeInv, ContextHolds, [Next]_vars
    PROVE  ContextHolds'
<1> DEFINE Holds(q) ==
        \/ loc[q].course \notin liveCourses
        \/ loc[q].holder \notin liveUsers
        \/ Backed(loc[q].attempt, loc[q].enrollment, loc[q].course, loc[q].holder)
<1>1. ASSUME NEW r \in Requests, Arrive(r) \/ Continue(r) \/ Abort(r),
             NEW q \in Requests, Holds(q), loc'[q] = loc[q]
      PROVE  Holds(q)'
    BY <1>1, RequestRows
<1>2. ASSUME NEW r \in Requests, IssueLoadContext(r), pc'[r] = "insertCertificate"
      PROVE  Holds(r)'
    <2>1. UNCHANGED <<world, tables>>
        BY <1>2 DEF IssueLoadContext
    <2>2. PICK e \in enrollments, a \in attempts :
              /\ e.id = loc[r].enrollment
              /\ a.id = loc[r].attempt
              /\ Issuable(e, a)
              /\ Goto(r, "insertCertificate",
                      [loc[r] EXCEPT !.course = e.course, !.holder = e.user])
        BY <1>2, FinishMoves DEF IssueLoadContext
    <2>3. loc'[r] = [loc[r] EXCEPT !.course = e.course, !.holder = e.user]
        BY <2>2, GotoMoves
    <2>4. loc[r] \in Locals
        BY DEF TypeInv, TypeOK
    <2>5. /\ loc'[r].enrollment = e.id
          /\ loc'[r].attempt = a.id
          /\ loc'[r].course = e.course
          /\ loc'[r].holder = e.user
        BY <2>2, <2>3, <2>4 DEF Locals
    <2>6. Backed(a.id, e.id, e.course, e.user)
        BY <2>2 DEF Issuable, Backed
    <2>7. Backed(a.id, e.id, e.course, e.user)'
        BY <2>1, <2>6 DEF Backed, tables
    <2> QED BY <2>5, <2>7
<1>3. ASSUME NEW r \in Requests, Arrive(r) \/ Continue(r) \/ Abort(r)
      PROVE  /\ \A q \in Requests : q # r => pc'[q] = pc[q] /\ loc'[q] = loc[q]
             /\ pc'[r] = "insertCertificate" => IssueLoadContext(r)
    <2>1. CASE Arrive(r)
        BY <2>1, ArriveMoves
    <2>2. CASE ReadStep(r)
        <3>1. pc'[r] = "insertCertificate" => pc[r] = "loadContext"
            BY <2>2, ReadStepMoves
        <3>2. pc[r] = "loadContext" => IssueLoadContext(r)
            BY <2>2 DEF ReadStep, SubmitCheckCertificate, SubmitReadWindow,
               SubmitFetchAttempt, SubmitFindEnrollment, AutoIssueCheckExisting,
               AutoIssueFindCandidate, IssueCheckPair
        <3> QED BY <2>2, <3>1, <3>2, ReadStepMoves
    <2>3. ASSUME NEW score \in Scores, NEW delay \in StartDelays,
                 SubmitInsertAttempt(r, score, delay)
          PROVE  /\ \A q \in Requests : q # r => pc'[q] = pc[q] /\ loc'[q] = loc[q]
                 /\ pc'[r] = "insertCertificate" => IssueLoadContext(r)
        BY <2>3, GotoMoves, FinishMoves DEF SubmitInsertAttempt
    <2>4. CASE IssueInsertCertificate(r) \/ EnrollInsert(r) \/ Abort(r)
        BY <2>4, FinishMoves, AbortMoves DEF IssueInsertCertificate, EnrollInsert
    <2> QED BY <1>3, <2>1, <2>2, <2>3, <2>4 DEF Continue, ReadStep
<1>4. ASSUME NEW r \in Requests, Arrive(r) \/ Continue(r) \/ Abort(r)
      PROVE  ContextHolds'
    BY <1>1, <1>2, <1>3, <1>4 DEF ContextHolds
<1>5. CASE Environment
    <2> SUFFICES ASSUME NEW q \in Requests, pc'[q] = "insertCertificate"
                 PROVE  Holds(q)'
        BY DEF ContextHolds
    <2>1. Holds(q) /\ pc[q] = "insertCertificate" /\ loc'[q] = loc[q]
        BY <1>5, EnvironmentRows DEF ContextHolds
    <2>2. /\ loc[q].attempt \in Requests
          /\ loc[q].enrollment \in Requests
          /\ loc[q].course \in Courses
          /\ loc[q].holder \in Users
        BY <2>1 DEF TypeInv, LocalsAssigned, Assigned, IssuePC
    <2>3. CASE loc[q].course \notin liveCourses' \/ loc[q].holder \notin liveUsers'
        BY <2>1, <2>3
    <2>4. CASE loc[q].course \in liveCourses' /\ loc[q].holder \in liveUsers'
        BY <1>5, <2>1, <2>2, <2>4, EnvironmentRows DEF Stays
    <2> QED BY <2>3, <2>4
<1>6. CASE UNCHANGED vars
    BY <1>6 DEF ContextHolds, Backed, vars, world, tables
<1> QED
    BY <1>4, <1>5, <1>6 DEF Next

LEMMA BackedNext ==
    ASSUME TypeInv, ContextHolds, CertificateBacked, [Next]_vars
    PROVE  CertificateBacked'
<1>1. ASSUME NEW r \in Requests, Arrive(r) \/ Continue(r) \/ Abort(r),
             ~IssueInsertCertificate(r)
      PROVE  certificates' = certificates
    BY <1>1, ArriveMoves, ReadStepMoves
    DEF Continue, ReadStep, SubmitInsertAttempt, EnrollInsert, Abort, tables
<1>2. ASSUME NEW r \in Requests, IssueInsertCertificate(r), NEW x \in certificates',
             x \notin certificates
      PROVE  Backed(x.attempt, x.enrollment, x.course, x.user)
    <2>1. /\ x = [id |-> r, enrollment |-> loc[r].enrollment,
                  attempt |-> loc[r].attempt, course |-> loc[r].course,
                  user |-> loc[r].holder]
          /\ loc[r].course \in liveCourses
          /\ loc[r].holder \in liveUsers
          /\ pc[r] = "insertCertificate"
        BY <1>2 DEF IssueInsertCertificate
    <2> QED BY <2>1 DEF ContextHolds
<1>3. ASSUME NEW r \in Requests, Arrive(r) \/ Continue(r) \/ Abort(r)
      PROVE  CertificateBacked'
    <2> SUFFICES ASSUME NEW x \in certificates'
                 PROVE  Backed(x.attempt, x.enrollment, x.course, x.user)'
        BY DEF CertificateBacked
    <2>1. Backed(x.attempt, x.enrollment, x.course, x.user)
        BY <1>1, <1>2, <1>3 DEF CertificateBacked
    <2> QED BY <1>3, <2>1, RequestRows
<1>4. CASE Environment
    <2> SUFFICES ASSUME NEW x \in certificates'
                 PROVE  Backed(x.attempt, x.enrollment, x.course, x.user)'
        BY DEF CertificateBacked
    <2>1. x \in certificates /\ Stays(x.course, x.user)
        BY <1>4, EnvironmentRows
    <2>2. /\ x.attempt \in Requests
          /\ x.enrollment \in Requests
          /\ x.course \in Courses
          /\ x.user \in Users
        BY <2>1 DEF TypeInv, TypeOK, CertificateRow
    <2> QED BY <1>4, <2>1, <2>2, EnvironmentRows DEF CertificateBacked
<1>5. CASE UNCHANGED vars
    BY <1>5 DEF CertificateBacked, Backed, vars, tables
<1> QED
    BY <1>3, <1>4, <1>5 DEF Next

LEMMA SafetyInvAlways == Spec => []SafetyInv
<1>1. Init => SafetyInv
    BY InitTypeInv DEF Init, SafetyInv, FreshKeys, ContextHolds, CertificateBacked
<1>2. SafetyInv /\ [Next]_vars => SafetyInv'
    BY TypeInvNext, FreshKeysNext, ContextHoldsNext, BackedNext DEF SafetyInv
<1> QED BY <1>1, <1>2, PTL DEF Spec

(* A certificate never outlives, and is never issued without, the passed   *)
(* attempt and the enrollment it names, however requests, deletions and    *)
(* aborted requests interleave.                                            *)
THEOREM CertificatesAreBacked == Spec => []CertificateBacked
<1>1. SafetyInv => CertificateBacked
    BY DEF SafetyInv
<1> QED BY <1>1, SafetyInvAlways, PTL

-----------------------------------------------------------------------------
(* The quiz is closed once its certificate is issued.                      *)

LateSubmitInv == TypeInv /\ FreshKeys /\ LateSubmits

(* The learner holds the certificate until the course or the learner goes. *)
LEMMA CertificateStays ==
    ASSUME TypeInv, [Next]_vars, NEW c \in Courses, NEW u \in Users,
           HasCertificate(c, u)
    PROVE  HasCertificate(c, u)' \/ c \notin liveCourses' \/ u \notin liveUsers'
<1>1. ASSUME NEW r \in Requests, Arrive(r) \/ Continue(r) \/ Abort(r)
      PROVE  HasCertificate(c, u)'
    BY <1>1, RequestRows DEF HasCertificate
<1>2. CASE Environment
    BY <1>2, EnvironmentRows DEF HasCertificate, Stays
<1>3. CASE UNCHANGED vars
    BY <1>3 DEF HasCertificate, vars, tables
<1> QED BY <1>1, <1>2, <1>3 DEF Next

(* The state of another request is not touched, and it stays late.         *)
LEMMA LateSubmitKept ==
    ASSUME TypeInv, FreshKeys, [Next]_vars, NEW q \in Requests, LateSubmit(q),
           pc'[q] = pc[q], loc'[q] = loc[q]
    PROVE  LateSubmit(q)'
<1>1. \A a \in attempts' : a.id # q
    <2>1. ASSUME NEW r \in Requests, NEW score \in Scores, NEW delay \in StartDelays,
                 SubmitInsertAttempt(r, score, delay)
          PROVE  \A a \in attempts' : a.id # q
        <3>1. pc[r] = "insertAttempt" /\ pc'[r] # "insertAttempt"
            BY <2>1, GotoMoves, FinishMoves DEF SubmitInsertAttempt
        <3>2. r # q
            BY <3>1
        <3> QED BY <2>1, <3>2 DEF SubmitInsertAttempt, LateSubmit, Ended
    <2>2. ASSUME NEW r \in Requests, Arrive(r) \/ Continue(r) \/ Abort(r)
          PROVE  \A a \in attempts' : a.id # q
        <3>1. CASE attempts' = attempts
            BY <3>1 DEF LateSubmit, Ended
        <3>2. CASE ReadStep(r) \/ Arrive(r) \/ Abort(r) \/ EnrollInsert(r)
                   \/ IssueInsertCertificate(r)
            <4>1. attempts' = attempts
                BY <3>2, ReadStepMoves, ArriveMoves
                DEF Abort, EnrollInsert, IssueInsertCertificate, tables
            <4> QED BY <3>1, <4>1
        <3> QED BY <2>1, <2>2, <3>2 DEF Continue, ReadStep
    <2>3. CASE Environment
        BY <2>3, EnvironmentRows DEF LateSubmit, Ended
    <2>4. CASE UNCHANGED vars
        BY <2>4 DEF LateSubmit, Ended, vars, tables
    <2> QED BY <2>2, <2>3, <2>4 DEF Next
<1>2. pc[q] \notin Ended => loc[q].course \in Courses /\ loc[q].user \in Users
    BY DEF LateSubmit, Ended, TypeInv, LocalsAssigned, Assigned, SubmitPC
<1>3. liveUsers' \subseteq liveUsers /\ liveCourses' \subseteq liveCourses
    <2>1. CASE UNCHANGED vars
        BY <2>1 DEF vars, world
    <2> QED BY <2>1, RequestRows, EnvironmentRows DEF Next
<1> QED
    BY <1>1, <1>2, <1>3, CertificateStays DEF LateSubmit, Ended

LEMMA LateSubmitsNext ==
    ASSUME TypeInv, FreshKeys, LateSubmits, [Next]_vars
    PROVE  LateSubmits'
<1>1. ASSUME NEW r \in Requests, NEW c \in Courses, NEW u \in Users,
             SubmitLoadCourse(r, c, u), HasCertificate(c, u)
      PROVE  LateSubmit(r)'
    <2>1. /\ pc[r] = "idle"
          /\ UNCHANGED <<world, tables>>
        BY <1>1 DEF SubmitLoadCourse, MaySend
    <2>2. \A a \in attempts' : a.id # r
        BY <2>1 DEF FreshKeys, BeforeAttempt, tables
    <2>3. HasCertificate(c, u)'
        BY <1>1, <2>1 DEF HasCertificate, tables
    <2>4. CASE c \in liveCourses
        <3>1. /\ pc'[r] = "checkCertificate"
              /\ loc'[r] = [NoLocals EXCEPT !.user = u, !.course = c, !.settings = saved[c]]
            BY <1>1, <2>4, GotoMoves DEF SubmitLoadCourse
        <3>2. loc'[r].course = c /\ loc'[r].user = u
            BY <3>1 DEF NoLocals
        <3> QED BY <2>2, <2>3, <3>1, <3>2 DEF LateSubmit, Ended
    <2>5. CASE c \notin liveCourses
        BY <1>1, <2>2, <2>5, FinishMoves DEF SubmitLoadCourse, LateSubmit, Ended
    <2> QED BY <2>4, <2>5
<1>2. ASSUME NEW r \in Requests, Continue(r) \/ Abort(r), LateSubmit(r)
      PROVE  LateSubmit(r)'
    <2>1. pc[r] \in {"checkCertificate", "readWindow", "insertAttempt"} \cup Ended
        BY <1>2 DEF LateSubmit, Ended
    <2>2. CASE SubmitCheckCertificate(r)
        <3>1. attempts' = attempts /\ UNCHANGED world
            BY <2>2 DEF SubmitCheckCertificate, tables
        <3>2. CASE HasCertificate(loc[r].course, loc[r].user)
            BY <1>2, <2>2, <3>1, <3>2, FinishMoves DEF SubmitCheckCertificate, LateSubmit, Ended
        <3>3. CASE ~HasCertificate(loc[r].course, loc[r].user)
            <4>1. pc'[r] = "readWindow" /\ loc'[r] = loc[r]
                BY <2>2, <3>3, GotoMoves DEF SubmitCheckCertificate
            <4>2. pc[r] = "checkCertificate"
                BY <2>2 DEF SubmitCheckCertificate
            <4> QED BY <1>2, <3>1, <3>3, <4>1, <4>2 DEF LateSubmit, Ended, world
        <3> QED BY <3>2, <3>3
    <2>3. CASE SubmitReadWindow(r)
        <3>1. /\ pc[r] = "readWindow"
              /\ UNCHANGED <<world, tables>>
            BY <2>3 DEF SubmitReadWindow
        <3>2. \/ pc'[r] = "done"
              \/ /\ pc'[r] = "insertAttempt"
                 /\ loc'[r] = [loc[r] EXCEPT !.finishedAt = today]
            BY <2>3, GotoMoves, FinishMoves DEF SubmitReadWindow
        <3>3. loc[r] \in Locals
            BY DEF TypeInv, TypeOK
        <3>4. pc'[r] = "done" \/ /\ pc'[r] = "insertAttempt"
                                 /\ loc'[r].course = loc[r].course
                                 /\ loc'[r].user = loc[r].user
            BY <3>2, <3>3 DEF Locals
        <3> QED BY <1>2, <3>1, <3>4 DEF LateSubmit, Ended, world, tables
    <2>4. ASSUME NEW score \in Scores, NEW delay \in StartDelays,
                 SubmitInsertAttempt(r, score, delay)
          PROVE  LateSubmit(r)'
        <3>1. pc[r] = "insertAttempt"
            BY <2>4 DEF SubmitInsertAttempt
        <3>2. ~(loc[r].course \in liveCourses /\ loc[r].user \in liveUsers)
            BY <1>2, <3>1 DEF LateSubmit, Ended
        <3>3. attempts' = attempts /\ Finish(r)
            BY <2>4, <3>2 DEF SubmitInsertAttempt
        <3> QED BY <1>2, <3>3, FinishMoves DEF LateSubmit, Ended
    <2>5. CASE Abort(r)
        BY <1>2, <2>5, AbortMoves DEF Abort, LateSubmit, Ended, tables
    <2> QED
        BY <1>2, <2>1, <2>2, <2>3, <2>4, <2>5
        DEF Continue, SubmitFetchAttempt, SubmitFindEnrollment, AutoIssueCheckExisting,
            AutoIssueFindCandidate, IssueCheckPair, IssueLoadContext,
            IssueInsertCertificate, EnrollInsert, Ended
<1>3. ASSUME NEW r \in Requests, Arrive(r)
      PROVE  LateSubmits'
    <2>1. r \notin arrivedCertified
        BY <1>3, ArriveMoves DEF LateSubmits, LateSubmit, Ended
    <2>2. ASSUME NEW q \in arrivedCertified
          PROVE  LateSubmit(q)'
        <3>1. q \in Requests /\ q # r
            BY <2>1 DEF TypeInv, TypeOK
        <3> QED BY <1>3, <3>1, ArriveMoves, LateSubmitKept DEF LateSubmits
    <2>3. CASE arrivedCertified' = arrivedCertified
        BY <2>2, <2>3 DEF LateSubmits
    <2>4. ASSUME NEW c \in Courses, NEW u \in Users, SubmitLoadCourse(r, c, u)
          PROVE  LateSubmits'
        BY <1>1, <2>2, <2>3, <2>4 DEF LateSubmits, SubmitLoadCourse
    <2> QED
        BY <1>3, <2>3, <2>4
        DEF Arrive, EnrollCheck, CompleteEnrollment, IssueCertificate, ghosts
<1>4. ASSUME NEW r \in Requests, Continue(r) \/ Abort(r)
      PROVE  LateSubmits'
    <2>1. arrivedCertified' = arrivedCertified
        BY <1>4, ReadStepMoves
        DEF Continue, ReadStep, SubmitInsertAttempt, IssueInsertCertificate,
            EnrollInsert, Abort, ghosts
    <2>2. \A q \in Requests : q # r => pc'[q] = pc[q] /\ loc'[q] = loc[q]
        BY <1>4, ReadStepMoves, GotoMoves, FinishMoves
        DEF Continue, ReadStep, SubmitInsertAttempt, IssueInsertCertificate,
            EnrollInsert, Abort
    <2>3. arrivedCertified \subseteq Requests
        BY DEF TypeInv, TypeOK
    <2> QED BY <1>2, <1>4, <2>1, <2>2, <2>3, LateSubmitKept DEF LateSubmits
<1>5. CASE Environment \/ UNCHANGED vars
    <2>1. UNCHANGED <<pc, loc, arrivedCertified>>
        BY <1>5, EnvironmentRows DEF vars, ghosts
    <2>2. arrivedCertified \subseteq Requests
        BY DEF TypeInv, TypeOK
    <2> QED BY <2>1, <2>2, LateSubmitKept DEF LateSubmits
<1> QED
    BY <1>3, <1>4, <1>5 DEF Next

(* A submission that arrives after the certificate was issued is never     *)
(* stored as an attempt, even when the course or the learner is deleted    *)
(* while it runs and the certificate it should find is gone.               *)
THEOREM QuizClosedOnceCertified == Spec => []ClosedOnceCertified
<1>1. Init => LateSubmitInv
    BY InitTypeInv DEF Init, LateSubmitInv, FreshKeys, LateSubmits
<1>2. LateSubmitInv /\ [Next]_vars => LateSubmitInv'
    BY TypeInvNext, FreshKeysNext, LateSubmitsNext DEF LateSubmitInv
<1>3. LateSubmitInv => ClosedOnceCertified
    BY DEF LateSubmitInv, LateSubmits, LateSubmit, Ended, ClosedOnceCertified
<1> QED BY <1>1, <1>2, <1>3, PTL DEF Spec

-----------------------------------------------------------------------------
(* The tables implement the register.                                      *)

RegistryUnchanged == UNCHANGED <<PassedTests, IssuedCertificates>>

LEMMA TablesUnchanged ==
    ASSUME attempts' = attempts, certificates' = certificates
    PROVE  RegistryUnchanged
BY DEF RegistryUnchanged, PassedTests, IssuedCertificates

LEMMA StoredAttemptIsPass ==
    ASSUME SafetyInv, NEW r \in Requests, NEW score \in Scores, NEW delay \in StartDelays,
           SubmitInsertAttempt(r, score, delay)
    PROVE  Registry!RegistryNext \/ RegistryUnchanged
<1> DEFINE row == [id |-> r, course |-> loc[r].course, user |-> loc[r].user,
                   startedAt |-> loc[r].finishedAt - delay,
                   finishedAt |-> loc[r].finishedAt, score |-> score,
                   passed |-> score >= EffectivePassingPercent(loc[r].settings)]
           t == [id |-> r, course |-> loc[r].course, user |-> loc[r].user]
<1>1. certificates' = certificates
    BY DEF SubmitInsertAttempt
<1>2. attempts' = attempts \/ attempts' = attempts \cup {row}
    BY DEF SubmitInsertAttempt
<1>3. CASE attempts' = attempts
    BY <1>1, <1>3, TablesUnchanged
<1>4. CASE attempts' = attempts \cup {row}
    <2>1. pc[r] = "insertAttempt"
        BY DEF SubmitInsertAttempt
    <2>2. loc[r].course \in Courses /\ loc[r].user \in Users
        BY <2>1 DEF SafetyInv, TypeInv, LocalsAssigned, Assigned, SubmitPC
    <2>3. loc[r].user # None
        BY <2>2, NoneAssumption
    <2>4. IssuedCertificates' = IssuedCertificates
        BY <1>1 DEF IssuedCertificates
    <2>5. row.id = r /\ row.course = loc[r].course /\ row.user = loc[r].user
        OBVIOUS
    <2> HIDE DEF row
    <2>6. CASE row.passed
        <3>1. PassedTests' = PassedTests \cup {t}
            BY <1>4, <2>3, <2>5, <2>6 DEF PassedTests
        <3>2. \A p \in PassedTests : p.id # t.id
            BY <2>1 DEF SafetyInv, FreshKeys, BeforeAttempt, PassedTests
        <3>3. t \in Registry!Test
            BY <2>2 DEF Registry!Test
        <3>4. Registry!Pass(t)
            BY <2>4, <3>1, <3>2 DEF Registry!Pass
        <3> QED BY <3>3, <3>4 DEF Registry!RegistryNext
    <2>7. CASE ~row.passed
        <3>1. PassedTests' = PassedTests
            BY <1>4, <2>7 DEF PassedTests
        <3> QED BY <2>4, <3>1 DEF RegistryUnchanged
    <2> QED BY <2>6, <2>7
<1> QED BY <1>2, <1>3, <1>4

LEMMA InsertedCertificateIsIssue ==
    ASSUME SafetyInv, NEW r \in Requests, IssueInsertCertificate(r)
    PROVE  Registry!RegistryNext \/ RegistryUnchanged
<1> DEFINE row == [id |-> r, enrollment |-> loc[r].enrollment,
                   attempt |-> loc[r].attempt, course |-> loc[r].course,
                   user |-> loc[r].holder]
           t == [id |-> loc[r].attempt, course |-> loc[r].course, user |-> loc[r].holder]
<1>1. attempts' = attempts
    BY DEF IssueInsertCertificate
<1>2. CASE certificates' = certificates
    BY <1>1, <1>2, TablesUnchanged
<1>3. CASE certificates' # certificates
    <2>1. /\ pc[r] = "insertCertificate"
          /\ certificates' = certificates \cup {row}
          /\ loc[r].course \in liveCourses
          /\ loc[r].holder \in liveUsers
        BY <1>3 DEF IssueInsertCertificate
    <2>2. Backed(loc[r].attempt, loc[r].enrollment, loc[r].course, loc[r].holder)
        BY <2>1 DEF SafetyInv, ContextHolds
    <2>3. /\ loc[r].attempt \in Requests
          /\ loc[r].course \in Courses
          /\ loc[r].holder \in Users
        BY <2>1 DEF SafetyInv, TypeInv, LocalsAssigned, Assigned, IssuePC
    <2>4. t \in Registry!Test
        BY <2>3 DEF Registry!Test
    <2>5. t \in PassedTests
        BY <2>2, <2>3, NoneAssumption DEF Backed, PassedTests
    <2>6. \A i \in IssuedCertificates : i.id # r
        BY <2>1 DEF SafetyInv, FreshKeys, IssuedCertificates
    <2>7. IssuedCertificates' = IssuedCertificates \cup {[id |-> r, test |-> t]}
        <3>1. /\ row.id = r
              /\ row.attempt = loc[r].attempt
              /\ row.course = loc[r].course
              /\ row.user = loc[r].holder
            OBVIOUS
        <3> HIDE DEF row
        <3> QED BY <2>1, <3>1 DEF IssuedCertificates
    <2>8. PassedTests' = PassedTests
        BY <1>1 DEF PassedTests
    <2>9. Registry!Issue(r, t)
        BY <2>5, <2>6, <2>7, <2>8 DEF Registry!Issue
    <2> QED BY <2>4, <2>9 DEF Registry!RegistryNext
<1> QED BY <1>2, <1>3

LEMMA DeletedCourseIsDrop ==
    ASSUME SafetyInv, NEW c \in Courses, ArchiveCourse(c)
    PROVE  Registry!RegistryNext
<1>1. PassedTests' = {t \in PassedTests : t.course # c}
    BY DEF ArchiveCourse, PassedTests
<1>2. IssuedCertificates' = {i \in IssuedCertificates : i.test.course # c}
    BY DEF ArchiveCourse, IssuedCertificates
<1> QED
    BY <1>1, <1>2 DEF Registry!RegistryNext, Registry!DropCourse

LEMMA DeletedUserIsDrop ==
    ASSUME SafetyInv, NEW u \in Users, DeactivateUser(u)
    PROVE  Registry!RegistryNext
<1> DEFINE cleared(a) == [a EXCEPT !.user = IF @ = u THEN None ELSE @]
<1>1. ASSUME NEW a \in attempts
      PROVE  /\ a.user = u => cleared(a).user = None
             /\ a.user # u => cleared(a) = a
    <2>1. a \in AttemptRow
        BY DEF SafetyInv, TypeInv, TypeOK
    <2> QED BY <2>1 DEF AttemptRow
<1>2. attempts' = {cleared(a) : a \in attempts}
    BY DEF DeactivateUser
<1> HIDE DEF cleared
<1>3. PassedTests' = {t \in PassedTests : t.user # u}
    <2>1. ASSUME NEW t \in PassedTests'
          PROVE  t \in PassedTests /\ t.user # u
        BY <1>1, <1>2 DEF PassedTests
    <2>2. ASSUME NEW t \in PassedTests, t.user # u
          PROVE  t \in PassedTests'
        BY <1>1, <1>2, <2>2 DEF PassedTests
    <2> QED BY <2>1, <2>2
<1>4. IssuedCertificates' = {i \in IssuedCertificates : i.test.user # u}
    BY DEF DeactivateUser, IssuedCertificates
<1> QED
    BY <1>3, <1>4 DEF Registry!RegistryNext, Registry!DropUser

(* Every step of the tables is a step of the register or leaves it alone.  *)
LEMMA RegistryStep ==
    ASSUME SafetyInv, [Next]_vars
    PROVE  Registry!RegistryNext \/ RegistryUnchanged
<1>1. ASSUME NEW r \in Requests, Arrive(r) \/ ReadStep(r) \/ EnrollInsert(r) \/ Abort(r)
      PROVE  RegistryUnchanged
    <2>1. attempts' = attempts /\ certificates' = certificates
        BY <1>1, ArriveMoves, ReadStepMoves DEF SafetyInv, EnrollInsert, Abort, tables
    <2> QED BY <2>1, TablesUnchanged
<1>2. CASE (\E c \in Courses, s \in Settings : UpdateCourse(c, s)) \/ NextDay \/ UNCHANGED vars
    <2>1. attempts' = attempts /\ certificates' = certificates
        BY <1>2 DEF UpdateCourse, NextDay, vars, tables
    <2> QED BY <2>1, TablesUnchanged
<1>3. CASE Environment
    BY <1>2, <1>3, DeletedCourseIsDrop, DeletedUserIsDrop DEF Environment
<1>4. ASSUME NEW r \in Requests, Continue(r)
      PROVE  Registry!RegistryNext \/ RegistryUnchanged
    BY <1>1, <1>4, StoredAttemptIsPass, InsertedCertificateIsIssue DEF Continue, ReadStep
<1> QED
    BY <1>1, <1>2, <1>3, <1>4 DEF Next

(* Seen through its tables, certification is the register: a certificate   *)
(* is entered for a passed test that is there at that moment, entries      *)
(* never change, and they leave only with their course or their user.      *)
THEOREM TablesImplementRegistry == Spec => ImplementsRegistry
<1>1. Init => Registry!RegistryInit
    BY DEF Init, Registry!RegistryInit, PassedTests, IssuedCertificates
<1>2. SafetyInv /\ [Next]_vars
        => [Registry!RegistryNext]_<<PassedTests, IssuedCertificates>>
    BY RegistryStep DEF RegistryUnchanged
<1> QED
    BY <1>1, <1>2, SafetyInvAlways, PTL DEF Spec, ImplementsRegistry, Registry!RegistrySpec

=============================================================================

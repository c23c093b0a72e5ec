---------------------------- MODULE Certification ----------------------------
(***************************************************************************)
(* From a submitted quiz to a certificate: the use cases AttemptUseCase,   *)
(* EnrollmentUseCase and CertificateUseCase over the PostgreSQL tables     *)
(* courses, users, enrollments, attempts and certificates.                 *)
(*                                                                         *)
(* No transaction spans two statements of these use cases, so a request is *)
(* a process whose steps are its SQL statements: between any two of them   *)
(* other requests run, an administrator changes or deletes a course, a     *)
(* user is deleted, or the request itself is cut short (Abort).  What a    *)
(* request has read is kept in loc and may be stale when it is used.       *)
(*                                                                         *)
(* Audit rows are left to the outbox model: no statement here reads them.  *)
(***************************************************************************)
EXTENDS Integers, FiniteSets

CONSTANTS
    Requests,       \* HTTP requests the API serves; each is served once
    Courses, Users, \* primary keys of the rows of courses and users
    Settings,       \* the quiz settings an administrator may save
    Scores,         \* score_percent values that graded sheets can reach
    StartDelays,    \* days from the start a client reports to the finish;
                    \* negative for a start that is still to come
    LastDay,        \* bound: the calendar ends here
    MaxUpdates,     \* bound: how often a course is saved again
    SerialClients,  \* TRUE: a learner waits for the answer before the next request
    None            \* SQL NULL, and a local variable without a value

QuizSettings == [maxAttempts : Int, cooldownDays : Int, passPercent : Int,
                 certificateEnabled : BOOLEAN]

ASSUME SettingsAssumption == Settings \subseteq QuizSettings
ASSUME ScoresAssumption == Scores \subseteq 0..100
ASSUME DaysAssumption == /\ LastDay \in Nat
                         /\ MaxUpdates \in Nat
                         /\ StartDelays \subseteq Int
ASSUME NoneAssumption == /\ None \notin Users \cup Courses \cup Requests
                         /\ None \notin Int
                         /\ None \notin QuizSettings
ASSUME SerialAssumption == SerialClients \in BOOLEAN

VARIABLES
    today,          \* the day time.Now() falls on
    liveUsers,      \* rows of users
    liveCourses,    \* rows of courses
    saved,          \* saved[c]: the settings in the row of course c
    updates,        \* how often a course has been saved again
    enrollments,    \* rows of enrollments
    attempts,       \* rows of attempts
    certificates,   \* rows of certificates
    pc,             \* pc[r]: the statement request r executes next
    loc,            \* loc[r]: the local variables of request r
    (* Kept for the properties only; no action reads them. *)
    arrivedCertified,   \* submits that arrived when a certificate existed
    promised        \* promised[c][u]: the unlock day last told to u about c

tables == <<enrollments, attempts, certificates>>
world  == <<today, liveUsers, liveCourses, saved, updates>>
ghosts == <<arrivedCertified, promised>>
vars   == <<world, tables, pc, loc, ghosts>>

-----------------------------------------------------------------------------
(* The rows.  The primary key of a row is the request that inserted it:    *)
(* a request inserts at most one row into each table.                      *)

EnrollmentStatus == {"active", "completed", "dropped"}

EnrollmentRow == [id : Requests, course : Courses, user : Users \cup {None},
                  status : EnrollmentStatus, enrolledAt : Int,
                  completedAt : Int \cup {None}]

AttemptRow == [id : Requests, course : Courses, user : Users \cup {None},
               startedAt : Int, finishedAt : Int, score : Int, passed : BOOLEAN]

CertificateRow == [id : Requests, enrollment : Requests, attempt : Requests,
                   course : Courses, user : Users]

(* Local variables: the learner and the course of the request, the course  *)
(* settings it has loaded, its finish time, the enrollment and the attempt *)
(* a certificate is issued for, and the holder that certificate will name. *)
Locals == [user : Users \cup {None}, course : Courses \cup {None},
           settings : QuizSettings \cup {None}, finishedAt : Int \cup {None},
           enrollment : Requests \cup {None}, attempt : Requests \cup {None},
           holder : Users \cup {None}]

NoLocals == [user |-> None, course |-> None, settings |-> None,
             finishedAt |-> None, enrollment |-> None, attempt |-> None,
             holder |-> None]

IssuePC == {"checkExisting", "findCandidate", "checkPair", "loadContext",
            "insertCertificate"}
SubmitPC == {"checkCertificate", "readWindow", "insertAttempt",
             "fetchAttempt", "findEnrollment"}
PC == {"idle", "insertEnrollment", "done", "aborted"} \cup SubmitPC \cup IssuePC

TypeOK ==
    /\ today \in Nat
    /\ liveUsers \subseteq Users
    /\ liveCourses \subseteq Courses
    /\ saved \in [Courses -> QuizSettings]
    /\ updates \in Nat
    /\ enrollments \subseteq EnrollmentRow
    /\ attempts \subseteq AttemptRow
    /\ certificates \subseteq CertificateRow
    /\ pc \in [Requests -> PC]
    /\ loc \in [Requests -> Locals]
    /\ arrivedCertified \subseteq Requests
    /\ promised \in [Courses -> [Users -> Int \cup {None}]]

Init ==
    /\ today = 0
    /\ liveUsers = Users
    /\ liveCourses = Courses
    /\ saved \in [Courses -> Settings]
    /\ updates = 0
    /\ enrollments = {}
    /\ attempts = {}
    /\ certificates = {}
    /\ pc = [r \in Requests |-> "idle"]
    /\ loc = [r \in Requests |-> NoLocals]
    /\ arrivedCertified = {}
    /\ promised = [c \in Courses |-> [u \in Users |-> None]]

-----------------------------------------------------------------------------
(* The queries and the pure helpers of the use cases.                      *)

HasCertificate(c, u) ==
    \E cert \in certificates : cert.course = c /\ cert.user = u

(* Mutant of HasEnrollment: a completed enrollment is forgotten.           *)
HasActiveEnrollment(c, u) ==
    \E e \in enrollments : e.course = c /\ e.user = u /\ e.status = "active"

HasEnrollment(c, u) ==
    \E e \in enrollments : /\ e.course = c
                           /\ e.user = u
                           /\ e.status \in {"active", "completed"}

(* Mutant of AttemptWindow: no cooldown leaves nothing to count.           *)
CooldownAlways(c, u, now, cooldownDays) ==
    {a \in attempts : a.course = c /\ a.user = u /\ a.startedAt > now - cooldownDays}

(* A non-positive cooldown means no lower bound: every attempt counts.     *)
AttemptWindow(c, u, now, cooldownDays) ==
    {a \in attempts : /\ a.course = c
                      /\ a.user = u
                      /\ cooldownDays > 0 => a.startedAt > now - cooldownDays}

EffectiveMaxAttempts(s) == IF s.maxAttempts <= 0 THEN 3 ELSE s.maxAttempts

EffectivePassingPercent(s) == IF s.passPercent > 0 THEN s.passPercent ELSE 80

(* Mutant of LatestEnrollments: completed enrollments are left out.        *)
LatestActiveEnrollments(c, u) ==
    {e \in enrollments : e.course = c /\ e.user = u /\ e.status = "active"}

(* GetLatestByCourseAndUser: ORDER BY enrolled_at DESC LIMIT 1.            *)
LatestEnrollments(c, u) ==
    LET open == {e \in enrollments : /\ e.course = c
                                     /\ e.user = u
                                     /\ e.status \in {"active", "completed"}}
    IN  {e \in open : \A f \in open : f.enrolledAt <= e.enrolledAt}

(* The order of FindAutoIssueCandidate: best score, then latest.           *)
Better(a, b) ==
    \/ a.score > b.score
    \/ a.score = b.score /\ a.finishedAt > b.finishedAt
    \/ /\ a.score = b.score
       /\ a.finishedAt = b.finishedAt
       /\ a.startedAt > b.startedAt

PassedAttempts(e) ==
    {a \in attempts : /\ e.user # None
                      /\ a.user = e.user
                      /\ a.course = e.course
                      /\ a.passed}

AutoIssueCandidates(e) ==
    {a \in PassedAttempts(e) : \A b \in PassedAttempts(e) : ~Better(b, a)}

-----------------------------------------------------------------------------
(* Control flow of a request.                                              *)

Goto(r, next, locals) ==
    /\ pc' = [pc EXCEPT ![r] = next]
    /\ loc' = [loc EXCEPT ![r] = locals]

(* The request is answered, with or without an error.                      *)
Finish(r) == Goto(r, "done", NoLocals)

(* A learner sends its requests one after the other, if clients are serial. *)
MaySend(r, u) ==
    /\ pc[r] = "idle"
    /\ SerialClients => \A q \in Requests : loc[q].user # u

-----------------------------------------------------------------------------
(* POST /courses/{id}/attempts: AttemptUseCase.Submit                      *)

SubmitLoadCourse(r, c, u) ==
    /\ MaySend(r, u)
    /\ IF c \in liveCourses
       THEN Goto(r, "checkCertificate",
                 [NoLocals EXCEPT !.user = u, !.course = c, !.settings = saved[c]])
       ELSE Finish(r)
    /\ arrivedCertified' = IF HasCertificate(c, u) THEN arrivedCertified \cup {r}
                                                   ELSE arrivedCertified
    /\ UNCHANGED <<world, tables, promised>>

(* Mutant of SubmitCheckCertificate: the check is gone.                    *)
SubmitUnchecked(r) ==
    /\ pc[r] = "checkCertificate"
    /\ Goto(r, "readWindow", loc[r])
    /\ UNCHANGED <<world, tables, ghosts>>

SubmitCheckCertificate(r) ==
    /\ pc[r] = "checkCertificate"
    /\ IF HasCertificate(loc[r].course, loc[r].user)
       THEN Finish(r)
       ELSE Goto(r, "readWindow", loc[r])
    /\ UNCHANGED <<world, tables, ghosts>>

(* The attempts MIN(started_at) comes from.                                *)
Earliest(window) == {a \in window : \A b \in window : a.startedAt <= b.startedAt}

(* Mutant of SubmitReadWindow: one attempt too many gets through.          *)
SubmitReadWindowOffByOne(r) ==
    LET s == loc[r].settings
        window == AttemptWindow(loc[r].course, loc[r].user, today, s.cooldownDays)
    IN  /\ pc[r] = "readWindow"
        /\ IF Cardinality(window) > EffectiveMaxAttempts(s)
           THEN Finish(r)
           ELSE Goto(r, "insertAttempt", [loc[r] EXCEPT !.finishedAt = today])
        /\ UNCHANGED <<world, tables, ghosts>>

(* Mutant of SubmitReadWindow: the cooldown is not added to the start.     *)
SubmitReadWindowTooEarly(r) ==
    LET s == loc[r].settings
        window == AttemptWindow(loc[r].course, loc[r].user, today, s.cooldownDays)
    IN  /\ pc[r] = "readWindow"
        /\ IF Cardinality(window) >= EffectiveMaxAttempts(s)
           THEN /\ Finish(r)
                /\ \E a \in Earliest(window) :
                     promised' = [promised EXCEPT ![loc[r].course][loc[r].user] = a.startedAt]
           ELSE /\ Goto(r, "insertAttempt", [loc[r] EXCEPT !.finishedAt = today])
                /\ UNCHANGED promised
        /\ UNCHANGED <<world, tables, arrivedCertified>>

(* At the limit the learner is told the day its earliest attempt leaves    *)
(* the window, or no day at all when the cooldown is not positive.         *)
SubmitReadWindow(r) ==
    LET s == loc[r].settings
        window == AttemptWindow(loc[r].course, loc[r].user, today, s.cooldownDays)
        Promise(day) == promised' = [promised EXCEPT ![loc[r].course][loc[r].user] = day]
    IN  /\ pc[r] = "readWindow"
        /\ IF Cardinality(window) >= EffectiveMaxAttempts(s)
           THEN /\ Finish(r)
                /\ \/ /\ s.cooldownDays > 0
                      /\ \E a \in Earliest(window) :
                           Promise(a.startedAt + s.cooldownDays)
                   \/ /\ s.cooldownDays <= 0 \/ window = {}
                      /\ Promise(None)
           ELSE /\ Goto(r, "insertAttempt", [loc[r] EXCEPT !.finishedAt = today])
                /\ UNCHANGED promised
        /\ UNCHANGED <<world, tables, arrivedCertified>>

(* The score is what the answers earn over the loaded questions; the start *)
(* is whatever the client says, or the finish time when it says nothing    *)
(* (delay 0).  The foreign keys refuse a row of a deleted course or user.  *)
SubmitInsertAttempt(r, score, delay) ==
    LET s == loc[r].settings
        row == [id |-> r, course |-> loc[r].course, user |-> loc[r].user,
                startedAt |-> loc[r].finishedAt - delay,
                finishedAt |-> loc[r].finishedAt, score |-> score,
                passed |-> score >= EffectivePassingPercent(s)]
    IN  /\ pc[r] = "insertAttempt"
        /\ IF loc[r].course \in liveCourses /\ loc[r].user \in liveUsers
           THEN /\ attempts' = attempts \cup {row}
                /\ promised' = [promised EXCEPT ![loc[r].course][loc[r].user] = None]
                /\ Goto(r, "fetchAttempt", loc[r])
           ELSE /\ Finish(r)
                /\ UNCHANGED <<attempts, promised>>
        /\ UNCHANGED <<world, enrollments, certificates, arrivedCertified>>

(* CreateAttempt reads its row back; only a passed attempt that still has  *)
(* its user goes on to the automatic certificate.                          *)
SubmitFetchAttempt(r) ==
    /\ pc[r] = "fetchAttempt"
    /\ IF \E a \in attempts : a.id = r /\ a.passed /\ a.user # None
       THEN Goto(r, "findEnrollment", loc[r])
       ELSE Finish(r)
    /\ UNCHANGED <<world, tables, ghosts>>

SubmitFindEnrollment(r) ==
    LET latest == LatestEnrollments(loc[r].course, loc[r].user)
    IN  /\ pc[r] = "findEnrollment"
        /\ \/ /\ latest = {}
              /\ Finish(r)
           \/ \E e \in latest :
                Goto(r, "checkExisting", [loc[r] EXCEPT !.enrollment = e.id])
        /\ UNCHANGED <<world, tables, ghosts>>

-----------------------------------------------------------------------------
(* CertificateUseCase.TryAutoIssueForEnrollment, run by Submit and Complete *)

AutoIssueCheckExisting(r) ==
    /\ pc[r] = "checkExisting"
    /\ IF \E cert \in certificates : cert.enrollment = loc[r].enrollment
       THEN Finish(r)
       ELSE Goto(r, "findCandidate", loc[r])
    /\ UNCHANGED <<world, tables, ghosts>>

AutoIssueFindCandidate(r) ==
    /\ pc[r] = "findCandidate"
    /\ \/ \E e \in enrollments :
            /\ e.id = loc[r].enrollment
            /\ saved[e.course].certificateEnabled
            /\ \E a \in AutoIssueCandidates(e) :
                 Goto(r, "checkPair", [loc[r] EXCEPT !.attempt = a.id])
       \/ /\ \A e \in enrollments :
               e.id = loc[r].enrollment =>
                 ~saved[e.course].certificateEnabled \/ PassedAttempts(e) = {}
          /\ Finish(r)
    /\ UNCHANGED <<world, tables, ghosts>>

-----------------------------------------------------------------------------
(* CertificateUseCase.Create, run by the automatic issue and by the        *)
(* administrator's POST /certificates.                                     *)

PairExists(e, a) ==
    \E cert \in certificates : cert.enrollment = e /\ cert.attempt = a

IssueCheckPair(r) ==
    /\ pc[r] = "checkPair"
    /\ IF PairExists(loc[r].enrollment, loc[r].attempt)
       THEN Finish(r)
       ELSE Goto(r, "loadContext", loc[r])
    /\ UNCHANGED <<world, tables, ghosts>>

IssueCertificate(r, e, a) ==
    /\ pc[r] = "idle"
    /\ IF PairExists(e, a)
       THEN Finish(r)
       ELSE Goto(r, "loadContext", [NoLocals EXCEPT !.enrollment = e, !.attempt = a])
    /\ UNCHANGED <<world, tables, ghosts>>

(* Mutant of Issuable: the attempt may be somebody else's.                 *)
IssuableToAnyone(e, a) ==
    /\ e.course \in liveCourses
    /\ a.course = e.course
    /\ e.user \in liveUsers
    /\ e.status \in {"active", "completed"}
    /\ saved[e.course].certificateEnabled
    /\ a.passed

(* GetIssuanceContext joins the enrollment with its course, its user and   *)
(* the attempt on that course; the checks of Create follow.                *)
Issuable(e, a) ==
    /\ e.course \in liveCourses
    /\ a.course = e.course
    /\ e.user \in liveUsers
    /\ e.status \in {"active", "completed"}
    /\ saved[e.course].certificateEnabled
    /\ a.passed
    /\ a.user = e.user

IssueLoadContext(r) ==
    /\ pc[r] = "loadContext"
    /\ \/ \E e \in enrollments, a \in attempts :
            /\ e.id = loc[r].enrollment
            /\ a.id = loc[r].attempt
            /\ Issuable(e, a)
            /\ Goto(r, "insertCertificate",
                    [loc[r] EXCEPT !.course = e.course, !.holder = e.user])
       \/ /\ ~\E e \in enrollments, a \in attempts :
               /\ e.id = loc[r].enrollment
               /\ a.id = loc[r].attempt
               /\ Issuable(e, a)
          /\ Finish(r)
    /\ UNCHANGED <<world, tables, ghosts>>

(* INSERT INTO certificates.  Up to five tries draw a serial number that   *)
(* is not taken; running out of them is an error like any other (Abort).   *)
IssueInsertCertificate(r) ==
    LET row == [id |-> r, enrollment |-> loc[r].enrollment,
                attempt |-> loc[r].attempt, course |-> loc[r].course,
                user |-> loc[r].holder]
        referencesHold ==
            /\ \E e \in enrollments : e.id = loc[r].enrollment
            /\ \E a \in attempts : a.id = loc[r].attempt
            /\ loc[r].course \in liveCourses
            /\ loc[r].holder \in liveUsers
    IN  /\ pc[r] = "insertCertificate"
        /\ certificates' = IF referencesHold THEN certificates \cup {row}
                                             ELSE certificates
        /\ Finish(r)
        /\ UNCHANGED <<world, enrollments, attempts, ghosts>>

-----------------------------------------------------------------------------
(* POST /enrollments: EnrollmentUseCase.Create                             *)

EnrollCheck(r, c, u) ==
    /\ MaySend(r, u)
    /\ IF HasEnrollment(c, u)
       THEN Finish(r)
       ELSE Goto(r, "insertEnrollment", [NoLocals EXCEPT !.user = u, !.course = c])
    /\ UNCHANGED <<world, tables, ghosts>>

EnrollInsert(r) ==
    LET row == [id |-> r, course |-> loc[r].course, user |-> loc[r].user,
                status |-> "active", enrolledAt |-> today, completedAt |-> None]
    IN  /\ pc[r] = "insertEnrollment"
        /\ enrollments' = IF loc[r].course \in liveCourses /\ loc[r].user \in liveUsers
                          THEN enrollments \cup {row}
                          ELSE enrollments
        /\ Finish(r)
        /\ UNCHANGED <<world, attempts, certificates, ghosts>>

(* POST /enrollments/{id}/complete: EnrollmentUseCase.Complete             *)
Completed(e) ==
    [e EXCEPT !.status = "completed",
              !.completedAt = IF e.completedAt = None THEN today ELSE e.completedAt]

CompleteEnrollment(r, id) ==
    LET target == {e \in enrollments : e.id = id /\ e.status # "dropped"}
    IN  /\ pc[r] = "idle"
        /\ enrollments' = (enrollments \ target) \cup {Completed(e) : e \in target}
        /\ IF target = {}
           THEN Finish(r)
           ELSE Goto(r, "checkExisting", [NoLocals EXCEPT !.enrollment = id])
        /\ UNCHANGED <<world, attempts, certificates, ghosts>>

-----------------------------------------------------------------------------
(* What else happens to the rows these requests read.                      *)

(* PUT /courses/{id}: the use case turns certificates on, whatever it is   *)
(* asked to save.  Promises made under the old rules are void.             *)
UpdateCourse(c, s) ==
    /\ c \in liveCourses
    /\ updates < MaxUpdates
    /\ saved' = [saved EXCEPT ![c] = [s EXCEPT !.certificateEnabled = TRUE]]
    /\ updates' = updates + 1
    /\ promised' = [promised EXCEPT ![c] = [u \in Users |-> None]]
    /\ UNCHANGED <<today, liveUsers, liveCourses, tables, pc, loc, arrivedCertified>>

(* Mutant of ArchiveCourse: certificates are kept when their course goes.  *)
ArchiveKeepsCertificates(c) ==
    /\ c \in liveCourses
    /\ liveCourses' = liveCourses \ {c}
    /\ enrollments' = {e \in enrollments : e.course # c}
    /\ attempts' = {a \in attempts : a.course # c}
    /\ UNCHANGED <<today, liveUsers, saved, updates, certificates, pc, loc, ghosts>>

(* DELETE /courses/{id}: CourseUseCase.Archive deletes the row, and the    *)
(* foreign keys delete the rows that refer to it.                          *)
ArchiveCourse(c) ==
    /\ c \in liveCourses
    /\ liveCourses' = liveCourses \ {c}
    /\ enrollments' = {e \in enrollments : e.course # c}
    /\ attempts' = {a \in attempts : a.course # c}
    /\ certificates' = {cert \in certificates : cert.course # c}
    /\ UNCHANGED <<today, liveUsers, saved, updates, pc, loc, ghosts>>

(* Mutant of DeactivateUser: certificates stay without a user, as attempts *)
(* and enrollments do.                                                     *)
DeactivateClearsCertificates(u) ==
    /\ u \in liveUsers
    /\ liveUsers' = liveUsers \ {u}
    /\ enrollments' = {[e EXCEPT !.user = IF @ = u THEN None ELSE @] : e \in enrollments}
    /\ attempts' = {[a EXCEPT !.user = IF @ = u THEN None ELSE @] : a \in attempts}
    /\ certificates' = {[x EXCEPT !.user = IF @ = u THEN None ELSE @] : x \in certificates}
    /\ UNCHANGED <<today, liveCourses, saved, updates, pc, loc, ghosts>>

(* DELETE /users/{id}: UserUseCase.Deactivate deletes the row; enrollments *)
(* and attempts stay without a user, certificates go with it.              *)
DeactivateUser(u) ==
    /\ u \in liveUsers
    /\ liveUsers' = liveUsers \ {u}
    /\ enrollments' = {[e EXCEPT !.user = IF @ = u THEN None ELSE @] : e \in enrollments}
    /\ attempts' = {[a EXCEPT !.user = IF @ = u THEN None ELSE @] : a \in attempts}
    /\ certificates' = {cert \in certificates : cert.user # u}
    /\ UNCHANGED <<today, liveCourses, saved, updates, pc, loc, ghosts>>

NextDay ==
    /\ today < LastDay
    /\ today' = today + 1
    /\ UNCHANGED <<liveUsers, liveCourses, saved, updates, tables, pc, loc, ghosts>>

(* The client hangs up (the request context is cancelled), the pool times  *)
(* out or the server stops: the next statement of r fails, and what r has  *)
(* stored so far stays.                                                    *)
Abort(r) ==
    /\ pc[r] \notin {"idle", "done", "aborted"}
    /\ Goto(r, "aborted", NoLocals)
    /\ UNCHANGED <<world, tables, ghosts>>

-----------------------------------------------------------------------------

Arrive(r) ==
    \/ \E c \in Courses, u \in Users : SubmitLoadCourse(r, c, u)
    \/ \E c \in Courses, u \in Users : EnrollCheck(r, c, u)
    \/ \E id \in Requests : CompleteEnrollment(r, id)
    \/ \E e, a \in Requests : IssueCertificate(r, e, a)

Continue(r) ==
    \/ SubmitCheckCertificate(r)
    \/ SubmitReadWindow(r)
    \/ \E score \in Scores, delay \in StartDelays : SubmitInsertAttempt(r, score, delay)
    \/ SubmitFetchAttempt(r)
    \/ SubmitFindEnrollment(r)
    \/ AutoIssueCheckExisting(r)
    \/ AutoIssueFindCandidate(r)
    \/ IssueCheckPair(r)
    \/ IssueLoadContext(r)
    \/ IssueInsertCertificate(r)
    \/ EnrollInsert(r)

Environment ==
    \/ \E c \in Courses, s \in Settings : UpdateCourse(c, s)
    \/ \E c \in Courses : ArchiveCourse(c)
    \/ \E u \in Users : DeactivateUser(u)
    \/ NextDay

Next ==
    \/ \E r \in Requests : Arrive(r) \/ Continue(r) \/ Abort(r)
    \/ Environment

Spec == Init /\ [][Next]_vars

(* A request that has arrived is a goroutine blocked only on statements    *)
(* that return: it keeps going until it is answered or aborted.  Nobody    *)
(* has to send a request.                                                  *)
FairSpec == Spec /\ \A r \in Requests : WF_vars(Continue(r))

-----------------------------------------------------------------------------
(* Safety.                                                                 *)

(* The rows with keys a and e are a passed attempt and an enrollment of    *)
(* user u in course c.                                                     *)
Backed(a, e, c, u) ==
    /\ \E row \in attempts :
          row.id = a /\ row.passed /\ row.course = c /\ row.user = u
    /\ \E row \in enrollments :
          row.id = e /\ row.course = c /\ row.user = u

(* Every certificate names an attempt that passed the test and an          *)
(* enrollment, both of the certificate's own user and course, although     *)
(* Create checks all of this before it inserts and courses and users may   *)
(* be deleted in between (certificates.go, GetIssuanceContext and Create). *)
CertificateBacked ==
    \A cert \in certificates :
        Backed(cert.attempt, cert.enrollment, cert.course, cert.user)

(* A submission that arrives when its learner holds a certificate of the   *)
(* course never becomes an attempt, whatever is deleted while it runs      *)
(* (ensureUserCanSubmit).                                                  *)
ClosedOnceCertified ==
    \A r \in arrivedCertified : \A a \in attempts : a.id # r

(* The attempts a learner has within the cooldown never reach the limit    *)
(* before an attempt is stored: the count Submit has read still holds when *)
(* its INSERT runs (GetUserCourseAttemptWindow, then CreateAttempt).       *)
LimitHoldsAtInsert ==
    [][\A a \in attempts' :
         (\A b \in attempts : b.id # a.id) =>
            LET s == loc[a.id].settings
            IN  Cardinality(AttemptWindow(a.course, a.user, a.finishedAt, s.cooldownDays))
                    < EffectiveMaxAttempts(s)]_attempts

(* Once the day named in the refusal has passed, the next submission finds *)
(* room in the window: the unlock day attemptLimitExceededError tells is   *)
(* kept as long as no course is saved again.                               *)
QuizReopens ==
    updates = 0 => \A r \in Requests :
        LET s == loc[r].settings
            c == loc[r].course
            u == loc[r].user
        IN  pc[r] = "readWindow" /\ promised[c][u] # None =>
              (today > promised[c][u] =>
                 Cardinality(AttemptWindow(c, u, today, s.cooldownDays))
                    < EffectiveMaxAttempts(s))

(* In a course without a cooldown a learner never stores more attempts     *)
(* than the limit, however many days pass and whenever it says it started: *)
(* the window without a lower bound counts them all (attemptWindowStart    *)
(* gives none, GetUserCourseAttemptWindow).                                *)
LimitForGood ==
    updates = 0 => \A c \in Courses, u \in Users :
        saved[c].cooldownDays <= 0 =>
            Cardinality({a \in attempts : a.course = c /\ a.user = u})
                <= EffectiveMaxAttempts(saved[c])

(* A user is enrolled into a course at most once (HasEnrollment before the *)
(* INSERT; the table has no unique key on the pair).                       *)
OneEnrollment ==
    \A e, f \in enrollments :
        e.user # None /\ e.user = f.user /\ e.course = f.course => e = f

(* A certificate is issued once for an enrollment (ExistsByEnrollment      *)
(* before the automatic issue; the table has no unique key on it).         *)
OneCertificate ==
    \A x, y \in certificates : x.enrollment = y.enrollment => x = y

-----------------------------------------------------------------------------
(* Refinement.                                                             *)

PassedTests ==
    {[id |-> a.id, course |-> a.course, user |-> a.user] :
        a \in {b \in attempts : b.passed /\ b.user # None}}

IssuedCertificates ==
    {[id |-> x.id,
      test |-> [id |-> x.attempt, course |-> x.course, user |-> x.user]] :
        x \in certificates}

Registry == INSTANCE CertificateRegistry
                WITH Keys <- Requests, passed <- PassedTests,
                     issued <- IssuedCertificates

(* The tables behave like the register of CertificateRegistry: whatever    *)
(* the requests interleave, a certificate enters for a test that is there  *)
(* at that moment and stays until its course or user is deleted.           *)
ImplementsRegistry == Registry!RegistrySpec

-----------------------------------------------------------------------------
(* Liveness.                                                               *)

(* A certificate is due to a request that has stored a passed attempt of   *)
(* an enrolled learner, or has completed the enrollment of one who passed. *)
CertificateDue(r, c, u) ==
    \/ /\ pc[r] = "fetchAttempt"
       /\ \E a \in attempts : a.id = r /\ a.passed /\ a.course = c /\ a.user = u
       /\ HasEnrollment(c, u)
    \/ /\ pc[r] = "checkExisting"
       /\ \E e \in enrollments : /\ e.id = loc[r].enrollment
                                 /\ e.course = c
                                 /\ e.user = u
                                 /\ PassedAttempts(e) # {}

(* A request to which a certificate is due leaves its learner with one,    *)
(* unless the request itself is cut short, the course or the user goes or  *)
(* the course gives none: no interleaving of submissions, completions and  *)
(* administrators makes every request think another one issues it, and     *)
(* what an aborted submission left undone the next completion makes good.  *)
DueCertificateIsIssued ==
    \A r \in Requests, c \in Courses, u \in Users :
        CertificateDue(r, c, u) ~> \/ HasCertificate(c, u)
                                  \/ pc[r] = "aborted"
                                  \/ c \notin liveCourses
                                  \/ u \notin liveUsers
                                  \/ ~saved[c].certificateEnabled

=============================================================================

------------------------- MODULE SerialClientProofs -------------------------
(***************************************************************************)
(* Theorems about Certification for learners who wait for each answer      *)
(* before they send the next request: enrollments, limits and the promised *)
(* unlock day.  For learners who do not wait, runs show that they fail.    *)
(***************************************************************************)
EXTENDS CertificationProofs, FiniteSetTheorems

-----------------------------------------------------------------------------
(* Whom a request works for.                                               *)

(* At most one request at a time holds the name of a learner.              *)
OneRequestEach ==
    \A q, r \in Requests : loc[q].user # None /\ loc[q].user = loc[r].user => q = r

(* A request on its way keeps its learner, course and settings until it    *)
(* ends, or until it holds the context of a certificate.                   *)
Keeps(r) ==
    \/ pc'[r] \in Ended /\ loc'[r].user = None
    \/ /\ loc'[r].user = loc[r].user
       /\ loc'[r].settings = loc[r].settings
       /\ pc'[r] # "insertCertificate" => loc'[r].course = loc[r].course
       /\ pc'[r] \notin {"idle", "insertEnrollment", "checkCertificate"}
       /\ pc'[r] \in SubmitPC => pc[r] \in SubmitPC
       /\ pc'[r] = "insertAttempt" => pc[r] = "readWindow" /\ SubmitReadWindow(r)

(* A request moves alone.                                                  *)
Alone(r) == \A q \in Requests : q # r => pc'[q] = pc[q] /\ loc'[q] = loc[q]

LEMMA EndKeeps ==
    ASSUME TypeInv, NEW r \in Requests, Finish(r) \/ Goto(r, "aborted", NoLocals)
    PROVE  Keeps(r) /\ Alone(r)
BY GotoMoves DEF Finish, NoLocals, Keeps, Alone, Ended

LEMMA MoveKeeps ==
    ASSUME TypeInv, NEW r \in Requests, NEW p, NEW l, Goto(r, p, l),
           l.user = loc[r].user, l.settings = loc[r].settings,
           p # "insertCertificate" => l.course = loc[r].course,
           p \notin {"idle", "insertEnrollment", "checkCertificate"},
           p \in SubmitPC => pc[r] \in SubmitPC,
           p = "insertAttempt" => pc[r] = "readWindow" /\ SubmitReadWindow(r)
    PROVE  Keeps(r) /\ Alone(r)
BY GotoMoves DEF Keeps, Alone

LEMMA ContinueKeeps ==
    ASSUME TypeInv, NEW r \in Requests, Continue(r) \/ Abort(r)
    PROVE  Keeps(r) /\ Alone(r)
<1>1. loc[r] \in Locals
    BY DEF TypeInv, TypeOK
<1>2. CASE SubmitCheckCertificate(r)
    BY <1>2, EndKeeps, MoveKeeps DEF SubmitCheckCertificate, SubmitPC
<1>3. CASE SubmitReadWindow(r)
    <2> DEFINE l == [loc[r] EXCEPT !.finishedAt = today]
    <2>1. Finish(r) \/ Goto(r, "insertAttempt", l)
        BY <1>3 DEF SubmitReadWindow
    <2>2. l.user = loc[r].user /\ l.settings = loc[r].settings /\ l.course = loc[r].course
        BY <1>1 DEF Locals
    <2>3. pc[r] = "readWindow"
        BY <1>3 DEF SubmitReadWindow
    <2> HIDE DEF l
    <2> QED BY <1>3, <2>1, <2>2, <2>3, EndKeeps, MoveKeeps DEF SubmitPC
<1>4. ASSUME NEW score \in Scores, NEW delay \in StartDelays,
             SubmitInsertAttempt(r, score, delay)
      PROVE  Keeps(r) /\ Alone(r)
    <2>1. Finish(r) \/ Goto(r, "fetchAttempt", loc[r])
        BY <1>4 DEF SubmitInsertAttempt
    <2>2. pc[r] = "insertAttempt"
        BY <1>4 DEF SubmitInsertAttempt
    <2> QED BY <2>1, <2>2, EndKeeps, MoveKeeps DEF SubmitPC
<1>5. CASE SubmitFetchAttempt(r)
    BY <1>5, EndKeeps, MoveKeeps DEF SubmitFetchAttempt, SubmitPC
<1>6. CASE SubmitFindEnrollment(r)
    <2>1. ASSUME NEW e, Goto(r, "checkExisting", [loc[r] EXCEPT !.enrollment = e])
          PROVE  Keeps(r) /\ Alone(r)
        <3> DEFINE l == [loc[r] EXCEPT !.enrollment = e]
        <3>1. l.user = loc[r].user /\ l.settings = loc[r].settings /\ l.course = loc[r].course
            BY <1>1 DEF Locals
        <3>2. Goto(r, "checkExisting", l)
            BY <2>1
        <3> HIDE DEF l
        <3> QED BY <3>1, <3>2, MoveKeeps DEF SubmitPC
    <2> QED BY <1>6, <2>1, EndKeeps DEF SubmitFindEnrollment
<1>7. CASE AutoIssueCheckExisting(r)
    BY <1>7, EndKeeps, MoveKeeps DEF AutoIssueCheckExisting, SubmitPC
<1>8. CASE AutoIssueFindCandidate(r)
    <2>1. ASSUME NEW a, Goto(r, "checkPair", [loc[r] EXCEPT !.attempt = a])
          PROVE  Keeps(r) /\ Alone(r)
        <3> DEFINE l == [loc[r] EXCEPT !.attempt = a]
        <3>1. l.user = loc[r].user /\ l.settings = loc[r].settings /\ l.course = loc[r].course
            BY <1>1 DEF Locals
        <3>2. Goto(r, "checkPair", l)
            BY <2>1
        <3> HIDE DEF l
        <3> QED BY <3>1, <3>2, MoveKeeps DEF SubmitPC
    <2> QED BY <1>8, <2>1, EndKeeps DEF AutoIssueFindCandidate
<1>9. CASE IssueCheckPair(r)
    BY <1>9, EndKeeps, MoveKeeps DEF IssueCheckPair, SubmitPC
<1>10. CASE IssueLoadContext(r)
    <2>1. ASSUME NEW c, NEW u,
                 Goto(r, "insertCertificate", [loc[r] EXCEPT !.course = c, !.holder = u])
          PROVE  Keeps(r) /\ Alone(r)
        <3> DEFINE l == [loc[r] EXCEPT !.course = c, !.holder = u]
        <3>1. l.user = loc[r].user /\ l.settings = loc[r].settings
            BY <1>1 DEF Locals
        <3>2. Goto(r, "insertCertificate", l)
            BY <2>1
        <3> HIDE DEF l
        <3> QED BY <3>1, <3>2, MoveKeeps DEF SubmitPC
    <2> QED BY <1>10, <2>1, EndKeeps DEF IssueLoadContext
<1>11. CASE IssueInsertCertificate(r) \/ EnrollInsert(r) \/ Abort(r)
    BY <1>11, EndKeeps DEF IssueInsertCertificate, EnrollInsert, Abort
<1> QED
    BY <1>2, <1>3, <1>4, <1>5, <1>6, <1>7, <1>8, <1>9, <1>10, <1>11 DEF Continue

(* What an arriving request takes on.                                      *)
TakesOn(r) ==
    \/ loc'[r].user = None /\ pc'[r] \notin SubmitPC \cup {"insertEnrollment"}
    \/ \E c \in Courses, u \in Users :
         /\ MaySend(r, u)
         /\ loc'[r].user = u /\ loc'[r].course = c
         /\ \/ /\ pc'[r] = "insertEnrollment"
               /\ ~HasEnrollment(c, u)
            \/ /\ pc'[r] = "checkCertificate"
               /\ loc'[r].settings = saved[c]

LEMMA ArriveTakesOn ==
    ASSUME TypeInv, NEW r \in Requests, Arrive(r)
    PROVE  TakesOn(r) /\ Alone(r) /\ UNCHANGED promised
<1>1. ASSUME Finish(r)
      PROVE  TakesOn(r) /\ Alone(r)
    BY <1>1, GotoMoves DEF Finish, NoLocals, TakesOn, Alone, SubmitPC
<1>2. ASSUME NEW c \in Courses, NEW u \in Users, SubmitLoadCourse(r, c, u)
      PROVE  TakesOn(r) /\ Alone(r) /\ UNCHANGED promised
    <2> DEFINE l == [NoLocals EXCEPT !.user = u, !.course = c, !.settings = saved[c]]
    <2>1. Finish(r) \/ Goto(r, "checkCertificate", l)
        BY <1>2 DEF SubmitLoadCourse
    <2>2. l.user = u /\ l.course = c /\ l.settings = saved[c]
        BY DEF NoLocals
    <2> HIDE DEF l
    <2>3. CASE Goto(r, "checkCertificate", l)
        BY <1>2, <2>2, <2>3, GotoMoves DEF SubmitLoadCourse, TakesOn, Alone
    <2> QED BY <1>1, <1>2, <2>1, <2>3 DEF SubmitLoadCourse
<1>3. ASSUME NEW c \in Courses, NEW u \in Users, EnrollCheck(r, c, u)
      PROVE  TakesOn(r) /\ Alone(r) /\ UNCHANGED promised
    <2> DEFINE l == [NoLocals EXCEPT !.user = u, !.course = c]
    <2>1. Finish(r) \/ (~HasEnrollment(c, u) /\ Goto(r, "insertEnrollment", l))
        BY <1>3 DEF EnrollCheck
    <2>2. l.user = u /\ l.course = c
        BY DEF NoLocals
    <2> HIDE DEF l
    <2>3. ASSUME ~HasEnrollment(c, u), Goto(r, "insertEnrollment", l)
          PROVE  TakesOn(r) /\ Alone(r)
        BY <1>3, <2>2, <2>3, GotoMoves DEF EnrollCheck, TakesOn, Alone
    <2> QED BY <1>1, <1>3, <2>1, <2>3 DEF EnrollCheck, ghosts
<1>4. ASSUME NEW p \in {"checkExisting", "loadContext"}, NEW l, Goto(r, p, l), l.user = None
      PROVE  TakesOn(r) /\ Alone(r)
    BY <1>4, GotoMoves DEF TakesOn, Alone, SubmitPC
<1>5. ASSUME NEW id \in Requests, CompleteEnrollment(r, id)
      PROVE  TakesOn(r) /\ Alone(r) /\ UNCHANGED promised
    <2>1. [NoLocals EXCEPT !.enrollment = id].user = None
        BY DEF NoLocals
    <2> QED BY <1>1, <1>4, <1>5, <2>1 DEF CompleteEnrollment, ghosts
<1>6. ASSUME NEW e \in Requests, NEW a \in Requests, IssueCertificate(r, e, a)
      PROVE  TakesOn(r) /\ Alone(r) /\ UNCHANGED promised
    <2>1. [NoLocals EXCEPT !.enrollment = e, !.attempt = a].user = None
        BY DEF NoLocals
    <2> QED BY <1>1, <1>4, <1>6, <2>1 DEF IssueCertificate, ghosts
<1> QED BY <1>2, <1>3, <1>5, <1>6 DEF Arrive

LEMMA OneRequestEachNext ==
    ASSUME SerialClients, TypeInv, OneRequestEach, [Next]_vars
    PROVE  OneRequestEach'
<1>1. ASSUME NEW r \in Requests, Continue(r) \/ Abort(r)
      PROVE  OneRequestEach'
    BY <1>1, ContinueKeeps DEF OneRequestEach, Keeps, Alone
<1>2. ASSUME NEW r \in Requests, Arrive(r)
      PROVE  OneRequestEach'
    BY <1>2, ArriveTakesOn DEF OneRequestEach, TakesOn, Alone, MaySend
<1>3. CASE Environment \/ UNCHANGED vars
    BY <1>3, EnvironmentRows DEF OneRequestEach, vars
<1> QED BY <1>1, <1>2, <1>3 DEF Next

-----------------------------------------------------------------------------
(* One enrollment.                                                         *)

NoneDropped == \A e \in enrollments : e.status \in {"active", "completed"}

(* A request about to insert an enrollment is still right: there is none.  *)
EnrollClear ==
    \A r \in Requests : pc[r] = "insertEnrollment" =>
        \A e \in enrollments : e.course = loc[r].course => e.user # loc[r].user

EnrollInv == TypeInv /\ OneRequestEach /\ NoneDropped /\ EnrollClear /\ OneEnrollment

(* Each row comes from a row of the same course, and of the same user or   *)
(* of a user who is deleted now.                                           *)
RowsFollow(m) ==
    \A f \in enrollments' : \E e \in enrollments :
        /\ f = m[e]
        /\ f.course = e.course
        /\ f.user \in {e.user, None}
        /\ f.status \in {"active", "completed"}

LEMMA FollowingKeeps ==
    ASSUME TypeInv, NoneDropped, OneEnrollment, NEW m, RowsFollow(m)
    PROVE  /\ NoneDropped'
           /\ OneEnrollment'
           /\ \A c \in Courses, u \in Users :
                (\A e \in enrollments : e.course = c => e.user # u)
                    => \A e \in enrollments' : e.course = c => e.user # u
<1>1. NoneDropped'
    BY DEF RowsFollow, NoneDropped
<1>2. OneEnrollment'
    <2> SUFFICES ASSUME NEW f \in enrollments', NEW g \in enrollments',
                        f.user # None, f.user = g.user, f.course = g.course
                 PROVE  f = g
        BY DEF OneEnrollment
    <2>1. PICK d \in enrollments : f = m[d] /\ f.course = d.course /\ f.user \in {d.user, None}
        BY DEF RowsFollow
    <2>2. PICK e \in enrollments : g = m[e] /\ g.course = e.course /\ g.user \in {e.user, None}
        BY DEF RowsFollow
    <2>3. d = e
        BY <2>1, <2>2 DEF OneEnrollment
    <2> QED BY <2>1, <2>2, <2>3
<1>3. ASSUME NEW c \in Courses, NEW u \in Users,
             \A e \in enrollments : e.course = c => e.user # u
      PROVE  \A e \in enrollments' : e.course = c => e.user # u
    BY <1>3, NoneAssumption DEF RowsFollow
<1> QED BY <1>1, <1>2, <1>3

(* Every step but the insertion only follows.                              *)
LEMMA StepsFollow ==
    ASSUME TypeInv, NoneDropped, [Next]_vars,
           ~\E r \in Requests : EnrollInsert(r)
    PROVE  \E m : RowsFollow(m)
<1>1. ASSUME enrollments' \subseteq enrollments
      PROVE  \E m : RowsFollow(m)
    <2>1. RowsFollow([e \in enrollments |-> e])
        BY <1>1 DEF RowsFollow, NoneDropped
    <2> QED BY <2>1
<1>2. ASSUME NEW r \in Requests, NEW id \in Requests, CompleteEnrollment(r, id)
      PROVE  \E m : RowsFollow(m)
    <2> DEFINE target == {e \in enrollments : e.id = id /\ e.status # "dropped"}
               m == [e \in enrollments |-> IF e \in target THEN Completed(e) ELSE e]
    <2>1. enrollments' = (enrollments \ target) \cup {Completed(e) : e \in target}
        BY <1>2 DEF CompleteEnrollment
    <2>2. ASSUME NEW e \in enrollments
          PROVE  /\ Completed(e).course = e.course
                 /\ Completed(e).user = e.user
                 /\ Completed(e).status = "completed"
        <3>1. e \in EnrollmentRow
            BY DEF TypeInv, TypeOK
        <3>2. Completed(e).status = "completed"
            BY <3>1 DEF Completed, EnrollmentRow
        <3> QED BY <3>1, <3>2, CompletedType
    <2>3. \A e \in enrollments : m[e] = IF e \in target THEN Completed(e) ELSE e
        OBVIOUS
    <2>4. target \subseteq enrollments
        OBVIOUS
    <2> HIDE DEF target, m
    <2>5. ASSUME NEW f \in enrollments'
          PROVE  \E e \in enrollments :
                    /\ f = m[e]
                    /\ f.course = e.course
                    /\ f.user \in {e.user, None}
                    /\ f.status \in {"active", "completed"}
        <3>1. CASE f \in enrollments \ target
            BY <2>3, <3>1 DEF NoneDropped
        <3>2. ASSUME NEW e \in target, f = Completed(e)
              PROVE  \E d \in enrollments :
                        /\ f = m[d]
                        /\ f.course = d.course
                        /\ f.user \in {d.user, None}
                        /\ f.status \in {"active", "completed"}
            BY <2>2, <2>3, <2>4, <3>2
        <3> QED BY <2>1, <3>1, <3>2
    <2> QED BY <2>5 DEF RowsFollow
<1>3. ASSUME NEW u \in Users, DeactivateUser(u)
      PROVE  \E m : RowsFollow(m)
    <2> DEFINE cleared(e) == [e EXCEPT !.user = IF @ = u THEN None ELSE @]
               m == [e \in enrollments |-> cleared(e)]
    <2>1. enrollments' = {cleared(e) : e \in enrollments}
        BY <1>3 DEF DeactivateUser
    <2>2. ASSUME NEW e \in enrollments
          PROVE  /\ cleared(e).course = e.course
                 /\ cleared(e).user \in {e.user, None}
                 /\ cleared(e).status = e.status
        <3>1. e \in EnrollmentRow
            BY DEF TypeInv, TypeOK
        <3> QED BY <3>1 DEF EnrollmentRow
    <2>3. \A e \in enrollments : m[e] = cleared(e)
        OBVIOUS
    <2> HIDE DEF m, cleared
    <2>4. RowsFollow(m)
        BY <2>1, <2>2, <2>3 DEF RowsFollow, NoneDropped
    <2> QED BY <2>4
<1>4. ASSUME NEW r \in Requests, Continue(r) \/ Abort(r)
      PROVE  enrollments' = enrollments
    BY <1>4, ReadStepMoves
    DEF Continue, ReadStep, SubmitInsertAttempt, IssueInsertCertificate, Abort, tables
<1>5. ASSUME NEW r \in Requests, Arrive(r)
      PROVE  \E m : RowsFollow(m)
    <2>1. UNCHANGED enrollments \/ \E id \in Requests : CompleteEnrollment(r, id)
        BY <1>5 DEF Arrive, SubmitLoadCourse, EnrollCheck, IssueCertificate, tables
    <2> QED BY <1>1, <1>2, <2>1
<1>6. CASE Environment
    BY <1>1, <1>3, <1>6 DEF Environment, UpdateCourse, ArchiveCourse, NextDay, tables
<1>7. CASE UNCHANGED vars
    BY <1>1, <1>7 DEF vars, tables
<1> QED
    BY <1>1, <1>4, <1>5, <1>6, <1>7 DEF Next

LEMMA EnrollInvNext ==
    ASSUME SerialClients, EnrollInv, [Next]_vars
    PROVE  EnrollInv'
<1>1. TypeInv' /\ OneRequestEach'
    BY TypeInvNext, OneRequestEachNext DEF EnrollInv
<1>2. ASSUME NEW r \in Requests, EnrollInsert(r)
      PROVE  NoneDropped' /\ EnrollClear' /\ OneEnrollment'
    <2> DEFINE row == [id |-> r, course |-> loc[r].course, user |-> loc[r].user,
                       status |-> "active", enrolledAt |-> today, completedAt |-> None]
    <2>1. /\ row.course = loc[r].course
          /\ row.user = loc[r].user
          /\ row.status = "active"
        OBVIOUS
    <2>2. /\ enrollments' \subseteq enrollments \cup {row}
          /\ pc[r] = "insertEnrollment"
          /\ pc'[r] = "done"
          /\ \A q \in Requests : q # r => pc'[q] = pc[q] /\ loc'[q] = loc[q]
        BY <1>2, FinishMoves DEF EnrollInsert, EnrollInv
    <2> HIDE DEF row
    <2>3. /\ \A e \in enrollments : e.course = loc[r].course => e.user # loc[r].user
          /\ loc[r].user # None
        BY <2>2, NoneAssumption
        DEF EnrollInv, EnrollClear, TypeInv, LocalsAssigned, Assigned
    <2>4. NoneDropped' /\ OneEnrollment'
        BY <2>1, <2>2, <2>3 DEF EnrollInv, NoneDropped, OneEnrollment
    <2>5. EnrollClear'
        BY <2>1, <2>2, <2>3 DEF EnrollInv, EnrollClear, OneRequestEach
    <2> QED BY <2>4, <2>5
<1>3. ASSUME NEW m, RowsFollow(m)
      PROVE  NoneDropped' /\ EnrollClear' /\ OneEnrollment'
    <2>1. NoneDropped' /\ OneEnrollment'
        BY <1>3, FollowingKeeps DEF EnrollInv
    <2> SUFFICES ASSUME NEW q \in Requests, pc'[q] = "insertEnrollment"
                 PROVE  \A e \in enrollments' : e.course = loc'[q].course => e.user # loc'[q].user
        BY <2>1 DEF EnrollClear
    <2>2. loc'[q].course \in Courses /\ loc'[q].user \in Users
        BY <1>1 DEF TypeInv, LocalsAssigned, Assigned
    <2>3. CASE pc[q] = "insertEnrollment" /\ loc'[q] = loc[q]
        BY <1>3, <2>2, <2>3, FollowingKeeps DEF EnrollInv, EnrollClear
    <2>4. CASE \E c \in Courses, u \in Users : EnrollCheck(q, c, u)
        <3>1. TakesOn(q)
            BY <2>4, ArriveTakesOn DEF Arrive, EnrollInv
        <3>2. ~HasEnrollment(loc'[q].course, loc'[q].user)
            BY <2>2, <3>1, NoneAssumption DEF TakesOn
        <3>3. \A e \in enrollments : e.course = loc'[q].course => e.user # loc'[q].user
            BY <3>2 DEF HasEnrollment, EnrollInv, NoneDropped
        <3> QED BY <2>4, <3>3 DEF EnrollCheck, tables
    <2>5. CASE Environment \/ UNCHANGED vars
        BY <2>3, <2>5, EnvironmentRows DEF EnrollInv, vars
    <2>6. ASSUME NEW r \in Requests, Continue(r) \/ Abort(r)
          PROVE  pc[q] = "insertEnrollment" /\ loc'[q] = loc[q]
        BY <2>2, <2>6, ContinueKeeps, NoneAssumption DEF EnrollInv, Keeps, Alone
    <2>7. ASSUME NEW r \in Requests, Arrive(r)
          PROVE  \/ pc[q] = "insertEnrollment" /\ loc'[q] = loc[q]
                 \/ \E c \in Courses, u \in Users : EnrollCheck(q, c, u)
        <3>1. CASE q # r
            BY <2>7, <3>1, ArriveTakesOn DEF EnrollInv, Alone
        <3>2. CASE q = r
            <4>1. ASSUME NEW c \in Courses, NEW u \in Users, SubmitLoadCourse(r, c, u)
                  PROVE  pc'[r] # "insertEnrollment"
                BY <4>1, GotoMoves, FinishMoves DEF SubmitLoadCourse, EnrollInv
            <4>2. ASSUME NEW id \in Requests, CompleteEnrollment(r, id)
                  PROVE  pc'[r] # "insertEnrollment"
                BY <4>2, GotoMoves, FinishMoves DEF CompleteEnrollment, EnrollInv
            <4>3. ASSUME NEW e \in Requests, NEW a \in Requests, IssueCertificate(r, e, a)
                  PROVE  pc'[r] # "insertEnrollment"
                BY <4>3, GotoMoves, FinishMoves DEF IssueCertificate, EnrollInv
            <4> QED BY <2>7, <3>2, <4>1, <4>2, <4>3 DEF Arrive
        <3> QED BY <3>1, <3>2
    <2> QED BY <2>3, <2>4, <2>5, <2>6, <2>7 DEF Next
<1>4. (~\E r \in Requests : EnrollInsert(r)) => \E m : RowsFollow(m)
    BY StepsFollow DEF EnrollInv
<1> QED
    BY <1>1, <1>2, <1>3, <1>4 DEF EnrollInv

(* A learner who waits for each answer is enrolled into a course once: the *)
(* row HasEnrollment did not find is still missing when the INSERT runs.   *)
THEOREM LearnerEnrolledOnce ==
    ASSUME SerialClients
    PROVE  Spec => []OneEnrollment
<1>1. Init => EnrollInv
    <2> SUFFICES ASSUME Init PROVE EnrollInv
        OBVIOUS
    <2>1. TypeInv
        BY InitTypeInv
    <2>2. OneRequestEach
        BY DEF Init, OneRequestEach, NoLocals
    <2> QED BY <2>1, <2>2 DEF Init, EnrollInv, NoneDropped, EnrollClear, OneEnrollment
<1>2. EnrollInv /\ [Next]_vars => EnrollInv'
    BY EnrollInvNext
<1>3. EnrollInv => OneEnrollment
    BY DEF EnrollInv
<1> QED BY <1>1, <1>2, <1>3, PTL DEF Spec

-----------------------------------------------------------------------------
(* The limit.                                                              *)

FiniteAttempts == IsFiniteSet(attempts)

(* AttemptWindow of any set of rows.                                       *)
Window(rows, c, u, now, cooldownDays) ==
    {a \in rows : /\ a.course = c
                  /\ a.user = u
                  /\ cooldownDays > 0 => a.startedAt > now - cooldownDays}

LEMMA WindowOfAttempts ==
    ASSUME NEW c, NEW u, NEW now, NEW cooldownDays
    PROVE  AttemptWindow(c, u, now, cooldownDays) = Window(attempts, c, u, now, cooldownDays)
BY DEF AttemptWindow, Window

(* Room for the attempt that a request with locals l would insert.         *)
RoomIn(rows, l) ==
    Cardinality(Window(rows, l.course, l.user, l.finishedAt, l.settings.cooldownDays))
        < EffectiveMaxAttempts(l.settings)

(* A request about to insert an attempt is still right: there is room.     *)
RoomHolds == \A r \in Requests : pc[r] = "insertAttempt" => RoomIn(attempts, loc[r])

LimitInv == TypeInv /\ OneRequestEach /\ FiniteAttempts /\ RoomHolds

(* No attempt of this learner at this course is new.                       *)
NoneAdded(c, u) ==
    \A a \in attempts' : a.course = c /\ a.user = u => a \in attempts

(* Attempts are added by insertion only.                                   *)
LEMMA AttemptsAdded ==
    ASSUME TypeInv, [Next]_vars, NEW u \in Users, NEW c \in Courses
    PROVE  \/ NoneAdded(c, u)
           \/ \E r \in Requests, score \in Scores, delay \in StartDelays :
                 /\ SubmitInsertAttempt(r, score, delay)
                 /\ loc[r].course = c
                 /\ loc[r].user = u
<1>1. ASSUME attempts' \subseteq attempts
      PROVE  NoneAdded(c, u)
    BY <1>1 DEF NoneAdded
<1>2. ASSUME NEW r \in Requests, NEW score \in Scores, NEW delay \in StartDelays,
             SubmitInsertAttempt(r, score, delay),
             ~(loc[r].course = c /\ loc[r].user = u)
      PROVE  NoneAdded(c, u)
    <2>1. \A a \in attempts' : a \in attempts \/ (a.course = loc[r].course /\ a.user = loc[r].user)
        BY <1>2 DEF SubmitInsertAttempt
    <2> QED BY <1>2, <2>1 DEF NoneAdded
<1>3. ASSUME NEW v \in Users, DeactivateUser(v)
      PROVE  NoneAdded(c, u)
    <2> DEFINE cleared(a) == [a EXCEPT !.user = IF @ = v THEN None ELSE @]
    <2>1. attempts' = {cleared(a) : a \in attempts}
        BY <1>3 DEF DeactivateUser
    <2>2. ASSUME NEW a \in attempts
          PROVE  cleared(a).user = None \/ cleared(a) = a
        <3>1. a \in AttemptRow
            BY DEF TypeInv, TypeOK
        <3> QED BY <3>1 DEF AttemptRow
    <2>3. u # None
        BY NoneAssumption
    <2> HIDE DEF cleared
    <2> QED BY <2>1, <2>2, <2>3 DEF NoneAdded
<1>4. ASSUME NEW r \in Requests, Arrive(r) \/ ReadStep(r) \/ EnrollInsert(r)
                                 \/ IssueInsertCertificate(r) \/ Abort(r)
      PROVE  attempts' = attempts
    BY <1>4, ArriveMoves, ReadStepMoves
    DEF EnrollInsert, IssueInsertCertificate, Abort, tables
<1>5. CASE Environment
    BY <1>1, <1>3, <1>5 DEF Environment, UpdateCourse, ArchiveCourse, NextDay, tables
<1>6. CASE UNCHANGED vars
    BY <1>1, <1>6 DEF vars, tables
<1> QED
    BY <1>1, <1>2, <1>4, <1>5, <1>6 DEF Next, Continue, ReadStep

LEMMA FiniteAttemptsNext ==
    ASSUME TypeInv, FiniteAttempts, [Next]_vars
    PROVE  FiniteAttempts'
<1>1. ASSUME attempts' \subseteq attempts
      PROVE  FiniteAttempts'
    BY <1>1, FS_Subset DEF FiniteAttempts
<1>2. ASSUME NEW r \in Requests, NEW score \in Scores, NEW delay \in StartDelays,
             SubmitInsertAttempt(r, score, delay)
      PROVE  FiniteAttempts'
    <2>1. attempts' = attempts \/ \E row : attempts' = attempts \cup {row}
        BY <1>2 DEF SubmitInsertAttempt
    <2> QED BY <2>1, FS_AddElement DEF FiniteAttempts
<1>3. ASSUME NEW v \in Users, DeactivateUser(v)
      PROVE  FiniteAttempts'
    <2> DEFINE cleared(a) == [a EXCEPT !.user = IF @ = v THEN None ELSE @]
               m == [a \in attempts |-> cleared(a)]
    <2>1. attempts' = {cleared(a) : a \in attempts}
        BY <1>3 DEF DeactivateUser
    <2>2. m \in Surjection(attempts, attempts')
        BY <2>1 DEF Surjection
    <2> HIDE DEF m
    <2> QED BY <2>2, FS_Surjection DEF FiniteAttempts
<1>4. ASSUME NEW r \in Requests, Arrive(r) \/ ReadStep(r) \/ EnrollInsert(r)
                                 \/ IssueInsertCertificate(r) \/ Abort(r)
      PROVE  attempts' = attempts
    BY <1>4, ArriveMoves, ReadStepMoves
    DEF EnrollInsert, IssueInsertCertificate, Abort, tables
<1>5. CASE Environment
    BY <1>1, <1>3, <1>5 DEF Environment, UpdateCourse, ArchiveCourse, NextDay, tables
<1>6. CASE UNCHANGED vars
    BY <1>1, <1>6 DEF vars, tables
<1> QED
    BY <1>1, <1>2, <1>4, <1>5, <1>6 DEF Next, Continue, ReadStep

LEMMA WindowNatural ==
    ASSUME NEW rows, IsFiniteSet(rows), NEW c, NEW u, NEW now, NEW cooldownDays
    PROVE  /\ IsFiniteSet(Window(rows, c, u, now, cooldownDays))
           /\ Cardinality(Window(rows, c, u, now, cooldownDays)) \in Nat
<1>1. IsFiniteSet(Window(rows, c, u, now, cooldownDays))
    BY FS_Subset DEF Window
<1> QED BY <1>1, FS_CardinalityType

(* A later window is part of an earlier one, and rows that leave only make *)
(* it smaller.                                                             *)
LEMMA WindowShrinks ==
    ASSUME NEW rows, NEW fewer, IsFiniteSet(rows), NEW c, NEW u,
           \A a \in fewer : a.course = c /\ a.user = u => a \in rows,
           \A a \in rows : a.startedAt \in Int,
           NEW t \in Int, NEW v \in Int, t <= v, NEW cooldownDays \in Int
    PROVE  Cardinality(Window(fewer, c, u, v, cooldownDays))
               <= Cardinality(Window(rows, c, u, t, cooldownDays))
<1>1. Window(fewer, c, u, v, cooldownDays) \in SUBSET Window(rows, c, u, t, cooldownDays)
    BY DEF Window
<1> QED BY <1>1, WindowNatural, FS_Subset

(* When only the learner's own request may insert, room is kept.           *)
LEMMA RoomKept ==
    ASSUME TypeInv, FiniteAttempts, FiniteAttempts', NEW l \in Locals,
           l.finishedAt \in Int, l.settings \in QuizSettings,
           NoneAdded(l.course, l.user), RoomIn(attempts, l)
    PROVE  RoomIn(attempts', l)
<1> DEFINE now == Cardinality(Window(attempts, l.course, l.user, l.finishedAt,
                                     l.settings.cooldownDays))
           next == Cardinality(Window(attempts', l.course, l.user, l.finishedAt,
                                      l.settings.cooldownDays))
<1>1. \A a \in attempts : a.startedAt \in Int
    BY DEF TypeInv, TypeOK, AttemptRow
<1>2. l.settings.cooldownDays \in Int /\ EffectiveMaxAttempts(l.settings) \in Nat
    BY DEF QuizSettings, EffectiveMaxAttempts
<1>3. now \in Nat /\ next \in Nat
    BY WindowNatural DEF FiniteAttempts
<1>4. next <= now
    BY <1>1, <1>2, WindowShrinks DEF FiniteAttempts, NoneAdded
<1>5. now < EffectiveMaxAttempts(l.settings)
    BY DEF RoomIn
<1> HIDE DEF now, next
<1>6. next < EffectiveMaxAttempts(l.settings)
    BY <1>2, <1>3, <1>4, <1>5
<1> QED BY <1>6 DEF RoomIn, next

LEMMA RoomHoldsNext ==
    ASSUME SerialClients, LimitInv, [Next]_vars
    PROVE  RoomHolds'
<1>1. TypeInv /\ TypeInv' /\ FiniteAttempts /\ FiniteAttempts'
    BY TypeInvNext, FiniteAttemptsNext DEF LimitInv
<1> SUFFICES ASSUME NEW q \in Requests, pc'[q] = "insertAttempt"
             PROVE  RoomIn(attempts', loc'[q])
    BY DEF RoomHolds
<1>2. /\ loc'[q] \in Locals
      /\ loc'[q].course \in Courses
      /\ loc'[q].user \in Users
      /\ loc'[q].settings \in QuizSettings
      /\ loc'[q].finishedAt \in Int
    BY <1>1 DEF TypeInv, TypeOK, LocalsAssigned, Assigned, SubmitPC
<1>3. ASSUME pc[q] = "insertAttempt", loc'[q] = loc[q]
      PROVE  RoomIn(attempts', loc'[q])
    <2>1. ASSUME NEW r \in Requests, NEW score \in Scores, NEW delay \in StartDelays,
                 SubmitInsertAttempt(r, score, delay),
                 loc[r].user = loc[q].user
          PROVE  FALSE
        <3>1. r = q
            BY <1>2, <1>3, <2>1, NoneAssumption DEF LimitInv, OneRequestEach
        <3>2. pc'[r] # "insertAttempt"
            BY <1>1, <2>1, GotoMoves, FinishMoves DEF SubmitInsertAttempt
        <3> QED BY <3>1, <3>2
    <2>2. NoneAdded(loc[q].course, loc[q].user)
        BY <1>1, <1>2, <1>3, <2>1, AttemptsAdded
    <2>3. RoomIn(attempts, loc[q])
        BY <1>3 DEF LimitInv, RoomHolds
    <2> QED BY <1>1, <1>2, <1>3, <2>2, <2>3, RoomKept
<1>4. CASE SubmitReadWindow(q)
    <2> DEFINE l == [loc[q] EXCEPT !.finishedAt = today]
    <2>1. /\ attempts' = attempts
          /\ loc'[q] = l
          /\ ~(Cardinality(AttemptWindow(loc[q].course, loc[q].user, today,
                                         loc[q].settings.cooldownDays))
                 >= EffectiveMaxAttempts(loc[q].settings))
        BY <1>1, <1>4, GotoMoves, FinishMoves DEF SubmitReadWindow, tables
    <2>2. loc[q] \in Locals
        BY <1>1 DEF TypeInv, TypeOK
    <2>3. /\ l.course = loc[q].course
          /\ l.user = loc[q].user
          /\ l.settings = loc[q].settings
          /\ l.finishedAt = today
        BY <2>2 DEF Locals
    <2> HIDE DEF l
    <2> DEFINE n == Cardinality(Window(attempts, l.course, l.user, l.finishedAt,
                                       l.settings.cooldownDays))
    <2>4. n \in Nat
        BY <1>1, WindowNatural DEF FiniteAttempts
    <2>5. ~(n >= EffectiveMaxAttempts(l.settings))
        BY <2>1, <2>3, WindowOfAttempts
    <2>6. EffectiveMaxAttempts(l.settings) \in Nat
        BY <1>2, <2>1 DEF QuizSettings, EffectiveMaxAttempts
    <2> HIDE DEF n
    <2>7. n < EffectiveMaxAttempts(l.settings)
        BY <2>4, <2>5, <2>6
    <2> QED BY <2>1, <2>7 DEF n, RoomIn
<1>5. ASSUME NEW r \in Requests, Continue(r) \/ Abort(r)
      PROVE  RoomIn(attempts', loc'[q])
    <2>1. CASE q # r
        BY <1>1, <1>3, <1>5, <2>1, ContinueKeeps DEF Alone
    <2>2. CASE q = r
        BY <1>1, <1>4, <1>5, <2>2, ContinueKeeps DEF Keeps, Ended
    <2> QED BY <2>1, <2>2
<1>6. ASSUME NEW r \in Requests, Arrive(r)
      PROVE  RoomIn(attempts', loc'[q])
    <2>1. CASE q # r
        BY <1>1, <1>3, <1>6, <2>1, ArriveTakesOn DEF Alone
    <2>2. CASE q = r
        BY <1>1, <1>6, <2>2, ArriveTakesOn DEF TakesOn, SubmitPC
    <2> QED BY <2>1, <2>2
<1>7. CASE Environment \/ UNCHANGED vars
    BY <1>1, <1>3, <1>7, EnvironmentRows DEF vars
<1> QED BY <1>5, <1>6, <1>7 DEF Next

LEMMA LimitInvNext ==
    ASSUME SerialClients, LimitInv, [Next]_vars
    PROVE  LimitInv'
BY TypeInvNext, OneRequestEachNext, FiniteAttemptsNext, RoomHoldsNext DEF LimitInv

LEMMA InitLimitInv == Init => LimitInv
<1> SUFFICES ASSUME Init PROVE LimitInv
    OBVIOUS
<1>1. TypeInv
    BY InitTypeInv
<1>2. OneRequestEach
    BY DEF Init, OneRequestEach, NoLocals
<1>3. FiniteAttempts
    BY FS_EmptySet DEF Init, FiniteAttempts
<1> QED BY <1>1, <1>2, <1>3 DEF Init, LimitInv, RoomHolds

(* The new row is that of the inserting request, which found room.         *)
LEMMA InsertFindsRoom ==
    ASSUME LimitInv, [Next]_vars, NEW a \in attempts', \A b \in attempts : b.id # a.id
    PROVE  LET s == loc[a.id].settings
           IN  Cardinality(AttemptWindow(a.course, a.user, a.finishedAt, s.cooldownDays))
                   < EffectiveMaxAttempts(s)
<1>1. TypeInv
    BY DEF LimitInv
<1>2. ASSUME attempts' = attempts PROVE FALSE
    BY <1>2
<1>3. ~Environment
    BY <1>1, EnvironmentRows
<1>4. \A r \in Requests : ~(Arrive(r) \/ ReadStep(r) \/ EnrollInsert(r)
                               \/ IssueInsertCertificate(r) \/ Abort(r))
    BY <1>1, <1>2, ArriveMoves, ReadStepMoves
    DEF EnrollInsert, IssueInsertCertificate, Abort, tables
<1>5. attempts' # attempts => ~UNCHANGED vars
    BY DEF vars, tables
<1>6. PICK r \in Requests, score \in Scores, delay \in StartDelays :
          SubmitInsertAttempt(r, score, delay)
    BY <1>2, <1>3, <1>4, <1>5 DEF Next, Continue, ReadStep
<1>7. /\ pc[r] = "insertAttempt"
      /\ a.id = r
      /\ a.course = loc[r].course
      /\ a.user = loc[r].user
      /\ a.finishedAt = loc[r].finishedAt
    BY <1>6 DEF SubmitInsertAttempt
<1>8. RoomIn(attempts, loc[r])
    BY <1>7 DEF LimitInv, RoomHolds
<1> QED BY <1>7, <1>8, WindowOfAttempts DEF RoomIn

(* Whatever is saved, deleted or aborted meanwhile, the attempt of a       *)
(* learner who waits for each answer is stored only while its window has   *)
(* room: the count is still right, though it is a statement of its own.    *)
THEOREM LimitKeptAtInsert ==
    ASSUME SerialClients
    PROVE  Spec => LimitHoldsAtInsert
<1>1. LimitInv /\ [Next]_vars => LimitInv'
    BY LimitInvNext
<1>2. LimitInv /\ [Next]_vars =>
        [\A a \in attempts' :
           (\A b \in attempts : b.id # a.id) =>
              LET s == loc[a.id].settings
              IN  Cardinality(AttemptWindow(a.course, a.user, a.finishedAt, s.cooldownDays))
                      < EffectiveMaxAttempts(s)]_attempts
    BY InsertFindsRoom
<1> QED BY <1>1, <1>2, InitLimitInv, PTL DEF Spec, LimitHoldsAtInsert

-----------------------------------------------------------------------------
(* The announced day.                                                      *)

(* What a submission has loaded are the rules of the course.               *)
SettingsCurrent ==
    \A r \in Requests : pc[r] \in SubmitPC => loc[r].settings = saved[loc[r].course]

FinishedPast == \A r \in Requests : pc[r] = "insertAttempt" => loc[r].finishedAt <= today

(* The attempts in the window of a day.                                    *)
Used(rows, c, u, day) == Cardinality(Window(rows, c, u, day, saved[c].cooldownDays))

(* Today's window never holds more than the limit.                         *)
WindowHolds ==
    \A c \in Courses, u \in Users :
        Used(attempts, c, u, today) <= EffectiveMaxAttempts(saved[c])

(* The window of the announced day has room already, though the day may be *)
(* to come: only the attempts that will have left it are missing from it.  *)
PromiseHolds ==
    \A c \in Courses, u \in Users :
        promised[c][u] # None =>
            Used(attempts, c, u, promised[c][u]) < EffectiveMaxAttempts(saved[c])

ReopenInv ==
    LimitInv /\ SettingsCurrent /\ FinishedPast /\ WindowHolds /\ PromiseHolds

LEMMA UsedNatural ==
    ASSUME FiniteAttempts, NEW c, NEW u, NEW day
    PROVE  Used(attempts, c, u, day) \in Nat
BY WindowNatural DEF Used, FiniteAttempts

LEMMA UsedShrinks ==
    ASSUME TypeInv, FiniteAttempts, NEW rows, NEW c \in Courses, NEW u \in Users,
           \A a \in rows : a.course = c /\ a.user = u => a \in attempts,
           NEW t \in Int, NEW v \in Int, t <= v
    PROVE  Used(rows, c, u, v) <= Used(attempts, c, u, t)
<1>1. \A a \in attempts : a.startedAt \in Int
    BY DEF TypeInv, TypeOK, AttemptRow
<1>2. saved[c].cooldownDays \in Int
    BY DEF TypeInv, TypeOK, QuizSettings
<1> QED BY <1>1, <1>2, WindowShrinks DEF Used, FiniteAttempts

LEMMA LimitOfCourse ==
    ASSUME TypeInv, NEW c \in Courses
    PROVE  EffectiveMaxAttempts(saved[c]) \in Nat
BY DEF TypeInv, TypeOK, QuizSettings, EffectiveMaxAttempts

(* While no course has been saved again the rules stay, and days only pass. *)
LEMMA RulesStay ==
    ASSUME TypeInv, updates' = 0, [Next]_vars
    PROVE  /\ saved' = saved /\ updates = 0
           /\ today \in Int /\ today' \in Int /\ today <= today'
           /\ ~NextDay => today' = today
<1>1. today \in Int /\ updates \in Nat
    BY DEF TypeInv, TypeOK
<1>2. ASSUME NEW r \in Requests, Arrive(r) \/ Continue(r) \/ Abort(r)
      PROVE  saved' = saved /\ today' = today /\ updates' = updates
    BY <1>2, ArriveMoves, ReadStepMoves
    DEF Continue, ReadStep, SubmitInsertAttempt, IssueInsertCertificate, EnrollInsert,
        Abort, world
<1>3. CASE Environment
    BY <1>1, <1>3 DEF Environment, UpdateCourse, ArchiveCourse, DeactivateUser, NextDay
<1>4. CASE UNCHANGED vars
    BY <1>1, <1>4 DEF vars, world
<1> QED BY <1>1, <1>2, <1>3, <1>4 DEF Next

LEMMA SettingsCurrentNext ==
    ASSUME updates' = 0, TypeInv, SettingsCurrent, [Next]_vars
    PROVE  SettingsCurrent'
<1>1. saved' = saved
    BY RulesStay
<1> SUFFICES ASSUME NEW q \in Requests, pc'[q] \in SubmitPC
             PROVE  loc'[q].settings = saved[loc'[q].course]
    BY <1>1 DEF SettingsCurrent
<1>2. ASSUME pc[q] \in SubmitPC, loc'[q] = loc[q]
      PROVE  loc'[q].settings = saved[loc'[q].course]
    BY <1>2 DEF SettingsCurrent
<1>3. "insertCertificate" \notin SubmitPC /\ Ended \cap SubmitPC = {}
      /\ "insertEnrollment" \notin SubmitPC
    BY DEF SubmitPC, Ended
<1>4. ASSUME NEW r \in Requests, Continue(r) \/ Abort(r)
      PROVE  loc'[q].settings = saved[loc'[q].course]
    <2>1. CASE q # r
        BY <1>2, <1>4, <2>1, ContinueKeeps DEF Alone
    <2>2. CASE q = r
        <3>1. /\ loc'[q].settings = loc[q].settings
              /\ loc'[q].course = loc[q].course
              /\ pc[q] \in SubmitPC
            BY <1>3, <1>4, <2>2, ContinueKeeps DEF Keeps
        <3> QED BY <3>1 DEF SettingsCurrent
    <2> QED BY <2>1, <2>2
<1>5. ASSUME NEW r \in Requests, Arrive(r)
      PROVE  loc'[q].settings = saved[loc'[q].course]
    <2>1. CASE q # r
        BY <1>2, <1>5, <2>1, ArriveTakesOn DEF Alone
    <2>2. CASE q = r
        BY <1>3, <1>5, <2>2, ArriveTakesOn DEF TakesOn
    <2> QED BY <2>1, <2>2
<1>6. CASE Environment \/ UNCHANGED vars
    BY <1>2, <1>6, EnvironmentRows DEF vars
<1> QED BY <1>4, <1>5, <1>6 DEF Next

LEMMA FinishedPastNext ==
    ASSUME updates' = 0, TypeInv, FinishedPast, [Next]_vars
    PROVE  FinishedPast'
<1>1. /\ TypeInv'
      /\ today \in Int /\ today' \in Int /\ today <= today'
      /\ ~NextDay => today' = today
    BY TypeInvNext, RulesStay
<1> SUFFICES ASSUME NEW q \in Requests, pc'[q] = "insertAttempt"
             PROVE  loc'[q].finishedAt <= today'
    BY DEF FinishedPast
<1>2. loc'[q].finishedAt \in Int
    BY <1>1 DEF TypeInv, LocalsAssigned, Assigned
<1>3. ASSUME pc[q] = "insertAttempt", loc'[q] = loc[q]
      PROVE  loc'[q].finishedAt <= today'
    BY <1>1, <1>2, <1>3 DEF FinishedPast
<1>4. CASE SubmitReadWindow(q)
    <2>1. loc'[q] = [loc[q] EXCEPT !.finishedAt = today] /\ today' = today
        BY <1>4, GotoMoves, FinishMoves DEF SubmitReadWindow, world
    <2>2. loc[q] \in Locals
        BY DEF TypeInv, TypeOK
    <2>3. loc'[q].finishedAt = today
        BY <2>1, <2>2 DEF Locals
    <2> QED BY <1>1, <2>1, <2>3
<1>5. ASSUME NEW r \in Requests, Continue(r) \/ Abort(r)
      PROVE  loc'[q].finishedAt <= today'
    BY <1>3, <1>4, <1>5, ContinueKeeps DEF Alone, Keeps, Ended
<1>6. ASSUME NEW r \in Requests, Arrive(r)
      PROVE  loc'[q].finishedAt <= today'
    <2>1. CASE q # r
        BY <1>3, <1>6, <2>1, ArriveTakesOn DEF Alone
    <2>2. CASE q = r
        BY <1>6, <2>2, ArriveTakesOn DEF TakesOn, SubmitPC
    <2> QED BY <2>1, <2>2
<1>7. CASE Environment \/ UNCHANGED vars
    BY <1>3, <1>7, EnvironmentRows DEF vars
<1> QED BY <1>5, <1>6, <1>7 DEF Next

(* An insertion finds room and adds one row.                               *)
LEMMA InsertFills ==
    ASSUME ReopenInv, NEW r \in Requests, NEW score \in Scores, NEW delay \in StartDelays,
           SubmitInsertAttempt(r, score, delay)
    PROVE  Used(attempts', loc[r].course, loc[r].user, today)
               <= EffectiveMaxAttempts(saved[loc[r].course])
<1> DEFINE c == loc[r].course
           u == loc[r].user
           t == loc[r].finishedAt
           before == Window(attempts, c, u, t, saved[c].cooldownDays)
           after == Window(attempts', c, u, today, saved[c].cooldownDays)
<1>1. TypeInv /\ FiniteAttempts /\ pc[r] = "insertAttempt"
    BY DEF ReopenInv, LimitInv, SubmitInsertAttempt
<1>2. /\ c \in Courses /\ u \in Users /\ t \in Int /\ today \in Int
      /\ saved[c] = loc[r].settings /\ t <= today
    BY <1>1 DEF ReopenInv, SettingsCurrent, FinishedPast, TypeInv, TypeOK, LocalsAssigned,
       Assigned, SubmitPC
<1>3. saved[c].cooldownDays \in Int /\ EffectiveMaxAttempts(saved[c]) \in Nat
    BY <1>1, <1>2, LimitOfCourse DEF TypeInv, TypeOK, QuizSettings
<1>4. Cardinality(before) < EffectiveMaxAttempts(saved[c])
    BY <1>1, <1>2 DEF ReopenInv, LimitInv, RoomHolds, RoomIn
<1>5. IsFiniteSet(before) /\ Cardinality(before) \in Nat
    BY <1>1, WindowNatural DEF FiniteAttempts
<1>6. \E row : attempts' \subseteq attempts \cup {row}
    BY DEF SubmitInsertAttempt
<1>7. PICK row : attempts' \subseteq attempts \cup {row}
    BY <1>6
<1>8. \A a \in attempts : a.startedAt \in Int
    BY <1>1 DEF TypeInv, TypeOK, AttemptRow
<1>9. after \in SUBSET (before \cup {row})
    BY <1>2, <1>3, <1>7, <1>8 DEF Window
<1> HIDE DEF before, after
<1>10. /\ IsFiniteSet(before \cup {row})
       /\ Cardinality(before \cup {row}) \in Nat
       /\ Cardinality(before \cup {row}) <= Cardinality(before) + 1
    <2>1. /\ IsFiniteSet(before \cup {row})
          /\ Cardinality(before \cup {row}) =
                IF row \in before THEN Cardinality(before) ELSE Cardinality(before) + 1
        BY <1>5, FS_AddElement
    <2>2. Cardinality(before \cup {row}) \in Nat
        BY <2>1, FS_CardinalityType
    <2> QED BY <1>5, <2>1, <2>2
<1>11. Cardinality(after) \in Nat /\ Cardinality(after) <= Cardinality(before \cup {row})
    BY <1>9, <1>10, FS_Subset, FS_CardinalityType
<1>12. Cardinality(after) <= EffectiveMaxAttempts(saved[c])
    BY <1>3, <1>4, <1>5, <1>10, <1>11
<1> QED BY <1>12 DEF Used, after

LEMMA WindowHoldsNext ==
    ASSUME updates' = 0, ReopenInv, [Next]_vars
    PROVE  WindowHolds'
<1>1. /\ TypeInv /\ FiniteAttempts /\ FiniteAttempts'
      /\ saved' = saved
      /\ today \in Int /\ today' \in Int /\ today <= today'
      /\ ~NextDay => today' = today
    BY RulesStay, FiniteAttemptsNext DEF ReopenInv, LimitInv
<1> SUFFICES ASSUME NEW c \in Courses, NEW u \in Users
             PROVE  Used(attempts', c, u, today') <= EffectiveMaxAttempts(saved[c])
    BY <1>1 DEF WindowHolds, Used
<1>2. CASE NoneAdded(c, u)
    <2> DEFINE before == Used(attempts, c, u, today)
               after == Used(attempts', c, u, today')
    <2>1. after <= before
        BY <1>1, <1>2, UsedShrinks DEF NoneAdded
    <2>2. before \in Nat /\ after \in Nat
        BY <1>1, WindowNatural DEF Used, FiniteAttempts
    <2>3. before <= EffectiveMaxAttempts(saved[c])
        BY DEF ReopenInv, WindowHolds
    <2>4. EffectiveMaxAttempts(saved[c]) \in Nat
        BY <1>1, LimitOfCourse
    <2> HIDE DEF before, after
    <2>5. after <= EffectiveMaxAttempts(saved[c])
        BY <2>1, <2>2, <2>3, <2>4
    <2> QED BY <2>5 DEF after
<1>3. ASSUME NEW r \in Requests, NEW score \in Scores, NEW delay \in StartDelays,
             SubmitInsertAttempt(r, score, delay), loc[r].course = c, loc[r].user = u
      PROVE  Used(attempts', c, u, today') <= EffectiveMaxAttempts(saved[c])
    <2>1. today' = today
        BY <1>3 DEF SubmitInsertAttempt, world
    <2> QED BY <1>3, <2>1, InsertFills
<1> QED BY <1>1, <1>2, <1>3, AttemptsAdded

(* The refusal announces the day on which the earliest attempt of the      *)
(* window leaves it.                                                       *)
LEMMA RefusalPromises ==
    ASSUME ReopenInv, NEW c \in Courses, NEW u \in Users, saved[c].cooldownDays > 0,
           NEW a \in Earliest(AttemptWindow(c, u, today, saved[c].cooldownDays))
    PROVE  Used(attempts, c, u, a.startedAt + saved[c].cooldownDays)
               < EffectiveMaxAttempts(saved[c])
<1> DEFINE cooldown == saved[c].cooldownDays
           now == Window(attempts, c, u, today, cooldown)
           then == Window(attempts, c, u, a.startedAt + cooldown, cooldown)
<1>1. TypeInv /\ FiniteAttempts
    BY DEF ReopenInv, LimitInv
<1>2. today \in Int /\ cooldown \in Int /\ EffectiveMaxAttempts(saved[c]) \in Nat
    BY <1>1, LimitOfCourse DEF TypeInv, TypeOK, QuizSettings
<1>3. a \in now /\ \A b \in now : a.startedAt <= b.startedAt
    BY DEF Earliest, AttemptWindow, Window
<1>4. \A b \in attempts : b.startedAt \in Int
    BY <1>1 DEF TypeInv, TypeOK, AttemptRow
<1>5. then \in SUBSET (now \ {a})
    BY <1>2, <1>3, <1>4 DEF Window
<1>6. IsFiniteSet(now) /\ Cardinality(now) \in Nat
    BY <1>1, WindowNatural DEF FiniteAttempts
<1>7. Cardinality(now) <= EffectiveMaxAttempts(saved[c])
    BY DEF ReopenInv, WindowHolds, Used
<1> HIDE DEF now, then
<1>8. IsFiniteSet(now \ {a}) /\ Cardinality(now \ {a}) = Cardinality(now) - 1
    BY <1>3, <1>6, FS_RemoveElement
<1>9. Cardinality(then) \in Nat /\ Cardinality(then) <= Cardinality(now) - 1
    BY <1>5, <1>8, FS_Subset, FS_CardinalityType
<1>10. Cardinality(then) < EffectiveMaxAttempts(saved[c])
    BY <1>2, <1>6, <1>7, <1>9
<1> QED BY <1>10 DEF then, Used

(* Only a refusal announces a day.                                         *)
LEMMA OnlyRefusalPromises ==
    ASSUME TypeInv, SettingsCurrent, [Next]_vars, NEW c \in Courses, NEW u \in Users
    PROVE  \/ promised'[c][u] \in {promised[c][u], None}
           \/ /\ UNCHANGED <<attempts, saved>>
              /\ saved[c].cooldownDays > 0
              /\ \E a \in Earliest(AttemptWindow(c, u, today, saved[c].cooldownDays)) :
                    promised'[c][u] = a.startedAt + saved[c].cooldownDays
<1>0. promised \in [Courses -> [Users -> Int \cup {None}]]
    BY DEF TypeInv, TypeOK
<1>1. ASSUME UNCHANGED promised
      PROVE  promised'[c][u] = promised[c][u]
    BY <1>1
<1>2. ASSUME NEW d \in Courses, NEW v \in Users, NEW day,
             promised' = [promised EXCEPT ![d][v] = day]
      PROVE  promised'[c][u] = IF c = d /\ u = v THEN day ELSE promised[c][u]
    <2>1. CASE c = d
        BY <1>0, <1>2, <2>1
    <2>2. CASE c # d
        BY <1>0, <1>2, <2>2
    <2> QED BY <2>1, <2>2
<1>3. ASSUME NEW r \in Requests, SubmitReadWindow(r)
      PROVE  \/ promised'[c][u] \in {promised[c][u], None}
             \/ /\ UNCHANGED <<attempts, saved>>
                /\ saved[c].cooldownDays > 0
                /\ \E a \in Earliest(AttemptWindow(c, u, today, saved[c].cooldownDays)) :
                      promised'[c][u] = a.startedAt + saved[c].cooldownDays
    <2> DEFINE d == loc[r].course
               v == loc[r].user
               s == loc[r].settings
    <2>1. pc[r] = "readWindow" /\ UNCHANGED <<attempts, saved>>
        BY <1>3 DEF SubmitReadWindow, world, tables
    <2>2. d \in Courses /\ v \in Users /\ s = saved[d]
        BY <2>1 DEF TypeInv, LocalsAssigned, Assigned, SubmitPC, SettingsCurrent
    <2>3. \/ UNCHANGED promised
          \/ promised' = [promised EXCEPT ![d][v] = None]
          \/ /\ s.cooldownDays > 0
             /\ \E a \in Earliest(AttemptWindow(d, v, today, s.cooldownDays)) :
                   promised' = [promised EXCEPT ![d][v] = a.startedAt + s.cooldownDays]
        BY <1>3 DEF SubmitReadWindow
    <2> HIDE DEF d, v, s
    <2>4. ASSUME s.cooldownDays > 0,
                 NEW a \in Earliest(AttemptWindow(d, v, today, s.cooldownDays)),
                 promised' = [promised EXCEPT ![d][v] = a.startedAt + s.cooldownDays]
          PROVE  \/ promised'[c][u] = promised[c][u]
                 \/ /\ saved[c].cooldownDays > 0
                    /\ a \in Earliest(AttemptWindow(c, u, today, saved[c].cooldownDays))
                    /\ promised'[c][u] = a.startedAt + saved[c].cooldownDays
        <3>1. promised'[c][u] = IF c = d /\ u = v THEN a.startedAt + s.cooldownDays
                                                  ELSE promised[c][u]
            BY <1>2, <2>2, <2>4
        <3> QED BY <2>2, <2>4, <3>1
    <2> QED BY <1>1, <1>2, <2>1, <2>2, <2>3, <2>4
<1>4. ASSUME NEW r \in Requests, NEW score \in Scores, NEW delay \in StartDelays,
             SubmitInsertAttempt(r, score, delay)
      PROVE  promised'[c][u] \in {promised[c][u], None}
    <2>1. loc[r].course \in Courses /\ loc[r].user \in Users
        BY <1>4 DEF SubmitInsertAttempt, TypeInv, LocalsAssigned, Assigned, SubmitPC
    <2>2. UNCHANGED promised \/ promised' = [promised EXCEPT ![loc[r].course][loc[r].user] = None]
        BY <1>4 DEF SubmitInsertAttempt
    <2> QED BY <1>1, <1>2, <2>1, <2>2
<1>5. ASSUME NEW d \in Courses, NEW s \in Settings, UpdateCourse(d, s)
      PROVE  promised'[c][u] \in {promised[c][u], None}
    <2>1. promised' = [promised EXCEPT ![d] = [w \in Users |-> None]]
        BY <1>5 DEF UpdateCourse
    <2> QED BY <1>0, <2>1
<1>6. ASSUME NEW r \in Requests, Continue(r) \/ Abort(r), ~SubmitReadWindow(r),
             ~\E score \in Scores, delay \in StartDelays : SubmitInsertAttempt(r, score, delay)
      PROVE  UNCHANGED promised
    BY <1>6
    DEF Continue, SubmitCheckCertificate, SubmitFetchAttempt, SubmitFindEnrollment,
        AutoIssueCheckExisting, AutoIssueFindCandidate, IssueCheckPair, IssueLoadContext,
        IssueInsertCertificate, EnrollInsert, Abort, ghosts
<1>7. ASSUME NEW r \in Requests, Arrive(r)
      PROVE  UNCHANGED promised
    BY <1>7, ArriveTakesOn
<1>8. CASE Environment
    BY <1>1, <1>5, <1>8 DEF Environment, ArchiveCourse, DeactivateUser, NextDay, ghosts
<1>9. CASE UNCHANGED vars
    BY <1>1, <1>9 DEF vars, ghosts
<1> QED
    BY <1>1, <1>3, <1>4, <1>6, <1>7, <1>8, <1>9 DEF Next

LEMMA PromiseHoldsNext ==
    ASSUME updates' = 0, ReopenInv, [Next]_vars
    PROVE  PromiseHolds'
<1>1. /\ TypeInv /\ TypeInv' /\ FiniteAttempts /\ FiniteAttempts' /\ SettingsCurrent
      /\ saved' = saved
    BY RulesStay, FiniteAttemptsNext, TypeInvNext DEF ReopenInv, LimitInv
<1> SUFFICES ASSUME NEW c \in Courses, NEW u \in Users, promised'[c][u] # None
             PROVE  Used(attempts', c, u, promised'[c][u]) < EffectiveMaxAttempts(saved[c])
    BY <1>1 DEF PromiseHolds, Used
<1>2. promised'[c][u] \in Int
    BY <1>1 DEF TypeInv, TypeOK
<1>3. CASE promised'[c][u] = promised[c][u] /\ NoneAdded(c, u)
    <2> DEFINE before == Used(attempts, c, u, promised[c][u])
               after == Used(attempts', c, u, promised[c][u])
    <2>1. after <= before
        BY <1>1, <1>2, <1>3, UsedShrinks DEF NoneAdded
    <2>2. before \in Nat /\ after \in Nat
        BY <1>1, WindowNatural DEF Used, FiniteAttempts
    <2>3. before < EffectiveMaxAttempts(saved[c])
        BY <1>3 DEF ReopenInv, PromiseHolds
    <2>4. EffectiveMaxAttempts(saved[c]) \in Nat
        BY <1>1, LimitOfCourse
    <2> HIDE DEF before, after
    <2>5. after < EffectiveMaxAttempts(saved[c])
        BY <2>1, <2>2, <2>3, <2>4
    <2> QED BY <1>3, <2>5 DEF after
<1>4. ASSUME NEW r \in Requests, NEW score \in Scores, NEW delay \in StartDelays,
             SubmitInsertAttempt(r, score, delay), loc[r].course = c, loc[r].user = u
      PROVE  promised'[c][u] = promised[c][u] /\ NoneAdded(c, u)
    <2>1. ~(promised' = [promised EXCEPT ![c][u] = None])
        BY <1>1 DEF TypeInv, TypeOK
    <2>2. UNCHANGED <<attempts, promised>>
        BY <1>4, <2>1 DEF SubmitInsertAttempt
    <2> QED BY <2>2 DEF NoneAdded
<1>5. CASE promised'[c][u] = promised[c][u]
    BY <1>1, <1>3, <1>4, <1>5, AttemptsAdded
<1>6. ASSUME UNCHANGED <<attempts, saved>>, saved[c].cooldownDays > 0,
             NEW a \in Earliest(AttemptWindow(c, u, today, saved[c].cooldownDays)),
             promised'[c][u] = a.startedAt + saved[c].cooldownDays
      PROVE  Used(attempts', c, u, promised'[c][u]) < EffectiveMaxAttempts(saved[c])
    BY <1>6, RefusalPromises
<1> QED BY <1>1, <1>5, <1>6, OnlyRefusalPromises

(* What holds while no course has been saved again.                        *)
RulesInv == LimitInv /\ (updates = 0 => ReopenInv)

LEMMA InitReopenInv == Init => ReopenInv
<1> SUFFICES ASSUME Init PROVE ReopenInv
    OBVIOUS
<1>1. LimitInv
    BY InitLimitInv
<1>2. SettingsCurrent /\ FinishedPast
    BY DEF Init, SettingsCurrent, FinishedPast, SubmitPC
<1>3. PromiseHolds
    BY DEF Init, PromiseHolds
<1>4. WindowHolds
    <2> SUFFICES ASSUME NEW c \in Courses, NEW u \in Users
                 PROVE  Used(attempts, c, u, today) <= EffectiveMaxAttempts(saved[c])
        BY DEF WindowHolds
    <2>1. Window(attempts, c, u, today, saved[c].cooldownDays) = {}
        BY DEF Init, Window
    <2>2. Used(attempts, c, u, today) = 0
        BY <2>1, FS_EmptySet DEF Used
    <2>3. EffectiveMaxAttempts(saved[c]) \in Nat
        BY <1>1, LimitOfCourse DEF LimitInv
    <2> QED BY <2>2, <2>3
<1> QED BY <1>1, <1>2, <1>3, <1>4 DEF ReopenInv

LEMMA RulesInvNext ==
    ASSUME SerialClients, RulesInv, [Next]_vars
    PROVE  RulesInv'
<1>1. LimitInv'
    BY LimitInvNext DEF RulesInv
<1>2. CASE updates' = 0
    <2>1. updates = 0
        BY <1>2, RulesStay DEF RulesInv, LimitInv
    <2>2. ReopenInv
        BY <2>1 DEF RulesInv
    <2>3. ReopenInv'
        BY <1>1, <1>2, <2>2, SettingsCurrentNext, FinishedPastNext, WindowHoldsNext,
           PromiseHoldsNext DEF ReopenInv, LimitInv
    <2> QED BY <1>1, <2>3 DEF RulesInv
<1> QED BY <1>1, <1>2 DEF RulesInv

LEMMA RulesKept ==
    ASSUME SerialClients
    PROVE  Spec => []RulesInv
<1>1. Init => RulesInv
    BY InitReopenInv DEF RulesInv, ReopenInv
<1>2. RulesInv /\ [Next]_vars => RulesInv'
    BY RulesInvNext
<1> QED BY <1>1, <1>2, PTL DEF Spec

(* As long as no course is saved again, a learner who waits for each       *)
(* answer and comes back after the announced day finds room: rows stored,  *)
(* deleted or refused meanwhile do not put the day off.                    *)
THEOREM QuizReopensAsAnnounced ==
    ASSUME SerialClients
    PROVE  Spec => []QuizReopens
<1>1. RulesInv => QuizReopens
    <2> SUFFICES ASSUME RulesInv, updates = 0, NEW r \in Requests, pc[r] = "readWindow",
                        promised[loc[r].course][loc[r].user] # None,
                        today > promised[loc[r].course][loc[r].user]
                 PROVE  Cardinality(AttemptWindow(loc[r].course, loc[r].user, today,
                                                  loc[r].settings.cooldownDays))
                            < EffectiveMaxAttempts(loc[r].settings)
        BY DEF QuizReopens
    <2> DEFINE c == loc[r].course
               u == loc[r].user
               day == promised[c][u]
               then == Used(attempts, c, u, day)
               now == Used(attempts, c, u, today)
    <2>1. ReopenInv /\ TypeInv /\ FiniteAttempts
        BY DEF RulesInv, ReopenInv, LimitInv
    <2>2. c \in Courses /\ u \in Users /\ loc[r].settings = saved[c]
        BY <2>1 DEF ReopenInv, SettingsCurrent, TypeInv, LocalsAssigned, Assigned, SubmitPC
    <2>3. day \in Int /\ today \in Int /\ day <= today
        BY <2>1, <2>2 DEF TypeInv, TypeOK
    <2>4. now <= then
        BY <2>1, <2>2, <2>3, UsedShrinks
    <2>5. now \in Nat /\ then \in Nat
        BY <2>1, UsedNatural
    <2>6. then < EffectiveMaxAttempts(saved[c]) /\ EffectiveMaxAttempts(saved[c]) \in Nat
        BY <2>1, <2>2, LimitOfCourse DEF ReopenInv, PromiseHolds
    <2> HIDE DEF then, now
    <2>7. now < EffectiveMaxAttempts(saved[c])
        BY <2>4, <2>5, <2>6
    <2> QED BY <2>2, <2>7, WindowOfAttempts DEF now, Used
<1> QED BY <1>1, RulesKept, PTL

(* Where there is no cooldown the attempts of such a learner stay within   *)
(* the limit for good: days that pass and starts that are reported early   *)
(* or late take none of them out of the count.                             *)
THEOREM LimitKeptForGood ==
    ASSUME SerialClients
    PROVE  Spec => []LimitForGood
<1>1. RulesInv => LimitForGood
    <2> SUFFICES ASSUME RulesInv, updates = 0, NEW c \in Courses, NEW u \in Users,
                        saved[c].cooldownDays <= 0
                 PROVE  Cardinality({a \in attempts : a.course = c /\ a.user = u})
                            <= EffectiveMaxAttempts(saved[c])
        BY DEF LimitForGood
    <2>1. ReopenInv /\ TypeInv
        BY DEF RulesInv, ReopenInv, LimitInv
    <2>2. saved[c].cooldownDays \in Int
        BY <2>1 DEF TypeInv, TypeOK, QuizSettings
    <2>3. Window(attempts, c, u, today, saved[c].cooldownDays)
              = {a \in attempts : a.course = c /\ a.user = u}
        BY <2>2 DEF Window
    <2> QED BY <2>1, <2>3 DEF ReopenInv, WindowHolds, Used
<1> QED BY <1>1, RulesKept, PTL

=============================================================================

------------------------ MODULE CourseContentProofs ------------------------
(***************************************************************************)
(* Theorems about CourseContent, for any number of courses, moderators and *)
(* edits.                                                                  *)
(***************************************************************************)
EXTENDS CourseContent, CourseCatalogProofs

(* Of a step, what concerns content: courses do not disappear. *)
CoursesStay == \A c \in Courses : courses[c] # None => courses'[c] # None

(* What hangs on courses changes nothing about them: every behaviour is    *)
(* one of CourseCatalog, whose theorems hold here too.                     *)
THEOREM ContentImplementsCatalog == ContentSpec => CatalogSpec
<1>1. ContentInit => Init
    BY DEF ContentInit
<1>2. [ContentNext]_allVars => [CatalogNext]_vars
    <2> SUFFICES ASSUME [ContentNext]_allVars PROVE [CatalogNext]_vars
        OBVIOUS
    <2>1. CASE Save \/ Learn
        BY <2>1 DEF CatalogNext
    <2>2. ASSUME NEW c \in Courses, DeleteCourse(c) PROVE CatalogNext
        BY <2>2 DEF DeleteCourse, CatalogNext
    <2>3. CASE CatalogSame
        BY <2>3 DEF CatalogSame, vars
    <2>4. CASE UNCHANGED allVars
        BY <2>4 DEF allVars, vars
    <2> QED BY <2>1, <2>2, <2>3, <2>4 DEF ContentNext, CreateModule, UpdateModule, DeleteModule, CreateBlock,
               UpdateBlock, DeleteBlock, CreateReview, ModerateReview, WriteReview, LogReview, LogReviewFails
<1> QED BY <1>1, <1>2, PTL DEF ContentSpec, CatalogSpec

LEMMA ContentVersions == ContentSpec => []VersionInv
BY ContentImplementsCatalog, CatalogVersions

LEMMA SaveKeepsCourses ==
    ASSUME VersionInv, Save
    PROVE  CoursesStay
<1>1. courses \in [Courses -> Row \cup {None}] /\ \A c \in Courses : courses[c] # None => c \in given
    BY DEF VersionInv, RowsTyped
<1>2. ASSUME NEW f, Create(f) PROVE CoursesStay
    <2>1. PICK c \in bound.courses \ given : Write(c, CreatedRow(f, NextSave), f.quiz)
        BY <1>2 DEF Create
    <2> QED BY <1>1, <2>1 DEF Write, CoursesStay
<1>3. ASSUME NEW c \in Courses, NEW f \in Form, Update(c, f) PROVE CoursesStay
    <2>1. UpdatedRow(f, NextSave) \in Row
        <3>1. NextSave \in Nat
            BY DEF VersionInv, RowsFollowSaves, NextSave
        <3> QED BY <1>3, <3>1 DEF Update, UpdateAccepted, Form, PassingPercent, UpdatedRow, Row
    <2>2. UpdatedRow(f, NextSave) # None
        BY <2>1, RowAssumption
    <2> QED BY <1>1, <1>3, <2>2 DEF Update, Write, CoursesStay
<1> QED BY <1>2, <1>3, FormTyped DEF Save, CreateCourse, CreatePackage, CreateQuiz, UpdateCourse, UpdateQuiz

-----------------------------------------------------------------------------
(* The tables.                                                             *)

Modules == [id : Nat, course : Courses, position : Nat]
Reviews == [id : Nat, course : Courses, status : ReviewStatuses]

ModulesHang ==
    /\ edits \in Nat
    /\ modules \subseteq Modules
    /\ \A m \in modules :
         /\ m.id < edits
         /\ CourseExists(m.course)
         /\ \A n \in modules :
              n.id = m.id \/ (n.course = m.course /\ n.position = m.position) => n = m

BlockHangs(b) ==
    /\ b.id \in Nat /\ b.id < edits
    /\ b.course \in Courses \cup {None}
    /\ (b.course = None) # (b.module = None)
    /\ HomeExists(b.course, b.module)
    /\ PayloadValid(b.type, b.payload)

BlocksHang == \A b \in blocks : BlockHangs(b)

ReviewsHang ==
    /\ reviews \subseteq Reviews
    /\ \A r \in reviews :
         /\ r.id < edits
         /\ CourseExists(r.course)
         /\ \A q \in reviews : q.id = r.id => q = r

ContentInv == ModulesHang /\ BlocksHang /\ ReviewsHang

LEMMA InitContentInv == ContentInit => ContentInv
BY DEF ContentInit, ContentInv, ModulesHang, BlocksHang, ReviewsHang

(* A step that leaves the tables, and keeps the courses they refer to. *)
LEMMA TablesSame ==
    ASSUME ContentInv, VersionInv, CoursesStay, edits' = edits \/ Edit,
           UNCHANGED <<modules, blocks, reviews>>
    PROVE  ContentInv'
<1>1. edits' \in Nat /\ edits' >= edits
    BY DEF ContentInv, ModulesHang, Edit
<1>2. \A c \in Courses : CourseExists(c) => CourseExists(c)'
    BY DEF CoursesStay, CourseExists
<1>3. ModulesHang'
    BY <1>1, <1>2 DEF ContentInv, ModulesHang, Modules
<1>4. BlocksHang'
    BY <1>1, <1>2 DEF ContentInv, ModulesHang, BlocksHang, BlockHangs, HomeExists
<1>5. ReviewsHang'
    BY <1>1, <1>2 DEF ContentInv, ModulesHang, ReviewsHang, Reviews
<1> QED BY <1>3, <1>4, <1>5 DEF ContentInv

LEMMA CreateModuleKeeps ==
    ASSUME ContentInv, NEW c \in Courses, NEW position \in 0 .. 2, CreateModule(c, position)
    PROVE  ContentInv'
<1>1. edits \in Nat /\ edits' = edits + 1 /\ UNCHANGED <<courses, blocks, reviews>>
    BY DEF ContentInv, ModulesHang, CreateModule, Edit, CatalogSame, ReviewsSame
<1> DEFINE new == [id |-> edits, course |-> c, position |-> position]
<1>2. modules' = modules \cup {new} /\ CourseExists(c) /\ new \in Modules
    BY <1>1 DEF CreateModule, Modules
<1>3. \A m \in modules : m.id < edits /\ ~(m.course = c /\ m.position = position)
    BY IdsAssumption DEF CreateModule, PositionFree, ContentInv, ModulesHang, Modules
<1>4. ModulesHang'
    BY <1>1, <1>2, <1>3 DEF ContentInv, ModulesHang, Modules, CourseExists
<1>5. BlocksHang'
    BY <1>1, <1>2 DEF ContentInv, BlocksHang, BlockHangs, HomeExists, CourseExists
<1>6. ReviewsHang'
    BY <1>1 DEF ContentInv, ReviewsHang, Reviews, CourseExists
<1> QED BY <1>4, <1>5, <1>6 DEF ContentInv

LEMMA UpdateModuleKeeps ==
    ASSUME ContentInv, NEW m \in modules, NEW c \in Courses, NEW position \in 0 .. 2,
           UpdateModule(m, c, position)
    PROVE  ContentInv'
<1>1. edits \in Nat /\ edits' = edits + 1 /\ UNCHANGED <<courses, blocks, reviews>>
    BY DEF ContentInv, ModulesHang, UpdateModule, Edit, CatalogSame, ReviewsSame
<1> DEFINE new == [id |-> m.id, course |-> c, position |-> position]
<1>2. /\ modules' = (modules \ {m}) \cup {new} /\ CourseExists(c)
      /\ m \in Modules /\ new \in Modules
      /\ new.id = m.id /\ new.course = c /\ new.position = position
    BY DEF UpdateModule, ContentInv, ModulesHang, Modules
<1> HIDE DEF new
<1>3. \A n \in modules \ {m} : n.id # m.id /\ ~(n.course = c /\ n.position = position)
    BY DEF UpdateModule, PositionFree, ContentInv, ModulesHang
<1>4. ModulesHang'
    BY <1>1, <1>2, <1>3 DEF ContentInv, ModulesHang, Modules, CourseExists
<1>5. BlocksHang'
    BY <1>1, <1>2 DEF ContentInv, BlocksHang, BlockHangs, HomeExists, CourseExists
<1>6. ReviewsHang'
    BY <1>1 DEF ContentInv, ReviewsHang, Reviews, CourseExists
<1> QED BY <1>4, <1>5, <1>6 DEF ContentInv

LEMMA DeleteModuleKeeps ==
    ASSUME ContentInv, NEW m \in modules, DeleteModule(m)
    PROVE  ContentInv'
<1>1. /\ edits \in Nat /\ edits' = edits + 1 /\ UNCHANGED <<courses, reviews>>
      /\ modules' = modules \ {m} /\ blocks' = BlocksWithout({m}, None)
    BY DEF ContentInv, ModulesHang, DeleteModule, Edit, CatalogSame, ReviewsSame
<1>2. ModulesHang'
    BY <1>1 DEF ContentInv, ModulesHang, Modules, CourseExists
<1>3. BlocksHang'
    BY <1>1 DEF ContentInv, BlocksHang, BlockHangs, HomeExists, CourseExists, BlocksWithout
<1>4. ReviewsHang'
    BY <1>1 DEF ContentInv, ReviewsHang, Reviews, CourseExists
<1> QED BY <1>2, <1>3, <1>4 DEF ContentInv

(* The row of a block that is inserted or rewritten. *)
LEMMA BlockWritten ==
    ASSUME ContentInv, Edit, UNCHANGED <<courses, modules, reviews>>,
           NEW f, NEW c \in Courses \cup {None}, NEW module, NEW id \in Nat, id <= edits,
           BlockAccepted(f, c, module), HomeExists(c, module),
           blocks' \subseteq blocks \cup {BlockRow(id, f, c, module)}
    PROVE  ContentInv'
<1>1. edits \in Nat /\ edits' = edits + 1
    BY DEF ContentInv, ModulesHang, Edit
<1>2. ModulesHang' /\ ReviewsHang'
    BY <1>1 DEF ContentInv, ModulesHang, Modules, ReviewsHang, Reviews, CourseExists
<1>3. \A b \in blocks : BlockHangs(b)'
    BY <1>1 DEF ContentInv, BlocksHang, BlockHangs, HomeExists, CourseExists
<1>4. BlockHangs(BlockRow(id, f, c, module))'
    <2> DEFINE new == BlockRow(id, f, c, module)
    <2>1. new.id = id /\ new.course = c /\ new.module = module /\ new.type = f.type /\ new.payload = f.payload
        BY DEF BlockRow
    <2>2. HomeExists(c, module)'
        BY DEF HomeExists, CourseExists
    <2>3. PayloadValid(f.type, f.payload) /\ (c = None) # (module = None)
        BY DEF BlockAccepted
    <2> HIDE DEF new
    <2>4. /\ new.id \in Nat /\ new.id < edits' /\ new.course \in Courses \cup {None}
          /\ (new.course = None) # (new.module = None) /\ PayloadValid(new.type, new.payload)
        BY <1>1, <2>1, <2>3
    <2> QED BY <2>1, <2>2, <2>4 DEF BlockHangs, HomeExists, CourseExists, BlockRow, new
<1> QED BY <1>2, <1>3, <1>4 DEF ContentInv, BlocksHang

LEMMA DeleteBlockKeeps ==
    ASSUME ContentInv, NEW b \in blocks, DeleteBlock(b)
    PROVE  ContentInv'
<1>1. edits \in Nat /\ edits' = edits + 1 /\ UNCHANGED <<courses, modules, reviews>> /\ blocks' = blocks \ {b}
    BY DEF ContentInv, ModulesHang, DeleteBlock, Edit, CatalogSame, ReviewsSame
<1>2. ModulesHang' /\ ReviewsHang'
    BY <1>1 DEF ContentInv, ModulesHang, Modules, ReviewsHang, Reviews, CourseExists
<1>3. BlocksHang'
    BY <1>1 DEF ContentInv, BlocksHang, BlockHangs, HomeExists, CourseExists
<1> QED BY <1>2, <1>3 DEF ContentInv

LEMMA WriteReviewKeeps ==
    ASSUME ContentInv, Edit, NEW a, NEW row \in Reviews, row.id <= edits,
           CourseExists(row.course), WriteReview(a, row)
    PROVE  ContentInv'
<1>1. /\ edits \in Nat /\ edits' = edits + 1 /\ UNCHANGED <<courses, modules, blocks>>
      /\ reviews' = {r \in reviews : r.id # row.id} \cup {row}
    BY DEF ContentInv, ModulesHang, WriteReview, Edit, CatalogSame
<1>2. ModulesHang'
    BY <1>1 DEF ContentInv, ModulesHang, Modules, CourseExists
<1>3. BlocksHang'
    BY <1>1 DEF ContentInv, BlocksHang, BlockHangs, HomeExists, CourseExists
<1>4. ReviewsHang'
    BY <1>1 DEF ContentInv, ReviewsHang, Reviews, CourseExists
<1> QED BY <1>2, <1>3, <1>4 DEF ContentInv

LEMMA DeleteCourseKeeps ==
    ASSUME ContentInv, VersionInv, NEW c \in Courses, DeleteCourse(c)
    PROVE  ContentInv'
<1>1. /\ edits' = edits /\ \A d \in Courses \ {c} : courses'[d] = courses[d]
      /\ modules' = {m \in modules : m.course # c}
      /\ blocks' = BlocksWithout({m \in modules : m.course = c}, c)
      /\ reviews' = {r \in reviews : r.course # c}
    BY DEF DeleteCourse, Archive, VersionInv, RowsTyped
<1>2. c # None
    BY CatalogAssumption
<1>3. ModulesHang'
    BY <1>1 DEF ContentInv, ModulesHang, Modules, CourseExists
<1>4. BlocksHang'
    BY <1>1, <1>2 DEF ContentInv, BlocksHang, BlockHangs, HomeExists, CourseExists, BlocksWithout
<1>5. ReviewsHang'
    BY <1>1 DEF ContentInv, ReviewsHang, Reviews, CourseExists
<1> QED BY <1>3, <1>4, <1>5 DEF ContentInv
LEMMA CreateBlockKeeps ==
    ASSUME ContentInv, NEW f, NEW c \in Courses \cup {None}, NEW module, CreateBlock(f, c, module)
    PROVE  ContentInv'
<1>1. edits \in Nat
    BY DEF ContentInv, ModulesHang
<1> QED BY <1>1, BlockWritten DEF CreateBlock, CatalogSame, ReviewsSame

LEMMA UpdateBlockKeeps ==
    ASSUME ContentInv, NEW b \in blocks, NEW f, NEW c \in Courses \cup {None}, NEW module,
           UpdateBlock(b, f, c, module)
    PROVE  ContentInv'
<1>1. b.id \in Nat /\ b.id <= edits
    BY DEF ContentInv, ModulesHang, BlocksHang, BlockHangs
<1>2. blocks' \subseteq blocks \cup {BlockRow(b.id, f, c, module)}
    BY DEF UpdateBlock
<1> QED BY <1>1, <1>2, BlockWritten DEF UpdateBlock, CatalogSame, ReviewsSame

LEMMA CreateReviewKeeps ==
    ASSUME ContentInv, NEW a, NEW c \in Courses, CreateReview(a, c)
    PROVE  ContentInv'
<1> DEFINE row == [id |-> edits, course |-> c, status |-> "pending"]
<1>1. row \in Reviews /\ row.id <= edits /\ row.course = c
    BY DEF Reviews, ReviewStatuses, ContentInv, ModulesHang
<1>2. Edit /\ CourseExists(c) /\ WriteReview(a, row)
    BY DEF CreateReview
<1> HIDE DEF row
<1> QED BY <1>1, <1>2, WriteReviewKeeps

(* The row that ModerateReview writes. *)
LEMMA ModeratedRow ==
    ASSUME ContentInv, NEW r \in reviews, NEW status \in ReviewStatuses
    PROVE  LET row == [r EXCEPT !.status = status]
           IN  row \in Reviews /\ row.id = r.id /\ row.course = r.course /\ row.status = status
<1>1. r \in Reviews
    BY DEF ContentInv, ReviewsHang
<1>2. [r EXCEPT !.status = status] = [id |-> r.id, course |-> r.course, status |-> status]
    BY <1>1 DEF Reviews
<1> QED BY <1>1, <1>2 DEF Reviews

LEMMA ModerateReviewKeeps ==
    ASSUME ContentInv, NEW a, NEW r \in reviews, NEW status \in ReviewStatuses,
           ModerateReview(a, r, status)
    PROVE  ContentInv'
<1> DEFINE row == [r EXCEPT !.status = status]
<1>1. row \in Reviews /\ row.id = r.id /\ row.course = r.course
    BY ModeratedRow
<1>2. Edit /\ WriteReview(a, row)
    BY DEF ModerateReview
<1> HIDE DEF row
<1>3. row.id <= edits /\ CourseExists(row.course)
    BY <1>1 DEF ContentInv, ModulesHang, ReviewsHang, Reviews
<1> QED BY <1>1, <1>2, <1>3, WriteReviewKeeps

LEMMA HomesTyped ==
    ASSUME NEW home \in Homes
    PROVE  home[1] \in Courses \cup {None}
BY DEF Homes

LEMMA NextKeepsContentInv ==
    ASSUME ContentInv, VersionInv, [ContentNext]_allVars
    PROVE  ContentInv'
<1>1. CASE Save /\ UNCHANGED contentVars
    BY <1>1, SaveKeepsCourses, TablesSame DEF contentVars
<1>2. CASE Learn /\ UNCHANGED contentVars
    <2>1. CoursesStay
        BY <1>2 DEF Learn, OpenFromList, OpenReadRow, OpenReadQuestions, SubmitReadRow, SubmitReadQuestions, SubmitInsert,
                    CoursesStay
    <2> QED BY <1>2, <2>1, TablesSame DEF contentVars
<1>3. ASSUME NEW c \in Courses, DeleteCourse(c) PROVE ContentInv'
    BY <1>3, DeleteCourseKeeps
<1>4. ASSUME NEW c \in Courses, NEW position \in 0 .. 2,
             CreateModule(c, position) \/ \E m \in modules : UpdateModule(m, c, position)
      PROVE  ContentInv'
    BY <1>4, CreateModuleKeeps, UpdateModuleKeeps
<1>5. ASSUME NEW m \in modules, DeleteModule(m) PROVE ContentInv'
    BY <1>5, DeleteModuleKeeps
<1>6. ASSUME NEW f \in BlockForms, NEW home \in Homes,
             \/ CreateBlock(f, home[1], home[2])
             \/ \E b \in blocks : UpdateBlock(b, f, home[1], home[2])
      PROVE  ContentInv'
    BY <1>6, HomesTyped, CreateBlockKeeps, UpdateBlockKeeps
<1>7. ASSUME NEW b \in blocks, DeleteBlock(b) PROVE ContentInv'
    BY <1>7, DeleteBlockKeeps
<1>8. ASSUME NEW a \in bound.moderators, NEW c \in Courses, CreateReview(a, c) PROVE ContentInv'
    BY <1>8, CreateReviewKeeps
<1>9. ASSUME NEW a \in bound.moderators, NEW r \in reviews, NEW status \in ReviewStatuses,
             ModerateReview(a, r, status)
      PROVE  ContentInv'
    BY <1>9, ModerateReviewKeeps
<1>10. ASSUME NEW a \in bound.moderators, LogReview(a) \/ LogReviewFails(a) PROVE ContentInv'
    <2>1. CoursesStay
        BY <1>10 DEF LogReview, LogReviewFails, CatalogSame, CoursesStay
    <2> QED BY <1>10, <2>1, TablesSame DEF LogReview, LogReviewFails
<1>11. CASE UNCHANGED allVars
    <2>1. CoursesStay
        BY <1>11 DEF allVars, CoursesStay
    <2> QED BY <1>11, <2>1, TablesSame DEF allVars
<1> QED BY <1>1, <1>2, <1>3, <1>4, <1>5, <1>6, <1>7, <1>8, <1>9, <1>10, <1>11 DEF ContentNext

LEMMA ContentInvHolds == ContentSpec => []ContentInv
BY InitContentInv, NextKeepsContentInv, ContentVersions, PTL DEF ContentSpec

(* Whatever is created, moved and deleted in whatever order, modules,      *)
(* blocks and reviews hang on what exists, in unique places, and a block's *)
(* payload suits its type.                                                 *)
THEOREM ContentHoldsTogether == ContentSpec => []ContentHangsTogether
<1>1. ContentInv => ContentHangsTogether
    BY DEF ContentInv, ModulesHang, BlocksHang, BlockHangs, ReviewsHang, ContentHangsTogether, PositionFree
<1> QED BY <1>1, ContentInvHolds, PTL

-----------------------------------------------------------------------------
(* What a step may delete.                                                 *)

OnlyWithHome(b) ==
    \/ b.id \in {k.id : k \in blocks'}
    \/ ~HomeOf(b)'
    \/ blocks' = blocks \ {b} /\ modules' = modules /\ courses' = courses

LEMMA DeleteModuleTakes ==
    ASSUME ContentInv, NEW m \in modules, DeleteModule(m), NEW b \in blocks
    PROVE  OnlyWithHome(b)
<1>1. modules' = modules \ {m} /\ blocks' = BlocksWithout({m}, None)
    BY DEF DeleteModule
<1>2. CASE b.module = m.id
    <2>1. b.module # None /\ \A n \in modules \ {m} : n.id # b.module
        BY <1>2, IdsAssumption DEF ContentInv, ModulesHang, Modules
    <2>2. {n \in modules' : n.id = b.module} = {}
        BY <1>1, <2>1
    <2> QED BY <2>1, <2>2 DEF OnlyWithHome, HomeOf
<1>3. CASE b.module # m.id
    BY <1>1, <1>3 DEF OnlyWithHome, BlocksWithout
<1> QED BY <1>2, <1>3

LEMMA DeleteCourseTakes ==
    ASSUME ContentInv, VersionInv, NEW c \in Courses, DeleteCourse(c), NEW b \in blocks
    PROVE  OnlyWithHome(b)
<1> DEFINE gone == {m \in modules : m.course = c}
<1>1. modules' = {m \in modules : m.course # c} /\ blocks' = BlocksWithout(gone, c)
      /\ courses'[c] = None /\ c # None
    BY CatalogAssumption DEF DeleteCourse, Archive, VersionInv, RowsTyped
<1>2. CASE b.module \in {m.id : m \in gone}
    <2>1. PICK m \in gone : b.module = m.id
        BY <1>2
    <2>2. b.module # None /\ \A n \in modules : n.id = b.module => n = m
        BY <2>1, IdsAssumption DEF ContentInv, ModulesHang, Modules
    <2>3. {n \in modules' : n.id = b.module} = {}
        BY <1>1, <2>1, <2>2
    <2> QED BY <2>2, <2>3 DEF OnlyWithHome, HomeOf
<1>3. CASE b.module \notin {m.id : m \in gone} /\ b.course = c
    <2>1. b.module = None
        BY <1>1, <1>3 DEF ContentInv, BlocksHang, BlockHangs
    <2> QED BY <1>1, <1>3, <2>1 DEF OnlyWithHome, HomeOf, CourseExists
<1>4. CASE b.module \notin {m.id : m \in gone} /\ b.course # c
    BY <1>1, <1>4 DEF OnlyWithHome, BlocksWithout
<1> QED BY <1>2, <1>3, <1>4

(* A block disappears only with its home of that moment, or alone by its   *)
(* own delete.                                                             *)
THEOREM BlocksGoWithTheirHome == ContentSpec => ContentGoesWithItsHome
<1> DEFINE Goes == \A b \in blocks :
         b.id \in {k.id : k \in blocks'} \/ ~HomeOf(b)'
           \/ (blocks' = blocks \ {b} /\ modules' = modules /\ courses' = courses)
<1>1. ASSUME ContentInv, VersionInv, [ContentNext]_allVars PROVE [Goes]_allVars
    <2> SUFFICES ASSUME ContentNext, NEW b \in blocks PROVE OnlyWithHome(b)
        BY <1>1 DEF OnlyWithHome
    <2>1. CASE blocks \subseteq blocks'
        BY <2>1 DEF OnlyWithHome
    <2>2. ASSUME NEW d \in blocks, NEW f, NEW c, NEW module, UpdateBlock(d, f, c, module)
          PROVE  OnlyWithHome(b)
        <3>1. blocks' = (blocks \ {d}) \cup {BlockRow(d.id, f, c, module)}
              /\ BlockRow(d.id, f, c, module).id = d.id
            BY <2>2 DEF UpdateBlock, BlockRow
        <3> QED BY <3>1 DEF OnlyWithHome
    <2>3. ASSUME NEW d \in blocks, DeleteBlock(d) PROVE OnlyWithHome(b)
        BY <2>3 DEF DeleteBlock, CatalogSame, OnlyWithHome
    <2>4. ASSUME NEW c \in Courses, DeleteCourse(c) PROVE OnlyWithHome(b)
        BY <1>1, <2>4, DeleteCourseTakes
    <2>5. ASSUME NEW m \in modules, DeleteModule(m) PROVE OnlyWithHome(b)
        BY <1>1, <2>5, DeleteModuleTakes
    <2>6. CASE UNCHANGED contentVars
        BY <2>1, <2>6 DEF contentVars
    <2>7. ASSUME NEW c, NEW position, CreateModule(c, position) \/ \E m \in modules : UpdateModule(m, c, position)
          PROVE  OnlyWithHome(b)
        BY <2>1, <2>7 DEF CreateModule, UpdateModule
    <2>8. ASSUME NEW f, NEW c, NEW module, CreateBlock(f, c, module) PROVE OnlyWithHome(b)
        BY <2>1, <2>8 DEF CreateBlock
    <2>9. ASSUME NEW a, LogReview(a) \/ LogReviewFails(a) \/ (\E c \in Courses : CreateReview(a, c))
                 \/ \E r \in reviews, status \in ReviewStatuses : ModerateReview(a, r, status)
          PROVE  OnlyWithHome(b)
        BY <2>1, <2>9 DEF LogReview, LogReviewFails, CreateReview, ModerateReview, WriteReview
    <2> QED BY <2>2, <2>3, <2>4, <2>5, <2>6, <2>7, <2>8, <2>9 DEF ContentNext
<1> QED BY <1>1, ContentInvHolds, ContentVersions, PTL DEF ContentSpec, ContentGoesWithItsHome
-----------------------------------------------------------------------------
(* The audit log of reviews.                                               *)

EventsDone ==
    /\ DOMAIN desk = bound.moderators
    /\ happened \subseteq Events
    /\ \A a \in bound.moderators : desk[a] # None => desk[a] \in happened
    /\ told \in Seq(happened)

EventsFollow ==
    \A r \in reviews : r.id \in unsteady
        \/ \A a \in bound.moderators :
              desk[a] # None /\ desk[a].review = r.id => desk[a].status = r.status

EventInv == EventsDone /\ EventsFollow /\ LastEventTellsStatus

LEMMA EventItself ==
    ASSUME NEW e \in Events
    PROVE  EventOf(e) = e
<1>1. e = [review |-> e.review, status |-> e.status] /\ e.status \in ReviewStatuses
    BY DEF Events
<1>2. (IF e.status \in {"pending", "approved"} THEN e.status ELSE "rejected") = e.status
    BY <1>1 DEF ReviewStatuses
<1> QED BY <1>1, <1>2 DEF EventOf

(* What the log tells last of a review. *)
LastOf(log, id, status) ==
    LET events == {i \in DOMAIN log : log[i].review = id}
    IN  \E i \in events : (\A j \in events : j <= i) /\ log[i].status = status

LEMMA LastAppended ==
    ASSUME NEW T, NEW log \in Seq(T), NEW e
    PROVE  /\ LastOf(Append(log, e), e.review, e.status)
           /\ \A id, status : id # e.review /\ LastOf(log, id, status) =>
                 LastOf(Append(log, e), id, status)
<1> DEFINE n == Len(log) + 1
           new == Append(log, e)
<1>1. /\ n \in Nat \ {0} /\ DOMAIN log = 1 .. n - 1 /\ DOMAIN new = 1 .. n
      /\ new[n] = e /\ \A i \in DOMAIN log : new[i] = log[i]
    OBVIOUS
<1> HIDE DEF new, n
<1>2. LastOf(new, e.review, e.status)
    <2>1. n \in {i \in DOMAIN new : new[i].review = e.review}
        BY <1>1
    <2>2. \A j \in {i \in DOMAIN new : new[i].review = e.review} : j <= n
        BY <1>1
    <2>3. new[n].status = e.status
        BY <1>1
    <2> QED BY <2>1, <2>2, <2>3 DEF LastOf
<1>3. ASSUME NEW id, NEW status, id # e.review, LastOf(log, id, status) PROVE LastOf(new, id, status)
    <2>1. {i \in DOMAIN new : new[i].review = id} = {i \in DOMAIN log : log[i].review = id}
        BY <1>1, <1>3
    <2> QED BY <1>1, <1>3, <2>1 DEF LastOf
<1> QED BY <1>2, <1>3 DEF new

LEMMA InitEventInv == ContentInit => EventInv
BY DEF ContentInit, EventInv, EventsDone, EventsFollow, LastEventTellsStatus

LEMMA EventsSame ==
    ASSUME EventInv, UNCHANGED <<bound, desk, told, happened, unsteady>>, reviews' \subseteq reviews
    PROVE  EventInv'
<1>1. EventsDone' /\ EventsFollow'
    BY DEF EventInv, EventsDone, EventsFollow
<1>2. LastEventTellsStatus'
    BY DEF EventInv, LastEventTellsStatus
<1> QED BY <1>1, <1>2 DEF EventInv

LEMMA WriteReviewKeepsEvents ==
    ASSUME EventInv, ContentInv, NEW a \in bound.moderators, NEW row \in Reviews, WriteReview(a, row)
    PROVE  EventInv'
<1> DEFINE e == [review |-> row.id, status |-> row.status]
<1>1. /\ desk[a] = None /\ desk' = [desk EXCEPT ![a] = e] /\ happened' = happened \cup {e}
      /\ reviews' = {r \in reviews : r.id # row.id} \cup {row}
      /\ told' = told /\ bound' = bound
      /\ unsteady' = IF \E other \in bound.moderators : desk[other] # None /\ desk[other].review = row.id
                      THEN unsteady \cup {row.id} ELSE unsteady
    BY DEF WriteReview, CatalogSame
<1>2. e \in Events /\ e # None /\ e.review = row.id /\ e.status = row.status
    BY IdsAssumption DEF Events, Reviews
<1> HIDE DEF e
<1>3. DOMAIN desk = bound.moderators /\ desk'[a] = e /\ \A b \in bound.moderators \ {a} : desk'[b] = desk[b]
    BY <1>1 DEF EventInv, EventsDone
<1>4. EventsDone'
    <2>1. told \in Seq(happened')
        <3>1. told \in Seq(happened) /\ happened \subseteq happened'
            BY <1>1 DEF EventInv, EventsDone
        <3> QED BY <3>1
    <2> QED BY <1>1, <1>2, <1>3, <2>1 DEF EventInv, EventsDone
<1>5. EventsFollow'
    <2> SUFFICES ASSUME NEW r \in reviews', r.id \notin unsteady', NEW b \in bound.moderators,
                        desk'[b] # None, desk'[b].review = r.id
                 PROVE  desk'[b].status = r.status
        BY <1>1 DEF EventsFollow
    <2>1. CASE r.id = row.id
        <3>1. r = row
            BY <1>1, <2>1
        <3>2. b = a
            BY <1>1, <1>3, <2>1
        <3> QED BY <1>2, <1>3, <3>1, <3>2
    <2>2. CASE r.id # row.id
        <3>1. r \in reviews /\ r.id \notin unsteady
            BY <1>1, <2>2
        <3>2. b # a
            BY <1>2, <1>3, <2>2
        <3> QED BY <1>3, <3>1, <3>2 DEF EventInv, EventsFollow
    <2> QED BY <2>1, <2>2
<1>6. LastEventTellsStatus'
    <2> SUFFICES ASSUME NEW r \in reviews'
                 PROVE  \/ r.id \in unsteady'
                        \/ \E b \in bound.moderators : desk'[b] # None /\ desk'[b].review = r.id
                        \/ LastOf(told, r.id, r.status)
        BY <1>1 DEF LastEventTellsStatus, LastOf
    <2>1. CASE r = row
        BY <1>2, <1>3, <2>1
    <2>2. CASE r # row
        <3>1. r \in reviews
            BY <1>1, <2>2
        <3>2. \/ r.id \in unsteady
              \/ \E b \in bound.moderators : desk[b] # None /\ desk[b].review = r.id
              \/ LastOf(told, r.id, r.status)
            BY <3>1 DEF EventInv, LastEventTellsStatus, LastOf
        <3>3. unsteady \subseteq unsteady'
            BY <1>1
        <3> QED BY <1>1, <1>3, <3>2, <3>3
    <2> QED BY <2>1, <2>2
<1> QED BY <1>4, <1>5, <1>6 DEF EventInv

LEMMA LogReviewKeepsEvents ==
    ASSUME EventInv, NEW a \in bound.moderators, LogReview(a)
    PROVE  EventInv'
<1> DEFINE e == desk[a]
<1>1. /\ e # None /\ e \in happened /\ e \in Events /\ EventOf(e) = e
      /\ told \in Seq(happened) /\ DOMAIN desk = bound.moderators
    BY EventItself DEF LogReview, EventInv, EventsDone
<1>2. /\ told' = Append(told, e) /\ desk' = [desk EXCEPT ![a] = None]
      /\ UNCHANGED <<bound, reviews, happened, unsteady>>
    BY <1>1 DEF LogReview, CatalogSame
<1>3. \A b \in bound.moderators : desk'[b] = IF b = a THEN None ELSE desk[b]
    BY <1>1, <1>2
<1>4. EventsDone'
    <2>1. told' \in Seq(happened)
        BY <1>1, <1>2
    <2> QED BY <1>1, <1>2, <1>3, <2>1 DEF EventInv, EventsDone
<1>5. EventsFollow'
    BY <1>2, <1>3 DEF EventInv, EventsFollow
<1>6. LastEventTellsStatus'
    <2> SUFFICES ASSUME NEW r \in reviews, r.id \notin unsteady,
                        \A b \in bound.moderators : ~(desk'[b] # None /\ desk'[b].review = r.id)
                 PROVE  LastOf(told', r.id, r.status)
        BY <1>2 DEF LastEventTellsStatus, LastOf
    <2> HIDE DEF e
    <2>1. CASE r.id = e.review
        <3>1. e.status = r.status
            BY <1>1, <2>1 DEF EventInv, EventsFollow, e
        <3> QED BY <1>1, <1>2, <2>1, <3>1, LastAppended
    <2>2. CASE r.id # e.review
        <3>1. \A b \in bound.moderators : ~(desk[b] # None /\ desk[b].review = r.id)
            BY <1>3, <2>2 DEF e
        <3>2. LastOf(told, r.id, r.status)
            BY <3>1 DEF EventInv, LastEventTellsStatus, LastOf
        <3> QED BY <1>1, <1>2, <2>2, <3>2, LastAppended
    <2> QED BY <2>1, <2>2
<1> QED BY <1>4, <1>5, <1>6 DEF EventInv

LEMMA LogReviewFailsKeepsEvents ==
    ASSUME EventInv, NEW a \in bound.moderators, LogReviewFails(a)
    PROVE  EventInv'
<1>1. /\ desk' = [desk EXCEPT ![a] = None] /\ unsteady' = unsteady \cup {desk[a].review}
      /\ DOMAIN desk = bound.moderators /\ UNCHANGED <<bound, reviews, told, happened>>
    BY DEF LogReviewFails, CatalogSame, EventInv, EventsDone
<1>2. \A b \in bound.moderators : desk'[b] = IF b = a THEN None ELSE desk[b]
    BY <1>1
<1>3. EventsDone' /\ EventsFollow'
    BY <1>1, <1>2 DEF EventInv, EventsDone, EventsFollow
<1>4. LastEventTellsStatus'
    BY <1>1, <1>2 DEF EventInv, LastEventTellsStatus
<1> QED BY <1>3, <1>4 DEF EventInv

LEMMA NextKeepsEventInv ==
    ASSUME EventInv, ContentInv, [ContentNext]_allVars
    PROVE  EventInv'
<1>1. ASSUME NEW a \in bound.moderators, NEW c \in Courses, CreateReview(a, c) PROVE EventInv'
    <2> DEFINE row == [id |-> edits, course |-> c, status |-> "pending"]
    <2>1. row \in Reviews
        BY DEF Reviews, ReviewStatuses, ContentInv, ModulesHang
    <2>2. WriteReview(a, row)
        BY <1>1 DEF CreateReview
    <2> HIDE DEF row
    <2> QED BY <2>1, <2>2, WriteReviewKeepsEvents
<1>2. ASSUME NEW a \in bound.moderators, NEW r \in reviews, NEW status \in ReviewStatuses,
             ModerateReview(a, r, status)
      PROVE  EventInv'
    <2> DEFINE row == [r EXCEPT !.status = status]
    <2>1. row \in Reviews
        BY ModeratedRow
    <2>2. WriteReview(a, row)
        BY <1>2 DEF ModerateReview
    <2> HIDE DEF row
    <2> QED BY <2>1, <2>2, WriteReviewKeepsEvents
<1>3. CASE Save /\ UNCHANGED contentVars
    <2>1. bound' = bound
        BY <1>3 DEF Save, CreateCourse, CreatePackage, CreateQuiz, UpdateCourse, UpdateQuiz, Create, Update
    <2> QED BY <1>3, <2>1, EventsSame DEF contentVars
<1>4. CASE Learn /\ UNCHANGED contentVars
    <2>1. bound' = bound
        BY <1>4 DEF Learn, OpenFromList, OpenReadRow, OpenReadQuestions, SubmitReadRow, SubmitReadQuestions, SubmitInsert
    <2> QED BY <1>4, <2>1, EventsSame DEF contentVars
<1>5. ASSUME NEW c \in Courses, DeleteCourse(c) PROVE EventInv'
    BY <1>5, EventsSame DEF DeleteCourse, Archive
<1>6. CASE CatalogSame /\ ReviewsSame
    BY <1>6, EventsSame DEF CatalogSame, ReviewsSame
<1>7. ASSUME NEW a \in bound.moderators, LogReview(a) \/ LogReviewFails(a) PROVE EventInv'
    BY <1>7, LogReviewKeepsEvents, LogReviewFailsKeepsEvents
<1>8. CASE UNCHANGED allVars
    BY <1>8, EventsSame DEF allVars
<1> QED BY <1>1, <1>2, <1>3, <1>4, <1>5, <1>6, <1>7, <1>8
        DEF ContentNext, CreateModule, UpdateModule, DeleteModule, CreateBlock, UpdateBlock, DeleteBlock

LEMMA EventInvHolds == ContentSpec => []EventInv
BY InitEventInv, NextKeepsEventInv, ContentInvHolds, PTL DEF ContentSpec

(* The audit log tells nothing of a review that was not done to it.        *)
THEOREM AuditIsTrue == ContentSpec => []AuditTellsWhatHappened
<1>1. EventInv => AuditTellsWhatHappened
    BY DEF EventInv, EventsDone, AuditTellsWhatHappened
<1> QED BY <1>1, EventInvHolds, PTL

(* What it tells last of a review is the status of its row, unless its     *)
(* requests overlapped, one is still to log, or an event was lost.         *)
THEOREM LastEventIsStatus == ContentSpec => []LastEventTellsStatus
<1>1. EventInv => LastEventTellsStatus
    BY DEF EventInv
<1> QED BY <1>1, EventInvHolds, PTL
=============================================================================

--------------------------- MODULE CourseContent ---------------------------
(***************************************************************************)
(* What hangs on a course beside its quiz: modules, content blocks and     *)
(* reviews, composed with CourseCatalog, whose "Archive" deletes the row   *)
(* all of it refers to.                                                    *)
(*                                                                         *)
(* A write is one statement, checked by the use case before and by the     *)
(* constraints of the tables in it; deletes cascade.  A request on a       *)
(* review writes the audit log in a second statement, after which it       *)
(* answers whether that statement failed or not.                           *)
(*                                                                         *)
(* A row is named by the number of the edit that inserted it: primary keys *)
(* are random and never come twice.  Titles, texts and ratings are left    *)
(* out: no later step depends on them.                                     *)
(***************************************************************************)
EXTENDS CourseCatalog

CONSTANTS
    BlockForms       \* type and payload of the blocks that may be entered

VARIABLES
    modules,         \* rows of course_modules
    blocks,          \* rows of content_blocks
    reviews,         \* rows of reviews
    desk,            \* moderator or reviewer -> the event it has to log, or None
    told,            \* review events in the audit log, in their order
    (* Kept for the bound and for the properties; no other guard reads them. *)
    edits,           \* number of edits so far
    happened,        \* what was done to reviews: the events that may be logged
    unsteady         \* reviews written while a request on them was not logged

contentVars == <<modules, blocks, reviews, desk, told, edits, happened, unsteady>>
allVars == <<bound, courses, questions, given, saved, pc, sheet, loc, attempts,
             modules, blocks, reviews, desk, told, edits, happened, unsteady>>

BlockTypes == {"text", "url", "video", "photo", "file"}
ReviewStatuses == {"pending", "approved", "rejected"}
Events == [review : Nat, status : ReviewStatuses]
ASSUME IdsAssumption == None \notin Nat /\ None \notin Events

ContentInit ==
    /\ Init
    /\ modules = {}
    /\ blocks = {}
    /\ reviews = {}
    /\ desk = [a \in bound.moderators |-> None]
    /\ told = <<>>
    /\ edits = 0
    /\ happened = {}
    /\ unsteady = {}

Edit == edits < bound.edits /\ edits' = edits + 1

CatalogSame == UNCHANGED <<bound, courses, questions, given, saved, pc, sheet, loc, attempts>>
ReviewsSame == UNCHANGED <<reviews, desk, told, happened, unsteady>>

CourseExists(c) == courses[c] # None

(* ------------------------------- modules ------------------------------- *)

(* normalize...CourseModuleParams: positions count from one. *)
ModuleAccepted(position) == position > 0

(* UNIQUE (course_id, position), by another row than id. *)
PositionFree(id, c, position) ==
    ~\E m \in modules : m.id # id /\ m.course = c /\ m.position = position

CreateModule(c, position) ==
    /\ Edit
    /\ ModuleAccepted(position)
    /\ CourseExists(c)
    /\ PositionFree(None, c, position)
    /\ modules' = modules \cup {[id |-> edits, course |-> c, position |-> position]}
    /\ CatalogSame /\ ReviewsSame /\ UNCHANGED blocks

(* An update may take the module to another place or to another course. *)
UpdateModule(m, c, position) ==
    /\ Edit
    /\ ModuleAccepted(position)
    /\ CourseExists(c)
    /\ PositionFree(m.id, c, position)
    /\ modules' = (modules \ {m}) \cup {[id |-> m.id, course |-> c, position |-> position]}
    /\ CatalogSame /\ ReviewsSame /\ UNCHANGED blocks

(* ON DELETE CASCADE: the blocks of these modules. *)
BlocksWithout(gone, c) ==
    {b \in blocks : b.module \notin {m.id : m \in gone} /\ (c = None \/ b.course # c)}

(* Mutant of DeleteModule: the blocks of its course go as well. *)
DeleteModuleAndCourse(m) ==
    /\ Edit
    /\ modules' = modules \ {m}
    /\ blocks' = BlocksWithout({m}, m.course)
    /\ CatalogSame /\ ReviewsSame

DeleteModule(m) ==
    /\ Edit
    /\ modules' = modules \ {m}
    /\ blocks' = BlocksWithout({m}, None)
    /\ CatalogSame /\ ReviewsSame

(* -------------------------------- blocks ------------------------------- *)

(* The languages a MultiLangText has to be filled in. *)
Languages == {"ru", "tj"}

(* A URL is "absolute" (http or https with a host), or it is refused; the  *)
(* caption of a photo may be left out.                                     *)
PayloadValid(type, payload) ==
    /\ type \in BlockTypes \ {"text"} => payload.url = "absolute"
    /\ type \in {"text", "url"} => payload.languages = Languages
    /\ type = "photo" => payload.languages \in {{}, Languages}
    /\ type = "video" => payload.provider \in {"direct", "youtube"} /\ payload.number >= 0
    /\ type = "file" => payload.filename /\ payload.number >= 0

(* Exactly one of course and module is given. *)
BlockAccepted(f, c, module) ==
    /\ (c = None) # (module = None)
    /\ f.type \in BlockTypes
    /\ PayloadValid(f.type, f.payload)

(* Foreign keys of the row. *)
HomeExists(c, module) ==
    /\ c # None => CourseExists(c)
    /\ module # None => \E m \in modules : m.id = module

BlockRow(id, f, c, module) ==
    [id |-> id, course |-> c, module |-> module, type |-> f.type, payload |-> f.payload]

CreateBlock(f, c, module) ==
    /\ Edit
    /\ BlockAccepted(f, c, module)
    /\ HomeExists(c, module)
    /\ blocks' = blocks \cup {BlockRow(edits, f, c, module)}
    /\ CatalogSame /\ ReviewsSame /\ UNCHANGED modules

(* Mutant of UpdateBlock: the payload is checked for the type it had. *)
UpdateBlockUnchecked(b, f, c, module) ==
    /\ Edit
    /\ BlockAccepted([f EXCEPT !.type = b.type], c, module)
    /\ f.type \in BlockTypes
    /\ HomeExists(c, module)
    /\ blocks' = (blocks \ {b}) \cup {BlockRow(b.id, f, c, module)}
    /\ CatalogSame /\ ReviewsSame /\ UNCHANGED modules

(* An update writes the whole row: home, type and payload. *)
UpdateBlock(b, f, c, module) ==
    /\ Edit
    /\ BlockAccepted(f, c, module)
    /\ HomeExists(c, module)
    /\ blocks' = (blocks \ {b}) \cup {BlockRow(b.id, f, c, module)}
    /\ CatalogSame /\ ReviewsSame /\ UNCHANGED modules

DeleteBlock(b) ==
    /\ Edit
    /\ blocks' = blocks \ {b}
    /\ CatalogSame /\ ReviewsSame /\ UNCHANGED modules

(* ------------------------------- reviews ------------------------------- *)

(* Mutant of WriteReview: the event tells the status the review had. *)
WriteReviewLate(a, row) ==
    /\ desk[a] = None
    /\ reviews' = {r \in reviews : r.id # row.id} \cup {row}
    /\ desk' = [desk EXCEPT ![a] =
                  IF \E r \in reviews : r.id = row.id
                  THEN [review |-> row.id, status |-> (CHOOSE r \in reviews : r.id = row.id).status]
                  ELSE [review |-> row.id, status |-> row.status]]
    /\ happened' = happened \cup {[review |-> row.id, status |-> row.status]}
    /\ unsteady' = IF \E other \in bound.moderators :
                         desk[other] # None /\ desk[other].review = row.id
                   THEN unsteady \cup {row.id} ELSE unsteady
    /\ CatalogSame /\ UNCHANGED <<modules, blocks, told>>

(* The statement that writes the review; its event is still to be logged. *)
WriteReview(a, row) ==
    /\ desk[a] = None
    /\ reviews' = {r \in reviews : r.id # row.id} \cup {row}
    /\ desk' = [desk EXCEPT ![a] = [review |-> row.id, status |-> row.status]]
    /\ happened' = happened \cup {[review |-> row.id, status |-> row.status]}
    /\ unsteady' = IF \E other \in bound.moderators :
                         desk[other] # None /\ desk[other].review = row.id
                   THEN unsteady \cup {row.id} ELSE unsteady
    /\ CatalogSame /\ UNCHANGED <<modules, blocks, told>>

CreateReview(a, c) ==
    /\ Edit
    /\ CourseExists(c)
    /\ WriteReview(a, [id |-> edits, course |-> c, status |-> "pending"])

(* Any review can be moderated at any time, to anything but pending. *)
ModerateReview(a, r, status) ==
    /\ Edit
    /\ status # "pending"
    /\ WriteReview(a, [r EXCEPT !.status = status])

(* Mutant of EventOf: an event is approved or rejected, never created. *)
EventOfAnswer(entry) ==
    [review |-> entry.review,
     status |-> IF entry.status = "rejected" THEN "rejected" ELSE "approved"]

(* The event is that of the status in the row that UPDATE returned. *)
EventOf(entry) ==
    [review |-> entry.review,
     status |-> IF entry.status \in {"pending", "approved"} THEN entry.status ELSE "rejected"]

LogReview(a) ==
    /\ desk[a] # None
    /\ told' = Append(told, EventOf(desk[a]))
    /\ desk' = [desk EXCEPT ![a] = None]
    /\ CatalogSame /\ UNCHANGED <<modules, blocks, reviews, edits, happened, unsteady>>

(* The INSERT fails or the process stops before it: the event is lost. *)
LogReviewFails(a) ==
    /\ desk[a] # None
    /\ desk' = [desk EXCEPT ![a] = None]
    /\ unsteady' = unsteady \cup {desk[a].review}
    /\ CatalogSame /\ UNCHANGED <<modules, blocks, reviews, told, edits, happened>>

(* ------------------------- deleting the course ------------------------- *)

DeleteCourse(c) ==
    /\ Archive(c)
    /\ modules' = {m \in modules : m.course # c}
    /\ blocks' = BlocksWithout({m \in modules : m.course = c}, c)
    /\ reviews' = {r \in reviews : r.course # c}
    /\ UNCHANGED <<desk, told, edits, happened, unsteady>>

(* What a form may name as the home: a course, a module, both or neither. *)
Homes == (Courses \cup {None}) \X ({m.id : m \in modules} \cup {None})

ContentNext ==
    \/ Save /\ UNCHANGED contentVars
    \/ Learn /\ UNCHANGED contentVars
    \/ \E c \in Courses :
         \/ DeleteCourse(c)
         \/ \E position \in 0 .. 2 :
              \/ CreateModule(c, position)
              \/ \E m \in modules : UpdateModule(m, c, position)
    \/ \E m \in modules : DeleteModule(m)
    \/ \E f \in BlockForms, home \in Homes :
         \/ CreateBlock(f, home[1], home[2])
         \/ \E b \in blocks : UpdateBlock(b, f, home[1], home[2])
    \/ \E b \in blocks : DeleteBlock(b)
    \/ \E a \in bound.moderators :
         \/ \E c \in Courses : CreateReview(a, c)
         \/ \E r \in reviews, status \in ReviewStatuses : ModerateReview(a, r, status)
         \/ LogReview(a)
         \/ LogReviewFails(a)

ContentSpec == ContentInit /\ [][ContentNext]_allVars

(* ------------------------------ properties ----------------------------- *)

(* Modules, blocks and reviews never outlive or miss what they hang on:    *)
(* whatever was moved where before the delete, a module and a review have  *)
(* their course, a block has one home that exists and a payload that suits *)
(* its type, and no two modules of a course share a position.              *)
ContentHangsTogether ==
    /\ \A m \in modules : CourseExists(m.course) /\ PositionFree(m.id, m.course, m.position)
    /\ \A b \in blocks :
         /\ (b.course = None) # (b.module = None)
         /\ HomeExists(b.course, b.module)
         /\ PayloadValid(b.type, b.payload)
    /\ \A r \in reviews : CourseExists(r.course)

HomeOf(b) == IF b.module # None THEN {m \in modules : m.id = b.module} # {} ELSE CourseExists(b.course)

(* Content is lost only on purpose: a block disappears when its home of    *)
(* that moment does (a module taken to another course in time keeps its    *)
(* blocks), or else alone and with everything else left as it was.         *)
ContentGoesWithItsHome ==
    [][\A b \in blocks :
         b.id \in {k.id : k \in blocks'} \/ ~HomeOf(b)'
           \/ (blocks' = blocks \ {b} /\ modules' = modules /\ courses' = courses)]_allVars

(* The audit log never tells of something that was not done to a review,   *)
(* though it is written after the review, by a statement of its own.       *)
AuditTellsWhatHappened ==
    \A i \in DOMAIN told : told[i] \in happened

(* Unless its requests overlapped or an event was lost, what the audit log *)
(* tells last of a review is the status of its row.                        *)
LastEventTellsStatus ==
    \A r \in reviews :
        LET events == {i \in DOMAIN told : told[i].review = r.id}
        IN  \/ r.id \in unsteady
            \/ \E a \in bound.moderators : desk[a] # None /\ desk[a].review = r.id
            \/ \E i \in events : (\A j \in events : j <= i) /\ told[i].status = r.status
=============================================================================

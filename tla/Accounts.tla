------------------------------ MODULE Accounts ------------------------------
(***************************************************************************)
(* The rows of users and what changes them: registering, signing in with a *)
(* password under the lockout or with Google, changing and resetting a     *)
(* password, the profile with its uploaded avatar, and the forms of the    *)
(* super admin.  Sessions and the cache are in SessionAuth.                *)
(*                                                                         *)
(* A request is a process whose steps are its statements.  Every change of *)
(* a row but LinkGoogleID writes the whole row from what the request had   *)
(* loaded (AuthUseCase) or from a form (UserUseCase).                      *)
(*                                                                         *)
(* Of a row are left out the names and other details no step depends on,   *)
(* and is_active, which is never false.  A password stands for its hash.   *)
(***************************************************************************)
EXTENDS Integers, Sequences, FiniteSets

CONSTANTS
    Requests,       \* 1 .. n: HTTP requests in the order they arrive
    Lower,          \* a function on spellings of e-mails: strings.ToLower
    Files,          \* URLs of uploads, made or not
    MaxAttempts,    \* AUTH_LOGIN_MAX_ATTEMPTS
    None,           \* an absent value: NULL, a nil pointer
    Bounds          \* bounds of an instance, of which a behaviour takes one

ASSUME AttemptsAssumption == MaxAttempts \in Nat \ {0}
ASSUME RequestsAssumption == Requests \subseteq Nat
ASSUME NoneAssumption ==
    None \notin Nat /\ None \notin BOOLEAN /\ None \notin STRING /\ None \notin Files
ASSUME LowerAssumption == \A e \in DOMAIN Lower : Lower[e] \in DOMAIN Lower

(* A row of users. *)
Row == [id : Nat, email : DOMAIN Lower, google : STRING \cup {None},
        password : STRING \cup {None}, admin : BOOLEAN, super : BOOLEAN,
        must : BOOLEAN, avatar : Files \cup {None}]

(* What a form of the super admin enters.                                  *)
Form == [email : DOMAIN Lower, google : STRING \cup {None}, password : STRING \cup {None},
         admin : BOOLEAN, avatar : Files \cup {None}]

(* UNIQUE (email), UNIQUE (google_id), users_single_super_admin_idx.       *)
Clash(u, v) ==
    \/ u.email = v.email
    \/ u.google # None /\ u.google = v.google
    \/ u.super /\ v.super

(* The bounds of a behaviour: what requests may enter, and the first rows. *)
ASSUME BoundsAssumption == \A b \in Bounds :
    /\ b.spellings \subseteq DOMAIN Lower /\ b.subjects \subseteq STRING
    /\ b.passwords \subseteq STRING /\ b.forms \subseteq Form /\ b.avatars \subseteq Files
    /\ b.scope \in {"identifier", "ip", "identifier_ip"} /\ b.together \in Nat
    /\ b.rows \subseteq Row /\ Cardinality(b.rows) \in Nat
    /\ \A u \in b.rows : u.id \in 1 .. Cardinality(b.rows) /\ (u.super => u.admin)
    /\ \A u, v \in b.rows : IF u.id = v.id THEN u = v ELSE ~Clash(u, v)

VARIABLES
    bound,          \* the bounds of this behaviour
    users,          \* rows of users
    born,           \* number of rows inserted so far; a row's id is its number
    tokens,         \* rows of password_reset_tokens, named by their request
    tries,          \* rows of login_attempts in the window, oldest first
    files,          \* uploaded file -> "none", "partial", "whole" or "deleted"
    notes,          \* rows of notifications
    pc,             \* request -> its next statement
    loc,            \* request -> its local variables
    (* Kept for the properties only; no action reads them. *)
    stale,          \* requests whose user was written since they loaded it
    mixed,          \* users that a stale request has written
    lastSet,        \* id -> the password last saved for it, and who gave it
    wins,           \* <<token, request>>: resets that were answered with success
    blamed,         \* <<identifier, address>> of logins that failed by themselves
    chosen          \* <<file, request, id>>: requests that named a new avatar for a user

ghosts == <<stale, mixed, lastSet, wins, blamed, chosen>>
rest == <<tokens, tries, files, notes>>
accountVars == <<bound, users, born, tokens, tries, files, notes, pc, loc,
                 stale, mixed, lastSet, wins, blamed, chosen>>

NoLoc == [user |-> None, params |-> None, password |-> None, by |-> None,
          identifier |-> None, address |-> None, cause |-> None,
          token |-> None, file |-> None]

Goto(r, next, locals) ==
    /\ pc' = [pc EXCEPT ![r] = next]
    /\ loc' = [loc EXCEPT ![r] = locals]

Finish(r) == Goto(r, "done", NoLoc)

Arrives(r, kind) ==
    /\ kind \in bound.kinds
    /\ r \in bound.requests
    /\ pc[r] = "idle"
    /\ \A q \in bound.requests : q < r => pc[q] # "idle"

InFlight(r) == pc[r] \notin {"idle", "refused", "done"}

-----------------------------------------------------------------------------
(* The table users.                                                        *)

(* E-mails are stored as spelled, and looked up whatever their case: of    *)
(* two rows that match, LIMIT 1 returns either.                            *)
ByEmail(spelling) == {u \in users : Lower[u.email] = Lower[spelling]}
ByGoogleID(subject) == {u \in users : u.google = subject}
ByID(id) == {u \in users : u.id = id}

KeysFree(row) == \A u \in users : u.id # row.id => ~Clash(u, row)

(* Parameters of an update: None keeps the password and the last two flags. *)
Params(email, google, password, admin, super, must, avatar) ==
    [email |-> email, google |-> google, password |-> password,
     admin |-> admin, super |-> super, must |-> must, avatar |-> avatar]

Kept(new, old) == IF new = None THEN old ELSE new

(* Mutant of Updated: the super admin is not kept an administrator. *)
UpdatedPlain(u, p) ==
    [id |-> u.id, email |-> p.email, google |-> p.google,
     password |-> Kept(p.password, u.password), admin |-> p.admin,
     super |-> u.super \/ Kept(p.super, u.super),
     must |-> Kept(p.must, u.must), avatar |-> p.avatar]

Updated(u, p) ==
    [id |-> u.id, email |-> p.email, google |-> p.google,
     password |-> Kept(p.password, u.password), admin |-> u.super \/ p.admin,
     super |-> u.super \/ Kept(p.super, u.super),
     must |-> Kept(p.must, u.must), avatar |-> p.avatar]

(* Ghosts of a write: whose row is no longer the one it loaded, and the    *)
(* password that was brought; late: the writer had loaded an older row.    *)
Written(id, password, by, late) ==
    /\ stale' = stale \cup {q \in Requests : InFlight(q) /\ loc[q].user = id}
    /\ mixed' = IF late THEN mixed \cup {id} ELSE mixed
    /\ lastSet' = IF password = None /\ id \in DOMAIN lastSet THEN lastSet
                  ELSE [i \in DOMAIN lastSet \cup {id} |->
                          IF i = id THEN [password |-> password, by |-> by] ELSE lastSet[i]]

(* UserRepository.Update, with the guard that it succeeds.                 *)
UpdateRow(id, p, password, by, late) ==
    \E u \in ByID(id) :
        /\ KeysFree(Updated(u, p))
        /\ users' = (users \ {u}) \cup {Updated(u, p)}
        /\ Written(id, password, by, late)
        /\ UNCHANGED born

UpdateFails(id, p) == \A u \in ByID(id) : ~KeysFree(Updated(u, p))

NewRow(p) == [id |-> born + 1, email |-> p.email, google |-> p.google,
              password |-> p.password, admin |-> p.admin, super |-> p.super = TRUE,
              must |-> p.must = TRUE, avatar |-> p.avatar]

(* UserRepository.Create.                                                  *)
CreateRow(p, by) ==
    /\ KeysFree(NewRow(p))
    /\ users' = users \cup {NewRow(p)}
    /\ born' = born + 1
    /\ Written(born + 1, p.password, by, FALSE)

UsersSame == UNCHANGED <<users, born, stale, mixed, lastSet>>

-----------------------------------------------------------------------------
(* POST /auth/login                                                        *)

Matching(t, identifier, address) ==
    CASE bound.scope = "ip" -> address # None /\ t.address = address
      [] bound.scope = "identifier_ip" /\ address # None ->
            t.identifier = identifier \/ t.address = address
      [] OTHER -> t.identifier = identifier

CountRecentFailed(identifier, address) ==
    Cardinality({i \in DOMAIN tries : /\ tries[i].stored /\ ~tries[i].succeeded
                                      /\ Matching(tries[i], identifier, address)})

(* Mutant of LoginAllowed: one failure more. *)
LoginAllowedLate(identifier, address) ==
    CountRecentFailed(identifier, address) <= MaxAttempts

LoginAllowed(identifier, address) ==
    CountRecentFailed(identifier, address) < MaxAttempts

(* Logins at the same time, for the bound below. *)
LoginPC == {"lookup", "session", "record"}
LoginsNow == Cardinality({q \in Requests : pc[q] \in LoginPC})

(* The count comes before everything else; a refusal is recorded too.      *)
LoginCount(r, identifier, address, password) ==
    /\ Arrives(r, "login")
    /\ LoginsNow < bound.together
    /\ LET mine == [NoLoc EXCEPT !.identifier = identifier, !.address = address,
                                 !.password = password]
       IN  IF LoginAllowed(identifier, address)
           THEN Goto(r, "lookup", mine)
           ELSE Goto(r, "record", [mine EXCEPT !.cause = "lockout"])
    /\ UNCHANGED <<bound, rest, ghosts, users, born>>

(* GetByEmail and the comparison.  A row without a password has no login.  *)
LoginLookup(r) ==
    /\ pc[r] = "lookup"
    /\ \/ \E u \in ByEmail(loc[r].identifier) :
            IF u.password # None /\ u.password = loc[r].password
            THEN Goto(r, "session", [loc[r] EXCEPT !.user = u.id])
            ELSE Goto(r, "record", [loc[r] EXCEPT !.cause = "password"])
       \/ /\ ByEmail(loc[r].identifier) = {}
          /\ Goto(r, "record", [loc[r] EXCEPT !.cause = "password"])
    /\ UNCHANGED <<bound, rest, ghosts, users, born>>

(* The insert of the session fails when the user is gone. *)
LoginSession(r) ==
    /\ pc[r] = "session"
    /\ Goto(r, "record", [loc[r] EXCEPT !.cause = IF ByID(loc[r].user) = {} THEN "error" ELSE "success"])
    /\ UNCHANGED <<bound, rest, ghosts, users, born>>

(* Mutant of Attempt: the deferred call gets succeeded by value. *)
AttemptByValue(r, stored) ==
    [identifier |-> loc[r].identifier, address |-> loc[r].address,
     cause |-> loc[r].cause, succeeded |-> FALSE, stored |-> stored]

Attempt(r, stored) ==
    [identifier |-> loc[r].identifier, address |-> loc[r].address,
     cause |-> loc[r].cause, succeeded |-> loc[r].cause = "success", stored |-> stored]

(* The deferred insert.  It runs with the context of the request and its   *)
(* error is ignored: an attempt may leave no row.                          *)
LoginRecord(r) ==
    /\ pc[r] = "record"
    /\ \E stored \in BOOLEAN : tries' = Append(tries, Attempt(r, stored))
    /\ blamed' = IF loc[r].cause \in {"password", "error"}
                 THEN blamed \cup {<<loc[r].identifier, loc[r].address>>} ELSE blamed
    /\ Goto(r, IF loc[r].cause = "lockout" THEN "refused" ELSE "done",
            [NoLoc EXCEPT !.identifier = loc[r].identifier, !.address = loc[r].address])
    /\ UsersSame /\ UNCHANGED <<bound, tokens, files, notes, wins, chosen>>

(* The window moves on: its oldest row is no longer counted. *)
WindowMoves ==
    /\ tries # <<>>
    /\ tries' = Tail(tries)
    /\ UsersSame /\ UNCHANGED <<bound, tokens, files, notes, pc, loc, wins, blamed, chosen>>

-----------------------------------------------------------------------------
(* POST /auth/register and POST /auth/google                               *)

(* The avatar_url a client sends: any string, whether a file is there, was *)
(* there or never will be; an empty one is none.                           *)
AvatarURLs == bound.avatars \cup {None}

Names(r, avatar, id) ==
    IF avatar = None THEN chosen ELSE chosen \cup {<<avatar, r, id>>}

Register(r, spelling, password, avatar) ==
    /\ Arrives(r, "register")
    /\ LET p == Params(Lower[spelling], None, password, FALSE, None, None, avatar)
       IN  \/ CreateRow(p, "owner")
           \/ ~KeysFree(NewRow(p)) /\ UsersSame
    /\ chosen' = Names(r, avatar, born + 1)
    /\ Finish(r)
    /\ UNCHANGED <<bound, rest, wins, blamed>>

(* resolveGoogleUser: by google_id, else by e-mail, else a new row. *)
GoogleByID(r, subject, spelling) ==
    /\ Arrives(r, "google")
    /\ IF ByGoogleID(subject) # {}
       THEN Finish(r)
       ELSE Goto(r, "googleEmail", [NoLoc EXCEPT !.identifier = spelling, !.token = subject])
    /\ UNCHANGED <<bound, rest, ghosts, users, born>>

(* An account that is linked to another subject is refused. *)
GoogleByEmail(r) ==
    /\ pc[r] = "googleEmail"
    /\ \/ \E u \in ByEmail(loc[r].identifier) :
            IF u.google \notin {None, loc[r].token}
            THEN Finish(r)
            ELSE Goto(r, "googleLink", [loc[r] EXCEPT !.user = u.id])
       \/ ByEmail(loc[r].identifier) = {} /\ Goto(r, "googleCreate", loc[r])
    /\ UNCHANGED <<bound, rest, ghosts, users, born>>

(* LinkGoogleID sets the column whatever it holds by now. *)
GoogleLink(r) ==
    /\ pc[r] = "googleLink"
    /\ \/ \E u \in ByID(loc[r].user) :
            LET row == [u EXCEPT !.google = loc[r].token]
            IN  /\ KeysFree(row)
                /\ users' = (users \ {u}) \cup {row}
                /\ Written(u.id, None, None, r \in stale)
                /\ UNCHANGED born
       \/ /\ \A u \in ByID(loc[r].user) : ~KeysFree([u EXCEPT !.google = loc[r].token])
          /\ UsersSame
    /\ Finish(r)
    /\ UNCHANGED <<bound, rest, wins, blamed, chosen>>

(* The picture Google gives is no uploaded file, and Delete passes over    *)
(* it: it is left out.                                                     *)
GoogleCreate(r) ==
    /\ pc[r] = "googleCreate"
    /\ LET p == Params(loc[r].identifier, loc[r].token, None, FALSE, None, None, None)
       IN  \/ CreateRow(p, "plain")
           \/ ~KeysFree(NewRow(p)) /\ UsersSame
    /\ Finish(r)
    /\ UNCHANGED <<bound, rest, wins, blamed, chosen>>
-----------------------------------------------------------------------------
(* Changing and resetting a password, and the profile: a request loads the *)
(* row, and later writes all of it.                                        *)

PasswordParams(u, password) ==
    Params(u.email, u.google, password, u.admin, None, FALSE, u.avatar)

Load(r, u, next, params, password, locals) ==
    Goto(r, next, [locals EXCEPT !.user = u.id, !.params = params, !.password = password,
                                 !.by = "owner"])

(* POST /auth/password/forgot: every request of a known user gets a token. *)
ForgotLookup(r, spelling) ==
    /\ Arrives(r, "forgot")
    /\ \/ \E u \in ByEmail(spelling) : Goto(r, "issue", [NoLoc EXCEPT !.user = u.id])
       \/ ByEmail(spelling) = {} /\ Finish(r)
    /\ UNCHANGED <<bound, rest, ghosts, users, born>>

ForgotCreate(r) ==
    /\ pc[r] = "issue"
    /\ tokens' = tokens \cup {[id |-> r, user |-> u.id, live |-> TRUE, used |-> FALSE] :
                              u \in ByID(loc[r].user)}
    /\ Finish(r)
    /\ UNCHANGED <<bound, users, born, tries, files, notes, ghosts>>

(* POST /auth/password/reset: GetValidByTokenHash, GetByID, Update, MarkUsed. *)
ResetFind(r, token, password) ==
    /\ Arrives(r, "reset")
    /\ \E t \in tokens :
         /\ t.id = token
         /\ IF t.live /\ ~t.used
            THEN Goto(r, "resetLoad", [NoLoc EXCEPT !.token = token, !.password = password])
            ELSE Finish(r)
    /\ UNCHANGED <<bound, rest, ghosts, users, born>>

ResetLoad(r) ==
    LET owner == {u \in users : \E t \in tokens : t.id = loc[r].token /\ t.user = u.id}
    IN  /\ pc[r] = "resetLoad"
        /\ \/ \E u \in owner :
                Load(r, u, "savePassword", PasswordParams(u, loc[r].password),
                     loc[r].password, loc[r])
           \/ owner = {} /\ Finish(r)
        /\ UNCHANGED <<bound, rest, ghosts, users, born>>

(* POST /auth/password/change: the current password, if the row has one,   *)
(* is compared first.                                                      *)
ChangeLoad(r, id, current, password) ==
    /\ Arrives(r, "change")
    /\ \E u \in ByID(id) :
         IF u.password \in {None, current}
         THEN Load(r, u, "savePassword", PasswordParams(u, password), password, NoLoc)
         ELSE Finish(r)
    /\ UNCHANGED <<bound, rest, ghosts, users, born>>

SavePassword(r) ==
    /\ pc[r] = "savePassword"
    /\ \/ /\ UpdateRow(loc[r].user, loc[r].params, loc[r].password, "owner", r \in stale)
          /\ IF loc[r].token = None THEN Finish(r) ELSE Goto(r, "markUsed", loc[r])
       \/ /\ UpdateFails(loc[r].user, loc[r].params)
          /\ Finish(r)
          /\ UsersSame
    /\ UNCHANGED <<bound, rest, wins, blamed, chosen>>

(* Mutant of MarkUsed: UPDATE without AND used_at IS NULL. *)
MarkUsedAgain(r) ==
    LET mine == {t \in tokens : t.id = loc[r].token}
    IN  /\ pc[r] = "markUsed"
        /\ tokens' = (tokens \ mine) \cup {[t EXCEPT !.used = TRUE] : t \in mine}
        /\ wins' = IF mine = {} THEN wins ELSE wins \cup {<<loc[r].token, r>>}
        /\ Finish(r)
        /\ UsersSame /\ UNCHANGED <<bound, tries, files, notes, blamed, chosen>>

(* A token that was used meanwhile is an error, though the password is saved. *)
MarkUsed(r) ==
    LET mine == {t \in tokens : t.id = loc[r].token /\ ~t.used}
    IN  /\ pc[r] = "markUsed"
        /\ tokens' = (tokens \ mine) \cup {[t EXCEPT !.used = TRUE] : t \in mine}
        /\ wins' = IF mine = {} THEN wins ELSE wins \cup {<<loc[r].token, r>>}
        /\ Finish(r)
        /\ UsersSame /\ UNCHANGED <<bound, tries, files, notes, blamed, chosen>>

TokenLapses(t) ==
    /\ t.live
    /\ tokens' = (tokens \ {t}) \cup {[t EXCEPT !.live = FALSE]}
    /\ UNCHANGED <<bound, users, born, tries, files, notes, pc, loc, ghosts>>

(* Mutant of ProfileParams: the loaded password goes back with the rest. *)
ProfileParamsAll(u, avatar) ==
    Params(u.email, u.google, u.password, u.admin, None, None, Kept(avatar, u.avatar))

(* Mutant of ProfileParams: a profile without the Google account. *)
ProfileParamsUnlinked(u, avatar) ==
    Params(u.email, None, None, u.admin, None, None, Kept(avatar, u.avatar))

(* Mutant of ProfileParams: the flag is cleared as by a password change. *)
ProfileParamsCleared(u, avatar) ==
    Params(u.email, u.google, None, u.admin, None, FALSE, Kept(avatar, u.avatar))

ProfileParams(u, avatar) ==
    Params(u.email, u.google, None, u.admin, None, None, Kept(avatar, u.avatar))

(* Mutant of Replaced: an avatar that is sent again counts as replaced. *)
ReplacedAlways(u, avatar) == IF avatar = None THEN None ELSE u.avatar

(* The avatar whose file goes once the profile is saved. *)
Replaced(u, avatar) ==
    IF avatar # None /\ avatar # u.avatar THEN u.avatar ELSE None

(* PUT /auth/me *)
ProfileLoad(r, id, avatar) ==
    /\ Arrives(r, "profile")
    /\ \E u \in ByID(id) :
         /\ Load(r, u, "saveProfile", ProfileParams(u, avatar), None,
                 [NoLoc EXCEPT !.file = Replaced(u, avatar)])
         /\ chosen' = IF avatar \in {None, u.avatar} THEN chosen ELSE chosen \cup {<<avatar, r, id>>}
    /\ UsersSame /\ UNCHANGED <<bound, rest, wins, blamed>>

SaveProfile(r) ==
    /\ pc[r] = "saveProfile"
    /\ \/ /\ UpdateRow(loc[r].user, loc[r].params, None, None, r \in stale)
          /\ IF loc[r].file = None THEN Finish(r) ELSE Goto(r, "deleteFile", loc[r])
       \/ /\ UpdateFails(loc[r].user, loc[r].params)
          /\ Finish(r)
          /\ UsersSame
    /\ UNCHANGED <<bound, rest, wins, blamed, chosen>>

(* The old avatar is deleted, whoever else names it. *)
DeleteFile(r) ==
    /\ pc[r] = "deleteFile"
    /\ files' = [files EXCEPT ![loc[r].file] = IF @ = "none" THEN @ ELSE "deleted"]
    /\ Finish(r)
    /\ UsersSame /\ UNCHANGED <<bound, tokens, tries, notes, wins, blamed, chosen>>

-----------------------------------------------------------------------------
(* The forms of the super admin (/users): what is not entered is cleared.  *)

FormParams(form, must) ==
    Params(form.email, form.google, form.password, form.admin, None, must, form.avatar)

GivenBy(form) ==
    IF form.password # None /\ form.admin THEN "administrator" ELSE "plain"

(* An administrator's first password is to be changed. *)
AdminCreate(r, form) ==
    /\ Arrives(r, "create")
    /\ LET p == FormParams(form, form.password # None /\ form.admin)
       IN  \/ CreateRow(p, GivenBy(form))
           \/ ~KeysFree(NewRow(p)) /\ UsersSame
    /\ chosen' = Names(r, form.avatar, born + 1)
    /\ Finish(r)
    /\ UNCHANGED <<bound, rest, wins, blamed>>

(* A password for an administrator reads the row first: is it the super admin? *)
EditLoad(r, id, form) ==
    /\ Arrives(r, "edit")
    /\ IF form.password # None /\ form.admin
       THEN \/ \E u \in ByID(id) :
                 Goto(r, "saveEdit",
                      [NoLoc EXCEPT !.user = id, !.params = FormParams(form, ~u.super),
                                    !.password = form.password, !.by = GivenBy(form)])
            \/ ByID(id) = {} /\ Finish(r)
       ELSE Goto(r, "saveEdit",
                 [NoLoc EXCEPT !.user = id, !.params = FormParams(form, None),
                               !.password = form.password, !.by = GivenBy(form)])
    /\ chosen' = Names(r, form.avatar, id)
    /\ UsersSame /\ UNCHANGED <<bound, rest, wins, blamed>>

SaveEdit(r) ==
    /\ pc[r] = "saveEdit"
    /\ \/ UpdateRow(loc[r].user, loc[r].params, loc[r].password, loc[r].by, r \in stale)
       \/ UpdateFails(loc[r].user, loc[r].params) /\ UsersSame
    /\ Finish(r)
    /\ UNCHANGED <<bound, rest, wins, blamed, chosen>>

(* Deactivate deletes the row; ON DELETE CASCADE. *)
Deactivate(r, id) ==
    /\ Arrives(r, "delete")
    /\ users' = users \ ByID(id)
    /\ tokens' = {t \in tokens : t.user # id}
    /\ notes' = {n \in notes : n.user # id}
    /\ stale' = stale \cup {q \in Requests : InFlight(q) /\ loc[q].user = id}
    /\ Finish(r)
    /\ UNCHANGED <<bound, born, tries, files, mixed, lastSet, wins, blamed, chosen>>

-----------------------------------------------------------------------------
(* Uploads and notifications.                                              *)

(* LocalFileStorage.Save creates the file under a name of its own, ... *)
UploadCreate(r, f) ==
    /\ Arrives(r, "upload")
    /\ files[f] = "none"
    /\ files' = [files EXCEPT ![f] = "partial"]
    /\ Goto(r, "copy", [NoLoc EXCEPT !.file = f])
    /\ UsersSame /\ UNCHANGED <<bound, tokens, tries, notes, wins, blamed, chosen>>

(* ... and answers with its URL once all is copied; what a failed copy    *)
(* leaves stays there.                                                     *)
UploadCopy(r) ==
    /\ pc[r] = "copy"
    /\ files' = [files EXCEPT ![loc[r].file] = IF @ = "deleted" THEN @ ELSE "whole"]
    /\ Finish(r)
    /\ UsersSame /\ UNCHANGED <<bound, tokens, tries, notes, wins, blamed, chosen>>

CreateNote(r, id) ==
    /\ Arrives(r, "notify")
    /\ notes' = notes \cup {[id |-> r, user |-> u.id, read |-> FALSE] : u \in ByID(id)}
    /\ Finish(r)
    /\ UsersSame /\ UNCHANGED <<bound, tokens, tries, files, wins, blamed, chosen>>

(* A note is read by its user, who never changes, or by an administrator.  *)
MarkRead(r, n) ==
    /\ Arrives(r, "read")
    /\ notes' = (notes \ {n}) \cup {[n EXCEPT !.read = TRUE]}
    /\ Finish(r)
    /\ UsersSame /\ UNCHANGED <<bound, tokens, tries, files, wins, blamed, chosen>>

(* A statement fails, or the client hangs up; a login still tries to record. *)
Abort(r) ==
    /\ InFlight(r) /\ pc[r] # "record"
    /\ IF pc[r] \in LoginPC
       THEN Goto(r, "record", [loc[r] EXCEPT !.cause = "error"])
       ELSE Finish(r)
    /\ UNCHANGED <<bound, rest, ghosts, users, born>>

-----------------------------------------------------------------------------
AccountsInit ==
    /\ bound \in Bounds
    /\ users = bound.rows
    /\ born = Cardinality(bound.rows)
    /\ tokens = {} /\ tries = <<>> /\ notes = {}
    /\ files = [f \in Files |-> IF \E u \in users : u.avatar = f THEN "whole" ELSE "none"]
    /\ pc = [r \in Requests |-> "idle"]
    /\ loc = [r \in Requests |-> NoLoc]
    /\ stale = {} /\ mixed = {} /\ wins = {} /\ blamed = {}
    /\ chosen = {<<u.avatar, None, u.id>> : u \in {v \in users : v.avatar # None}}
    /\ lastSet = [id \in {u.id : u \in users} |->
                    [password |-> (CHOOSE u \in users : u.id = id).password, by |-> "plain"]]

SignIn(r) ==
    \/ \E spelling \in bound.spellings, password \in bound.passwords :
         \/ \E address \in bound.addresses : LoginCount(r, spelling, address, password)
         \/ \E avatar \in AvatarURLs : Register(r, spelling, password, avatar)
    \/ LoginLookup(r) \/ LoginSession(r) \/ LoginRecord(r)
    \/ \E spelling \in bound.spellings, subject \in bound.subjects : GoogleByID(r, subject, spelling)
    \/ GoogleByEmail(r) \/ GoogleLink(r) \/ GoogleCreate(r)

OwnAccount(r) ==
    \/ \E spelling \in bound.spellings : ForgotLookup(r, spelling)
    \/ ForgotCreate(r)
    \/ \E t \in tokens, password \in bound.passwords : ResetFind(r, t.id, password)
    \/ ResetLoad(r)
    \/ \E u \in users, password \in bound.passwords :
         \E current \in bound.passwords : ChangeLoad(r, u.id, current, password)
    \/ SavePassword(r) \/ MarkUsed(r)
    \/ \E u \in users, avatar \in AvatarURLs : ProfileLoad(r, u.id, avatar)
    \/ SaveProfile(r) \/ DeleteFile(r)
    \/ \E f \in Files : UploadCreate(r, f)
    \/ UploadCopy(r)
    \/ \E n \in notes : MarkRead(r, n)

Administer(r) ==
    \/ \E form \in bound.forms :
         AdminCreate(r, form) \/ \E id \in 1 .. born : EditLoad(r, id, form)
    \/ SaveEdit(r)
    \/ \E u \in users : Deactivate(r, u.id) \/ CreateNote(r, u.id)

AccountsNext ==
    \/ \E r \in Requests : SignIn(r) \/ OwnAccount(r) \/ Administer(r) \/ Abort(r)
    \/ WindowMoves
    \/ \E t \in tokens : TokenLapses(t)

AccountsSpec == AccountsInit /\ [][AccountsNext]_accountVars

-----------------------------------------------------------------------------
(* Properties.                                                             *)

(* Types of the variables, the unique keys of users, and the foreign keys  *)
(* that refer to it; a super admin is an administrator.                    *)
AccountsTypeOK ==
    /\ bound \in Bounds
    /\ users \subseteq Row
    /\ \A u, v \in users : u.id = v.id => u = v
    /\ \A u \in users : KeysFree(u) /\ (u.super => u.admin) /\ u.id <= born
    /\ \A t \in tokens : t.id \in Requests /\ ByID(t.user) # {}
    /\ \A n \in notes : n.id \in Requests /\ ByID(n.user) # {}
    /\ files \in [Files -> {"none", "partial", "whole", "deleted"}]
    /\ \A r \in Requests : pc[r] = "idle" => loc[r] = NoLoc

(* Wrong passwords compared in one window, of those that t is limited by.  *)
Guesses(Counts(_)) == Cardinality({i \in DOMAIN tries : tries[i].cause = "password" /\ Counts(tries[i])})
Unrecorded == Cardinality({i \in DOMAIN tries : ~tries[i].stored})

(* The lockout counts before the password is checked and records after it: *)
(* within a window at most MaxAttempts wrong passwords are compared for a  *)
(* spelling of a name (or from an address, as the scope says), plus one    *)
(* for every other login at the same time and every attempt not recorded.  *)
TriesBounded ==
    LET limit == MaxAttempts + bound.together - 1 + Unrecorded
    IN  /\ bound.scope \in {"identifier", "identifier_ip"} =>
             \A s \in bound.spellings : Guesses(LAMBDA t : t.identifier = s) <= limit
        /\ bound.scope \in {"ip", "identifier_ip"} =>
             \A a \in bound.addresses \ {None} : Guesses(LAMBDA t : t.address = a) <= limit

(* A login is only refused after one failed that was not refused itself:   *)
(* for the same name or from the same address, as the scope says.  Refused *)
(* logins are recorded as failures too, so under identifier_ip the failure *)
(* may be of another name and another address.                             *)
LockoutHasCause ==
    \A r \in Requests : pc[r] = "refused" =>
        \E b \in blamed :
            CASE bound.scope = "identifier" -> b[1] = loc[r].identifier
              [] bound.scope = "ip" -> b[2] = loc[r].address
              [] OTHER -> TRUE

(* Two resets with one token may both save a password, but one at most is  *)
(* told that it succeeded.                                                 *)
OneSuccessPerToken ==
    \A w, v \in wins : w[1] = v[1] => w = v

(* Whole rows are written back from what was loaded earlier, but a user's  *)
(* password is always the last that was saved for it.                      *)
PasswordIsLastSet ==
    \A u \in users : u.password = lastSet[u.id].password

(* A password an administrator was given is marked to be changed until the *)
(* owner sets one, whatever else writes the row; the owner's own is not.   *)
TemporaryPasswordMarked ==
    \A u \in users :
        /\ lastSet[u.id].by = "administrator" /\ ~u.super => u.must
        /\ lastSet[u.id].by = "owner" => ~u.must

(* UpdateProfile deletes the file of the avatar it replaced, whoever names *)
(* it by then.  A deleted file is still somebody's avatar only if it was   *)
(* named twice (to register, in a profile or in a form), or if overlapping *)
(* requests wrote the row: a profile saved from an older copy puts back an *)
(* avatar whose file is gone.                                              *)
AvatarNotDeleted ==
    \A u \in users : u.avatar # None /\ files[u.avatar] = "deleted" =>
        \/ u.id \in mixed
        \/ \E c, d \in chosen : c # d /\ c[1] = u.avatar /\ d[1] = u.avatar
=============================================================================

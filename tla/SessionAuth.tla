----------------------------- MODULE SessionAuth -----------------------------
(***************************************************************************)
(* Signing in, being recognised and signing out: AuthUseCase over the      *)
(* PostgreSQL tables users and sessions and over the SessionCache of the   *)
(* one API process.                                                        *)
(*                                                                         *)
(* A request is a process whose steps are its SQL statements and the       *)
(* critical sections of the cache's mutex; what it has read is kept in loc *)
(* and may be stale when it is used.  The stored session and the cached    *)
(* identity are never changed together: between the two other requests     *)
(* run, a super admin changes or deletes the user, time passes, the client *)
(* hangs up, or the process restarts and forgets the cache.                *)
(*                                                                         *)
(* Of a row of users only is_admin is kept; is_active is never false (the  *)
(* program deletes the rows of users it deactivates), and super admins,    *)
(* whose flags no UPDATE can clear, are left out.  Whether a password      *)
(* matches is the caller's choice: a check may always fail.                *)
(***************************************************************************)
EXTENDS Integers, FiniteSets

CONSTANTS
    Requests,           \* HTTP requests the API serves; each is served once
    Users,              \* primary keys that rows of users get
    Roles,              \* values of is_admin a super admin saves
    SessionTTL,         \* AUTH_SESSION_TTL
    CacheTTL,           \* AUTH_SESSION_CACHE_TTL
    SelectedColumns,    \* columns GetByTokenWithUser selects
    ScannedColumns,     \* variables scanAuthIdentityRow scans a row into
    LastTick,           \* bound: the clock stops here
    None                \* no value

ASSUME ClockAssumption == /\ SessionTTL \in Nat \ {0}
                          /\ CacheTTL \in Nat \ {0}
                          /\ LastTick \in Nat
ASSUME RolesAssumption == Roles \subseteq BOOLEAN
ASSUME ColumnsAssumption == SelectedColumns \in Nat /\ ScannedColumns \in Nat
ASSUME NoUserAssumption == /\ None \notin Users \cup Requests \cup BOOLEAN
                           /\ None \notin Int

VARIABLES
    now,            \* time.Now(), in ticks
    accounts,       \* whether the row of a user is still to come, live or deleted
    isAdmin,        \* the column is_admin of the rows of users
    sessions,       \* rows of sessions
    cache,          \* cache[t]: the entry of SessionCache.items for token t, or None
    pc,             \* pc[r]: the statement or critical section r executes next
    loc,            \* loc[r]: the local variables of request r
    held,           \* held[t]: who logged in and was given token t, or None
    (* Kept for the properties only; no action reads them. *)
    signedOut,      \* tokens signed out while no other request of theirs was running
    late,           \* requests that arrived when their user had been deleted
    lastEarly       \* when u was live, or a request that is not late ran for u, last

users  == <<accounts, isAdmin>>
ghosts == <<signedOut, late, lastEarly>>
vars   == <<now, users, sessions, cache, pc, loc, held, ghosts>>

-----------------------------------------------------------------------------
(* A token is named by the login request that drew it: 32 random bytes     *)
(* never repeat.                                                           *)
Tokens == Requests

SessionRow == [token : Tokens, user : Users, expiresAt : Nat]

(* A cached identity: its user, when its session ends, and when the entry  *)
(* does.                                                                   *)
Entry == [user : Users, expiresAt : Nat, until : Nat]

(* Local variables: the bearer token, the identity the request acts as or  *)
(* logs in, and is_admin in the row of users it has loaded.                *)
Locals == [token : Tokens \cup {None}, user : Users \cup {None},
           expiresAt : Nat \cup {None}, isAdmin : BOOLEAN \cup {None}]

NoLocals == [token |-> None, user |-> None, expiresAt |-> None, isAdmin |-> None]

LoginPC == {"createUser", "insertSession", "cacheLogin"}
AuthenticatePC == {"dropStale", "query", "fillCache"}
HandlerPC == {"handle", "logoutDrop", "saveProfile", "readCache", "writeCache",
              "dropLapsed", "savePassword", "dropOwn"}
PC == {"idle", "refused", "done"} \cup LoginPC \cup AuthenticatePC \cup HandlerPC

TypeOK ==
    /\ now \in Nat
    /\ accounts \in [Users -> {"none", "live", "deleted"}]
    /\ isAdmin \in [Users -> BOOLEAN]
    /\ sessions \subseteq SessionRow
    /\ cache \in [Tokens -> Entry \cup {None}]
    /\ pc \in [Requests -> PC]
    /\ loc \in [Requests -> Locals]
    /\ held \in [Tokens -> Users \cup {None}]
    /\ signedOut \subseteq Tokens
    /\ late \subseteq Requests
    /\ lastEarly \in [Users -> Nat]

Init ==
    /\ now = 0
    /\ accounts \in [Users -> {"none", "live"}]
    /\ isAdmin = [u \in Users |-> FALSE]
    /\ sessions = {}
    /\ cache = [t \in Tokens |-> None]
    /\ pc = [r \in Requests |-> "idle"]
    /\ loc = [r \in Requests |-> NoLocals]
    /\ held = [t \in Tokens |-> None]
    /\ signedOut = {}
    /\ late = {}
    /\ lastEarly = [u \in Users |-> 0]

-----------------------------------------------------------------------------
(* SessionCache: each of these is one critical section of its mutex.       *)

(* Get has an answer while the entry's own time has not come.              *)
CacheHit(t) == cache[t] # None /\ cache[t].until > now
CacheStale(t) == cache[t] # None /\ cache[t].until <= now

(* Mutant of EntryFor: the end of the session is not looked at.            *)
EntryForTTL(user, expiresAt) ==
    [user |-> user, expiresAt |-> expiresAt, until |-> now + CacheTTL]

(* Set: an entry lasts CacheTTL, but not longer than its session.          *)
EntryFor(user, expiresAt) ==
    [user |-> user, expiresAt |-> expiresAt,
     until |-> IF expiresAt < now + CacheTTL THEN expiresAt ELSE now + CacheTTL]

CacheSet(t, user, expiresAt) == cache' = [cache EXCEPT ![t] = EntryFor(user, expiresAt)]

CacheDelete(t) == cache' = [cache EXCEPT ![t] = None]

-----------------------------------------------------------------------------
Goto(r, next, locals) ==
    /\ pc' = [pc EXCEPT ![r] = next]
    /\ loc' = [loc EXCEPT ![r] = locals]

(* The request is answered, with or without an error.                      *)
Finish(r) == Goto(r, "done", NoLocals)

InFlight(r) == pc[r] \notin {"idle", "refused", "done"}

-----------------------------------------------------------------------------
(* Signing in.                                                             *)

SessionOf(u) == [NoLocals EXCEPT !.user = u, !.expiresAt = now + SessionTTL]

(* POST /auth/login: AuthUseCase.Login finds the user and checks the       *)
(* password, or answers 401.                                               *)
Login(r, u) ==
    /\ pc[r] = "idle"
    /\ \/ /\ accounts[u] = "live"
          /\ Goto(r, "insertSession", SessionOf(u))
       \/ Finish(r)
    /\ UNCHANGED <<now, users, sessions, cache, held, ghosts>>

(* POST /auth/google: LoginWithGoogle and resolveGoogleUser.  A row found  *)
(* by google_id or by email is used; otherwise one is created.             *)
LoginWithGoogle(r, u) ==
    /\ pc[r] = "idle"
    /\ \/ /\ accounts[u] = "live"
          /\ Goto(r, "insertSession", SessionOf(u))
       \/ /\ accounts[u] = "none"
          /\ Goto(r, "createUser", [NoLocals EXCEPT !.user = u])
    /\ UNCHANGED <<now, users, sessions, cache, held, ghosts>>

(* POST /auth/register: AuthUseCase.Register goes straight to the INSERT.  *)
Register(r, u) ==
    /\ pc[r] = "idle"
    /\ accounts[u] # "deleted"
    /\ Goto(r, "createUser", [NoLocals EXCEPT !.user = u])
    /\ UNCHANGED <<now, users, sessions, cache, held, ghosts>>

(* UserRepository.Create: the unique keys refuse a row that is there.      *)
CreateUser(r) ==
    LET u == loc[r].user
    IN  /\ pc[r] = "createUser"
        /\ IF accounts[u] = "none"
           THEN /\ accounts' = [accounts EXCEPT ![u] = "live"]
                /\ Goto(r, "insertSession", SessionOf(u))
           ELSE /\ Finish(r)
                /\ UNCHANGED accounts
        /\ UNCHANGED <<now, isAdmin, sessions, cache, held, ghosts>>

(* SessionRepository.Create: the foreign key refuses a deleted user.       *)
InsertSession(r) ==
    LET row == [token |-> r, user |-> loc[r].user, expiresAt |-> loc[r].expiresAt]
    IN  /\ pc[r] = "insertSession"
        /\ IF accounts[loc[r].user] = "live"
           THEN /\ sessions' = sessions \cup {row}
                /\ Goto(r, "cacheLogin", loc[r])
           ELSE /\ Finish(r)
                /\ UNCHANGED sessions
        /\ UNCHANGED <<now, users, cache, held, ghosts>>

(* cacheIdentity, and the answer that gives the client its token.          *)
CacheLogin(r) ==
    /\ pc[r] = "cacheLogin"
    /\ CacheSet(r, loc[r].user, loc[r].expiresAt)
    /\ held' = [held EXCEPT ![r] = loc[r].user]
    /\ Finish(r)
    /\ UNCHANGED <<now, users, sessions, ghosts>>

-----------------------------------------------------------------------------
(* A request with a bearer token: RequireAuth and AuthUseCase.Authenticate *)

ActingAs(t, row) == [NoLocals EXCEPT !.token = t, !.user = row.user,
                                     !.expiresAt = row.expiresAt]

(* Mutant of Authenticate: a hit renews the entry.                         *)
AuthenticateSliding(r, t) ==
    /\ pc[r] = "idle"
    /\ held[t] # None
    /\ \/ /\ CacheHit(t)
          /\ CacheSet(t, cache[t].user, cache[t].expiresAt)
          /\ Goto(r, "handle", ActingAs(t, cache[t]))
       \/ /\ ~CacheHit(t)
          /\ Goto(r, "query", [NoLocals EXCEPT !.token = t])
          /\ UNCHANGED cache
    /\ late' = IF accounts[held[t]] = "deleted" THEN late \cup {r} ELSE late
    /\ UNCHANGED <<now, users, sessions, held, signedOut, lastEarly>>

(* A request arrives and looks its token up in the cache.  The cached      *)
(* session cannot have ended before its entry has (Set), so the expiry     *)
(* check that follows a hit never refuses.                                 *)
Authenticate(r, t) ==
    /\ pc[r] = "idle"
    /\ held[t] # None
    /\ \/ CacheHit(t)   /\ Goto(r, "handle", ActingAs(t, cache[t]))
       \/ CacheStale(t) /\ Goto(r, "dropStale", [NoLocals EXCEPT !.token = t])
       \/ cache[t] = None /\ Goto(r, "query", [NoLocals EXCEPT !.token = t])
    /\ late' = IF accounts[held[t]] = "deleted" THEN late \cup {r} ELSE late
    /\ UNCHANGED <<now, users, sessions, cache, held, signedOut, lastEarly>>

(* Get gives the read lock back before it takes the write lock: what it    *)
(* deletes may be an entry written in between.                             *)
DropStale(r) ==
    /\ pc[r] = "dropStale"
    /\ CacheDelete(loc[r].token)
    /\ Goto(r, "query", loc[r])
    /\ UNCHANGED <<now, users, sessions, held, ghosts>>

(* The rows GetByTokenWithUser returns for a token: sessions joins users.  *)
FoundByToken(t) == {s \in sessions : s.token = t /\ accounts[s.user] = "live"}

(* A row is scanned only into as many variables as it has columns, and a   *)
(* session is refused once its end has passed.                             *)
Usable(s) == SelectedColumns = ScannedColumns /\ s.expiresAt >= now

Query(r) ==
    LET found == FoundByToken(loc[r].token)
    IN  /\ pc[r] = "query"
        /\ \/ \E s \in found :
                Usable(s) /\ Goto(r, "fillCache", ActingAs(loc[r].token, s))
           \/ (\A s \in found : ~Usable(s)) /\ Goto(r, "refused", NoLocals)
        /\ UNCHANGED <<now, users, sessions, cache, held, ghosts>>

(* The identity goes into the cache although the row it came from may be   *)
(* gone by now.                                                            *)
FillCache(r) ==
    /\ pc[r] = "fillCache"
    /\ CacheSet(loc[r].token, loc[r].user, loc[r].expiresAt)
    /\ Goto(r, "handle", loc[r])
    /\ UNCHANGED <<now, users, sessions, held, ghosts>>

-----------------------------------------------------------------------------
(* The handlers behind RequireAuth.                                        *)

(* GET /auth/me, and every handler that leaves sessions and users alone.   *)
Serve(r) ==
    /\ pc[r] = "handle"
    /\ Finish(r)
    /\ UNCHANGED <<now, users, sessions, cache, held, ghosts>>

(* POST /auth/logout: AuthUseCase.Logout.  A session that is gone already  *)
(* is answered 401, and the cache is left as it is.                        *)
LogoutDeleteSession(r) ==
    LET mine == {s \in sessions : s.token = loc[r].token}
    IN  /\ pc[r] = "handle"
        /\ sessions' = sessions \ mine
        /\ IF mine = {} THEN Finish(r) ELSE Goto(r, "logoutDrop", loc[r])
        /\ UNCHANGED <<now, users, cache, held, ghosts>>

Alone(r) == \A q \in Requests \ {r} : InFlight(q) => loc[q].token # loc[r].token

(* Mutant of LogoutDropCache: the cached identity is left to expire.       *)
LogoutKeepsCache(r) ==
    /\ pc[r] = "logoutDrop"
    /\ Finish(r)
    /\ signedOut' = IF Alone(r) THEN signedOut \cup {loc[r].token} ELSE signedOut
    /\ UNCHANGED <<now, users, sessions, cache, held, late, lastEarly>>

LogoutDropCache(r) ==
    /\ pc[r] = "logoutDrop"
    /\ CacheDelete(loc[r].token)
    /\ Finish(r)
    /\ signedOut' = IF Alone(r) THEN signedOut \cup {loc[r].token} ELSE signedOut
    /\ UNCHANGED <<now, users, sessions, held, late, lastEarly>>

(* PUT /auth/me and POST /auth/password/change begin with GetByID; a user  *)
(* that is gone, a field or a password that does not fit end the request.  *)
LoadUser(r, next) ==
    /\ pc[r] = "handle"
    /\ accounts[loc[r].user] = "live"
    /\ Goto(r, next, [loc[r] EXCEPT !.isAdmin = isAdmin[loc[r].user]])
    /\ UNCHANGED <<now, users, sessions, cache, held, ghosts>>

(* UserRepository.Update writes every column of the row, is_admin as it    *)
(* was loaded.                                                             *)
SaveUser(r, next) ==
    LET u == loc[r].user
    IN  /\ IF accounts[u] = "live"
           THEN /\ isAdmin' = [isAdmin EXCEPT ![u] = loc[r].isAdmin]
                /\ Goto(r, next, loc[r])
           ELSE /\ Finish(r)
                /\ UNCHANGED isAdmin
        /\ UNCHANGED <<now, accounts, sessions, cache, held, ghosts>>

SaveProfile(r)  == pc[r] = "saveProfile"  /\ SaveUser(r, "readCache")
SavePassword(r) == pc[r] = "savePassword" /\ SaveUser(r, "dropOwn")

(* UpdateProfile renews the cached identity, if there still is one.        *)
ProfileReadCache(r) ==
    LET t == loc[r].token
    IN  /\ pc[r] = "readCache"
        /\ \/ /\ CacheHit(t)
              /\ Goto(r, "writeCache", [loc[r] EXCEPT !.expiresAt = cache[t].expiresAt])
           \/ CacheStale(t) /\ Goto(r, "dropLapsed", loc[r])
           \/ cache[t] = None /\ Finish(r)
        /\ UNCHANGED <<now, users, sessions, cache, held, ghosts>>

ProfileWriteCache(r) ==
    /\ pc[r] = "writeCache"
    /\ CacheSet(loc[r].token, loc[r].user, loc[r].expiresAt)
    /\ Finish(r)
    /\ UNCHANGED <<now, users, sessions, held, ghosts>>

(* The end of ChangePassword, and of a profile update that met a stale     *)
(* entry.                                                                  *)
DropOwnEntry(r) ==
    /\ pc[r] \in {"dropOwn", "dropLapsed"}
    /\ CacheDelete(loc[r].token)
    /\ Finish(r)
    /\ UNCHANGED <<now, users, sessions, held, ghosts>>

-----------------------------------------------------------------------------
(* What else happens to users, cache and clock.                            *)

(* PUT /users/{id} by a super admin: one UPDATE; no cache entry changes.   *)
UpdateUser(u, admin) ==
    /\ accounts[u] = "live"
    /\ isAdmin' = [isAdmin EXCEPT ![u] = admin]
    /\ UNCHANGED <<now, accounts, sessions, cache, pc, loc, held, ghosts>>

(* Mutant of DeleteUser: sessions stay without a user, as attempts do.     *)
DeleteUserKeepsSessions(u) ==
    /\ accounts[u] = "live"
    /\ accounts' = [accounts EXCEPT ![u] = "deleted"]
    /\ sessions' = {[s EXCEPT !.user = IF @ = u THEN None ELSE @] : s \in sessions}
    /\ UNCHANGED <<now, isAdmin, cache, pc, loc, held, ghosts>>

(* DELETE /users/{id}: the foreign key deletes the user's sessions; no     *)
(* cache entry changes.                                                    *)
DeleteUser(u) ==
    /\ accounts[u] = "live"
    /\ accounts' = [accounts EXCEPT ![u] = "deleted"]
    /\ sessions' = {s \in sessions : s.user # u}
    /\ UNCHANGED <<now, isAdmin, cache, pc, loc, held, ghosts>>

(* The cache's ticker goroutine drops every entry whose time has come.     *)
RunEviction ==
    /\ \E t \in Tokens : CacheStale(t)
    /\ cache' = [t \in Tokens |-> IF CacheStale(t) THEN None ELSE cache[t]]
    /\ UNCHANGED <<now, users, sessions, pc, loc, held, ghosts>>

(* The user a request in flight acts for: the one who got its token, or    *)
(* the one it logs in.                                                     *)
ActsFor(r) == IF loc[r].token = None THEN loc[r].user ELSE held[loc[r].token]

Tick ==
    /\ now < LastTick
    /\ now' = now + 1
    /\ lastEarly' =
         [u \in Users |->
            IF \/ accounts[u] # "deleted"
               \/ \E r \in Requests \ late : InFlight(r) /\ ActsFor(r) = u
            THEN now + 1
            ELSE lastEarly[u]]
    /\ UNCHANGED <<users, sessions, cache, pc, loc, held, signedOut, late>>

(* The client hangs up or the database does not answer: the statement that *)
(* is due, or the answer of the one just executed, is lost.  RequireAuth   *)
(* answers 401 to every error of Authenticate, this one too.  Critical     *)
(* sections of the cache cannot fail.                                      *)
Abort(r) ==
    /\ \/ pc[r] = "query" /\ Goto(r, "refused", NoLocals)
       \/ /\ pc[r] \in {"createUser", "insertSession", "cacheLogin", "logoutDrop",
                       "saveProfile", "readCache", "savePassword", "dropOwn"}
          /\ Finish(r)
    /\ UNCHANGED <<now, users, sessions, cache, held, ghosts>>

(* The process is restarted: the cache and the requests in flight are      *)
(* gone, the tables stay.                                                  *)
Restart ==
    /\ cache' = [t \in Tokens |-> None]
    /\ pc' = [r \in Requests |-> IF InFlight(r) THEN "done" ELSE pc[r]]
    /\ loc' = [r \in Requests |-> NoLocals]
    /\ UNCHANGED <<now, users, sessions, held, ghosts>>

-----------------------------------------------------------------------------

SignIn(r) ==
    \/ \E u \in Users : Login(r, u) \/ LoginWithGoogle(r, u) \/ Register(r, u)
    \/ CreateUser(r)
    \/ InsertSession(r)
    \/ CacheLogin(r)

BeRecognised(r) ==
    \/ \E t \in Tokens : Authenticate(r, t)
    \/ DropStale(r)
    \/ Query(r)
    \/ FillCache(r)

Handle(r) ==
    \/ Serve(r)
    \/ LogoutDeleteSession(r)
    \/ LogoutDropCache(r)
    \/ LoadUser(r, "saveProfile")
    \/ LoadUser(r, "savePassword")
    \/ SaveProfile(r)
    \/ SavePassword(r)
    \/ ProfileReadCache(r)
    \/ ProfileWriteCache(r)
    \/ DropOwnEntry(r)

Environment ==
    \/ \E u \in Users, admin \in Roles : UpdateUser(u, admin)
    \/ \E u \in Users : DeleteUser(u)
    \/ RunEviction
    \/ Tick
    \/ Restart

Next ==
    \/ \E r \in Requests : SignIn(r) \/ BeRecognised(r) \/ Handle(r) \/ Abort(r)
    \/ Environment

Spec == Init /\ [][Next]_vars

(* Behaviours in which no statement fails.                                 *)
FaultFreeNext ==
    \/ \E r \in Requests : SignIn(r) \/ BeRecognised(r) \/ Handle(r)
    \/ Environment

FaultFreeSpec == Init /\ [][FaultFreeNext]_vars

-----------------------------------------------------------------------------
(* Properties.                                                             *)

(* Whatever order logins, cache fills and profile updates come in, a token *)
(* stands for the user it was given to: in its session, in its cache entry *)
(* and in every request that acts on it.  A cache entry never outlives the *)
(* session it was made from (SessionCache.Set).                            *)
OwnIdentity ==
    /\ \A s \in sessions : held[s.token] \in {None, s.user}
    /\ \A t \in Tokens :
          cache[t] # None =>
            /\ cache[t].user = held[t]
            /\ cache[t].until <= cache[t].expiresAt
            /\ \A s \in sessions : s.token = t => s.expiresAt = cache[t].expiresAt
    /\ \A r \in Requests :
          pc[r] \in HandlerPC \cup {"fillCache"} => loc[r].user = held[loc[r].token]

(* Signing out works although it deletes the session first and the cache   *)
(* entry later (Logout): when no other request of the token was running,   *)
(* no request gets past the query with that token again.                   *)
QuietLogoutIsFinal ==
    \A r \in Requests :
        InFlight(r) /\ loc[r].token \in signedOut => pc[r] = "query"

(* The identity of a deleted user is served from the cache for CacheTTL at *)
(* most, counted from the end of the last request that came in before the  *)
(* deletion: nothing the user does afterwards renews an entry (Deactivate  *)
(* leaves the cache alone).                                                *)
DeletedUserFadesOut ==
    \A t \in Tokens :
        cache[t] # None => cache[t].until <= lastEarly[cache[t].user] + CacheTTL

(* When no statement fails, RequireAuth answers 401 only to a token without *)
(* a session, or with one that has ended: a session survives the expiry,   *)
(* the eviction and the loss of its cache entry (Authenticate falls back   *)
(* on the table).                                                          *)
ValidSessionIsServed ==
    [][\A r \in Requests :
         pc[r] # "refused" /\ pc'[r] = "refused" =>
            \A s \in FoundByToken(loc[r].token) : s.expiresAt < now]_vars

(* Only a super admin's update of the user changes is_admin: a user who    *)
(* saves a profile or a password cannot.                                   *)
RoleSetByAdminOnly ==
    [][isAdmin' # isAdmin =>
         \E u \in Users, admin \in Roles : UpdateUser(u, admin)]_vars

=============================================================================

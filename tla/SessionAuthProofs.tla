-------------------------- MODULE SessionAuthProofs --------------------------
(***************************************************************************)
(* Theorems about SessionAuth, for any number of requests and users, any   *)
(* lifetimes of sessions and entries, and any length of time.              *)
(***************************************************************************)
EXTENDS SessionAuth, TLAPS

-----------------------------------------------------------------------------
(* Types.                                                                  *)

(* What the program counter says about the local variables of a request:   *)
(* the values a step uses have been assigned by an earlier one.            *)
Assigned(p, l) ==
    /\ p \in LoginPC => l.user \in Users /\ l.token = None
    /\ p \in {"insertSession", "cacheLogin"} => l.expiresAt \in Nat
    /\ p \in AuthenticatePC \cup HandlerPC => l.token \in Tokens
    /\ p \in HandlerPC \cup {"fillCache"} => l.user \in Users /\ l.expiresAt \in Nat
    /\ p \in {"saveProfile", "savePassword"} => l.isAdmin \in BOOLEAN

LocalsAssigned == \A r \in Requests : Assigned(pc[r], loc[r])

TypeInv == TypeOK /\ LocalsAssigned

(* The part of TypeInv that a step of a request changes.                   *)
ControlTyped ==
    /\ pc \in [Requests -> PC]
    /\ loc \in [Requests -> Locals]
    /\ LocalsAssigned

LEMMA NoLocalsType == NoLocals \in Locals
BY DEF NoLocals, Locals

LEMMA InitTypeInv == Init => TypeInv
<1> SUFFICES ASSUME Init PROVE TypeInv
    OBVIOUS
<1>1. TypeOK
    BY NoLocalsType DEF Init, TypeOK, PC
<1>2. LocalsAssigned
    BY DEF Init, LocalsAssigned, Assigned, LoginPC, AuthenticatePC, HandlerPC
<1> QED BY <1>1, <1>2 DEF TypeInv

(* Going on to a step whose local variables have been assigned.            *)
LEMMA GotoType ==
    ASSUME TypeInv, NEW r \in Requests, NEW p \in PC, NEW l \in Locals,
           Assigned(p, l), Goto(r, p, l)
    PROVE  ControlTyped'
BY DEF TypeInv, TypeOK, LocalsAssigned, ControlTyped, Goto

LEMMA FinishType ==
    ASSUME TypeInv, NEW r \in Requests, NEW p \in {"done", "refused"},
           Goto(r, p, NoLocals)
    PROVE  ControlTyped'
<1>1. Assigned(p, NoLocals) /\ p \in PC
    BY DEF Assigned, LoginPC, AuthenticatePC, HandlerPC, PC
<1> QED BY <1>1, NoLocalsType, GotoType

(* The session a user who signs in is about to get.                        *)
LEMMA SessionOfType ==
    ASSUME TypeInv, NEW u \in Users
    PROVE  /\ SessionOf(u) \in Locals
           /\ Assigned("insertSession", SessionOf(u))
           /\ [NoLocals EXCEPT !.user = u] \in Locals
           /\ Assigned("createUser", [NoLocals EXCEPT !.user = u])
<1>1. now + SessionTTL \in Nat
    BY ClockAssumption DEF TypeInv, TypeOK
<1> QED BY <1>1 DEF SessionOf, NoLocals, Locals, Assigned, LoginPC, AuthenticatePC, HandlerPC

(* The identity of a request that has been recognised.                     *)
LEMMA ActingAsType ==
    ASSUME NEW t \in Tokens, NEW row \in SessionRow \cup Entry
    PROVE  /\ ActingAs(t, row) \in Locals
           /\ Assigned("handle", ActingAs(t, row))
           /\ Assigned("fillCache", ActingAs(t, row))
BY DEF ActingAs, SessionRow, Entry, NoLocals, Locals, Assigned, LoginPC, AuthenticatePC,
       HandlerPC

(* A request of which only the token is known yet.                         *)
LEMMA TokenOnlyType ==
    ASSUME NEW t \in Tokens
    PROVE  /\ [NoLocals EXCEPT !.token = t] \in Locals
           /\ Assigned("dropStale", [NoLocals EXCEPT !.token = t])
           /\ Assigned("query", [NoLocals EXCEPT !.token = t])
BY DEF NoLocals, Locals, Assigned, LoginPC, AuthenticatePC, HandlerPC

LEMMA CacheSetType ==
    ASSUME TypeInv, NEW t \in Tokens, NEW u \in Users, NEW e \in Nat, CacheSet(t, u, e)
    PROVE  cache' \in [Tokens -> Entry \cup {None}]
<1>1. EntryFor(u, e) \in Entry
    BY ClockAssumption DEF EntryFor, Entry, TypeInv, TypeOK
<1> QED BY <1>1 DEF CacheSet, TypeInv, TypeOK

LEMMA CacheDeleteType ==
    ASSUME TypeInv, NEW t \in Tokens, CacheDelete(t)
    PROVE  cache' \in [Tokens -> Entry \cup {None}]
BY DEF CacheDelete, TypeInv, TypeOK

LEMMA SignInType ==
    ASSUME TypeInv, NEW r \in Requests, SignIn(r)
    PROVE  TypeInv'
<1>1. /\ pc[r] \in PC
      /\ loc[r] \in Locals
      /\ Assigned(pc[r], loc[r])
    BY DEF TypeInv, TypeOK, LocalsAssigned
<1>2. {"createUser", "insertSession", "cacheLogin"} \subseteq PC
    BY DEF PC, LoginPC
<1>3. ASSUME NEW u \in Users, Login(r, u) \/ LoginWithGoogle(r, u) \/ Register(r, u)
      PROVE  TypeInv'
    <2>1. ControlTyped'
        BY <1>2, <1>3, SessionOfType, GotoType, FinishType
           DEF Login, LoginWithGoogle, Register, Finish
    <2> QED BY <1>3, <2>1
            DEF Login, LoginWithGoogle, Register, TypeInv, TypeOK, ControlTyped, LocalsAssigned,
                users, ghosts
<1>4. CASE CreateUser(r)
    <2>1. loc[r].user \in Users
        BY <1>1, <1>4 DEF CreateUser, Assigned, LoginPC
    <2>2. ControlTyped'
        BY <1>2, <1>4, <2>1, SessionOfType, GotoType, FinishType DEF CreateUser, Finish
    <2>3. accounts' \in [Users -> {"none", "live", "deleted"}]
        BY <1>4 DEF CreateUser, TypeInv, TypeOK
    <2> QED BY <1>4, <2>2, <2>3
            DEF CreateUser, TypeInv, TypeOK, ControlTyped, LocalsAssigned, ghosts
<1>5. CASE InsertSession(r)
    <2>1. Assigned("cacheLogin", loc[r])
        BY <1>1, <1>5 DEF InsertSession, Assigned, LoginPC, AuthenticatePC, HandlerPC
    <2>2. ControlTyped'
        BY <1>1, <1>2, <1>5, <2>1, GotoType, FinishType DEF InsertSession, Finish
    <2>3. [token |-> r, user |-> loc[r].user, expiresAt |-> loc[r].expiresAt] \in SessionRow
        BY <2>1 DEF SessionRow, Assigned, LoginPC, Tokens
    <2>4. sessions' \subseteq SessionRow
        BY <1>5, <2>3 DEF InsertSession, TypeInv, TypeOK
    <2> QED BY <1>5, <2>2, <2>4
            DEF InsertSession, TypeInv, TypeOK, ControlTyped, LocalsAssigned, users, ghosts
<1>6. CASE CacheLogin(r)
    <2>1. loc[r].user \in Users /\ loc[r].expiresAt \in Nat
        BY <1>1, <1>6 DEF CacheLogin, Assigned, LoginPC
    <2>2. ControlTyped'
        BY <1>6, FinishType DEF CacheLogin, Finish
    <2>3. cache' \in [Tokens -> Entry \cup {None}]
        BY <1>6, <2>1, CacheSetType DEF CacheLogin, Tokens
    <2>4. held' \in [Tokens -> Users \cup {None}]
        BY <1>6, <2>1 DEF CacheLogin, TypeInv, TypeOK
    <2> QED BY <1>6, <2>2, <2>3, <2>4
            DEF CacheLogin, TypeInv, TypeOK, ControlTyped, LocalsAssigned, users, ghosts
<1> QED BY <1>3, <1>4, <1>5, <1>6 DEF SignIn

LEMMA BeRecognisedType ==
    ASSUME TypeInv, NEW r \in Requests, BeRecognised(r)
    PROVE  TypeInv'
<1>1. /\ pc[r] \in PC
      /\ loc[r] \in Locals
      /\ Assigned(pc[r], loc[r])
    BY DEF TypeInv, TypeOK, LocalsAssigned
<1>2. {"dropStale", "query", "fillCache", "handle"} \subseteq PC
    BY DEF PC, AuthenticatePC, HandlerPC
<1>3. ASSUME NEW t \in Tokens, Authenticate(r, t) PROVE TypeInv'
    <2>1. CacheHit(t) => cache[t] \in Entry
        BY DEF CacheHit, TypeInv, TypeOK
    <2>2. ControlTyped'
        BY <1>2, <1>3, <2>1, ActingAsType, TokenOnlyType, GotoType DEF Authenticate
    <2>3. late' \subseteq Requests
        BY <1>3 DEF Authenticate, TypeInv, TypeOK
    <2> QED BY <1>3, <2>2, <2>3
            DEF Authenticate, TypeInv, TypeOK, ControlTyped, LocalsAssigned, users
<1>4. CASE DropStale(r)
    <2>1. loc[r].token \in Tokens /\ Assigned("query", loc[r])
        BY <1>1, <1>4 DEF DropStale, Assigned, LoginPC, AuthenticatePC, HandlerPC
    <2>2. ControlTyped'
        BY <1>1, <1>2, <1>4, <2>1, GotoType DEF DropStale
    <2>3. cache' \in [Tokens -> Entry \cup {None}]
        BY <1>4, <2>1, CacheDeleteType DEF DropStale
    <2> QED BY <1>4, <2>2, <2>3
            DEF DropStale, TypeInv, TypeOK, ControlTyped, LocalsAssigned, users, ghosts
<1>5. CASE Query(r)
    <2>1. loc[r].token \in Tokens
        BY <1>1, <1>5 DEF Query, Assigned, AuthenticatePC
    <2>2. FoundByToken(loc[r].token) \subseteq SessionRow
        BY DEF FoundByToken, TypeInv, TypeOK
    <2>3. ControlTyped'
        BY <1>2, <1>5, <2>1, <2>2, ActingAsType, GotoType, FinishType DEF Query
    <2> QED BY <1>5, <2>3
            DEF Query, TypeInv, TypeOK, ControlTyped, LocalsAssigned, users, ghosts
<1>6. CASE FillCache(r)
    <2>1. /\ loc[r].token \in Tokens
          /\ loc[r].user \in Users
          /\ loc[r].expiresAt \in Nat
          /\ Assigned("handle", loc[r])
        BY <1>1, <1>6 DEF FillCache, Assigned, LoginPC, AuthenticatePC, HandlerPC
    <2>2. ControlTyped'
        BY <1>1, <1>2, <1>6, <2>1, GotoType DEF FillCache
    <2>3. cache' \in [Tokens -> Entry \cup {None}]
        BY <1>6, <2>1, CacheSetType DEF FillCache
    <2> QED BY <1>6, <2>2, <2>3
            DEF FillCache, TypeInv, TypeOK, ControlTyped, LocalsAssigned, users, ghosts
<1> QED BY <1>3, <1>4, <1>5, <1>6 DEF BeRecognised

LEMMA HandleType ==
    ASSUME TypeInv, NEW r \in Requests, Handle(r)
    PROVE  TypeInv'
<1>1. /\ pc[r] \in PC
      /\ loc[r] \in Locals
      /\ Assigned(pc[r], loc[r])
    BY DEF TypeInv, TypeOK, LocalsAssigned
<1>2. HandlerPC \subseteq PC
    BY DEF PC
<1>3. pc[r] \in HandlerPC
    BY DEF Handle, Serve, LogoutDeleteSession, LogoutDropCache, LoadUser, SaveProfile,
           SavePassword, ProfileReadCache, ProfileWriteCache, DropOwnEntry, HandlerPC
<1>4. loc[r].token \in Tokens /\ loc[r].user \in Users /\ loc[r].expiresAt \in Nat
    BY <1>1, <1>3 DEF Assigned
(* A step to another place of the handler needs no more than this one,     *)
(* but for the role that is saved.                                         *)
<1>5. ASSUME NEW p \in HandlerPC \ {"saveProfile", "savePassword"}
      PROVE  Assigned(p, loc[r])
    BY <1>4 DEF Assigned, LoginPC, AuthenticatePC, HandlerPC
<1>6. CASE Serve(r)
    BY <1>6, FinishType
       DEF Serve, Finish, TypeInv, TypeOK, ControlTyped, LocalsAssigned, users, ghosts
<1>7. CASE LogoutDeleteSession(r)
    <2>1. ControlTyped'
        BY <1>1, <1>2, <1>5, <1>7, GotoType, FinishType
           DEF LogoutDeleteSession, Finish, HandlerPC
    <2> QED BY <1>7, <2>1
            DEF LogoutDeleteSession, TypeInv, TypeOK, ControlTyped, LocalsAssigned, users, ghosts
<1>8. CASE LogoutDropCache(r)
    <2>1. ControlTyped'
        BY <1>8, FinishType DEF LogoutDropCache, Finish
    <2>2. cache' \in [Tokens -> Entry \cup {None}]
        BY <1>4, <1>8, CacheDeleteType DEF LogoutDropCache
    <2>3. signedOut' \subseteq Tokens
        BY <1>4, <1>8 DEF LogoutDropCache, TypeInv, TypeOK
    <2> QED BY <1>8, <2>1, <2>2, <2>3
            DEF LogoutDropCache, TypeInv, TypeOK, ControlTyped, LocalsAssigned, users
<1>9. ASSUME NEW p \in {"saveProfile", "savePassword"}, LoadUser(r, p) PROVE TypeInv'
    <2> DEFINE l == [loc[r] EXCEPT !.isAdmin = isAdmin[loc[r].user]]
    <2>1. isAdmin[loc[r].user] \in BOOLEAN
        BY <1>4 DEF TypeInv, TypeOK
    <2>2. l \in Locals /\ l.isAdmin \in BOOLEAN
        BY <1>1, <2>1 DEF Locals
    <2>3. Assigned(p, l)
        BY <1>1, <1>4, <2>2 DEF Assigned, Locals, LoginPC, AuthenticatePC, HandlerPC
    <2>4. p \in PC
        BY <1>2 DEF HandlerPC
    <2>5. ControlTyped'
        BY <1>9, <2>2, <2>3, <2>4, GotoType DEF LoadUser
    <2> QED BY <1>9, <2>5
            DEF LoadUser, TypeInv, TypeOK, ControlTyped, LocalsAssigned, users, ghosts
<1>10. CASE SaveProfile(r) \/ SavePassword(r)
    <2>1. PICK next \in {"readCache", "dropOwn"} : SaveUser(r, next)
        BY <1>10 DEF SaveProfile, SavePassword
    <2>2. ControlTyped'
        BY <1>1, <1>2, <1>5, <2>1, GotoType, FinishType DEF SaveUser, Finish, HandlerPC
    <2>3. loc[r].isAdmin \in BOOLEAN
        BY <1>1, <1>10 DEF SaveProfile, SavePassword, Assigned
    <2>4. isAdmin' \in [Users -> BOOLEAN]
        BY <2>1, <2>3 DEF SaveUser, TypeInv, TypeOK
    <2> QED BY <2>1, <2>2, <2>4
            DEF SaveUser, TypeInv, TypeOK, ControlTyped, LocalsAssigned, ghosts
<1>11. CASE ProfileReadCache(r)
    <2>1. ASSUME CacheHit(loc[r].token),
                 Goto(r, "writeCache", [loc[r] EXCEPT !.expiresAt = cache[loc[r].token].expiresAt])
          PROVE  ControlTyped'
        <3> DEFINE l == [loc[r] EXCEPT !.expiresAt = cache[loc[r].token].expiresAt]
        <3>1. cache[loc[r].token].expiresAt \in Nat
            BY <1>4, <2>1 DEF CacheHit, Entry, TypeInv, TypeOK
        <3>2. l \in Locals
            BY <1>1, <3>1 DEF Locals
        <3>3. Assigned("writeCache", l)
            BY <1>1, <1>4, <3>1 DEF Assigned, Locals, LoginPC, AuthenticatePC, HandlerPC
        <3> QED BY <1>2, <2>1, <3>2, <3>3, GotoType DEF HandlerPC
    <2>2. ControlTyped'
        BY <1>1, <1>2, <1>5, <1>11, <2>1, GotoType, FinishType
           DEF ProfileReadCache, Finish, HandlerPC
    <2> QED BY <1>11, <2>2
            DEF ProfileReadCache, TypeInv, TypeOK, ControlTyped, LocalsAssigned, users, ghosts
<1>12. CASE ProfileWriteCache(r)
    <2>1. ControlTyped'
        BY <1>12, FinishType DEF ProfileWriteCache, Finish
    <2>2. cache' \in [Tokens -> Entry \cup {None}]
        BY <1>4, <1>12, CacheSetType DEF ProfileWriteCache
    <2> QED BY <1>12, <2>1, <2>2
            DEF ProfileWriteCache, TypeInv, TypeOK, ControlTyped, LocalsAssigned, users, ghosts
<1>13. CASE DropOwnEntry(r)
    <2>1. ControlTyped'
        BY <1>13, FinishType DEF DropOwnEntry, Finish
    <2>2. cache' \in [Tokens -> Entry \cup {None}]
        BY <1>4, <1>13, CacheDeleteType DEF DropOwnEntry
    <2> QED BY <1>13, <2>1, <2>2
            DEF DropOwnEntry, TypeInv, TypeOK, ControlTyped, LocalsAssigned, users, ghosts
<1> QED BY <1>6, <1>7, <1>8, <1>9, <1>10, <1>11, <1>12, <1>13 DEF Handle

LEMMA EnvironmentType ==
    ASSUME TypeInv, Environment
    PROVE  TypeInv'
<1>1. ASSUME NEW u \in Users, NEW admin \in Roles, UpdateUser(u, admin) PROVE TypeInv'
    BY <1>1, RolesAssumption DEF UpdateUser, TypeInv, TypeOK, LocalsAssigned, ghosts
<1>2. ASSUME NEW u \in Users, DeleteUser(u) PROVE TypeInv'
    BY <1>2 DEF DeleteUser, TypeInv, TypeOK, LocalsAssigned, ghosts
<1>3. CASE RunEviction
    BY <1>3 DEF RunEviction, TypeInv, TypeOK, LocalsAssigned, users, ghosts
<1>4. CASE Tick
    BY <1>4 DEF Tick, TypeInv, TypeOK, LocalsAssigned, users
<1>5. CASE Restart
    <2>1. LocalsAssigned'
        BY <1>5 DEF Restart, InFlight, TypeInv, TypeOK, PC, LocalsAssigned, Assigned, LoginPC,
                    AuthenticatePC, HandlerPC
    <2> QED BY <1>5, <2>1, NoLocalsType DEF Restart, TypeInv, TypeOK, PC, users, ghosts
<1> QED BY <1>1, <1>2, <1>3, <1>4, <1>5 DEF Environment

LEMMA TypeInvNext == TypeInv /\ [Next]_vars => TypeInv'
<1> SUFFICES ASSUME TypeInv, [Next]_vars PROVE TypeInv'
    OBVIOUS
<1>1. ASSUME NEW r \in Requests, Abort(r) PROVE TypeInv'
    BY <1>1, FinishType
       DEF Abort, Finish, TypeInv, TypeOK, ControlTyped, LocalsAssigned, users, ghosts
<1>2. CASE UNCHANGED vars
    BY <1>2 DEF vars, users, ghosts, TypeInv, TypeOK, LocalsAssigned
<1> QED BY <1>1, <1>2, SignInType, BeRecognisedType, HandleType, EnvironmentType DEF Next

LEMMA TypeInvAlways == Spec => []TypeInv
BY InitTypeInv, TypeInvNext, PTL DEF Spec

(* Every variable keeps its type: in particular no request uses a token,   *)
(* an identity or a role it has not read before.                           *)
THEOREM TypeCorrect == Spec => []TypeOK
<1>1. TypeInv => TypeOK
    BY DEF TypeInv
<1> QED BY <1>1, TypeInvAlways, PTL

-----------------------------------------------------------------------------
(* A token stands for its user.                                            *)

(* Whoever was given a token has been answered.                            *)
TokenGiven == \A t \in Tokens : held[t] # None => pc[t] = "done"

(* A session was stored by the login that drew its token, and by no other. *)
SessionDrawn ==
    \A s \in sessions :
        /\ pc[s.token] \in {"cacheLogin", "done"}
        /\ pc[s.token] = "cacheLogin" =>
              loc[s.token].user = s.user /\ loc[s.token].expiresAt = s.expiresAt
        /\ held[s.token] \in {None, s.user}
        /\ \A q \in sessions : q.token = s.token => q = s

SessionsEnd(t, e) == \A s \in sessions : s.token = t => s.expiresAt = e

(* A request in place p with the locals l acts for the user of its token.  *)
ActsRightly(p, l) ==
    /\ p \in AuthenticatePC \cup HandlerPC => held[l.token] # None
    /\ p \in HandlerPC \cup {"fillCache"} =>
          /\ l.user = held[l.token]
          /\ SessionsEnd(l.token, l.expiresAt)

AllActRightly == \A r \in Requests : ActsRightly(pc[r], loc[r])

(* An entry belongs to the user of its token and ends with its session.    *)
EntryFits(t, e) ==
    /\ e.user = held[t]
    /\ e.until <= e.expiresAt
    /\ SessionsEnd(t, e.expiresAt)

EntriesFit == \A t \in Tokens : cache[t] # None => EntryFits(t, cache[t])

OwnInv == TokenGiven /\ SessionDrawn /\ AllActRightly /\ EntriesFit

(* The entries of the cache stay, go, or are made to fit.                  *)
EntriesKept ==
    \A t \in Tokens : cache'[t] \in {cache[t], None} \/ EntryFits(t, cache'[t])

LEMMA OwnKept ==
    ASSUME TypeInv, OwnInv, UNCHANGED held, sessions' \subseteq sessions, EntriesKept,
           \A q \in Requests :
              /\ pc[q] = "done" => pc'[q] = "done"
              /\ pc[q] = "cacheLogin" =>
                    pc'[q] = "done" \/ (pc'[q] = "cacheLogin" /\ loc'[q] = loc[q])
              /\ ActsRightly(pc'[q], loc'[q])
    PROVE  OwnInv'
<1>1. TokenGiven'
    BY DEF OwnInv, TokenGiven, Tokens
<1>2. SessionDrawn'
    <2>1. \A s \in sessions : s.token \in Requests
        BY DEF TypeInv, TypeOK, SessionRow, Tokens
    <2> QED BY <2>1 DEF OwnInv, SessionDrawn
<1>3. AllActRightly'
    BY DEF AllActRightly, ActsRightly, SessionsEnd
<1>4. EntriesFit'
    BY DEF OwnInv, EntriesFit, EntriesKept, EntryFits, SessionsEnd
<1> QED BY <1>1, <1>2, <1>3, <1>4 DEF OwnInv

(* A request that goes on rightly, stores no session and hands out no      *)
(* token.                                                                  *)
LEMMA OwnGoto ==
    ASSUME TypeInv, OwnInv, UNCHANGED held, sessions' \subseteq sessions, EntriesKept,
           NEW r \in Requests, NEW p, NEW l, Goto(r, p, l), ActsRightly(p, l),
           pc[r] # "done", pc[r] = "cacheLogin" => p = "done"
    PROVE  OwnInv'
<1>1. ASSUME NEW q \in Requests
      PROVE  /\ pc[q] = "done" => pc'[q] = "done"
             /\ pc[q] = "cacheLogin" =>
                   pc'[q] = "done" \/ (pc'[q] = "cacheLogin" /\ loc'[q] = loc[q])
             /\ ActsRightly(pc'[q], loc'[q])
    <2>1. CASE q = r
        BY <2>1 DEF Goto, TypeInv, TypeOK
    <2>2. CASE q # r
        BY <2>2 DEF Goto, TypeInv, TypeOK, OwnInv, AllActRightly
    <2> QED BY <2>1, <2>2
<1> QED BY <1>1, OwnKept

LEMMA AnswerActsRightly ==
    ASSUME NEW p \in {"done", "refused"}, NEW l
    PROVE  ActsRightly(p, l)
BY DEF ActsRightly, AuthenticatePC, HandlerPC

LEMMA LoginActsRightly ==
    ASSUME NEW p \in LoginPC, NEW l
    PROVE  ActsRightly(p, l)
BY DEF ActsRightly, LoginPC, AuthenticatePC, HandlerPC

LEMMA SameEntries ==
    ASSUME UNCHANGED cache
    PROVE  EntriesKept
BY DEF EntriesKept

LEMMA DroppedEntry ==
    ASSUME TypeInv, NEW t \in Tokens, CacheDelete(t)
    PROVE  EntriesKept
BY DEF EntriesKept, CacheDelete, TypeInv, TypeOK

LEMMA NewEntryFits ==
    ASSUME TypeInv, NEW t \in Tokens, NEW e \in Nat, CacheSet(t, held[t], e),
           SessionsEnd(t, e)
    PROVE  EntriesKept
<1>1. EntryFits(t, EntryFor(held[t], e))
    BY ClockAssumption DEF EntryFits, EntryFor, TypeInv, TypeOK
<1> QED BY <1>1 DEF CacheSet, EntriesKept, TypeInv, TypeOK

LEMMA SignInOwn ==
    ASSUME TypeInv, OwnInv, NEW r \in Requests, SignIn(r)
    PROVE  OwnInv'
<1>1. r \in Tokens
    BY DEF Tokens
<1>2. ASSUME NEW u \in Users, Login(r, u) \/ LoginWithGoogle(r, u) \/ Register(r, u)
      PROVE  OwnInv'
    <2>1. PICK p \in LoginPC \cup {"done"}, l \in {SessionOf(u), NoLocals, [NoLocals EXCEPT !.user = u]} :
            Goto(r, p, l)
        BY <1>2 DEF Login, LoginWithGoogle, Register, Finish, LoginPC
    <2>2. ActsRightly(p, l)
        BY AnswerActsRightly, LoginActsRightly
    <2> QED BY <1>2, <2>1, <2>2, OwnGoto, SameEntries
            DEF Login, LoginWithGoogle, Register
<1>3. CASE CreateUser(r)
    <2>1. PICK p \in LoginPC \cup {"done"}, l \in {SessionOf(loc[r].user), NoLocals} :
            Goto(r, p, l)
        BY <1>3 DEF CreateUser, Finish, LoginPC
    <2>2. ActsRightly(p, l)
        BY AnswerActsRightly, LoginActsRightly
    <2> QED BY <1>3, <2>1, <2>2, OwnGoto, SameEntries DEF CreateUser
<1>4. CASE InsertSession(r) /\ accounts[loc[r].user] # "live"
    BY <1>4, AnswerActsRightly, OwnGoto, SameEntries DEF InsertSession, Finish
<1>5. CASE InsertSession(r) /\ accounts[loc[r].user] = "live"
    <2> DEFINE row == [token |-> r, user |-> loc[r].user, expiresAt |-> loc[r].expiresAt]
    <2>1. /\ sessions' = sessions \cup {row}
          /\ pc[r] = "insertSession"
          /\ pc' = [pc EXCEPT ![r] = "cacheLogin"]
          /\ loc' = loc
          /\ cache' = cache
          /\ held' = held
        BY <1>5 DEF InsertSession, Goto, TypeInv, TypeOK
    (* Nothing is known of the token yet.                                  *)
    <2>2. held[r] = None
        BY <1>1, <2>1 DEF OwnInv, TokenGiven
    <2>3. \A s \in sessions : s.token # r
        BY <2>1 DEF OwnInv, SessionDrawn
    <2>4. cache[r] = None
        <3>1. ASSUME cache[r] # None PROVE FALSE
            <4>1. cache[r].user = held[r] /\ cache[r].user \in Users
                BY <1>1, <3>1 DEF OwnInv, EntriesFit, EntryFits, TypeInv, TypeOK, Entry
            <4> QED BY <2>2, <4>1, NoUserAssumption
        <3> QED BY <3>1
    <2>5. TokenGiven'
        BY <2>1, <2>2 DEF OwnInv, TokenGiven, Tokens, TypeInv, TypeOK
    <2>6. SessionDrawn'
        <3>1. \A s \in sessions : s.token \in Requests
            BY DEF TypeInv, TypeOK, SessionRow, Tokens
        <3> QED BY <2>1, <2>2, <2>3, <3>1 DEF OwnInv, SessionDrawn, TypeInv, TypeOK
    <2>7. AllActRightly'
        <3>1. ASSUME NEW q \in Requests PROVE ActsRightly(pc[q], loc[q])'
            <4>1. CASE q = r
                BY <2>1, <4>1 DEF ActsRightly, AuthenticatePC, HandlerPC, TypeInv, TypeOK
            <4>2. CASE q # r
                BY <2>1, <2>2, <4>2
                   DEF ActsRightly, SessionsEnd, OwnInv, AllActRightly, AuthenticatePC, TypeInv, TypeOK
            <4> QED BY <4>1, <4>2
        <3> QED BY <3>1 DEF AllActRightly, ActsRightly, SessionsEnd
    <2>8. EntriesFit'
        BY <2>1, <2>4 DEF OwnInv, EntriesFit, EntryFits, SessionsEnd
    <2> QED BY <2>5, <2>6, <2>7, <2>8 DEF OwnInv
<1>6. CASE CacheLogin(r)
    <2>1. /\ pc[r] = "cacheLogin"
          /\ pc' = [pc EXCEPT ![r] = "done"]
          /\ loc' = [loc EXCEPT ![r] = NoLocals]
          /\ held' = [held EXCEPT ![r] = loc[r].user]
          /\ cache' = [cache EXCEPT ![r] = EntryFor(loc[r].user, loc[r].expiresAt)]
          /\ sessions' = sessions
        BY <1>6 DEF CacheLogin, CacheSet, Finish, Goto
    <2>2. /\ loc[r].user \in Users
          /\ loc[r].expiresAt \in Nat
        BY <2>1 DEF TypeInv, LocalsAssigned, Assigned, LoginPC
    <2>3. held[r] = None
        BY <1>1, <2>1 DEF OwnInv, TokenGiven
    <2>4. TokenGiven'
        BY <2>1 DEF OwnInv, TokenGiven, Tokens, TypeInv, TypeOK
    <2>5. SessionDrawn'
        <3>1. \A s \in sessions : s.token \in Requests
            BY DEF TypeInv, TypeOK, SessionRow, Tokens
        <3> QED BY <1>1, <2>1, <3>1 DEF OwnInv, SessionDrawn, TypeInv, TypeOK, Tokens
    <2>6. AllActRightly'
        <3>1. ASSUME NEW q \in Requests PROVE ActsRightly(pc[q], loc[q])'
            <4>1. CASE q = r
                BY <2>1, <4>1 DEF ActsRightly, AuthenticatePC, HandlerPC, TypeInv, TypeOK
            <4>2. CASE q # r
                <5>1. /\ pc'[q] = pc[q]
                      /\ loc'[q] = loc[q]
                      /\ ActsRightly(pc[q], loc[q])
                    BY <2>1, <4>2 DEF OwnInv, AllActRightly, TypeInv, TypeOK
                <5>2. pc[q] \in AuthenticatePC \cup HandlerPC =>
                        held'[loc[q].token] = held[loc[q].token]
                    BY <2>1, <2>3, <5>1
                       DEF ActsRightly, TypeInv, TypeOK, LocalsAssigned, Assigned
                <5> QED BY <2>1, <5>1, <5>2 DEF ActsRightly, SessionsEnd, AuthenticatePC
            <4> QED BY <4>1, <4>2
        <3> QED BY <3>1 DEF AllActRightly
    <2>7. EntriesFit'
        <3>1. ASSUME NEW t \in Tokens, cache'[t] # None PROVE EntryFits(t, cache[t])'
            <4>1. CASE t = r
                <5>1. cache'[r] = EntryFor(loc[r].user, loc[r].expiresAt)
                    BY <1>1, <2>1 DEF TypeInv, TypeOK
                <5>2. held'[r] = loc[r].user
                    BY <1>1, <2>1 DEF TypeInv, TypeOK
                <5>3. \A s \in sessions' : s.token = r => s.expiresAt = loc[r].expiresAt
                    BY <2>1 DEF OwnInv, SessionDrawn
                <5> QED BY <2>1, <2>2, <4>1, <5>1, <5>2, <5>3, ClockAssumption
                        DEF EntryFits, EntryFor, SessionsEnd, TypeInv, TypeOK
            <4>2. CASE t # r
                BY <2>1, <3>1, <4>2
                   DEF OwnInv, EntriesFit, EntryFits, SessionsEnd, TypeInv, TypeOK
            <4> QED BY <4>1, <4>2
        <3> QED BY <3>1 DEF EntriesFit
    <2> QED BY <2>4, <2>5, <2>6, <2>7 DEF OwnInv
<1> QED BY <1>2, <1>3, <1>4, <1>5, <1>6 DEF SignIn

LEMMA BeRecognisedOwn ==
    ASSUME TypeInv, OwnInv, NEW r \in Requests, BeRecognised(r)
    PROVE  OwnInv'
<1>1. ActsRightly(pc[r], loc[r])
    BY DEF OwnInv, AllActRightly
<1>2. pc[r] \in AuthenticatePC => held[loc[r].token] # None /\ loc[r].token \in Tokens
    BY <1>1 DEF ActsRightly, TypeInv, LocalsAssigned, Assigned
<1>3. ASSUME NEW t \in Tokens, Authenticate(r, t) PROVE OwnInv'
    <2>1. CASE CacheHit(t) /\ Goto(r, "handle", ActingAs(t, cache[t]))
        <3>1. ActsRightly("handle", ActingAs(t, cache[t]))
            BY <1>3, <2>1
               DEF Authenticate, CacheHit, ActingAs, NoLocals, ActsRightly, OwnInv, EntriesFit,
                   EntryFits
        <3> QED BY <1>3, <2>1, <3>1, OwnGoto, SameEntries DEF Authenticate
    <2>2. ASSUME NEW p \in {"dropStale", "query"}, Goto(r, p, [NoLocals EXCEPT !.token = t])
          PROVE  OwnInv'
        <3>1. ActsRightly(p, [NoLocals EXCEPT !.token = t])
            BY <1>3 DEF Authenticate, NoLocals, ActsRightly, HandlerPC
        <3> QED BY <1>3, <2>2, <3>1, OwnGoto, SameEntries DEF Authenticate
    <2> QED BY <1>3, <2>1, <2>2 DEF Authenticate
<1>4. CASE DropStale(r)
    <2>1. ActsRightly("query", loc[r])
        BY <1>2, <1>4 DEF DropStale, ActsRightly, AuthenticatePC, HandlerPC
    <2> QED BY <1>2, <1>4, <2>1, OwnGoto, DroppedEntry DEF DropStale, AuthenticatePC
<1>5. CASE Query(r)
    <2>1. ASSUME NEW s \in FoundByToken(loc[r].token),
                 Goto(r, "fillCache", ActingAs(loc[r].token, s))
          PROVE  OwnInv'
        <3>1. /\ s \in sessions
              /\ s.token = loc[r].token
              /\ s.user = held[s.token]
              /\ SessionsEnd(s.token, s.expiresAt)
            BY <1>2, <1>5
               DEF Query, AuthenticatePC, FoundByToken, OwnInv, SessionDrawn, SessionsEnd
        <3>2. ActsRightly("fillCache", ActingAs(loc[r].token, s))
            BY <1>2, <1>5, <3>1
               DEF Query, ActingAs, NoLocals, ActsRightly, AuthenticatePC
        <3> QED BY <1>5, <2>1, <3>2, OwnGoto, SameEntries DEF Query
    <2>2. CASE Goto(r, "refused", NoLocals)
        BY <1>5, <2>2, AnswerActsRightly, OwnGoto, SameEntries DEF Query
    <2> QED BY <1>5, <2>1, <2>2 DEF Query
<1>6. CASE FillCache(r)
    <2>1. /\ loc[r].token \in Tokens
          /\ loc[r].user = held[loc[r].token]
          /\ loc[r].expiresAt \in Nat
          /\ SessionsEnd(loc[r].token, loc[r].expiresAt)
        BY <1>1, <1>2, <1>6
           DEF FillCache, ActsRightly, AuthenticatePC, TypeInv, LocalsAssigned, Assigned
    <2>2. ActsRightly("handle", loc[r])
        BY <1>2, <1>6, <2>1 DEF FillCache, ActsRightly, AuthenticatePC
    <2> QED BY <1>6, <2>1, <2>2, OwnGoto, NewEntryFits DEF FillCache
<1> QED BY <1>3, <1>4, <1>5, <1>6 DEF BeRecognised

LEMMA HandleOwn ==
    ASSUME TypeInv, OwnInv, NEW r \in Requests, Handle(r)
    PROVE  OwnInv'
<1>1. pc[r] \in HandlerPC
    BY DEF Handle, Serve, LogoutDeleteSession, LogoutDropCache, LoadUser, SaveProfile,
           SavePassword, ProfileReadCache, ProfileWriteCache, DropOwnEntry, HandlerPC
<1>2. /\ loc[r] \in Locals
      /\ loc[r].token \in Tokens
      /\ loc[r].expiresAt \in Nat
      /\ held[loc[r].token] # None
      /\ loc[r].user = held[loc[r].token]
      /\ SessionsEnd(loc[r].token, loc[r].expiresAt)
    BY <1>1 DEF OwnInv, AllActRightly, ActsRightly, TypeInv, TypeOK, LocalsAssigned, Assigned
<1>3. pc[r] \notin {"done", "cacheLogin"}
    BY <1>1 DEF HandlerPC
<1>4. ASSUME NEW p \in HandlerPC, NEW l \in Locals,
             l.token = loc[r].token, l.user = loc[r].user, l.expiresAt = loc[r].expiresAt
      PROVE  ActsRightly(p, l)
    BY <1>2, <1>4 DEF ActsRightly
<1>5. CASE Serve(r)
    BY <1>3, <1>5, AnswerActsRightly, OwnGoto, SameEntries DEF Serve, Finish
<1>6. CASE LogoutDeleteSession(r)
    BY <1>2, <1>3, <1>4, <1>6, AnswerActsRightly, OwnGoto, SameEntries
       DEF LogoutDeleteSession, Finish, HandlerPC
<1>7. CASE LogoutDropCache(r)
    BY <1>2, <1>3, <1>7, AnswerActsRightly, OwnGoto, DroppedEntry DEF LogoutDropCache, Finish
<1>8. ASSUME NEW p \in {"saveProfile", "savePassword"}, LoadUser(r, p) PROVE OwnInv'
    <2> DEFINE l == [loc[r] EXCEPT !.isAdmin = isAdmin[loc[r].user]]
    <2>1. ActsRightly(p, l)
        BY <1>2 DEF ActsRightly, Locals
    <2> QED BY <1>3, <1>8, <2>1, OwnGoto, SameEntries DEF LoadUser
<1>9. CASE SaveProfile(r) \/ SavePassword(r)
    <2>1. PICK next \in {"readCache", "dropOwn"} : SaveUser(r, next)
        BY <1>9 DEF SaveProfile, SavePassword
    <2>2. ActsRightly(next, loc[r])
        BY <1>2, <1>4 DEF HandlerPC
    <2> QED BY <1>3, <2>1, <2>2, AnswerActsRightly, OwnGoto, SameEntries DEF SaveUser, Finish
<1>10. CASE ProfileReadCache(r)
    <2>1. ASSUME CacheHit(loc[r].token),
                 Goto(r, "writeCache", [loc[r] EXCEPT !.expiresAt = cache[loc[r].token].expiresAt])
          PROVE  OwnInv'
        <3> DEFINE l == [loc[r] EXCEPT !.expiresAt = cache[loc[r].token].expiresAt]
        <3>1. ActsRightly("writeCache", l)
            BY <1>2, <2>1 DEF ActsRightly, Locals, CacheHit, OwnInv, EntriesFit, EntryFits
        <3> QED BY <1>3, <1>10, <2>1, <3>1, OwnGoto, SameEntries DEF ProfileReadCache
    <2>2. CASE Goto(r, "dropLapsed", loc[r]) \/ Finish(r)
        BY <1>2, <1>3, <1>4, <1>10, <2>2, AnswerActsRightly, OwnGoto, SameEntries
           DEF ProfileReadCache, Finish, HandlerPC
    <2> QED BY <1>10, <2>1, <2>2 DEF ProfileReadCache
<1>11. CASE ProfileWriteCache(r)
    BY <1>2, <1>3, <1>11, AnswerActsRightly, OwnGoto, NewEntryFits DEF ProfileWriteCache, Finish
<1>12. CASE DropOwnEntry(r)
    BY <1>2, <1>3, <1>12, AnswerActsRightly, OwnGoto, DroppedEntry DEF DropOwnEntry, Finish
<1> QED BY <1>5, <1>6, <1>7, <1>8, <1>9, <1>10, <1>11, <1>12 DEF Handle

LEMMA EnvironmentOwn ==
    ASSUME TypeInv, OwnInv, Environment
    PROVE  OwnInv'
<1>1. ASSUME UNCHANGED <<pc, loc, held>>, sessions' \subseteq sessions, EntriesKept
      PROVE  OwnInv'
    BY <1>1, OwnKept DEF OwnInv, AllActRightly
<1>2. ASSUME NEW u \in Users, NEW admin \in Roles, UpdateUser(u, admin) PROVE OwnInv'
    BY <1>1, <1>2, SameEntries DEF UpdateUser
<1>3. ASSUME NEW u \in Users, DeleteUser(u) PROVE OwnInv'
    BY <1>1, <1>3, SameEntries DEF DeleteUser
<1>4. CASE RunEviction
    BY <1>1, <1>4 DEF RunEviction, EntriesKept
<1>5. CASE Tick
    BY <1>1, <1>5, SameEntries DEF Tick
<1>6. CASE Restart
    <2>1. EntriesKept
        BY <1>6 DEF Restart, EntriesKept
    <2>2. ASSUME NEW q \in Requests
          PROVE  /\ pc[q] = "done" => pc'[q] = "done"
                 /\ pc[q] = "cacheLogin" => pc'[q] = "done"
                 /\ ActsRightly(pc'[q], loc'[q])
        BY <1>6 DEF Restart, InFlight, ActsRightly, AuthenticatePC, HandlerPC
    <2> QED BY <1>6, <2>1, <2>2, OwnKept DEF Restart
<1> QED BY <1>2, <1>3, <1>4, <1>5, <1>6 DEF Environment

LEMMA OwnInvNext == TypeInv /\ OwnInv /\ [Next]_vars => OwnInv'
<1> SUFFICES ASSUME TypeInv, OwnInv, [Next]_vars PROVE OwnInv'
    OBVIOUS
<1>1. ASSUME NEW r \in Requests, Abort(r) PROVE OwnInv'
    BY <1>1, AnswerActsRightly, OwnGoto, SameEntries DEF Abort, Finish
<1>2. CASE UNCHANGED vars
    BY <1>2, OwnKept, SameEntries DEF vars, OwnInv, AllActRightly
<1> QED BY <1>1, <1>2, SignInOwn, BeRecognisedOwn, HandleOwn, EnvironmentOwn DEF Next

LEMMA OwnInvAlways == Spec => [](TypeInv /\ OwnInv)
<1>1. Init => OwnInv
    BY DEF Init, OwnInv, TokenGiven, SessionDrawn, AllActRightly, ActsRightly, EntriesFit,
           AuthenticatePC, HandlerPC
<1> QED BY <1>1, InitTypeInv, TypeInvNext, OwnInvNext, PTL DEF Spec

(* Sessions, cache entries and requests agree on whose token it is, in     *)
(* every interleaving of logins, cache fills, renewals and sign-outs.      *)
THEOREM TokensNameTheirUser == Spec => []OwnIdentity
<1>1. TypeInv /\ OwnInv => OwnIdentity
    BY DEF OwnInv, SessionDrawn, AllActRightly, ActsRightly, EntriesFit, EntryFits, SessionsEnd,
           OwnIdentity
<1> QED BY <1>1, OwnInvAlways, PTL

-----------------------------------------------------------------------------
(* Signing out.                                                            *)

(* A token that was signed out quietly is known, but stored nowhere.       *)
TokensOut ==
    \A t \in signedOut :
        /\ held[t] # None
        /\ cache[t] = None
        /\ \A s \in sessions : s.token # t

(* A request with such a token has only the query before it; between the   *)
(* two steps of a logout there is no session.                              *)
StaysOut(p, l) ==
    /\ p \notin {"idle", "refused", "done"} /\ l.token \in signedOut => p = "query"
    /\ p = "logoutDrop" => \A s \in sessions : s.token # l.token

QuietInv == TokensOut /\ \A r \in Requests : StaysOut(pc[r], loc[r])

LEMMA QuietGoto ==
    ASSUME TypeInv, QuietInv, UNCHANGED <<held, signedOut>>, sessions' \subseteq sessions,
           \A t \in signedOut : cache'[t] = None,
           NEW r \in Requests, NEW p, NEW l, Goto(r, p, l), StaysOut(p, l)
    PROVE  QuietInv'
<1>1. TokensOut'
    BY DEF QuietInv, TokensOut
<1>2. ASSUME NEW q \in Requests PROVE StaysOut(pc[q], loc[q])'
    <2>1. CASE q = r
        BY <2>1 DEF Goto, StaysOut, TypeInv, TypeOK
    <2>2. CASE q # r
        BY <2>2 DEF Goto, StaysOut, QuietInv, TypeInv, TypeOK
    <2> QED BY <2>1, <2>2
<1> QED BY <1>1, <1>2 DEF QuietInv

LEMMA AnswerStaysOut ==
    ASSUME NEW p \in {"done", "refused"}, NEW l
    PROVE  StaysOut(p, l)
BY DEF StaysOut

LEMMA NoEntryOut ==
    ASSUME TypeInv, QuietInv, UNCHANGED cache \/ \E t \in Tokens : CacheDelete(t)
    PROVE  \A t \in signedOut : cache'[t] = None
BY DEF QuietInv, TokensOut, CacheDelete, TypeInv, TypeOK

(* Until its token is given to a client, nobody can have signed out.       *)
LEMMA LoginNotOut ==
    ASSUME OwnInv, QuietInv, NEW r \in Requests, pc[r] # "done"
    PROVE  r \notin signedOut /\ held[r] = None
BY DEF OwnInv, TokenGiven, QuietInv, TokensOut, Tokens

LEMMA SignInQuiet ==
    ASSUME TypeInv, OwnInv, QuietInv, NEW r \in Requests, SignIn(r)
    PROVE  QuietInv'
<1>1. None \notin signedOut
    BY NoUserAssumption DEF TypeInv, TypeOK, Tokens
<1>2. ASSUME NEW p \in LoginPC, NEW l, l.token = None
      PROVE  StaysOut(p, l)
    BY <1>1, <1>2 DEF StaysOut, LoginPC
<1>3. ASSUME NEW u PROVE SessionOf(u).token = None /\ [NoLocals EXCEPT !.user = u].token = None
    BY DEF SessionOf, NoLocals
<1>4. ASSUME NEW u \in Users, Login(r, u) \/ LoginWithGoogle(r, u) \/ Register(r, u)
      PROVE  QuietInv'
    <2>1. PICK p \in LoginPC \cup {"done"}, l \in {SessionOf(u), NoLocals, [NoLocals EXCEPT !.user = u]} :
            Goto(r, p, l)
        BY <1>4 DEF Login, LoginWithGoogle, Register, Finish, LoginPC
    <2>2. StaysOut(p, l)
        BY <1>2, <1>3, AnswerStaysOut DEF NoLocals
    <2> QED BY <1>4, <2>1, <2>2, QuietGoto, NoEntryOut
            DEF Login, LoginWithGoogle, Register, ghosts
<1>5. CASE CreateUser(r)
    <2>1. PICK p \in LoginPC \cup {"done"}, l \in {SessionOf(loc[r].user), NoLocals} :
            Goto(r, p, l)
        BY <1>5 DEF CreateUser, Finish, LoginPC
    <2>2. StaysOut(p, l)
        BY <1>2, <1>3, AnswerStaysOut DEF NoLocals
    <2> QED BY <1>5, <2>1, <2>2, QuietGoto, NoEntryOut DEF CreateUser, ghosts
<1>6. CASE InsertSession(r) /\ accounts[loc[r].user] # "live"
    BY <1>6, AnswerStaysOut, QuietGoto, NoEntryOut DEF InsertSession, Finish, ghosts
<1>7. CASE InsertSession(r) /\ accounts[loc[r].user] = "live"
    <2>1. /\ pc[r] = "insertSession"
          /\ pc' = [pc EXCEPT ![r] = "cacheLogin"]
          /\ loc' = loc
          /\ \A s \in sessions' : s \in sessions \/ s.token = r
          /\ UNCHANGED <<cache, held, signedOut>>
        BY <1>7 DEF InsertSession, Goto, ghosts, TypeInv, TypeOK
    <2>2. r \notin signedOut /\ held[r] = None
        BY <2>1, LoginNotOut
    <2>3. TokensOut'
        BY <2>1, <2>2 DEF QuietInv, TokensOut
    <2>4. ASSUME NEW q \in Requests PROVE StaysOut(pc[q], loc[q])'
        <3>1. CASE q = r
            <4>1. loc[r].token = None
                BY <2>1 DEF TypeInv, LocalsAssigned, Assigned, LoginPC
            <4> QED BY <1>1, <2>1, <3>1, <4>1 DEF StaysOut, TypeInv, TypeOK
        <3>2. CASE q # r
            <4>1. pc[q] = "logoutDrop" => loc[q].token # r
                BY <2>2 DEF OwnInv, AllActRightly, ActsRightly, HandlerPC
            <4> QED BY <2>1, <3>2, <4>1 DEF StaysOut, QuietInv, TypeInv, TypeOK
        <3> QED BY <3>1, <3>2
    <2> QED BY <2>3, <2>4 DEF QuietInv
<1>8. CASE CacheLogin(r)
    <2>1. /\ pc[r] = "cacheLogin"
          /\ pc' = [pc EXCEPT ![r] = "done"]
          /\ loc' = [loc EXCEPT ![r] = NoLocals]
          /\ held' = [held EXCEPT ![r] = loc[r].user]
          /\ cache' = [cache EXCEPT ![r] = EntryFor(loc[r].user, loc[r].expiresAt)]
          /\ UNCHANGED <<sessions, signedOut>>
        BY <1>8 DEF CacheLogin, CacheSet, Finish, Goto, ghosts
    <2>2. r \notin signedOut
        BY <2>1, LoginNotOut
    <2>3. TokensOut'
        BY <2>1, <2>2 DEF QuietInv, TokensOut, TypeInv, TypeOK
    <2>4. ASSUME NEW q \in Requests PROVE StaysOut(pc[q], loc[q])'
        BY <2>1 DEF StaysOut, QuietInv, TypeInv, TypeOK
    <2> QED BY <2>3, <2>4 DEF QuietInv
<1> QED BY <1>4, <1>5, <1>6, <1>7, <1>8 DEF SignIn

LEMMA BeRecognisedQuiet ==
    ASSUME TypeInv, OwnInv, QuietInv, NEW r \in Requests, BeRecognised(r)
    PROVE  QuietInv'
<1>1. StaysOut(pc[r], loc[r])
    BY DEF QuietInv
<1>2. pc[r] \in AuthenticatePC => loc[r].token \in Tokens
    BY DEF TypeInv, LocalsAssigned, Assigned
<1>3. ASSUME NEW t \in Tokens, Authenticate(r, t) PROVE QuietInv'
    <2>1. t \in signedOut => cache[t] = None
        BY DEF QuietInv, TokensOut
    <2>2. PICK p \in {"handle", "dropStale", "query"},
               l \in {ActingAs(t, cache[t]), [NoLocals EXCEPT !.token = t]} :
            Goto(r, p, l) /\ (p # "query" => cache[t] # None)
        BY <1>3 DEF Authenticate, CacheHit, CacheStale
    <2>3. l.token = t
        BY DEF ActingAs, NoLocals
    <2>4. StaysOut(p, l)
        BY <2>1, <2>2, <2>3 DEF StaysOut
    <2> QED BY <1>3, <2>2, <2>4, QuietGoto, NoEntryOut DEF Authenticate
<1>4. CASE DropStale(r)
    <2>1. StaysOut("query", loc[r])
        BY DEF StaysOut
    <2> QED BY <1>2, <1>4, <2>1, QuietGoto, NoEntryOut DEF DropStale, AuthenticatePC, ghosts
<1>5. CASE Query(r)
    <2>1. ASSUME NEW s \in FoundByToken(loc[r].token),
                 Goto(r, "fillCache", ActingAs(loc[r].token, s))
          PROVE  QuietInv'
        <3>1. loc[r].token \notin signedOut
            BY <2>1 DEF FoundByToken, QuietInv, TokensOut
        <3>2. StaysOut("fillCache", ActingAs(loc[r].token, s))
            BY <3>1 DEF StaysOut, ActingAs, NoLocals
        <3> QED BY <1>5, <2>1, <3>2, QuietGoto, NoEntryOut DEF Query, ghosts
    <2>2. CASE Goto(r, "refused", NoLocals)
        BY <1>5, <2>2, AnswerStaysOut, QuietGoto, NoEntryOut DEF Query, ghosts
    <2> QED BY <1>5, <2>1, <2>2 DEF Query
<1>6. CASE FillCache(r)
    <2>1. loc[r].token \notin signedOut
        BY <1>1, <1>6 DEF FillCache, StaysOut
    <2>2. \A t \in signedOut : cache'[t] = None
        BY <1>6, <2>1 DEF FillCache, CacheSet, QuietInv, TokensOut, TypeInv, TypeOK
    <2>3. StaysOut("handle", loc[r])
        BY <2>1 DEF StaysOut
    <2> QED BY <1>6, <2>2, <2>3, QuietGoto DEF FillCache, ghosts
<1> QED BY <1>3, <1>4, <1>5, <1>6 DEF BeRecognised

LEMMA HandleQuiet ==
    ASSUME TypeInv, OwnInv, QuietInv, NEW r \in Requests, Handle(r)
    PROVE  QuietInv'
<1>1. pc[r] \in HandlerPC
    BY DEF Handle, Serve, LogoutDeleteSession, LogoutDropCache, LoadUser, SaveProfile,
           SavePassword, ProfileReadCache, ProfileWriteCache, DropOwnEntry, HandlerPC
<1>2. /\ loc[r] \in Locals
      /\ loc[r].token \in Tokens
      /\ held[loc[r].token] # None
      /\ loc[r].token \notin signedOut
    BY <1>1 DEF OwnInv, AllActRightly, ActsRightly, QuietInv, StaysOut, TypeInv, TypeOK,
                LocalsAssigned, Assigned, HandlerPC
<1>3. ASSUME NEW p \in HandlerPC \ {"logoutDrop"}, NEW l, l.token = loc[r].token
      PROVE  StaysOut(p, l)
    BY <1>2, <1>3 DEF StaysOut
<1>4. CASE Serve(r)
    BY <1>4, AnswerStaysOut, QuietGoto, NoEntryOut DEF Serve, Finish, ghosts
<1>5. CASE LogoutDeleteSession(r)
    <2>1. CASE Finish(r)
        BY <1>5, <2>1, AnswerStaysOut, QuietGoto, NoEntryOut
           DEF LogoutDeleteSession, Finish, ghosts
    <2>2. CASE Goto(r, "logoutDrop", loc[r])
        <3>1. /\ UNCHANGED <<cache, held, signedOut>>
              /\ sessions' \subseteq sessions
              /\ \A s \in sessions' : s.token # loc[r].token
            BY <1>5 DEF LogoutDeleteSession, ghosts
        <3>2. TokensOut'
            BY <3>1 DEF QuietInv, TokensOut
        <3>3. ASSUME NEW q \in Requests PROVE StaysOut(pc[q], loc[q])'
            BY <1>2, <2>2, <3>1 DEF Goto, StaysOut, QuietInv, TypeInv, TypeOK
        <3> QED BY <3>2, <3>3 DEF QuietInv
    <2> QED BY <1>5, <2>1, <2>2 DEF LogoutDeleteSession
<1>6. CASE LogoutDropCache(r)
    <2>1. /\ pc[r] = "logoutDrop"
          /\ pc' = [pc EXCEPT ![r] = "done"]
          /\ loc' = [loc EXCEPT ![r] = NoLocals]
          /\ cache' = [cache EXCEPT ![loc[r].token] = None]
          /\ \/ signedOut' = signedOut
             \/ Alone(r) /\ signedOut' = signedOut \cup {loc[r].token}
          /\ UNCHANGED <<sessions, held>>
        BY <1>6 DEF LogoutDropCache, CacheDelete, Finish, Goto
    <2>2. \A s \in sessions : s.token # loc[r].token
        BY <2>1 DEF QuietInv, StaysOut
    <2>3. TokensOut'
        BY <1>2, <2>1, <2>2 DEF QuietInv, TokensOut, TypeInv, TypeOK
    <2>4. ASSUME NEW q \in Requests PROVE StaysOut(pc[q], loc[q])'
        <3>1. CASE q = r
            BY <2>1, <3>1 DEF StaysOut, TypeInv, TypeOK
        <3>2. CASE q # r
            BY <2>1, <3>2 DEF StaysOut, Alone, InFlight, QuietInv, TypeInv, TypeOK
        <3> QED BY <3>1, <3>2
    <2> QED BY <2>3, <2>4 DEF QuietInv
<1>7. ASSUME NEW p \in {"saveProfile", "savePassword"}, LoadUser(r, p) PROVE QuietInv'
    <2> DEFINE l == [loc[r] EXCEPT !.isAdmin = isAdmin[loc[r].user]]
    <2>1. l.token = loc[r].token
        BY <1>2 DEF Locals
    <2>2. StaysOut(p, l)
        BY <1>3, <2>1 DEF HandlerPC
    <2> QED BY <1>7, <2>2, QuietGoto, NoEntryOut DEF LoadUser, ghosts
<1>8. CASE SaveProfile(r) \/ SavePassword(r)
    <2>1. PICK next \in {"readCache", "dropOwn"} : SaveUser(r, next)
        BY <1>8 DEF SaveProfile, SavePassword
    <2>2. StaysOut(next, loc[r])
        BY <1>3 DEF HandlerPC
    <2> QED BY <2>1, <2>2, AnswerStaysOut, QuietGoto, NoEntryOut DEF SaveUser, Finish, ghosts
<1>9. CASE ProfileReadCache(r)
    <2> DEFINE renewed == [loc[r] EXCEPT !.expiresAt = cache[loc[r].token].expiresAt]
    <2>1. PICK p \in {"writeCache", "dropLapsed", "done"}, l \in {renewed, loc[r], NoLocals} :
            Goto(r, p, l) /\ (p # "done" => l.token = loc[r].token)
        BY <1>2, <1>9 DEF ProfileReadCache, Finish, Locals
    <2>2. StaysOut(p, l)
        BY <1>3, <2>1, AnswerStaysOut DEF HandlerPC
    <2> QED BY <1>9, <2>1, <2>2, QuietGoto, NoEntryOut DEF ProfileReadCache, ghosts
<1>10. CASE ProfileWriteCache(r)
    <2>1. \A t \in signedOut : cache'[t] = None
        BY <1>2, <1>10 DEF ProfileWriteCache, CacheSet, QuietInv, TokensOut, TypeInv, TypeOK
    <2> QED BY <1>10, <2>1, AnswerStaysOut, QuietGoto DEF ProfileWriteCache, Finish, ghosts
<1>11. CASE DropOwnEntry(r)
    BY <1>2, <1>11, AnswerStaysOut, QuietGoto, NoEntryOut DEF DropOwnEntry, Finish, ghosts
<1> QED BY <1>4, <1>5, <1>6, <1>7, <1>8, <1>9, <1>10, <1>11 DEF Handle

LEMMA EnvironmentQuiet ==
    ASSUME TypeInv, QuietInv, Environment
    PROVE  QuietInv'
<1>1. ASSUME UNCHANGED <<pc, loc, held, signedOut>>, sessions' \subseteq sessions,
             \A t \in Tokens : cache'[t] \in {cache[t], None}
      PROVE  QuietInv'
    BY <1>1 DEF QuietInv, TokensOut, StaysOut, TypeInv, TypeOK
<1>2. ASSUME NEW u \in Users, NEW admin \in Roles, UpdateUser(u, admin) PROVE QuietInv'
    BY <1>1, <1>2 DEF UpdateUser, ghosts
<1>3. ASSUME NEW u \in Users, DeleteUser(u) PROVE QuietInv'
    BY <1>1, <1>3 DEF DeleteUser, ghosts
<1>4. CASE RunEviction
    BY <1>1, <1>4 DEF RunEviction, ghosts
<1>5. CASE Tick
    BY <1>1, <1>5 DEF Tick
<1>6. CASE Restart
    <2>1. TokensOut'
        BY <1>6 DEF Restart, ghosts, QuietInv, TokensOut, TypeInv, TypeOK
    <2>2. ASSUME NEW q \in Requests PROVE StaysOut(pc[q], loc[q])'
        BY <1>6 DEF Restart, InFlight, StaysOut
    <2> QED BY <2>1, <2>2 DEF QuietInv
<1> QED BY <1>2, <1>3, <1>4, <1>5, <1>6 DEF Environment

LEMMA QuietInvNext == TypeInv /\ OwnInv /\ QuietInv /\ [Next]_vars => QuietInv'
<1> SUFFICES ASSUME TypeInv, OwnInv, QuietInv, [Next]_vars PROVE QuietInv'
    OBVIOUS
<1>1. ASSUME NEW r \in Requests, Abort(r) PROVE QuietInv'
    BY <1>1, AnswerStaysOut, QuietGoto, NoEntryOut DEF Abort, Finish, ghosts
<1>2. CASE UNCHANGED vars
    BY <1>2 DEF vars, ghosts, QuietInv, TokensOut, StaysOut
<1> QED BY <1>1, <1>2, SignInQuiet, BeRecognisedQuiet, HandleQuiet, EnvironmentQuiet DEF Next

(* After a logout during which no other request of the token ran, nothing  *)
(* of the token is left, and no interleaving brings it back.               *)
THEOREM SignOutIsFinal == Spec => []QuietLogoutIsFinal
<1>1. Init => QuietInv
    BY DEF Init, QuietInv, TokensOut, StaysOut
<1>2. QuietInv => QuietLogoutIsFinal
    BY DEF QuietInv, StaysOut, QuietLogoutIsFinal, InFlight
<1> QED BY <1>1, <1>2, QuietInvNext, OwnInvAlways, PTL DEF Spec

-----------------------------------------------------------------------------
(* Deleting a user.                                                        *)

(* A live user, and one for whom a request that is not late runs, has been *)
(* seen early up to now.                                                   *)
EarlyUntilNow ==
    /\ \A u \in Users : /\ lastEarly[u] <= now
                        /\ accounts[u] # "deleted" => lastEarly[u] = now
    /\ \A r \in Requests \ late : InFlight(r) => lastEarly[ActsFor(r)] = now

(* A late request finds its user neither in the table nor by a session.    *)
LateGetsNowhere ==
    \A r \in late :
        /\ pc[r] \in {"dropStale", "query", "handle", "refused", "done"}
        /\ InFlight(r) => accounts[held[loc[r].token]] = "deleted"

SessionsOfLive == \A s \in sessions : accounts[s.user] = "live"

FadeInv == EarlyUntilNow /\ LateGetsNowhere /\ SessionsOfLive /\ DeletedUserFadesOut

(* The entries of the cache stay, go, or are made for a user seen now.     *)
EntriesFade ==
    \A t \in Tokens :
        \/ cache'[t] \in {cache[t], None}
        \/ cache'[t].until <= lastEarly[cache'[t].user] + CacheTTL

Answered == {"done", "refused"}

(* A request goes on for the same user, or is answered.                    *)
LEMMA FadeGoto ==
    ASSUME TypeInv, FadeInv, UNCHANGED <<now, accounts, lastEarly, held, late>>,
           sessions' \subseteq sessions, EntriesFade,
           NEW r \in Requests, NEW p, NEW l, Goto(r, p, l),
           p \notin Answered =>
              /\ InFlight(r)
              /\ l.token = loc[r].token
              /\ l.user = loc[r].user \/ l.token # None
              /\ r \in late => p \in {"query", "handle"}
    PROVE  FadeInv'
<1>1. ASSUME NEW q \in Requests
      PROVE  /\ InFlight(q)' => InFlight(q) /\ ActsFor(q)' = ActsFor(q)
             /\ InFlight(q)' => loc'[q].token = loc[q].token
             /\ q \in late => pc'[q] \in {"dropStale", "query", "handle", "refused", "done"}
    <2>1. CASE q = r
        BY <2>1 DEF Goto, InFlight, ActsFor, Answered, TypeInv, TypeOK
    <2>2. CASE q # r
        BY <2>2 DEF Goto, InFlight, ActsFor, TypeInv, TypeOK, FadeInv, LateGetsNowhere
    <2> QED BY <2>1, <2>2
<1>2. EarlyUntilNow'
    <2>1. ASSUME NEW q \in Requests \ late', InFlight(q)'
          PROVE  lastEarly'[ActsFor(q)'] = now'
        BY <1>1, <2>1 DEF FadeInv, EarlyUntilNow
    <2> QED BY <2>1 DEF FadeInv, EarlyUntilNow
<1>3. LateGetsNowhere'
    BY <1>1 DEF FadeInv, LateGetsNowhere, TypeInv, TypeOK
<1>4. SessionsOfLive'
    BY DEF FadeInv, SessionsOfLive
<1>5. DeletedUserFadesOut'
    BY DEF FadeInv, DeletedUserFadesOut, EntriesFade
<1> QED BY <1>2, <1>3, <1>4, <1>5 DEF FadeInv

LEMMA OldEntriesFade ==
    ASSUME TypeInv, UNCHANGED cache \/ \E t \in Tokens : CacheDelete(t)
    PROVE  EntriesFade
BY DEF EntriesFade, CacheDelete, TypeInv, TypeOK

LEMMA NewEntryFades ==
    ASSUME TypeInv, NEW t \in Tokens, NEW u \in Users, NEW e \in Nat, CacheSet(t, u, e),
           lastEarly[u] = now
    PROVE  EntriesFade
<1>1. EntryFor(u, e).user = u /\ EntryFor(u, e).until <= lastEarly[u] + CacheTTL
    BY ClockAssumption DEF EntryFor, TypeInv, TypeOK
<1> QED BY <1>1 DEF CacheSet, EntriesFade, TypeInv, TypeOK

(* A request that arrives is late if its user is deleted by then.          *)
LEMMA FadeArrive ==
    ASSUME TypeInv, FadeInv, UNCHANGED <<now, accounts, lastEarly, held, sessions, cache>>,
           NEW r \in Requests, pc[r] = "idle", NEW p, NEW l, Goto(r, p, l),
           NEW u \in Users, p # "done" => u = IF l.token = None THEN l.user ELSE held[l.token],
           \/ /\ late' = late
              /\ p # "done" => accounts[u] # "deleted"
           \/ /\ late' = late \cup {r}
              /\ l.token # None
              /\ p \in {"dropStale", "query", "handle"}
              /\ accounts[u] = "deleted"
    PROVE  FadeInv'
<1>1. r \notin late
    BY DEF FadeInv, LateGetsNowhere
<1>2. ASSUME NEW q \in Requests, q # r
      PROVE  /\ pc'[q] = pc[q]
             /\ loc'[q] = loc[q]
             /\ InFlight(q)' = InFlight(q)
             /\ ActsFor(q)' = ActsFor(q)
    BY <1>2 DEF Goto, InFlight, ActsFor, TypeInv, TypeOK
<1>3. /\ pc'[r] = p
      /\ loc'[r] = l
      /\ p # "done" => ActsFor(r)' = u
    BY DEF Goto, ActsFor, TypeInv, TypeOK
<1>4. EarlyUntilNow'
    <2>1. ASSUME NEW q \in Requests \ late', InFlight(q)'
          PROVE  lastEarly'[ActsFor(q)'] = now'
        <3>1. CASE q = r
            BY <1>3, <2>1, <3>1 DEF InFlight, FadeInv, EarlyUntilNow
        <3>2. CASE q # r
            BY <1>2, <2>1, <3>2 DEF FadeInv, EarlyUntilNow
        <3> QED BY <3>1, <3>2
    <2> QED BY <2>1 DEF FadeInv, EarlyUntilNow
<1>5. LateGetsNowhere'
    <2>1. ASSUME NEW q \in late'
          PROVE  /\ pc'[q] \in {"dropStale", "query", "handle", "refused", "done"}
                 /\ InFlight(q)' => accounts'[held'[loc'[q].token]] = "deleted"
        <3>1. CASE q = r
            BY <1>1, <1>3, <2>1, <3>1
        <3>2. CASE q # r
            BY <1>2, <2>1, <3>2 DEF FadeInv, LateGetsNowhere, TypeInv, TypeOK
        <3> QED BY <3>1, <3>2
    <2> QED BY <2>1 DEF LateGetsNowhere
<1>6. SessionsOfLive' /\ DeletedUserFadesOut'
    BY DEF FadeInv, SessionsOfLive, DeletedUserFadesOut
<1> QED BY <1>4, <1>5, <1>6 DEF FadeInv

LEMMA SignInFade ==
    ASSUME TypeInv, OwnInv, FadeInv, NEW r \in Requests, SignIn(r)
    PROVE  FadeInv'
<1>1. ASSUME NEW u \in Users, Login(r, u) \/ LoginWithGoogle(r, u) \/ Register(r, u)
      PROVE  FadeInv'
    <2>1. PICK p \in LoginPC \cup {"done"}, l \in {SessionOf(u), NoLocals, [NoLocals EXCEPT !.user = u]} :
            /\ Goto(r, p, l)
            /\ p # "done" => /\ accounts[u] # "deleted"
                             /\ l \in {SessionOf(u), [NoLocals EXCEPT !.user = u]}
        BY <1>1 DEF Login, LoginWithGoogle, Register, Finish, LoginPC
    <2>2. p # "done" => l.token = None /\ l.user = u
        BY <2>1 DEF SessionOf, NoLocals
    <2> QED BY <1>1, <2>1, <2>2, FadeArrive
            DEF Login, LoginWithGoogle, Register, users, ghosts
<1>2. pc[r] \in LoginPC =>
        /\ loc[r].user \in Users
        /\ loc[r].token = None
        /\ r \notin late
        /\ InFlight(r)
        /\ lastEarly[loc[r].user] = now
    BY DEF TypeInv, LocalsAssigned, Assigned, LoginPC, InFlight, ActsFor, FadeInv,
           LateGetsNowhere, EarlyUntilNow
<1>3. CASE CreateUser(r) /\ accounts[loc[r].user] # "none"
    BY <1>3, FadeGoto, OldEntriesFade DEF CreateUser, Finish, Answered, ghosts
<1>4. CASE CreateUser(r) /\ accounts[loc[r].user] = "none"
    <2> DEFINE u == loc[r].user
    <2>1. /\ pc[r] = "createUser"
          /\ accounts' = [accounts EXCEPT ![u] = "live"]
          /\ pc' = [pc EXCEPT ![r] = "insertSession"]
          /\ loc' = [loc EXCEPT ![r] = SessionOf(u)]
          /\ UNCHANGED <<now, sessions, cache, held, late, lastEarly>>
        BY <1>4 DEF CreateUser, Goto, ghosts
    <2>2. SessionOf(u).token = None /\ SessionOf(u).user = u
        BY DEF SessionOf, NoLocals
    <2>3. ASSUME NEW q \in Requests
          PROVE  /\ InFlight(q)' = InFlight(q)
                 /\ ActsFor(q)' = ActsFor(q)
                 /\ q \in late => pc'[q] = pc[q] /\ loc'[q] = loc[q]
        BY <1>2, <2>1, <2>2 DEF LoginPC, InFlight, ActsFor, TypeInv, TypeOK
    <2>4. EarlyUntilNow'
        <3>1. ASSUME NEW q \in Requests \ late', InFlight(q)'
              PROVE  lastEarly'[ActsFor(q)'] = now'
            BY <2>1, <2>3, <3>1 DEF FadeInv, EarlyUntilNow
        <3> QED BY <1>4, <2>1, <3>1 DEF FadeInv, EarlyUntilNow, TypeInv, TypeOK
    <2>5. LateGetsNowhere'
        <3>1. \A v \in Users : accounts[v] = "deleted" => accounts'[v] = "deleted"
            BY <1>4, <2>1 DEF TypeInv, TypeOK
        <3>2. \A q \in late : InFlight(q) => held[loc[q].token] \in Users
            <4>1. ASSUME NEW q \in late, InFlight(q) PROVE held[loc[q].token] \in Users
                <5>1. pc[q] \in AuthenticatePC \cup HandlerPC
                    BY <4>1 DEF FadeInv, LateGetsNowhere, InFlight, AuthenticatePC, HandlerPC
                <5>2. q \in Requests
                    BY DEF TypeInv, TypeOK
                <5> QED BY <5>1, <5>2
                        DEF OwnInv, AllActRightly, ActsRightly, TypeInv, TypeOK,
                            LocalsAssigned, Assigned
            <4> QED BY <4>1
        <3> QED BY <2>1, <2>3, <3>1, <3>2 DEF FadeInv, LateGetsNowhere, TypeInv, TypeOK
    <2>6. SessionsOfLive'
        BY <1>4, <2>1 DEF FadeInv, SessionsOfLive, TypeInv, TypeOK, SessionRow
    <2>7. DeletedUserFadesOut'
        BY <2>1 DEF FadeInv, DeletedUserFadesOut
    <2> QED BY <2>4, <2>5, <2>6, <2>7 DEF FadeInv
<1>5. CASE InsertSession(r) /\ accounts[loc[r].user] # "live"
    BY <1>5, FadeGoto, OldEntriesFade DEF InsertSession, Finish, Answered, users, ghosts
<1>6. CASE InsertSession(r) /\ accounts[loc[r].user] = "live"
    <2>1. /\ pc[r] = "insertSession"
          /\ pc' = [pc EXCEPT ![r] = "cacheLogin"]
          /\ loc' = loc
          /\ \A s \in sessions' : s \in sessions \/ s.user = loc[r].user
          /\ UNCHANGED <<now, accounts, cache, held, late, lastEarly>>
        BY <1>6 DEF InsertSession, Goto, users, ghosts, TypeInv, TypeOK
    <2>2. ASSUME NEW q \in Requests
          PROVE  /\ InFlight(q)' = InFlight(q)
                 /\ ActsFor(q)' = ActsFor(q)
                 /\ q \in late => pc'[q] = pc[q]
        BY <1>2, <2>1 DEF LoginPC, InFlight, ActsFor, TypeInv, TypeOK
    <2>3. EarlyUntilNow'
        <3>1. ASSUME NEW q \in Requests \ late', InFlight(q)'
              PROVE  lastEarly'[ActsFor(q)'] = now'
            BY <2>1, <2>2, <3>1 DEF FadeInv, EarlyUntilNow
        <3> QED BY <2>1, <3>1 DEF FadeInv, EarlyUntilNow
    <2>4. LateGetsNowhere'
        BY <2>1, <2>2 DEF FadeInv, LateGetsNowhere, TypeInv, TypeOK
    <2>5. SessionsOfLive' /\ DeletedUserFadesOut'
        BY <1>6, <2>1 DEF FadeInv, SessionsOfLive, DeletedUserFadesOut
    <2> QED BY <2>3, <2>4, <2>5 DEF FadeInv
<1>7. CASE CacheLogin(r)
    <2>1. /\ pc[r] = "cacheLogin"
          /\ pc' = [pc EXCEPT ![r] = "done"]
          /\ loc' = [loc EXCEPT ![r] = NoLocals]
          /\ held' = [held EXCEPT ![r] = loc[r].user]
          /\ CacheSet(r, loc[r].user, loc[r].expiresAt)
          /\ UNCHANGED <<now, accounts, sessions, late, lastEarly>>
        BY <1>7 DEF CacheLogin, Finish, Goto, users, ghosts
    <2>2. held[r] = None
        BY <2>1 DEF OwnInv, TokenGiven, Tokens
    <2>3. EntriesFade
        <3>1. loc[r].expiresAt \in Nat
            BY <2>1 DEF TypeInv, LocalsAssigned, Assigned
        <3> QED BY <1>2, <2>1, <3>1, NewEntryFades DEF LoginPC, Tokens
    <2>4. ASSUME NEW q \in Requests, q # r
          PROVE  /\ pc'[q] = pc[q]
                 /\ loc'[q] = loc[q]
                 /\ InFlight(q)' = InFlight(q)
                 /\ InFlight(q) /\ loc[q].token # None =>
                       held'[loc[q].token] = held[loc[q].token]
        <3>1. /\ pc'[q] = pc[q]
              /\ loc'[q] = loc[q]
            BY <2>1, <2>4 DEF TypeInv, TypeOK
        <3>2. InFlight(q) /\ loc[q].token # None => pc[q] \in AuthenticatePC \cup HandlerPC
            BY DEF InFlight, TypeInv, TypeOK, PC, LocalsAssigned, Assigned
        <3>3. InFlight(q) /\ loc[q].token # None => loc[q].token # r
            BY <2>2, <3>2 DEF OwnInv, AllActRightly, ActsRightly
        <3> QED BY <2>1, <3>1, <3>3 DEF InFlight, TypeInv, TypeOK, Locals
    <2>5. ~InFlight(r)'
        BY <2>1 DEF InFlight, TypeInv, TypeOK
    <2>6. EarlyUntilNow'
        <3>1. ASSUME NEW q \in Requests \ late', InFlight(q)'
              PROVE  lastEarly'[ActsFor(q)'] = now'
            BY <2>1, <2>4, <2>5, <3>1 DEF ActsFor, FadeInv, EarlyUntilNow
        <3> QED BY <2>1, <3>1 DEF FadeInv, EarlyUntilNow
    <2>7. LateGetsNowhere'
        <3>1. ASSUME NEW q \in late'
              PROVE  /\ pc'[q] \in {"dropStale", "query", "handle", "refused", "done"}
                     /\ InFlight(q)' => accounts'[held'[loc'[q].token]] = "deleted"
            <4>1. q \in late /\ q \in Requests /\ q # r
                BY <1>2, <2>1, <3>1 DEF LoginPC, TypeInv, TypeOK
            <4>2. pc[q] \in AuthenticatePC \cup HandlerPC => loc[q].token # None
                BY <4>1, NoUserAssumption
                   DEF TypeInv, LocalsAssigned, Assigned, Tokens
            <4> QED BY <2>1, <2>4, <4>1, <4>2
                    DEF FadeInv, LateGetsNowhere, InFlight, AuthenticatePC, HandlerPC
        <3> QED BY <3>1 DEF LateGetsNowhere
    <2>8. SessionsOfLive' /\ DeletedUserFadesOut'
        BY <2>1, <2>3 DEF FadeInv, SessionsOfLive, DeletedUserFadesOut, EntriesFade
    <2> QED BY <2>6, <2>7, <2>8 DEF FadeInv
<1> QED BY <1>1, <1>3, <1>4, <1>5, <1>6, <1>7 DEF SignIn

(* Who a recognised request acts for, and that it is not late unless it    *)
(* still has the query or the handler before it.                           *)
LEMMA RecognisedActs ==
    ASSUME TypeInv, OwnInv, FadeInv, NEW r \in Requests,
           pc[r] \in AuthenticatePC \cup HandlerPC
    PROVE  /\ loc[r].token \in Tokens /\ loc[r].token # None
           /\ held[loc[r].token] \in Users
           /\ InFlight(r)
           /\ r \notin late => lastEarly[held[loc[r].token]] = now
           /\ r \in late => /\ pc[r] \in {"dropStale", "query", "handle"}
                            /\ accounts[held[loc[r].token]] = "deleted"
                            /\ \A s \in sessions : s.token # loc[r].token
<1>1. loc[r].token \in Tokens /\ loc[r].token # None
    BY NoUserAssumption DEF TypeInv, LocalsAssigned, Assigned, Tokens
<1>2. held[loc[r].token] \in Users
    BY <1>1 DEF OwnInv, AllActRightly, ActsRightly, TypeInv, TypeOK
<1>3. InFlight(r)
    BY DEF InFlight, AuthenticatePC, HandlerPC
<1>4. r \notin late => lastEarly[held[loc[r].token]] = now
    BY <1>1, <1>3 DEF FadeInv, EarlyUntilNow, ActsFor
<1>5. r \in late => /\ pc[r] \in {"dropStale", "query", "handle"}
                    /\ accounts[held[loc[r].token]] = "deleted"
    BY <1>3 DEF FadeInv, LateGetsNowhere, InFlight
<1>6. r \in late => \A s \in sessions : s.token # loc[r].token
    <2>1. ASSUME r \in late, NEW s \in sessions, s.token = loc[r].token PROVE FALSE
        <3>1. s.user = held[loc[r].token]
            BY <1>2, <2>1, NoUserAssumption DEF OwnInv, SessionDrawn
        <3> QED BY <1>5, <2>1, <3>1 DEF FadeInv, SessionsOfLive
    <2> QED BY <2>1
<1> QED BY <1>1, <1>2, <1>3, <1>4, <1>5, <1>6

LEMMA BeRecognisedFade ==
    ASSUME TypeInv, OwnInv, FadeInv, NEW r \in Requests, BeRecognised(r)
    PROVE  FadeInv'
<1>1. ASSUME NEW t \in Tokens, Authenticate(r, t) PROVE FadeInv'
    <2>1. held[t] \in Users /\ t # None
        BY <1>1, NoUserAssumption DEF Authenticate, TypeInv, TypeOK, Tokens
    <2>2. PICK p \in {"handle", "dropStale", "query"},
               l \in {ActingAs(t, cache[t]), [NoLocals EXCEPT !.token = t]} : Goto(r, p, l)
        BY <1>1 DEF Authenticate
    <2>3. l.token = t
        BY DEF ActingAs, NoLocals
    <2> QED BY <1>1, <2>1, <2>2, <2>3, FadeArrive DEF Authenticate, users
<1>2. CASE DropStale(r)
    BY <1>2, RecognisedActs, FadeGoto, OldEntriesFade
       DEF DropStale, AuthenticatePC, users, ghosts
<1>3. CASE Query(r)
    <2>1. ASSUME NEW s \in FoundByToken(loc[r].token),
                 Goto(r, "fillCache", ActingAs(loc[r].token, s))
          PROVE  FadeInv'
        <3>1. r \notin late
            BY <1>3, <2>1, RecognisedActs DEF Query, AuthenticatePC, FoundByToken
        <3>2. ActingAs(loc[r].token, s).token = loc[r].token
            BY DEF ActingAs, NoLocals
        <3> QED BY <1>3, <2>1, <3>1, <3>2, RecognisedActs, FadeGoto, OldEntriesFade
                DEF Query, AuthenticatePC, users, ghosts
    <2>2. CASE Goto(r, "refused", NoLocals)
        BY <1>3, <2>2, FadeGoto, OldEntriesFade DEF Query, Answered, users, ghosts
    <2> QED BY <1>3, <2>1, <2>2 DEF Query
<1>4. CASE FillCache(r)
    <2>1. /\ loc[r].user = held[loc[r].token]
          /\ loc[r].expiresAt \in Nat
        BY <1>4 DEF FillCache, OwnInv, AllActRightly, ActsRightly, TypeInv, LocalsAssigned,
                    Assigned
    <2>2. r \notin late
        BY <1>4, RecognisedActs DEF FillCache, AuthenticatePC
    <2>3. EntriesFade
        BY <1>4, <2>1, <2>2, RecognisedActs, NewEntryFades DEF FillCache, AuthenticatePC
    <2> QED BY <1>4, <2>2, <2>3, RecognisedActs, FadeGoto
            DEF FillCache, AuthenticatePC, users, ghosts
<1> QED BY <1>1, <1>2, <1>3, <1>4 DEF BeRecognised

LEMMA HandleFade ==
    ASSUME TypeInv, OwnInv, FadeInv, NEW r \in Requests, Handle(r)
    PROVE  FadeInv'
<1>1. pc[r] \in HandlerPC
    BY DEF Handle, Serve, LogoutDeleteSession, LogoutDropCache, LoadUser, SaveProfile,
           SavePassword, ProfileReadCache, ProfileWriteCache, DropOwnEntry, HandlerPC
<1>2. /\ loc[r] \in Locals
      /\ loc[r].expiresAt \in Nat
      /\ loc[r].user = held[loc[r].token]
    BY <1>1 DEF OwnInv, AllActRightly, ActsRightly, TypeInv, TypeOK, LocalsAssigned, Assigned
<1>3. /\ loc[r].token \in Tokens /\ loc[r].token # None
      /\ loc[r].user \in Users
      /\ InFlight(r)
      /\ pc[r] # "handle" => r \notin late
    BY <1>1, <1>2, RecognisedActs DEF HandlerPC
<1>4. CASE Serve(r)
    BY <1>4, FadeGoto, OldEntriesFade DEF Serve, Finish, Answered, users, ghosts
<1>5. CASE LogoutDeleteSession(r)
    <2>1. CASE Finish(r)
        BY <1>5, <2>1, FadeGoto, OldEntriesFade
           DEF LogoutDeleteSession, Finish, Answered, users, ghosts
    <2>2. CASE r \notin late /\ Goto(r, "logoutDrop", loc[r])
        BY <1>3, <1>5, <2>2, FadeGoto, OldEntriesFade DEF LogoutDeleteSession, users, ghosts
    <2>3. r \in late => Finish(r)
        BY <1>1, <1>5, RecognisedActs DEF LogoutDeleteSession
    <2> QED BY <1>5, <2>1, <2>2, <2>3 DEF LogoutDeleteSession
<1>6. CASE LogoutDropCache(r)
    BY <1>3, <1>6, FadeGoto, OldEntriesFade DEF LogoutDropCache, Finish, Answered, users
<1>7. ASSUME NEW p \in {"saveProfile", "savePassword"}, LoadUser(r, p) PROVE FadeInv'
    <2> DEFINE l == [loc[r] EXCEPT !.isAdmin = isAdmin[loc[r].user]]
    <2>1. r \notin late
        BY <1>1, <1>2, <1>7, RecognisedActs DEF LoadUser
    <2>2. l.token = loc[r].token
        BY <1>2 DEF Locals
    <2> QED BY <1>3, <1>7, <2>1, <2>2, FadeGoto, OldEntriesFade DEF LoadUser, users, ghosts
<1>8. CASE SaveProfile(r) \/ SavePassword(r)
    <2>1. PICK next \in {"readCache", "dropOwn"} : SaveUser(r, next)
        BY <1>8 DEF SaveProfile, SavePassword
    <2>2. r \notin late
        BY <1>3, <1>8 DEF SaveProfile, SavePassword
    <2> QED BY <1>3, <2>1, <2>2, FadeGoto, OldEntriesFade
            DEF SaveUser, Finish, Answered, ghosts
<1>9. CASE ProfileReadCache(r)
    <2> DEFINE renewed == [loc[r] EXCEPT !.expiresAt = cache[loc[r].token].expiresAt]
    <2>1. PICK p \in {"writeCache", "dropLapsed", "done"}, l \in {renewed, loc[r], NoLocals} :
            Goto(r, p, l) /\ (p # "done" => l.token = loc[r].token)
        BY <1>2, <1>9 DEF ProfileReadCache, Finish, Locals
    <2>2. r \notin late
        BY <1>3, <1>9 DEF ProfileReadCache
    <2> QED BY <1>3, <1>9, <2>1, <2>2, FadeGoto, OldEntriesFade
            DEF ProfileReadCache, Answered, users, ghosts
<1>10. CASE ProfileWriteCache(r)
    <2>1. lastEarly[loc[r].user] = now
        BY <1>1, <1>2, <1>3, <1>10, RecognisedActs DEF ProfileWriteCache
    <2>2. EntriesFade
        BY <1>2, <1>3, <1>10, <2>1, NewEntryFades DEF ProfileWriteCache
    <2> QED BY <1>10, <2>2, FadeGoto DEF ProfileWriteCache, Finish, Answered, users, ghosts
<1>11. CASE DropOwnEntry(r)
    BY <1>3, <1>11, FadeGoto, OldEntriesFade DEF DropOwnEntry, Finish, Answered, users, ghosts
<1> QED BY <1>4, <1>5, <1>6, <1>7, <1>8, <1>9, <1>10, <1>11 DEF Handle

LEMMA EnvironmentFade ==
    ASSUME TypeInv, OwnInv, FadeInv, Environment
    PROVE  FadeInv'
<1>1. ASSUME NEW u \in Users, NEW admin \in Roles, UpdateUser(u, admin) PROVE FadeInv'
    BY <1>1 DEF UpdateUser, ghosts, FadeInv, EarlyUntilNow, LateGetsNowhere, SessionsOfLive,
                DeletedUserFadesOut, InFlight, ActsFor
<1>2. ASSUME NEW u \in Users, DeleteUser(u) PROVE FadeInv'
    <2>1. /\ accounts' = [accounts EXCEPT ![u] = "deleted"]
          /\ sessions' = {s \in sessions : s.user # u}
          /\ UNCHANGED <<now, cache, pc, loc, held, late, lastEarly>>
        BY <1>2 DEF DeleteUser, ghosts
    <2>2. \A v : accounts[v] = "deleted" => accounts'[v] = "deleted"
        BY <1>2, <2>1 DEF TypeInv, TypeOK
    <2>3. EarlyUntilNow'
        BY <2>1 DEF FadeInv, EarlyUntilNow, InFlight, ActsFor, TypeInv, TypeOK
    <2>4. LateGetsNowhere'
        BY <2>1, <2>2 DEF FadeInv, LateGetsNowhere, InFlight
    <2>5. SessionsOfLive'
        BY <2>1 DEF FadeInv, SessionsOfLive, TypeInv, TypeOK
    <2>6. DeletedUserFadesOut'
        BY <2>1 DEF FadeInv, DeletedUserFadesOut
    <2> QED BY <2>3, <2>4, <2>5, <2>6 DEF FadeInv
<1>3. CASE RunEviction
    BY <1>3 DEF RunEviction, users, ghosts, FadeInv, EarlyUntilNow, LateGetsNowhere,
                SessionsOfLive, DeletedUserFadesOut, InFlight, ActsFor
<1>4. CASE Tick
    <2>1. /\ now' = now + 1
          /\ lastEarly' = [u \in Users |->
                IF \/ accounts[u] # "deleted"
                   \/ \E r \in Requests \ late : InFlight(r) /\ ActsFor(r) = u
                THEN now + 1
                ELSE lastEarly[u]]
          /\ UNCHANGED <<accounts, sessions, cache, pc, loc, held, late>>
        BY <1>4 DEF Tick, users
    <2>2. ASSUME NEW q \in Requests, InFlight(q) PROVE ActsFor(q) \in Users
        <3>1. pc[q] \in LoginPC \/ pc[q] \in AuthenticatePC \cup HandlerPC
            BY <2>2 DEF InFlight, TypeInv, TypeOK, PC
        <3>2. CASE pc[q] \in LoginPC
            BY <3>2 DEF ActsFor, TypeInv, LocalsAssigned, Assigned
        <3>3. CASE pc[q] \in AuthenticatePC \cup HandlerPC
            BY <3>3, RecognisedActs DEF ActsFor
        <3> QED BY <3>1, <3>2, <3>3
    <2>3. \A q \in Requests : InFlight(q)' = InFlight(q) /\ ActsFor(q)' = ActsFor(q)
        BY <2>1 DEF InFlight, ActsFor
    <2>4. EarlyUntilNow'
        <3>1. ASSUME NEW q \in Requests \ late', InFlight(q)'
              PROVE  lastEarly'[ActsFor(q)'] = now'
            BY <2>1, <2>2, <2>3, <3>1
        <3>2. ASSUME NEW u \in Users
              PROVE  /\ lastEarly'[u] <= now'
                     /\ accounts'[u] # "deleted" => lastEarly'[u] = now'
            BY <2>1 DEF FadeInv, EarlyUntilNow, TypeInv, TypeOK
        <3> QED BY <3>1, <3>2 DEF EarlyUntilNow
    <2>5. LateGetsNowhere' /\ SessionsOfLive'
        BY <2>1 DEF FadeInv, LateGetsNowhere, SessionsOfLive, InFlight
    <2>6. DeletedUserFadesOut'
        <3>1. ASSUME NEW u \in Users PROVE lastEarly[u] <= lastEarly'[u]
            BY <2>1 DEF FadeInv, EarlyUntilNow, TypeInv, TypeOK
        <3>2. ASSUME NEW t \in Tokens, cache[t] # None
              PROVE  cache[t].until <= lastEarly'[cache[t].user] + CacheTTL
            <4>1. cache[t].user \in Users /\ cache[t].until \in Nat
                BY <3>2 DEF TypeInv, TypeOK, Entry
            <4>2. lastEarly[cache[t].user] \in Nat /\ lastEarly'[cache[t].user] \in Nat
                BY <2>1, <4>1 DEF TypeInv, TypeOK
            <4> QED BY <3>1, <3>2, <4>1, <4>2, ClockAssumption DEF FadeInv, DeletedUserFadesOut
        <3> QED BY <2>1, <3>2 DEF DeletedUserFadesOut
    <2> QED BY <2>4, <2>5, <2>6 DEF FadeInv
<1>5. CASE Restart
    <2>1. /\ UNCHANGED <<now, accounts, sessions, late, lastEarly>>
          /\ \A q \in Requests : /\ ~InFlight(q)'
                                 /\ pc'[q] \in {pc[q], "done"}
          /\ \A t \in Tokens : cache'[t] = None
        BY <1>5 DEF Restart, InFlight, users, ghosts
    <2>2. EarlyUntilNow' /\ SessionsOfLive' /\ DeletedUserFadesOut'
        BY <2>1 DEF FadeInv, EarlyUntilNow, SessionsOfLive, DeletedUserFadesOut
    <2>3. LateGetsNowhere'
        BY <2>1 DEF FadeInv, LateGetsNowhere, TypeInv, TypeOK
    <2> QED BY <2>2, <2>3 DEF FadeInv
<1> QED BY <1>1, <1>2, <1>3, <1>4, <1>5 DEF Environment

LEMMA FadeInvNext == TypeInv /\ OwnInv /\ FadeInv /\ [Next]_vars => FadeInv'
<1> SUFFICES ASSUME TypeInv, OwnInv, FadeInv, [Next]_vars PROVE FadeInv'
    OBVIOUS
<1>1. ASSUME NEW r \in Requests, Abort(r) PROVE FadeInv'
    BY <1>1, FadeGoto, OldEntriesFade DEF Abort, Finish, Answered, users, ghosts
<1>2. CASE UNCHANGED vars
    BY <1>2 DEF vars, users, ghosts, FadeInv, EarlyUntilNow, LateGetsNowhere, SessionsOfLive,
                DeletedUserFadesOut, InFlight, ActsFor
<1> QED BY <1>1, <1>2, SignInFade, BeRecognisedFade, HandleFade, EnvironmentFade DEF Next

(* The cached identity of a deleted user lasts no longer than CacheTTL     *)
(* after the last request that came before the deletion: no request that   *)
(* comes later can make or renew an entry.                                 *)
THEOREM DeletedUsersFade == Spec => []DeletedUserFadesOut
<1>1. Init => FadeInv
    BY DEF Init, FadeInv, EarlyUntilNow, LateGetsNowhere, SessionsOfLive, DeletedUserFadesOut,
           InFlight
<1>2. FadeInv => DeletedUserFadesOut
    BY DEF FadeInv
<1> QED BY <1>1, <1>2, FadeInvNext, OwnInvAlways, PTL DEF Spec

=============================================================================

---------------------------- MODULE AccountsProofs ----------------------------
(***************************************************************************)
(* Theorems about the rows of users in SystemSpec: whatever requests,      *)
(* forms and starts write them, in whatever order.                         *)
(***************************************************************************)
EXTENDS StartupProofs

-----------------------------------------------------------------------------
(* What is written.                                                        *)

ParamsType == [email : DOMAIN Lower, google : STRING \cup {None}, password : STRING \cup {None},
               admin : BOOLEAN, super : BOOLEAN \cup {None}, must : BOOLEAN \cup {None},
               avatar : Files \cup {None}]

(* A password an administrator was given is marked, the owner's is not.    *)
Marked(u, set) ==
    /\ set.by = "administrator" /\ ~u.super => u.must
    /\ set.by = "owner" => ~u.must

RowsOK ==
    /\ born \in Nat
    /\ users \subseteq Row
    /\ \A u \in users : u.id \in 1 .. born /\ (u.super => u.admin)
    /\ \A u, v \in users : IF u.id = v.id THEN u = v ELSE ~Clash(u, v)

PasswordsOK ==
    /\ DOMAIN lastSet \subseteq 1 .. born
    /\ \A u \in users :
         /\ u.id \in DOMAIN lastSet
         /\ u.password = lastSet[u.id].password
         /\ Marked(u, lastSet[u.id])

UsersInv == RowsOK /\ PasswordsOK

(* An update that keeps UsersInv, when n rows were inserted so far and     *)
(* others are the ids of all but the super admin.                          *)
Fits(n, others, id, p, password, by) ==
    /\ id \in 1 .. n
    /\ p \in ParamsType
    /\ p.password = password
    /\ p.super = TRUE => p.admin
    /\ password = None => p.must = None
    /\ password # None =>
         /\ by = "owner" => p.must = FALSE
         /\ by = "administrator" => p.must = TRUE \/ id \notin others

Others == {u.id : u \in {v \in users : ~v.super}}

UpdateFits(id, p, password, by) == Fits(born, Others, id, p, password, by)

(* A new row that keeps it. *)
CreateFits(p, by) ==
    /\ p \in ParamsType
    /\ p.super = TRUE => p.admin
    /\ by = "owner" => p.must # TRUE
    /\ by = "administrator" => p.must = TRUE

(* What every step does to the rows that are there.                        *)
RowsGo ==
    /\ born \in Nat /\ born' \in Nat /\ born' >= born
    /\ \A i \in Others' : i <= born => i \in Others

LEMMA UpdatedFields ==
    ASSUME NEW u \in Row, NEW p \in ParamsType
    PROVE  LET v == Updated(u, p)
           IN  /\ v \in Row
               /\ v.id = u.id /\ v.email = p.email /\ v.google = p.google /\ v.avatar = p.avatar
               /\ v.password = IF p.password = None THEN u.password ELSE p.password
               /\ v.must = IF p.must = None THEN u.must ELSE p.must
               /\ (v.super <=> u.super \/ p.super = TRUE)
               /\ (v.admin <=> u.super \/ p.admin)
<1> DEFINE v == Updated(u, p)
<1>1. Kept(p.super, u.super) \in BOOLEAN /\ Kept(p.must, u.must) \in BOOLEAN
      /\ Kept(p.password, u.password) \in STRING \cup {None}
    BY DEF Kept, Row, ParamsType
<1>2. (u.super \/ Kept(p.super, u.super)) \in BOOLEAN /\ (u.super \/ p.admin) \in BOOLEAN
    OBVIOUS
<1>3. /\ v.id = u.id /\ v.email = p.email /\ v.google = p.google /\ v.avatar = p.avatar
      /\ v.password = Kept(p.password, u.password) /\ v.must = Kept(p.must, u.must)
      /\ v.super = (u.super \/ Kept(p.super, u.super)) /\ v.admin = (u.super \/ p.admin)
    BY DEF Updated
<1>4. v \in Row
    <2>1. u.id \in Nat /\ p.email \in DOMAIN Lower /\ p.google \in STRING \cup {None} /\ p.avatar \in Files \cup {None}
        BY DEF Row, ParamsType
    <2> QED BY <1>1, <1>2, <2>1 DEF Updated, Row
<1>5. v.super <=> u.super \/ p.super = TRUE
    <2>1. Kept(p.super, u.super) => u.super \/ p.super = TRUE
        BY NoneAssumption DEF Kept, ParamsType
    <2>2. p.super = TRUE => Kept(p.super, u.super)
        BY NoneAssumption DEF Kept
    <2> HIDE DEF v
    <2> QED BY <1>3, <2>1, <2>2
<1> HIDE DEF v
<1> QED BY <1>3, <1>4, <1>5 DEF Kept, v

LEMMA UpdateRowKeeps ==
    ASSUME UsersInv, NEW id, NEW p, NEW password, NEW by, NEW late,
           UpdateFits(id, p, password, by), UpdateRow(id, p, password, by, late)
    PROVE  UsersInv' /\ RowsGo
<1>1. PICK u \in users : /\ u.id = id
                        /\ KeysFree(Updated(u, p))
                        /\ users' = (users \ {u}) \cup {Updated(u, p)}
                        /\ Written(id, password, by, late)
                        /\ born' = born
    BY DEF UpdateRow, ByID
<1> DEFINE v == Updated(u, p)
<1>2. u \in Row /\ p \in ParamsType /\ u.id \in 1 .. born
    BY <1>1 DEF UsersInv, RowsOK, UpdateFits, Fits
<1>3. /\ v \in Row
      /\ v.id = u.id
      /\ v.password = IF password = None THEN u.password ELSE password
      /\ v.must = IF p.must = None THEN u.must ELSE p.must
      /\ (v.super <=> u.super \/ p.super = TRUE)
      /\ (v.admin <=> u.super \/ p.admin)
    BY <1>2, UpdatedFields DEF UpdateFits, Fits
<1>4. KeysFree(v) /\ users' = (users \ {u}) \cup {v}
    BY <1>1
<1> HIDE DEF v
<1>5. \A x \in users \ {u} : x.id # v.id /\ ~Clash(x, v) /\ ~Clash(v, x)
    BY <1>1, <1>3, <1>4 DEF UsersInv, RowsOK, KeysFree, Clash
<1>6. v.super => v.admin
    BY <1>3 DEF UpdateFits, Fits
<1>7. RowsOK'
    <2>1. born' \in Nat /\ users' \subseteq Row
        BY <1>1, <1>3, <1>4 DEF UsersInv, RowsOK
    <2>2. \A x \in users' : x.id \in 1 .. born' /\ (x.super => x.admin)
        BY <1>1, <1>2, <1>3, <1>4, <1>6 DEF UsersInv, RowsOK
    <2>3. \A x, y \in users' : IF x.id = y.id THEN x = y ELSE ~Clash(x, y)
        BY <1>4, <1>5 DEF UsersInv, RowsOK
    <2> QED BY <2>1, <2>2, <2>3 DEF RowsOK
<1>8. id \in DOMAIN lastSet /\ DOMAIN lastSet \subseteq 1 .. born
    BY <1>1 DEF UsersInv, PasswordsOK
<1>9. /\ DOMAIN lastSet' = DOMAIN lastSet
      /\ \A i \in DOMAIN lastSet : lastSet'[i] = IF i = id /\ password # None
                                               THEN [password |-> password, by |-> by] ELSE lastSet[i]
    BY <1>1, <1>8 DEF Written
<1>10. v.password = lastSet'[v.id].password /\ Marked(v, lastSet'[v.id])
    <2>1. u.password = lastSet[u.id].password /\ Marked(u, lastSet[u.id])
        BY <1>1 DEF UsersInv, PasswordsOK
    <2>2. CASE password = None
        <3>1. lastSet'[v.id] = lastSet[u.id] /\ v.must = u.must /\ (u.super => v.super)
            BY <1>1, <1>3, <1>8, <1>9, <2>2 DEF UpdateFits, Fits
        <3> QED BY <1>3, <2>1, <2>2, <3>1 DEF Marked
    <2>3. CASE password # None
        <3>1. lastSet'[v.id].password = password /\ lastSet'[v.id].by = by
            BY <1>1, <1>3, <1>8, <1>9, <2>3
        <3>2. by = "owner" => v.must = FALSE
            BY <1>3, <2>3, NoneAssumption DEF UpdateFits, Fits
        <3>3. by = "administrator" => v.must = TRUE \/ v.super
            <4>1. id \notin Others => u.super
                BY <1>1 DEF Others
            <4>2. p.must = TRUE => v.must = TRUE
                BY <1>3, NoneAssumption
            <4> QED BY <1>3, <2>3, <4>1, <4>2 DEF UpdateFits, Fits
        <3> QED BY <1>3, <2>3, <3>1, <3>2, <3>3 DEF Marked
    <2> QED BY <2>2, <2>3
<1>11. PasswordsOK'
    <2>1. ASSUME NEW x \in users'
          PROVE  x.id \in DOMAIN lastSet' /\ x.password = lastSet'[x.id].password /\ Marked(x, lastSet'[x.id])
        <3>1. CASE x = v
            BY <1>1, <1>3, <1>8, <1>9, <1>10, <3>1
        <3>2. CASE x # v
            <4>1. x \in users /\ x.id # id
                BY <1>1, <1>3, <1>4, <1>5, <3>2
            <4>2. x.id \in DOMAIN lastSet /\ lastSet'[x.id] = lastSet[x.id]
                BY <1>9, <4>1 DEF UsersInv, PasswordsOK
            <4> QED BY <1>9, <4>1, <4>2 DEF UsersInv, PasswordsOK
        <3> QED BY <3>1, <3>2
    <2>2. DOMAIN lastSet' \subseteq 1 .. born'
        BY <1>1, <1>8, <1>9
    <2> QED BY <2>1, <2>2 DEF PasswordsOK
<1>12. RowsGo
    BY <1>1, <1>3, <1>4 DEF RowsGo, Others, UsersInv, RowsOK
<1> QED BY <1>7, <1>11, <1>12 DEF UsersInv

LEMMA NewRowFields ==
    ASSUME born \in Nat, NEW p \in ParamsType
    PROVE  LET v == NewRow(p)
           IN  /\ v \in Row
               /\ v.id = born + 1 /\ v.password = p.password
               /\ (v.super <=> p.super = TRUE) /\ (v.must <=> p.must = TRUE) /\ v.admin = p.admin
<1>1. (p.super = TRUE) \in BOOLEAN /\ (p.must = TRUE) \in BOOLEAN /\ born + 1 \in Nat
    OBVIOUS
<1>2. p.email \in DOMAIN Lower /\ p.google \in STRING \cup {None} /\ p.password \in STRING \cup {None}
      /\ p.admin \in BOOLEAN /\ p.avatar \in Files \cup {None}
    BY DEF ParamsType
<1>3. NewRow(p) \in Row
    BY <1>1, <1>2 DEF NewRow, Row
<1> QED BY <1>3 DEF NewRow

LEMMA CreateRowKeeps ==
    ASSUME UsersInv, NEW p, NEW by, CreateFits(p, by), CreateRow(p, by)
    PROVE  UsersInv' /\ RowsGo
<1> DEFINE v == NewRow(p)
<1>1. /\ v \in Row
      /\ v.id = born + 1 /\ v.password = p.password
      /\ (v.super <=> p.super = TRUE) /\ (v.must <=> p.must = TRUE) /\ v.admin = p.admin
    BY NewRowFields DEF CreateFits, UsersInv, RowsOK
<1>2. KeysFree(v) /\ users' = users \cup {v} /\ born' = born + 1
      /\ Written(born + 1, p.password, by, FALSE)
    BY DEF CreateRow
<1> HIDE DEF v
<1>3. born \in Nat /\ born' \in Nat /\ DOMAIN lastSet \subseteq 1 .. born
      /\ \A x \in users : x.id \in 1 .. born /\ x.id # v.id
    BY <1>1, <1>2 DEF UsersInv, RowsOK, PasswordsOK
<1>4. \A x \in users : ~Clash(x, v) /\ ~Clash(v, x)
    BY <1>2, <1>3 DEF KeysFree, Clash
<1>5. RowsOK'
    <2>1. users' \subseteq Row
        BY <1>1, <1>2 DEF UsersInv, RowsOK
    <2>2. \A x \in users' : x.id \in 1 .. born' /\ (x.super => x.admin)
        BY <1>1, <1>2, <1>3 DEF UsersInv, RowsOK, CreateFits
    <2>3. \A x, y \in users' : IF x.id = y.id THEN x = y ELSE ~Clash(x, y)
        BY <1>2, <1>3, <1>4 DEF UsersInv, RowsOK
    <2> QED BY <1>3, <2>1, <2>2, <2>3 DEF RowsOK
<1>6. /\ DOMAIN lastSet' = DOMAIN lastSet \cup {born + 1}
      /\ lastSet'[born + 1] = [password |-> p.password, by |-> by]
      /\ \A i \in DOMAIN lastSet : lastSet'[i] = lastSet[i]
    BY <1>2, <1>3 DEF Written
<1>7. Marked(v, lastSet'[v.id])
    <2>1. lastSet'[v.id].by = by
        BY <1>1, <1>6
    <2> QED BY <1>1, <2>1 DEF Marked, CreateFits
<1>8. PasswordsOK'
    <2>1. DOMAIN lastSet' \subseteq 1 .. born'
        BY <1>2, <1>3, <1>6
    <2>2. \A x \in users : x.id \in DOMAIN lastSet /\ lastSet'[x.id] = lastSet[x.id]
        BY <1>6 DEF UsersInv, PasswordsOK
    <2>3. ASSUME NEW x \in users'
          PROVE  x.id \in DOMAIN lastSet' /\ x.password = lastSet'[x.id].password /\ Marked(x, lastSet'[x.id])
        <3>1. CASE x = v
            BY <1>1, <1>6, <1>7, <3>1
        <3>2. CASE x \in users
            BY <1>6, <2>2, <3>2 DEF UsersInv, PasswordsOK
        <3> QED BY <1>2, <3>1, <3>2
    <2> QED BY <2>1, <2>3 DEF PasswordsOK
<1>9. RowsGo
    BY <1>1, <1>2, <1>3 DEF RowsGo, Others
<1> QED BY <1>5, <1>8, <1>9 DEF UsersInv

LEMMA UsersSameKeeps ==
    ASSUME UsersInv, UNCHANGED <<users, born, lastSet>>
    PROVE  UsersInv' /\ RowsGo
BY DEF UsersInv, RowsOK, PasswordsOK, Marked, Clash, RowsGo, Others

LEMMA DeactivateKeepsUsers ==
    ASSUME UsersInv, UNCHANGED <<born, lastSet>>, users' \subseteq users
    PROVE  UsersInv' /\ RowsGo
BY DEF UsersInv, RowsOK, PasswordsOK, Marked, Clash, RowsGo, Others

LEMMA GoogleLinkKeepsUsers ==
    ASSUME UsersInv, NEW u \in users, NEW subject \in STRING,
           KeysFree([u EXCEPT !.google = subject]),
           users' = (users \ {u}) \cup {[u EXCEPT !.google = subject]},
           NEW late, Written(u.id, None, None, late), born' = born
    PROVE  UsersInv' /\ RowsGo
<1> DEFINE v == [u EXCEPT !.google = subject]
<1>1. u \in Row /\ u.id \in DOMAIN lastSet
    BY DEF UsersInv, RowsOK, PasswordsOK
<1>2. v = [id |-> u.id, email |-> u.email, google |-> subject, password |-> u.password,
           admin |-> u.admin, super |-> u.super, must |-> u.must, avatar |-> u.avatar]
    BY <1>1 DEF Row
<1>3. /\ v \in Row /\ v.id = u.id /\ v.password = u.password
      /\ v.admin = u.admin /\ v.super = u.super /\ v.must = u.must
    BY <1>1, <1>2 DEF Row
<1> HIDE DEF v
<1>4. KeysFree(v) /\ users' = (users \ {u}) \cup {v} /\ lastSet' = lastSet
    BY <1>1 DEF v, Written
<1>5. \A x \in users \ {u} : x.id # v.id /\ ~Clash(x, v) /\ ~Clash(v, x)
    BY <1>3, <1>4 DEF UsersInv, RowsOK, KeysFree, Clash
<1>6. RowsOK'
    BY <1>3, <1>4, <1>5 DEF UsersInv, RowsOK
<1>7. PasswordsOK'
    BY <1>3, <1>4 DEF UsersInv, PasswordsOK, Marked
<1>8. RowsGo
    BY <1>3, <1>4 DEF UsersInv, RowsOK, RowsGo, Others
<1> QED BY <1>6, <1>7, <1>8 DEF UsersInv

-----------------------------------------------------------------------------
(* What a request carries to the statement that writes.                    *)

LocOK(n, others, p, l) ==
    /\ p = "idle" => l = NoLoc
    /\ p \in {"googleEmail", "googleLink", "googleCreate"} =>
         l.token \in STRING /\ l.identifier \in DOMAIN Lower /\ DOMAIN l = DOMAIN NoLoc
    /\ p = "resetLoad" => l.password \in STRING /\ DOMAIN l = DOMAIN NoLoc
    /\ p = "savePassword" => Fits(n, others, l.user, l.params, l.password, "owner")
    /\ p = "saveProfile" => Fits(n, others, l.user, l.params, None, None)
    /\ p = "saveEdit" => Fits(n, others, l.user, l.params, l.password, l.by)

LocsInv ==
    /\ DOMAIN pc = Requests /\ DOMAIN loc = Requests
    /\ \A r \in Requests : LocOK(born, Others, pc[r], loc[r])

(* What a start carries to the write of its seed.                          *)
PreparedInv ==
    /\ DOMAIN prepared = Processes /\ DOMAIN phase = Processes
    /\ \A p \in Processes : phase[p] = "seedUpdate" =>
         /\ UpdateFits(prepared[p].loaded.id, prepared[p].params, SeedPassword, "seed")
         /\ prepared[p].params = SeedParams(prepared[p].loaded)

AccountsInv == bound \in Bounds /\ UsersInv /\ LocsInv

(* A step of a request for AccountsInv, which leaves its effect on rows.   *)
Holds == AccountsInv' /\ RowsGo

Plain == {"lookup", "session", "record", "refused", "done", "issue", "markUsed", "deleteFile", "copy"}

LEMMA FitsStays ==
    ASSUME NEW n \in Nat, NEW m \in Nat, m >= n, NEW others, NEW now, \A i \in now : i <= n => i \in others,
           NEW id, NEW p, NEW password, NEW by, Fits(n, others, id, p, password, by)
    PROVE  Fits(m, now, id, p, password, by)
<1>1. id \in 1 .. n /\ id \in 1 .. m /\ (id \in now => id \in others)
    BY DEF Fits
<1> QED BY <1>1 DEF Fits

LEMMA LocStays ==
    ASSUME NEW n \in Nat, NEW m \in Nat, m >= n, NEW others, NEW now, \A i \in now : i <= n => i \in others,
           NEW p, NEW l, LocOK(n, others, p, l)
    PROVE  LocOK(m, now, p, l)
BY FitsStays DEF LocOK

LEMMA GotoHolds ==
    ASSUME AccountsInv, UsersInv', RowsGo, bound' = bound, NEW r \in Requests, NEW next, NEW l,
           Goto(r, next, l), LocOK(born, Others, next, l)
    PROVE  Holds
<1>1. DOMAIN pc' = Requests /\ DOMAIN loc' = Requests
      /\ \A q \in Requests : pc'[q] = (IF q = r THEN next ELSE pc[q]) /\ loc'[q] = IF q = r THEN l ELSE loc[q]
    BY DEF AccountsInv, LocsInv, Goto
<1>2. ASSUME NEW q \in Requests PROVE LocOK(born', Others', pc'[q], loc'[q])
    <2>1. LocOK(born, Others, pc'[q], loc'[q])
        BY <1>1 DEF AccountsInv, LocsInv
    <2> QED BY <2>1, LocStays DEF RowsGo, Others
<1>3. LocsInv'
    BY <1>1, <1>2 DEF LocsInv
<1> QED BY <1>3 DEF Holds, AccountsInv

LEMMA PlainHolds ==
    ASSUME AccountsInv, UsersInv', RowsGo, bound' = bound, NEW r \in Requests, NEW next \in Plain, NEW l,
           Goto(r, next, l)
    PROVE  Holds
<1>1. LocOK(born, Others, next, l)
    BY DEF LocOK, Plain
<1> QED BY <1>1, GotoHolds

LEMMA FinishHolds ==
    ASSUME AccountsInv, UsersInv', RowsGo, bound' = bound, NEW r \in Requests, Finish(r)
    PROVE  Holds
BY PlainHolds DEF Finish, Plain

(* Steps that leave the rows of users and take a request to a plain step.  *)
LEMMA ReadingHolds ==
    ASSUME AccountsInv, UNCHANGED <<bound, users, born, lastSet>>,
           NEW r \in Requests, NEW next \in Plain, NEW l, Goto(r, next, l)
    PROVE  Holds
BY UsersSameKeeps, PlainHolds DEF AccountsInv

LEMMA UpdateHolds ==
    ASSUME AccountsInv, NEW id, NEW p, NEW password, NEW by, NEW late,
           UpdateFits(id, p, password, by), UpdateRow(id, p, password, by, late), bound' = bound,
           NEW r \in Requests, NEW next \in Plain, NEW l, Goto(r, next, l)
    PROVE  Holds
BY UpdateRowKeeps, PlainHolds DEF AccountsInv

LEMMA CreateHolds ==
    ASSUME AccountsInv, NEW p, NEW by, CreateFits(p, by), CreateRow(p, by), bound' = bound,
           NEW r \in Requests, Finish(r)
    PROVE  Holds
BY CreateRowKeeps, FinishHolds DEF AccountsInv

-----------------------------------------------------------------------------
(* Each action.                                                            *)

LEMMA AvatarsAreFiles ==
    ASSUME AccountsInv
    PROVE  AvatarURLs \subseteq Files \cup {None}
BY BoundsAssumption DEF AvatarURLs, AccountsInv

LEMMA SignInHolds ==
    ASSUME AccountsInv, NEW r \in Requests, SignIn(r)
    PROVE  Holds
<1>1. ASSUME NEW s, NEW address, NEW password, LoginCount(r, s, address, password) PROVE Holds
    <2>1. \E next \in Plain : \E l : Goto(r, next, l)
        BY <1>1 DEF LoginCount, Plain
    <2> QED BY <1>1, <2>1, ReadingHolds DEF LoginCount, ghosts
<1>2. CASE LoginLookup(r) \/ LoginSession(r) \/ LoginRecord(r)
    <2>1. \E next \in Plain : \E l : Goto(r, next, l)
        BY <1>2 DEF LoginLookup, LoginSession, LoginRecord, Plain
    <2>2. UNCHANGED <<bound, users, born, lastSet>>
        BY <1>2 DEF LoginLookup, LoginSession, LoginRecord, ghosts, UsersSame
    <2> QED BY <2>1, <2>2, ReadingHolds
<1>3. ASSUME NEW s \in bound.spellings, NEW password \in bound.passwords, NEW avatar \in AvatarURLs,
             Register(r, s, password, avatar)
      PROVE  Holds
    <2> DEFINE p == Params(Lower[s], None, password, FALSE, None, None, avatar)
    <2>1. CreateFits(p, "owner")
        <3>1. Lower[s] \in DOMAIN Lower /\ password \in STRING /\ avatar \in Files \cup {None}
            BY BoundsAssumption, LowerAssumption, AvatarsAreFiles DEF AccountsInv
        <3> QED BY <3>1, NoneAssumption DEF CreateFits, ParamsType, Params
    <2>2. bound' = bound /\ Finish(r) /\ (CreateRow(p, "owner") \/ UNCHANGED <<users, born, lastSet>>)
        BY <1>3 DEF Register, UsersSame
    <2> QED BY <2>1, <2>2, CreateHolds, UsersSameKeeps, FinishHolds DEF AccountsInv
<1>4. ASSUME NEW subject \in bound.subjects, NEW s \in bound.spellings, GoogleByID(r, subject, s)
      PROVE  Holds
    <2>1. subject \in STRING /\ s \in DOMAIN Lower
        BY BoundsAssumption DEF AccountsInv
    <2>2. UNCHANGED <<bound, users, born, lastSet>>
        BY <1>4 DEF GoogleByID, ghosts
    <2>3. CASE Finish(r)
        BY <2>2, <2>3, UsersSameKeeps, FinishHolds DEF AccountsInv
    <2>4. CASE Goto(r, "googleEmail", [NoLoc EXCEPT !.identifier = s, !.token = subject])
        <3> DEFINE l == [NoLoc EXCEPT !.identifier = s, !.token = subject]
        <3>1. l.identifier = s /\ l.token = subject /\ DOMAIN l = DOMAIN NoLoc
            BY DEF NoLoc
        <3> HIDE DEF l
        <3>2. LocOK(born, Others, "googleEmail", l)
            BY <2>1, <3>1 DEF LocOK
        <3>3. Goto(r, "googleEmail", l)
            BY <2>4 DEF l
        <3> QED BY <2>2, <3>2, <3>3, UsersSameKeeps, GotoHolds DEF AccountsInv
    <2> QED BY <1>4, <2>3, <2>4 DEF GoogleByID
<1>5. CASE GoogleByEmail(r)
    <2>1. UNCHANGED <<bound, users, born, lastSet>>
        BY <1>5 DEF GoogleByEmail, ghosts
    <2>2. CASE Finish(r)
        BY <2>1, <2>2, UsersSameKeeps, FinishHolds DEF AccountsInv
    <2>3. CASE \E u \in users : Goto(r, "googleLink", [loc[r] EXCEPT !.user = u.id])
        <3> PICK u \in users : Goto(r, "googleLink", [loc[r] EXCEPT !.user = u.id])
            BY <2>3
        <3> DEFINE l == [loc[r] EXCEPT !.user = u.id]
        <3>1. LocOK(born, Others, "googleLink", l)
            <4>1. l.token = loc[r].token /\ l.identifier = loc[r].identifier /\ DOMAIN l = DOMAIN loc[r]
                OBVIOUS
            <4>2. LocOK(born, Others, "googleEmail", loc[r])
                BY <1>5 DEF GoogleByEmail, AccountsInv, LocsInv
            <4> HIDE DEF l
            <4> QED BY <4>1, <4>2 DEF LocOK
        <3> HIDE DEF l
        <3>2. Goto(r, "googleLink", l)
            BY DEF l
        <3> QED BY <2>1, <3>1, <3>2, UsersSameKeeps, GotoHolds DEF AccountsInv
    <2>4. CASE Goto(r, "googleCreate", loc[r])
        <3>1. LocOK(born, Others, "googleEmail", loc[r])
            BY <1>5 DEF GoogleByEmail, AccountsInv, LocsInv
        <3>2. LocOK(born, Others, "googleCreate", loc[r])
            BY <3>1 DEF LocOK
        <3> QED BY <2>1, <2>4, <3>2, UsersSameKeeps, GotoHolds DEF AccountsInv
    <2> QED BY <1>5, <2>2, <2>3, <2>4 DEF GoogleByEmail, ByEmail
<1>6. CASE GoogleLink(r)
    <2>1. loc[r].token \in STRING
        BY <1>6 DEF GoogleLink, AccountsInv, LocsInv, LocOK
    <2>2. UsersInv' /\ RowsGo
        BY <1>6, <2>1, GoogleLinkKeepsUsers, UsersSameKeeps DEF GoogleLink, UsersSame, ByID, AccountsInv
    <2> QED BY <1>6, <2>2, FinishHolds DEF GoogleLink
<1>7. CASE GoogleCreate(r)
    <2> DEFINE p == Params(loc[r].identifier, loc[r].token, None, FALSE, None, None, None)
    <2>1. loc[r].token \in STRING /\ loc[r].identifier \in DOMAIN Lower
        BY <1>7 DEF GoogleCreate, AccountsInv, LocsInv, LocOK
    <2>2. CreateFits(p, "plain")
        <3>1. p \in ParamsType
            BY <2>1 DEF ParamsType, Params
        <3>2. p.super # TRUE
            BY NoneAssumption DEF Params
        <3> QED BY <3>1, <3>2 DEF CreateFits
    <2>3. bound' = bound /\ Finish(r) /\ (CreateRow(p, "plain") \/ UNCHANGED <<users, born, lastSet>>)
        BY <1>7 DEF GoogleCreate, UsersSame
    <2> QED BY <2>2, <2>3, CreateHolds, UsersSameKeeps, FinishHolds DEF AccountsInv
<1> QED BY <1>1, <1>2, <1>3, <1>4, <1>5, <1>6, <1>7 DEF SignIn

(* What is loaded from a row fits it.                                      *)
LEMMA LoadHolds ==
    ASSUME AccountsInv, UNCHANGED <<bound, users, born, lastSet>>,
           NEW r \in Requests, NEW next \in {"savePassword", "saveProfile"},
           NEW u \in users, NEW p, NEW password, NEW locals, DOMAIN locals = DOMAIN NoLoc,
           UpdateFits(u.id, p, password, "owner"), Load(r, u, next, p, password, locals),
           next = "saveProfile" => password = None
    PROVE  Holds
<1> DEFINE l == [locals EXCEPT !.user = u.id, !.params = p, !.password = password, !.by = "owner"]
<1>1. l.user = u.id /\ l.params = p /\ l.password = password
    BY DEF NoLoc
<1>2. Goto(r, next, l)
    BY DEF Load
<1> HIDE DEF l
<1>3. LocOK(born, Others, next, l)
    <2>1. next = "saveProfile" => Fits(born, Others, l.user, l.params, None, None)
        BY <1>1 DEF UpdateFits, Fits
    <2> QED BY <1>1, <2>1 DEF LocOK, UpdateFits
<1> QED BY <1>2, <1>3, UsersSameKeeps, GotoHolds DEF AccountsInv

LEMMA ParamsFit ==
    ASSUME UsersInv, NEW u \in users
    PROVE  /\ \A password \in STRING : UpdateFits(u.id, PasswordParams(u, password), password, "owner")
           /\ \A avatar \in Files \cup {None} : UpdateFits(u.id, ProfileParams(u, avatar), None, "owner")
<1>1. u \in Row /\ u.id \in 1 .. born
    BY DEF UsersInv, RowsOK
<1>2. /\ u.email \in DOMAIN Lower /\ u.google \in STRING \cup {None} /\ u.admin \in BOOLEAN
      /\ u.avatar \in Files \cup {None}
    BY <1>1 DEF Row
<1>3. ASSUME NEW password \in STRING PROVE UpdateFits(u.id, PasswordParams(u, password), password, "owner")
    <2>1. PasswordParams(u, password) \in ParamsType
        BY <1>2 DEF PasswordParams, Params, ParamsType
    <2> QED BY <1>1, <2>1, NoneAssumption DEF PasswordParams, Params, UpdateFits, Fits
<1>4. ASSUME NEW avatar \in Files \cup {None} PROVE UpdateFits(u.id, ProfileParams(u, avatar), None, "owner")
    <2>1. Kept(avatar, u.avatar) \in Files \cup {None}
        BY <1>2 DEF Kept
    <2>2. ProfileParams(u, avatar) \in ParamsType
        BY <1>2, <2>1 DEF ProfileParams, Params, ParamsType
    <2> QED BY <1>1, <2>2, NoneAssumption DEF ProfileParams, Params, UpdateFits, Fits
<1> QED BY <1>3, <1>4

LEMMA OwnAccountHolds ==
    ASSUME AccountsInv, NEW r \in Requests, OwnAccount(r)
    PROVE  Holds
<1>1. CASE (\E s : ForgotLookup(r, s)) \/ ForgotCreate(r)
    <2>1. \E next \in Plain : \E l : Goto(r, next, l)
        BY <1>1 DEF ForgotLookup, ForgotCreate, Finish, Plain
    <2>2. UNCHANGED <<bound, users, born, lastSet>>
        BY <1>1 DEF ForgotLookup, ForgotCreate, ghosts
    <2> QED BY <2>1, <2>2, ReadingHolds
<1>2. ASSUME NEW t, NEW password \in bound.passwords, ResetFind(r, t, password) PROVE Holds
    <2> DEFINE l == [NoLoc EXCEPT !.token = t, !.password = password]
    <2>1. UNCHANGED <<bound, users, born, lastSet>>
        BY <1>2 DEF ResetFind, ghosts
    <2>2. l.password = password /\ password \in STRING /\ DOMAIN l = DOMAIN NoLoc
        BY BoundsAssumption DEF NoLoc, AccountsInv
    <2>3. Finish(r) \/ Goto(r, "resetLoad", l)
        BY <1>2 DEF ResetFind
    <2> HIDE DEF l
    <2>4. LocOK(born, Others, "resetLoad", l)
        BY <2>2 DEF LocOK
    <2> QED BY <2>1, <2>3, <2>4, UsersSameKeeps, FinishHolds, GotoHolds DEF AccountsInv
<1>3. CASE ResetLoad(r)
    <2>1. UNCHANGED <<bound, users, born, lastSet>>
        BY <1>3 DEF ResetLoad, ghosts
    <2>2. loc[r].password \in STRING
        BY <1>3 DEF ResetLoad, AccountsInv, LocsInv, LocOK
    <2>3. CASE Finish(r)
        BY <2>1, <2>3, UsersSameKeeps, FinishHolds DEF AccountsInv
    <2>4. ASSUME NEW u \in users,
                 Load(r, u, "savePassword", PasswordParams(u, loc[r].password), loc[r].password, loc[r])
          PROVE  Holds
        <3>1. DOMAIN loc[r] = DOMAIN NoLoc
            BY <1>3 DEF ResetLoad, AccountsInv, LocsInv, LocOK
        <3> QED BY <2>1, <2>2, <2>4, <3>1, ParamsFit, LoadHolds DEF AccountsInv
    <2> QED BY <1>3, <2>3, <2>4 DEF ResetLoad
<1>4. ASSUME NEW u \in users, NEW password \in bound.passwords, NEW current,
             ChangeLoad(r, u.id, current, password)
      PROVE  Holds
    <2>1. UNCHANGED <<bound, users, born, lastSet>> /\ password \in STRING
        BY <1>4, BoundsAssumption DEF ChangeLoad, ghosts, AccountsInv
    <2>2. PICK v \in users : IF v.password \in {None, current}
                             THEN Load(r, v, "savePassword", PasswordParams(v, password), password, NoLoc)
                             ELSE Finish(r)
        BY <1>4 DEF ChangeLoad, ByID
    <2> QED BY <2>1, <2>2, ParamsFit, LoadHolds, UsersSameKeeps, FinishHolds DEF AccountsInv
<1>5. CASE SavePassword(r)
    <2>1. UpdateFits(loc[r].user, loc[r].params, loc[r].password, "owner")
        BY <1>5 DEF SavePassword, AccountsInv, LocsInv, LocOK, UpdateFits
    <2>2. bound' = bound /\ \E next \in Plain : \E l : Goto(r, next, l)
        BY <1>5 DEF SavePassword, Finish, Plain
    <2>3. CASE UpdateRow(loc[r].user, loc[r].params, loc[r].password, "owner", r \in stale)
        BY <2>1, <2>2, <2>3, UpdateHolds
    <2>4. CASE UsersSame
        BY <2>2, <2>4, ReadingHolds DEF UsersSame
    <2> QED BY <1>5, <2>3, <2>4 DEF SavePassword
<1>6. CASE MarkUsed(r) \/ DeleteFile(r) \/ UploadCopy(r) \/ (\E f \in Files : UploadCreate(r, f))
           \/ (\E n \in notes : MarkRead(r, n))
    <2>1. \E next \in Plain : \E l : Goto(r, next, l)
        BY <1>6 DEF MarkUsed, DeleteFile, UploadCopy, UploadCreate, MarkRead, Finish, Plain
    <2>2. UNCHANGED <<bound, users, born, lastSet>>
        BY <1>6 DEF MarkUsed, DeleteFile, UploadCopy, UploadCreate, MarkRead, UsersSame
    <2> QED BY <2>1, <2>2, ReadingHolds
<1>7. ASSUME NEW u \in users, NEW avatar \in AvatarURLs, ProfileLoad(r, u.id, avatar)
      PROVE  Holds
    <2>1. UNCHANGED <<bound, users, born, lastSet>> /\ avatar \in Files \cup {None}
        BY <1>7, AvatarsAreFiles DEF ProfileLoad, UsersSame
    <2>2. PICK v \in users : Load(r, v, "saveProfile", ProfileParams(v, avatar), None,
                                  [NoLoc EXCEPT !.file = Replaced(v, avatar)])
        BY <1>7 DEF ProfileLoad, ByID
    <2>3. UpdateFits(v.id, ProfileParams(v, avatar), None, "owner")
        BY <2>1, ParamsFit DEF AccountsInv
    <2>4. DOMAIN [NoLoc EXCEPT !.file = Replaced(v, avatar)] = DOMAIN NoLoc
        BY DEF NoLoc
    <2> QED BY <2>1, <2>2, <2>3, <2>4, LoadHolds
<1>8. CASE SaveProfile(r)
    <2>1. UpdateFits(loc[r].user, loc[r].params, None, None)
        BY <1>8 DEF SaveProfile, AccountsInv, LocsInv, LocOK, UpdateFits
    <2>2. bound' = bound /\ \E next \in Plain : \E l : Goto(r, next, l)
        BY <1>8 DEF SaveProfile, Finish, Plain
    <2>3. CASE UpdateRow(loc[r].user, loc[r].params, None, None, r \in stale)
        BY <2>1, <2>2, <2>3, UpdateHolds
    <2>4. CASE UsersSame
        BY <2>2, <2>4, ReadingHolds DEF UsersSame
    <2> QED BY <1>8, <2>3, <2>4 DEF SaveProfile
<1> QED BY <1>1, <1>2, <1>3, <1>4, <1>5, <1>6, <1>7, <1>8 DEF OwnAccount

LEMMA FormsFit ==
    ASSUME NEW form \in Form, NEW must \in BOOLEAN \cup {None}
    PROVE  /\ FormParams(form, must) \in ParamsType
           /\ FormParams(form, must).super = None /\ FormParams(form, must).must = must
           /\ FormParams(form, must).password = form.password
BY DEF Form, FormParams, Params, ParamsType

LEMMA AdministerHolds ==
    ASSUME AccountsInv, NEW r \in Requests, Administer(r)
    PROVE  Holds
<1>1. ASSUME NEW form \in bound.forms, AdminCreate(r, form) PROVE Holds
    <2> DEFINE must == form.password # None /\ form.admin
               p == FormParams(form, must)
    <2>1. form \in Form
        BY BoundsAssumption DEF AccountsInv
    <2>2. CreateFits(p, GivenBy(form))
        <3>1. must \in BOOLEAN /\ (GivenBy(form) = "administrator" => must = TRUE) /\ GivenBy(form) # "owner"
            BY <2>1 DEF GivenBy, Form
        <3> HIDE DEF must
        <3> QED BY <2>1, <3>1, FormsFit, NoneAssumption DEF CreateFits
    <2>3. bound' = bound /\ Finish(r) /\ (CreateRow(p, GivenBy(form)) \/ UNCHANGED <<users, born, lastSet>>)
        BY <1>1 DEF AdminCreate, UsersSame
    <2> HIDE DEF p
    <2> QED BY <2>2, <2>3, CreateHolds, UsersSameKeeps, FinishHolds DEF AccountsInv
<1>2. ASSUME NEW form \in bound.forms, NEW id \in 1 .. born, EditLoad(r, id, form) PROVE Holds
    <2>1. form \in Form /\ UNCHANGED <<bound, users, born, lastSet>>
        BY <1>2, BoundsAssumption DEF AccountsInv, EditLoad, UsersSame
    <2>2. CASE Finish(r)
        BY <2>1, <2>2, UsersSameKeeps, FinishHolds DEF AccountsInv
    <2>3. ASSUME NEW must \in BOOLEAN \cup {None},
                 form.password = None => must = None,
                 GivenBy(form) = "administrator" => must = TRUE \/ id \notin Others,
                 Goto(r, "saveEdit", [NoLoc EXCEPT !.user = id, !.params = FormParams(form, must),
                                                   !.password = form.password, !.by = GivenBy(form)])
          PROVE  Holds
        <3> DEFINE l == [NoLoc EXCEPT !.user = id, !.params = FormParams(form, must),
                                      !.password = form.password, !.by = GivenBy(form)]
        <3>1. l.user = id /\ l.params = FormParams(form, must) /\ l.password = form.password /\ l.by = GivenBy(form)
            BY DEF NoLoc
        <3>2. GivenBy(form) # "owner"
            BY DEF GivenBy
        <3>3. Fits(born, Others, id, FormParams(form, must), form.password, GivenBy(form))
            BY <2>1, <2>3, <3>2, FormsFit, NoneAssumption DEF Fits
        <3>4. Goto(r, "saveEdit", l)
            BY <2>3
        <3> HIDE DEF l
        <3>5. LocOK(born, Others, "saveEdit", l)
            BY <3>1, <3>3 DEF LocOK
        <3> QED BY <2>1, <3>4, <3>5, UsersSameKeeps, GotoHolds DEF AccountsInv
    <2>4. CASE form.password # None /\ form.admin
        <3>1. ASSUME NEW u \in ByID(id),
                     Goto(r, "saveEdit", [NoLoc EXCEPT !.user = id, !.params = FormParams(form, ~u.super),
                                                       !.password = form.password, !.by = GivenBy(form)])
              PROVE  Holds
            <4>1. u.super => id \notin Others
                BY DEF ByID, Others, AccountsInv, UsersInv, RowsOK
            <4>2. u.super \in BOOLEAN
                BY DEF ByID, AccountsInv, UsersInv, RowsOK, Row
            <4>3. (~u.super) \in BOOLEAN \cup {None} /\ (u.super \/ (~u.super) = TRUE)
                BY <4>2
            <4> QED BY <2>3, <2>4, <3>1, <4>1, <4>3
        <3> QED BY <1>2, <2>2, <2>4, <3>1 DEF EditLoad
    <2>5. CASE ~(form.password # None /\ form.admin)
        <3>1. GivenBy(form) # "administrator"
            BY <2>5 DEF GivenBy
        <3> QED BY <1>2, <2>3, <2>5, <3>1 DEF EditLoad
    <2> QED BY <2>4, <2>5
<1>3. CASE SaveEdit(r)
    <2>1. UpdateFits(loc[r].user, loc[r].params, loc[r].password, loc[r].by)
        BY <1>3 DEF SaveEdit, AccountsInv, LocsInv, LocOK, UpdateFits
    <2>2. bound' = bound /\ \E next \in Plain : \E l : Goto(r, next, l)
        BY <1>3 DEF SaveEdit, Finish, Plain
    <2>3. CASE UpdateRow(loc[r].user, loc[r].params, loc[r].password, loc[r].by, r \in stale)
        BY <2>1, <2>2, <2>3, UpdateHolds
    <2>4. CASE UsersSame
        BY <2>2, <2>4, ReadingHolds DEF UsersSame
    <2> QED BY <1>3, <2>3, <2>4 DEF SaveEdit
<1>4. ASSUME NEW id, Deactivate(r, id) PROVE Holds
    BY <1>4, DeactivateKeepsUsers, FinishHolds DEF Deactivate, AccountsInv
<1>5. ASSUME NEW id, CreateNote(r, id) PROVE Holds
    BY <1>5, UsersSameKeeps, FinishHolds DEF CreateNote, UsersSame, AccountsInv
<1> QED BY <1>1, <1>2, <1>3, <1>4, <1>5 DEF Administer

LEMMA AbortHolds ==
    ASSUME AccountsInv, NEW r \in Requests, Abort(r)
    PROVE  Holds
<1>1. \E next \in Plain : \E l : Goto(r, next, l)
    BY DEF Abort, Finish, Plain
<1>2. UNCHANGED <<bound, users, born, lastSet>>
    BY DEF Abort, ghosts
<1> QED BY <1>1, <1>2, ReadingHolds

(* Steps of no request.                                                    *)
LEMMA RequestsSameHolds ==
    ASSUME AccountsInv, UsersInv', RowsGo, UNCHANGED <<bound, pc, loc>>
    PROVE  Holds
<1>1. ASSUME NEW q \in Requests PROVE LocOK(born', Others', pc'[q], loc'[q])
    <2>1. LocOK(born, Others, pc'[q], loc'[q])
        BY DEF AccountsInv, LocsInv
    <2> QED BY <2>1, LocStays DEF RowsGo, Others
<1> QED BY <1>1 DEF Holds, AccountsInv, LocsInv

LEMMA NextHolds == AccountsInv /\ [AccountsNext]_accountVars => Holds
<1> SUFFICES ASSUME AccountsInv, [AccountsNext]_accountVars PROVE Holds
    OBVIOUS
<1>1. CASE WindowMoves \/ (\E t \in tokens : TokenLapses(t)) \/ UNCHANGED accountVars
    BY <1>1, UsersSameKeeps, RequestsSameHolds
       DEF WindowMoves, TokenLapses, accountVars, ghosts, UsersSame, AccountsInv
<1> QED BY <1>1, SignInHolds, OwnAccountHolds, AdministerHolds, AbortHolds DEF AccountsNext

-----------------------------------------------------------------------------
(* The seed.                                                               *)

LEMMA SeedCreateHolds ==
    ASSUME AccountsInv, NEW p \in Processes, SeedCreate(p)
    PROVE  Holds
<1> DEFINE row == Params(SeedEmail, None, SeedPassword, TRUE, TRUE, FALSE, None)
<1>1. row \in ParamsType
    BY StartupAssumption DEF Params, ParamsType
<1>2. CreateFits(row, "seed")
    BY <1>1 DEF CreateFits, Params
<1>3. UNCHANGED <<bound, pc, loc>> /\ (CreateRow(row, "seed") \/ UNCHANGED <<users, born, lastSet>>)
    BY DEF SeedCreate, RequestsSame, UsersSame
<1> HIDE DEF row
<1> QED BY <1>2, <1>3, CreateRowKeeps, UsersSameKeeps, RequestsSameHolds DEF AccountsInv

LEMMA SeedUpdateHolds ==
    ASSUME AccountsInv, PreparedInv, NEW p \in Processes, SeedUpdate(p)
    PROVE  Holds
<1> DEFINE id == prepared[p].loaded.id
           params == prepared[p].params
           late == prepared[p].loaded \notin users
<1>1. UpdateFits(id, params, SeedPassword, "seed")
    BY DEF SeedUpdate, PreparedInv
<1>2. UNCHANGED <<bound, pc, loc>>
      /\ (UpdateRow(id, params, SeedPassword, "seed", late) \/ UNCHANGED <<users, born, lastSet>>)
    BY DEF SeedUpdate, RequestsSame, UsersSame
<1> HIDE DEF id, params, late
<1> QED BY <1>1, <1>2, UpdateRowKeeps, UsersSameKeeps, RequestsSameHolds DEF AccountsInv

(* A seed that was prepared stays fit while requests write the rows.       *)
LEMMA PreparedStays ==
    ASSUME PreparedInv, RowsGo, NEW p \in Processes, phase[p] = "seedUpdate", prepared'[p] = prepared[p]
    PROVE  /\ UpdateFits(prepared[p].loaded.id, prepared[p].params, SeedPassword, "seed")'
           /\ prepared'[p].params = SeedParams(prepared'[p].loaded)
<1>1. Fits(born, Others, prepared[p].loaded.id, prepared[p].params, SeedPassword, "seed")
      /\ prepared[p].params = SeedParams(prepared[p].loaded)
    BY DEF PreparedInv, UpdateFits
<1>2. Fits(born', Others', prepared'[p].loaded.id, prepared'[p].params, SeedPassword, "seed")
    BY <1>1, FitsStays DEF RowsGo, Others
<1>3. prepared'[p].params = SeedParams(prepared'[p].loaded)
    BY <1>1
<1> QED BY <1>2, <1>3 DEF UpdateFits

SystemInv == AccountsInv /\ PreparedInv

LEMMA InitSystemInv == SystemInit => SystemInv
<1> SUFFICES ASSUME SystemInit PROVE SystemInv
    OBVIOUS
<1>1. bound \in Bounds /\ users = bound.rows /\ born = Cardinality(users)
    BY DEF SystemInit, AccountsInit
<1>2. RowsOK
    BY <1>1, BoundsAssumption DEF RowsOK
<1>3. DOMAIN lastSet = {u.id : u \in users}
      /\ \A u \in users : lastSet[u.id] = [password |-> u.password, by |-> "plain"]
    <2>1. lastSet = [id \in {u.id : u \in users} |->
                        [password |-> (CHOOSE u \in users : u.id = id).password, by |-> "plain"]]
        BY DEF SystemInit, AccountsInit
    <2>2. \A u \in users : (CHOOSE v \in users : v.id = u.id) = u
        BY <1>2 DEF RowsOK
    <2> QED BY <2>1, <2>2
<1>4. PasswordsOK
    <2>1. DOMAIN lastSet \subseteq 1 .. born
        BY <1>2, <1>3 DEF RowsOK
    <2>2. ASSUME NEW u \in users
          PROVE  u.id \in DOMAIN lastSet /\ u.password = lastSet[u.id].password /\ Marked(u, lastSet[u.id])
        <3>1. lastSet[u.id] = [password |-> u.password, by |-> "plain"]
            BY <1>3
        <3>2. lastSet[u.id].by = "plain"
            BY <3>1
        <3>3. lastSet[u.id].password = u.password
            BY <3>1
        <3> QED BY <1>3, <3>2, <3>3 DEF Marked
    <2> QED BY <2>1, <2>2 DEF PasswordsOK
<1>5. LocsInv
    BY DEF SystemInit, AccountsInit, LocsInv, LocOK
<1>6. PreparedInv
    BY DEF SystemInit, PreparedInv
<1> QED BY <1>1, <1>2, <1>4, <1>5, <1>6 DEF SystemInv, AccountsInv, UsersInv

LEMMA StartKeepsSystemInv ==
    ASSUME SystemInv, NEW p \in Processes, Start(p) \/ Stop(p)
    PROVE  SystemInv'
<1>1. Holds
    <2>1. CASE AccountsSame
        BY <2>1, UsersSameKeeps, RequestsSameHolds DEF AccountsSame, accountVars, SystemInv, AccountsInv
    <2> QED BY <2>1, SeedCreateHolds, SeedUpdateHolds
        DEF Start, Stop, ReadVersions, ApplyMigration, SeedLookup, SystemInv
<1>2. DOMAIN prepared' = Processes /\ DOMAIN phase' = Processes
      /\ \A q \in Processes \ {p} : prepared'[q] = prepared[q] /\ phase'[q] = phase[q]
    BY DEF Start, Stop, ReadVersions, ApplyMigration, SeedLookup, SeedCreate, SeedUpdate, Enter,
           SystemInv, PreparedInv
<1>3. ASSUME NEW q \in Processes \ {p}, phase'[q] = "seedUpdate"
      PROVE  /\ UpdateFits(prepared[q].loaded.id, prepared[q].params, SeedPassword, "seed")'
             /\ prepared'[q].params = SeedParams(prepared'[q].loaded)
    BY <1>1, <1>2, <1>3, PreparedStays DEF Holds, SystemInv
<1>4. ASSUME phase'[p] = "seedUpdate"
      PROVE  /\ UpdateFits(prepared[p].loaded.id, prepared[p].params, SeedPassword, "seed")'
             /\ prepared'[p].params = SeedParams(prepared'[p].loaded)
    <2>1. SeedLookup(p)
        BY <1>4 DEF Start, Stop, ReadVersions, ApplyMigration, SeedCreate, SeedUpdate, Enter,
                    SystemInv, PreparedInv
    <2>2. PICK u \in users : prepared' = [prepared EXCEPT ![p] = [loaded |-> u, params |-> SeedParams(u)]]
        BY <1>4, <2>1 DEF SeedLookup, ByEmail, Enter, SystemInv, PreparedInv
    <2>3. prepared'[p].loaded = u /\ prepared'[p].params = SeedParams(u)
        BY <2>2 DEF SystemInv, PreparedInv
    <2>4. born' = born /\ UNCHANGED users
        BY <2>1 DEF SeedLookup, AccountsSame, accountVars
    <2>5. Fits(born, Others, u.id, SeedParams(u), SeedPassword, "seed")
        <3>1. u \in Row /\ u.id \in 1 .. born
            BY DEF SystemInv, AccountsInv, UsersInv, RowsOK
        <3>2. SeedParams(u) \in ParamsType
            BY <3>1, StartupAssumption DEF Row, SeedParams, Params, ParamsType
        <3> QED BY <3>1, <3>2, StartupAssumption, NoneAssumption DEF Fits, SeedParams, Params
    <2>6. Others' = Others
        BY <2>4 DEF Others
    <2>7. Fits(born', Others', prepared'[p].loaded.id, prepared'[p].params, SeedPassword, "seed")
        BY <2>3, <2>4, <2>5, <2>6
    <2> QED BY <2>3, <2>7 DEF UpdateFits
<1>5. PreparedInv'
    BY <1>2, <1>3, <1>4 DEF PreparedInv
<1> QED BY <1>1, <1>5 DEF Holds, SystemInv

LEMMA NextKeepsSystemInv == SystemInv /\ [SystemNext]_systemVars => SystemInv'
<1> SUFFICES ASSUME SystemInv, [SystemNext]_systemVars PROVE SystemInv'
    OBVIOUS
<1>1. CASE Serve \/ UNCHANGED systemVars
    <2>1. Holds
        BY <1>1, NextHolds DEF Serve, systemVars, accountVars, SystemInv
    <2>2. UNCHANGED <<phase, prepared>>
        BY <1>1 DEF Serve, startVars, systemVars
    <2>3. ASSUME NEW q \in Processes, phase'[q] = "seedUpdate"
          PROVE  /\ UpdateFits(prepared[q].loaded.id, prepared[q].params, SeedPassword, "seed")'
                 /\ prepared'[q].params = SeedParams(prepared'[q].loaded)
        BY <2>1, <2>2, <2>3, PreparedStays DEF Holds, SystemInv
    <2> QED BY <2>1, <2>2, <2>3 DEF Holds, SystemInv, PreparedInv
<1>2. ASSUME NEW p \in Processes, Start(p) \/ Stop(p) PROVE SystemInv'
    BY <1>2, StartKeepsSystemInv
<1> QED BY <1>1, <1>2 DEF SystemNext

-----------------------------------------------------------------------------
(* Every write but LinkGoogleID takes the whole row, mostly from what its  *)
(* request loaded some time before; a password is never put back by one    *)
(* that does not set it, in any interleaving of requests, forms and starts. *)
THEOREM PasswordNeverPutBack == SystemSpec => []PasswordIsLastSet
<1>1. SystemInv => PasswordIsLastSet
    BY DEF SystemInv, AccountsInv, UsersInv, PasswordsOK, PasswordIsLastSet
<1> QED BY <1>1, InitSystemInv, NextKeepsSystemInv, PTL DEF SystemSpec

(* The mark of a password that an administrator was given outlives every   *)
(* write but the owner's own password, and goes with that.                 *)
THEOREM MarkOutlivesOtherWrites == SystemSpec => []TemporaryPasswordMarked
<1>1. SystemInv => TemporaryPasswordMarked
    BY DEF SystemInv, AccountsInv, UsersInv, PasswordsOK, Marked, TemporaryPasswordMarked
<1> QED BY <1>1, InitSystemInv, NextKeepsSystemInv, PTL DEF SystemSpec

-----------------------------------------------------------------------------
(* The other tables.  A token is named by a request that is done, and a    *)
(* reset that succeeded leaves no token of that name unused; so none is    *)
(* there for another reset to succeed with.                                *)

Ids == {u.id : u \in users}

TokenRow == [id : Requests, user : Nat, live : BOOLEAN, used : BOOLEAN]
NoteRow == [id : Requests, user : Nat, read : BOOLEAN]

TablesInv ==
    /\ tokens \subseteq TokenRow
    /\ \A t \in tokens : pc[t.id] = "done" /\ t.user \in Ids
    /\ notes \subseteq NoteRow
    /\ \A n \in notes : n.user \in Ids
    /\ files \in [Files -> {"none", "partial", "whole", "deleted"}]
    /\ wins \subseteq Requests \X Requests
    /\ \A w \in wins : pc[w[1]] = "done" /\ \A t \in tokens : t.id = w[1] => t.used
    /\ OneSuccessPerToken

DoneStays == \A q \in Requests : pc[q] = "done" => pc'[q] = "done"

LEMMA MovesOn ==
    ASSUME AccountsInv, NEW r \in Requests, pc[r] # "done", NEW next, NEW l, Goto(r, next, l)
    PROVE  DoneStays
BY DEF AccountsInv, LocsInv, Goto, DoneStays

(* Only deleting a user takes an id away.                                  *)
LEMMA WritesKeepIds ==
    /\ \A id, p, password, by, late : UpdateRow(id, p, password, by, late) => Ids \subseteq Ids'
    /\ \A p, by : CreateRow(p, by) => Ids \subseteq Ids'
    /\ UsersSame => Ids \subseteq Ids'
<1>1. ASSUME NEW id, NEW p, NEW password, NEW by, NEW late, UpdateRow(id, p, password, by, late)
      PROVE  Ids \subseteq Ids'
    <2>1. PICK u \in users : users' = (users \ {u}) \cup {Updated(u, p)}
        BY <1>1 DEF UpdateRow, ByID
    <2>2. Updated(u, p).id = u.id
        BY DEF Updated
    <2> QED BY <2>1, <2>2 DEF Ids
<1>2. ASSUME NEW p, NEW by, CreateRow(p, by) PROVE Ids \subseteq Ids'
    BY <1>2 DEF CreateRow, Ids
<1> QED BY <1>1, <1>2 DEF UsersSame, Ids

LEMMA SameTablesHold ==
    ASSUME TablesInv, UNCHANGED <<tokens, notes, files, wins>>, Ids \subseteq Ids', DoneStays
    PROVE  TablesInv'
BY DEF TablesInv, TokenRow, NoteRow, DoneStays, OneSuccessPerToken

LEMMA SignInTables ==
    ASSUME AccountsInv, TablesInv, NEW r \in Requests, SignIn(r)
    PROVE  TablesInv'
<1>1. pc[r] # "done" /\ \E next, l : Goto(r, next, l)
    BY DEF SignIn, LoginCount, LoginLookup, LoginSession, LoginRecord, Register, GoogleByID,
           GoogleByEmail, GoogleLink, GoogleCreate, Arrives, Finish
<1>2. UNCHANGED <<tokens, notes, files, wins>>
    BY DEF SignIn, LoginCount, LoginLookup, LoginSession, LoginRecord, Register, GoogleByID,
           GoogleByEmail, GoogleLink, GoogleCreate, rest, ghosts
<1>3. Ids \subseteq Ids'
    <2>1. CASE GoogleLink(r)
        <3>1. ASSUME NEW u \in users, users' = (users \ {u}) \cup {[u EXCEPT !.google = loc[r].token]}
              PROVE  Ids \subseteq Ids'
            <4>1. [u EXCEPT !.google = loc[r].token].id = u.id
                BY DEF AccountsInv, UsersInv, RowsOK, Row
            <4> QED BY <3>1, <4>1 DEF Ids
        <3> QED BY <2>1, <3>1, WritesKeepIds DEF GoogleLink, ByID
    <2>2. CASE \E s, password, avatar : Register(r, s, password, avatar)
        BY <2>2, WritesKeepIds DEF Register
    <2>3. CASE GoogleCreate(r)
        BY <2>3, WritesKeepIds DEF GoogleCreate
    <2>4. CASE UNCHANGED users
        BY <2>4 DEF Ids
    <2> QED BY <2>1, <2>2, <2>3, <2>4 DEF SignIn, LoginCount, LoginLookup, LoginSession, LoginRecord,
                  UsersSame, GoogleByID, GoogleByEmail
<1> QED BY <1>1, <1>2, <1>3, MovesOn, SameTablesHold

LEMMA MarkedToken ==
    ASSUME NEW t \in TokenRow
    PROVE  LET v == [t EXCEPT !.used = TRUE]
           IN  v \in TokenRow /\ v.id = t.id /\ v.user = t.user /\ v.used
<1> DEFINE v == [t EXCEPT !.used = TRUE]
<1>1. v \in TokenRow
    BY DEF TokenRow
<1>2. v.id = t.id /\ v.user = t.user
    BY DEF TokenRow
<1>3. v.used
    BY DEF TokenRow
<1> QED BY <1>1, <1>2, <1>3

LEMMA LapsedToken ==
    ASSUME NEW t \in TokenRow
    PROVE  LET v == [t EXCEPT !.live = FALSE]
           IN  v \in TokenRow /\ v.id = t.id /\ v.user = t.user /\ (t.used => v.used)
<1> DEFINE v == [t EXCEPT !.live = FALSE]
<1>1. v \in TokenRow
    BY DEF TokenRow
<1>2. v.id = t.id /\ v.user = t.user
    BY DEF TokenRow
<1>3. t.used => v.used
    BY DEF TokenRow
<1> QED BY <1>1, <1>2, <1>3

LEMMA ReadNote ==
    ASSUME NEW n \in NoteRow
    PROVE  LET v == [n EXCEPT !.read = TRUE] IN v \in NoteRow /\ v.user = n.user
<1> DEFINE v == [n EXCEPT !.read = TRUE]
<1>1. v \in NoteRow
    BY DEF NoteRow
<1>2. v.user = n.user
    BY DEF NoteRow
<1> QED BY <1>1, <1>2

LEMMA MarkUsedTables ==
    ASSUME AccountsInv, TablesInv, NEW r \in Requests, MarkUsed(r)
    PROVE  TablesInv'
<1> DEFINE mine == {t \in tokens : t.id = loc[r].token /\ ~t.used}
           marked == {[t EXCEPT !.used = TRUE] : t \in mine}
<1>1. DoneStays /\ Ids' = Ids /\ UNCHANGED <<notes, files>> /\ tokens' = (tokens \ mine) \cup marked
      /\ wins' = IF mine = {} THEN wins ELSE wins \cup {<<loc[r].token, r>>}
    BY MovesOn DEF MarkUsed, Finish, UsersSame, Ids
<1>2. \A t \in tokens' : /\ t \in TokenRow
                        /\ \E s \in tokens : s.id = t.id /\ s.user = t.user /\ (s.used => t.used)
    <2>2. ASSUME NEW t \in marked
          PROVE  /\ t \in TokenRow
                 /\ \E s \in tokens : s.id = t.id /\ s.user = t.user /\ (s.used => t.used)
        <3>1. PICK s \in mine : t = [s EXCEPT !.used = TRUE]
            BY <2>2
        <3>2. s \in TokenRow
            BY DEF TablesInv
        <3> QED BY <3>1, <3>2, MarkedToken
    <2> QED BY <1>1, <2>2 DEF TablesInv, TokenRow, NoteRow
<1>3. \A t \in tokens' : t.id = loc[r].token => t.used
    BY <1>1 DEF TablesInv, TokenRow, NoteRow
<1>4. \A t \in tokens' : pc'[t.id] = "done" /\ t.user \in Ids'
    BY <1>1, <1>2 DEF TablesInv, TokenRow, NoteRow, DoneStays
<1>5. \A w \in wins : pc'[w[1]] = "done" /\ \A t \in tokens' : t.id = w[1] => t.used
    BY <1>1, <1>2 DEF TablesInv, TokenRow, NoteRow, DoneStays
<1>6. CASE mine = {}
    BY <1>1, <1>2, <1>4, <1>5, <1>6 DEF TablesInv, TokenRow, NoteRow, OneSuccessPerToken
<1>7. CASE mine # {}
    <2>1. PICK t \in tokens : t.id = loc[r].token /\ ~t.used
        BY <1>7
    <2>2. loc[r].token \in Requests /\ pc[loc[r].token] = "done" /\ \A w \in wins : w[1] # loc[r].token
        BY <2>1 DEF TablesInv, TokenRow, NoteRow
    <2>3. wins' = wins \cup {<<loc[r].token, r>>} /\ pc'[loc[r].token] = "done"
        BY <1>1, <1>7, <2>2 DEF DoneStays
    <2>4. OneSuccessPerToken'
        BY <2>2, <2>3 DEF TablesInv, TokenRow, NoteRow, OneSuccessPerToken
    <2>5. \A w \in wins' : pc'[w[1]] = "done" /\ \A u \in tokens' : u.id = w[1] => u.used
        BY <1>3, <1>5, <2>3
    <2>6. wins' \subseteq Requests \X Requests
        BY <2>2, <2>3 DEF TablesInv, TokenRow, NoteRow
    <2> QED BY <1>1, <1>2, <1>4, <2>4, <2>5, <2>6 DEF TablesInv, TokenRow, NoteRow
<1> QED BY <1>6, <1>7

LEMMA OwnAccountTables ==
    ASSUME AccountsInv, TablesInv, NEW r \in Requests, OwnAccount(r)
    PROVE  TablesInv'
<1>1. pc[r] # "done" /\ \E next, l : Goto(r, next, l)
    BY DEF OwnAccount, ForgotLookup, ForgotCreate, ResetFind, ResetLoad, ChangeLoad, SavePassword,
           MarkUsed, ProfileLoad, SaveProfile, DeleteFile, UploadCreate, UploadCopy, MarkRead,
           Arrives, Finish, Load
<1>2. DoneStays
    BY <1>1, MovesOn
<1>3. CASE ForgotCreate(r)
    <2>1. pc'[r] = "done" /\ pc[r] = "issue" /\ UNCHANGED <<users, notes, files, wins>>
        BY <1>3 DEF ForgotCreate, Finish, Goto, ghosts, AccountsInv, LocsInv
    <2>2. ASSUME NEW t \in tokens' \ tokens
          PROVE  t \in TokenRow /\ t.id = r /\ t.user \in Ids
        <3>1. PICK u \in users : t = [id |-> r, user |-> u.id, live |-> TRUE, used |-> FALSE]
            BY <1>3, <2>2 DEF ForgotCreate, ByID
        <3>2. u.id \in Nat /\ u.id \in Ids
            BY DEF AccountsInv, UsersInv, RowsOK, Row, Ids
        <3> QED BY <3>1, <3>2 DEF TokenRow
    <2>3. \A t \in tokens' : t \in TokenRow /\ pc'[t.id] = "done" /\ t.user \in Ids'
        BY <1>2, <2>1, <2>2 DEF TablesInv, TokenRow, NoteRow, DoneStays, Ids, TokenRow
    <2>4. \A w \in wins' : pc'[w[1]] = "done" /\ \A t \in tokens' : t.id = w[1] => t.used
        BY <1>2, <2>1, <2>2 DEF TablesInv, TokenRow, NoteRow, DoneStays
    <2> QED BY <2>1, <2>3, <2>4 DEF TablesInv, TokenRow, NoteRow, OneSuccessPerToken, Ids
<1>4. CASE (\E s : ForgotLookup(r, s)) \/ (\E t, password : ResetFind(r, t, password)) \/ ResetLoad(r)
           \/ (\E id, current, password : ChangeLoad(r, id, current, password))
           \/ (\E id, avatar : ProfileLoad(r, id, avatar))
    <2>1. UNCHANGED <<users, tokens, notes, files, wins>>
        BY <1>4 DEF ForgotLookup, ResetFind, ResetLoad, ChangeLoad, ProfileLoad, rest, ghosts, UsersSame
    <2> QED BY <1>2, <2>1, SameTablesHold DEF Ids
<1>5. CASE SavePassword(r) \/ SaveProfile(r)
    <2>1. UNCHANGED <<tokens, notes, files, wins>> /\ Ids \subseteq Ids'
        BY <1>5, WritesKeepIds DEF SavePassword, SaveProfile, rest
    <2> QED BY <1>2, <2>1, SameTablesHold
<1>6. CASE DeleteFile(r) \/ UploadCopy(r) \/ \E f \in Files : UploadCreate(r, f)
    <2>1. files' \in [Files -> {"none", "partial", "whole", "deleted"}]
        BY <1>6 DEF DeleteFile, UploadCopy, UploadCreate, TablesInv, TokenRow, NoteRow
    <2>2. UNCHANGED <<users, tokens, notes, wins>>
        BY <1>6 DEF DeleteFile, UploadCopy, UploadCreate, UsersSame
    <2> QED BY <1>2, <2>1, <2>2 DEF TablesInv, TokenRow, NoteRow, DoneStays, OneSuccessPerToken, Ids
<1>7. ASSUME NEW n \in notes, MarkRead(r, n) PROVE TablesInv'
    <2> DEFINE v == [n EXCEPT !.read = TRUE]
    <2>1. UNCHANGED <<users, tokens, files, wins>> /\ notes' = (notes \ {n}) \cup {v}
        BY <1>7 DEF MarkRead, UsersSame
    <2>3. v \in NoteRow /\ v.user = n.user
        BY ReadNote DEF TablesInv
    <2> HIDE DEF v
    <2>2. \A m \in notes' : m \in NoteRow /\ m.user \in Ids'
        BY <2>1, <2>3 DEF TablesInv, TokenRow, NoteRow, Ids
    <2> QED BY <1>2, <2>1, <2>2 DEF TablesInv, TokenRow, NoteRow, DoneStays, OneSuccessPerToken, Ids
<1> QED BY <1>3, <1>4, <1>5, <1>6, <1>7, MarkUsedTables DEF OwnAccount

LEMMA AdministerTables ==
    ASSUME AccountsInv, TablesInv, NEW r \in Requests, Administer(r)
    PROVE  TablesInv'
<1>1. pc[r] # "done" /\ \E next, l : Goto(r, next, l)
    BY DEF Administer, AdminCreate, EditLoad, SaveEdit, Deactivate, CreateNote, Arrives, Finish
<1>2. DoneStays
    BY <1>1, MovesOn
<1>3. CASE (\E form : AdminCreate(r, form)) \/ (\E id, form : EditLoad(r, id, form)) \/ SaveEdit(r)
    <2>1. UNCHANGED <<tokens, notes, files, wins>> /\ Ids \subseteq Ids'
        BY <1>3, WritesKeepIds DEF AdminCreate, EditLoad, SaveEdit, rest
    <2> QED BY <1>2, <2>1, SameTablesHold
<1>4. ASSUME NEW id, Deactivate(r, id) PROVE TablesInv'
    <2>1. /\ users' = users \ ByID(id) /\ tokens' = {t \in tokens : t.user # id}
          /\ notes' = {n \in notes : n.user # id} /\ UNCHANGED <<files, wins>>
        BY <1>4 DEF Deactivate
    <2>2. Ids \ {id} \subseteq Ids'
        BY <2>1 DEF Ids, ByID
    <2> QED BY <1>2, <2>1, <2>2 DEF TablesInv, TokenRow, NoteRow, DoneStays, OneSuccessPerToken
<1>5. ASSUME NEW id, CreateNote(r, id) PROVE TablesInv'
    <2>1. UNCHANGED <<users, tokens, files, wins>>
          /\ notes' = notes \cup {[id |-> r, user |-> u.id, read |-> FALSE] : u \in ByID(id)}
        BY <1>5 DEF CreateNote, UsersSame
    <2>2. ASSUME NEW m \in notes' \ notes PROVE m \in NoteRow /\ m.user \in Ids
        <3>1. PICK u \in users : m = [id |-> r, user |-> u.id, read |-> FALSE]
            BY <1>5, <2>2 DEF CreateNote, ByID
        <3>2. u.id \in Nat /\ u.id \in Ids
            BY DEF AccountsInv, UsersInv, RowsOK, Row, Ids
        <3> QED BY <3>1, <3>2 DEF NoteRow
    <2>3. \A m \in notes' : m \in NoteRow /\ m.user \in Ids'
        BY <2>1, <2>2 DEF TablesInv, NoteRow, Ids
    <2> QED BY <1>2, <2>1, <2>3 DEF TablesInv, TokenRow, NoteRow, DoneStays, OneSuccessPerToken, Ids
<1> QED BY <1>3, <1>4, <1>5 DEF Administer

LEMMA TokenLapsesTables ==
    ASSUME TablesInv, NEW t \in tokens, TokenLapses(t)
    PROVE  TablesInv'
<1> DEFINE v == [t EXCEPT !.live = FALSE]
<1>1. tokens' = (tokens \ {t}) \cup {v} /\ UNCHANGED <<users, pc, notes, files, wins>>
    BY DEF TokenLapses, ghosts
<1>3. v \in TokenRow /\ v.id = t.id /\ v.user = t.user /\ (t.used => v.used)
    BY LapsedToken DEF TablesInv
<1> HIDE DEF v
<1>2. \A u \in tokens' : /\ u \in TokenRow /\ pc'[u.id] = "done" /\ u.user \in Ids'
                        /\ \A w \in wins' : u.id = w[1] => u.used
    BY <1>1, <1>3 DEF TablesInv, TokenRow, Ids
<1> QED BY <1>1, <1>2 DEF TablesInv, TokenRow, NoteRow, OneSuccessPerToken, Ids

LEMMA NextKeepsTables == SystemInv /\ TablesInv /\ [SystemNext]_systemVars => TablesInv'
<1> SUFFICES ASSUME SystemInv, TablesInv, [SystemNext]_systemVars PROVE TablesInv'
    OBVIOUS
<1> USE DEF SystemInv
<1>1. ASSUME NEW r \in Requests, Abort(r) PROVE TablesInv'
    <2>1. pc[r] # "done" /\ \E next, l : Goto(r, next, l)
        BY <1>1 DEF Abort, InFlight, Finish
    <2>2. UNCHANGED <<users, tokens, notes, files, wins>>
        BY <1>1 DEF Abort, rest, ghosts
    <2> QED BY <2>1, <2>2, MovesOn, SameTablesHold DEF Ids
<1>2. CASE WindowMoves \/ UNCHANGED systemVars
    BY <1>2, SameTablesHold DEF WindowMoves, UsersSame, systemVars, Ids, DoneStays
<1>3. CASE Serve
    BY <1>1, <1>2, <1>3, SignInTables, OwnAccountTables, AdministerTables, TokenLapsesTables
       DEF Serve, AccountsNext
<1>4. ASSUME NEW p \in Processes, Start(p) \/ Stop(p) PROVE TablesInv'
    <2>1. UNCHANGED <<tokens, notes, files, wins, pc>> /\ Ids \subseteq Ids'
        BY <1>4, WritesKeepIds
           DEF Start, Stop, ReadVersions, ApplyMigration, SeedLookup, SeedCreate, SeedUpdate,
               AccountsSame, accountVars, RequestsSame, Ids
    <2> QED BY <2>1, SameTablesHold DEF DoneStays
<1> QED BY <1>2, <1>3, <1>4 DEF SystemNext

LEMMA InitTablesInv == SystemInit => TablesInv
BY DEF SystemInit, AccountsInit, TablesInv, TokenRow, NoteRow, OneSuccessPerToken

LEMMA SystemInvariant == SystemSpec => [](SystemInv /\ TablesInv)
<1>1. SystemInit => SystemInv /\ TablesInv
    BY InitSystemInv, InitTablesInv
<1>2. SystemInv /\ TablesInv /\ [SystemNext]_systemVars => SystemInv' /\ TablesInv'
    BY NextKeepsSystemInv, NextKeepsTables
<1> QED BY <1>1, <1>2, PTL DEF SystemSpec

(* Two resets with one token may interleave in any way, and the token's    *)
(* user may be deleted in between: one at most is told that it succeeded.  *)
THEOREM TokenSucceedsOnce == SystemSpec => []OneSuccessPerToken
<1>1. TablesInv => OneSuccessPerToken
    BY DEF TablesInv, TokenRow, NoteRow
<1> QED BY <1>1, SystemInvariant, PTL

(* The unique keys and the foreign keys of users hold under all writes.    *)
THEOREM AccountsTyped == SystemSpec => []AccountsTypeOK
<1>1. SystemInv /\ TablesInv => AccountsTypeOK
    <2> SUFFICES ASSUME SystemInv, TablesInv PROVE AccountsTypeOK
        OBVIOUS
    <2>1. \A u \in users : KeysFree(u) /\ (u.super => u.admin) /\ u.id <= born
        BY DEF SystemInv, AccountsInv, UsersInv, RowsOK, KeysFree
    <2>2. \A i \in Ids : ByID(i) # {}
        BY DEF Ids, ByID
    <2> QED BY <2>1, <2>2 DEF SystemInv, AccountsInv, UsersInv, RowsOK, LocsInv, LocOK, TablesInv, TokenRow, NoteRow,
                             TokenRow, NoteRow, AccountsTypeOK
<1> QED BY <1>1, SystemInvariant, PTL

-----------------------------------------------------------------------------
(* The lockout: every failure in the window goes back to one that was not  *)
(* a refusal, and so does every refusal.                                   *)

Blames(scope, b, identifier, address) ==
    CASE scope = "identifier" -> b[1] = identifier
      [] scope = "ip" -> b[2] = address
      [] OTHER -> TRUE

Caused(scope, blame, identifier, address) ==
    \E b \in blame : Blames(scope, b, identifier, address)

Causes == {"success", "lockout", "password", "error"}

Try(b) == [identifier : b.spellings, address : b.addresses, cause : Causes,
           succeeded : BOOLEAN, stored : BOOLEAN]

LoginOK(b, blame, p, l) ==
    /\ p \in LoginPC => l.identifier \in b.spellings /\ l.address \in b.addresses /\ DOMAIN l = DOMAIN NoLoc
    /\ p = "record" => /\ l.cause \in Causes
                       /\ l.cause = "lockout" => Caused(b.scope, blame, l.identifier, l.address)
    /\ p = "refused" => Caused(b.scope, blame, l.identifier, l.address)

TriesInv ==
    /\ tries \in Seq(Try(bound))
    /\ \A i \in DOMAIN tries : tries[i].succeeded \/ Caused(bound.scope, blamed, tries[i].identifier, tries[i].address)
    /\ DOMAIN pc = Requests /\ DOMAIN loc = Requests
    /\ \A r \in Requests : LoginOK(bound, blamed, pc[r], loc[r])

LEMMA CausedStays ==
    ASSUME NEW scope, NEW blame, NEW more, blame \subseteq more, NEW identifier, NEW address,
           Caused(scope, blame, identifier, address)
    PROVE  Caused(scope, more, identifier, address)
BY DEF Caused

LEMMA LoginStays ==
    ASSUME NEW b, NEW blame, NEW more, blame \subseteq more, NEW p, NEW l, LoginOK(b, blame, p, l)
    PROVE  LoginOK(b, more, p, l)
BY CausedStays DEF LoginOK

LEMMA GotoKeepsTries ==
    ASSUME TriesInv, UNCHANGED <<bound, tries, blamed>>, NEW r \in Requests, NEW next, NEW l,
           Goto(r, next, l), LoginOK(bound, blamed, next, l)
    PROVE  TriesInv'
<1>1. DOMAIN pc' = Requests /\ DOMAIN loc' = Requests
      /\ \A q \in Requests : pc'[q] = (IF q = r THEN next ELSE pc[q]) /\ loc'[q] = IF q = r THEN l ELSE loc[q]
    BY DEF TriesInv, Goto
<1>2. \A q \in Requests : LoginOK(bound, blamed, pc'[q], loc'[q])
    BY <1>1 DEF TriesInv
<1> QED BY <1>1, <1>2 DEF TriesInv

Elsewhere == {"googleEmail", "googleLink", "googleCreate", "issue", "resetLoad", "savePassword",
              "markUsed", "saveProfile", "deleteFile", "saveEdit", "copy", "done"}

LEMMA ElsewhereKeepsTries ==
    ASSUME TriesInv, UNCHANGED <<bound, tries, blamed>>, NEW r \in Requests, NEW next \in Elsewhere,
           NEW l, Goto(r, next, l)
    PROVE  TriesInv'
<1>1. LoginOK(bound, blamed, next, l)
    BY DEF LoginOK, Elsewhere, LoginPC
<1> QED BY <1>1, GotoKeepsTries

LEMMA LoginCountKeepsTries ==
    ASSUME TriesInv, bound \in Bounds, NEW r \in Requests, NEW s \in bound.spellings,
           NEW address \in bound.addresses, NEW password, LoginCount(r, s, address, password)
    PROVE  TriesInv'
<1> DEFINE mine == [NoLoc EXCEPT !.identifier = s, !.address = address, !.password = password]
           refusal == [mine EXCEPT !.cause = "lockout"]
           failed == {i \in DOMAIN tries : /\ tries[i].stored /\ ~tries[i].succeeded
                                           /\ Matching(tries[i], s, address)}
<1>1. mine.identifier = s /\ mine.address = address /\ DOMAIN mine = DOMAIN NoLoc
      /\ refusal.identifier = s /\ refusal.address = address /\ DOMAIN refusal = DOMAIN NoLoc
      /\ refusal.cause = "lockout"
    BY DEF NoLoc
<1>2. UNCHANGED <<bound, tries, blamed>>
    BY DEF LoginCount, rest, ghosts
<1>3. CASE LoginAllowed(s, address)
    <2>1. Goto(r, "lookup", mine)
        BY <1>3 DEF LoginCount
    <2> HIDE DEF mine
    <2>2. LoginOK(bound, blamed, "lookup", mine)
        BY <1>1 DEF LoginOK
    <2> QED BY <1>2, <2>1, <2>2, GotoKeepsTries
<1>4. CASE ~LoginAllowed(s, address)
    <2>1. Goto(r, "record", refusal)
        BY <1>4 DEF LoginCount
    <2>2. PICK i \in DOMAIN tries : ~tries[i].succeeded /\ Matching(tries[i], s, address)
        <3>1. CASE failed = {}
            <4>1. CountRecentFailed(s, address) = 0
                BY <3>1, FS_EmptySet DEF CountRecentFailed
            <4> QED BY <1>4, <4>1, AttemptsAssumption DEF LoginAllowed
        <3>2. CASE failed # {}
            BY <3>2
        <3> QED BY <3>1, <3>2
    <2>3. PICK b \in blamed : Blames(bound.scope, b, tries[i].identifier, tries[i].address)
        BY <2>2 DEF TriesInv, Caused
    <2>4. Blames(bound.scope, b, s, address)
        BY <2>2, <2>3, BoundsAssumption DEF Blames, Matching
    <2> HIDE DEF mine, refusal, failed
    <2>5. LoginOK(bound, blamed, "record", refusal)
        BY <1>1, <2>4 DEF LoginOK, Causes, Caused
    <2> QED BY <1>2, <2>1, <2>5, GotoKeepsTries
<1> QED BY <1>3, <1>4

(* The lookup, the session and a failure lead to the record.               *)
LEMMA LoginGoesOn ==
    ASSUME TriesInv, NEW r \in Requests, pc[r] \in LoginPC, UNCHANGED <<bound, tries, blamed>>,
           \/ \E id : Goto(r, "session", [loc[r] EXCEPT !.user = id])
           \/ \E cause \in Causes \ {"lockout"} : Goto(r, "record", [loc[r] EXCEPT !.cause = cause])
    PROVE  TriesInv'
<1>1. loc[r].identifier \in bound.spellings /\ loc[r].address \in bound.addresses /\ DOMAIN loc[r] = DOMAIN NoLoc
    BY DEF TriesInv, LoginOK
<1>2. ASSUME NEW id, Goto(r, "session", [loc[r] EXCEPT !.user = id]) PROVE TriesInv'
    <2> DEFINE l == [loc[r] EXCEPT !.user = id]
    <2>1. l.identifier = loc[r].identifier /\ l.address = loc[r].address /\ DOMAIN l = DOMAIN NoLoc
        BY <1>1
    <2> HIDE DEF l
    <2>2. LoginOK(bound, blamed, "session", l)
        BY <1>1, <2>1 DEF LoginOK
    <2>3. Goto(r, "session", l)
        BY <1>2 DEF l
    <2> QED BY <2>2, <2>3, GotoKeepsTries
<1>3. ASSUME NEW cause \in Causes \ {"lockout"}, Goto(r, "record", [loc[r] EXCEPT !.cause = cause])
      PROVE  TriesInv'
    <2> DEFINE l == [loc[r] EXCEPT !.cause = cause]
    <2>1. l.identifier = loc[r].identifier /\ l.address = loc[r].address /\ DOMAIN l = DOMAIN NoLoc
          /\ l.cause = cause
        BY <1>1 DEF NoLoc
    <2>2. Goto(r, "record", l)
        BY <1>3
    <2> HIDE DEF l
    <2>3. LoginOK(bound, blamed, "record", l)
        BY <1>1, <2>1 DEF LoginOK
    <2> QED BY <2>2, <2>3, GotoKeepsTries
<1> QED BY <1>2, <1>3

LEMMA AttemptFields ==
    ASSUME TriesInv, NEW r \in Requests, pc[r] = "record", NEW stored \in BOOLEAN
    PROVE  /\ Attempt(r, stored) \in Try(bound)
           /\ Attempt(r, stored).identifier = loc[r].identifier /\ Attempt(r, stored).address = loc[r].address
           /\ Attempt(r, stored).succeeded <=> loc[r].cause = "success"
<1>1. loc[r].identifier \in bound.spellings /\ loc[r].address \in bound.addresses /\ loc[r].cause \in Causes
    BY DEF TriesInv, LoginOK, LoginPC
<1>2. (loc[r].cause = "success") \in BOOLEAN
    OBVIOUS
<1>3. Attempt(r, stored) \in Try(bound)
    BY <1>1, <1>2 DEF Attempt, Try
<1> QED BY <1>3 DEF Attempt

LEMMA LoginRecordKeepsTries ==
    ASSUME TriesInv, NEW r \in Requests, LoginRecord(r)
    PROVE  TriesInv'
<1> DEFINE blame == IF loc[r].cause \in {"password", "error"}
                    THEN blamed \cup {<<loc[r].identifier, loc[r].address>>} ELSE blamed
           next == IF loc[r].cause = "lockout" THEN "refused" ELSE "done"
           l == [NoLoc EXCEPT !.identifier = loc[r].identifier, !.address = loc[r].address]
<1>1. l.identifier = loc[r].identifier /\ l.address = loc[r].address
    BY DEF NoLoc
<1>2. PICK stored \in BOOLEAN : tries' = Append(tries, Attempt(r, stored))
    BY DEF LoginRecord
<1>3. blamed' = blame /\ Goto(r, next, l) /\ bound' = bound /\ blamed \subseteq blame
    BY DEF LoginRecord
<1>4. loc[r].cause \in Causes /\ (loc[r].cause = "lockout" => Caused(bound.scope, blamed, loc[r].identifier, loc[r].address))
    BY DEF LoginRecord, TriesInv, LoginOK
<1>5. loc[r].cause = "success" \/ Caused(bound.scope, blame, loc[r].identifier, loc[r].address)
    <2>1. CASE loc[r].cause = "lockout"
        BY <1>3, <1>4, <2>1, CausedStays
    <2>2. CASE loc[r].cause \in {"password", "error"}
        <3>1. <<loc[r].identifier, loc[r].address>> \in blame
            BY <2>2
        <3>2. Blames(bound.scope, <<loc[r].identifier, loc[r].address>>, loc[r].identifier, loc[r].address)
            BY DEF Blames
        <3> QED BY <3>1, <3>2 DEF Caused
    <2> QED BY <1>4, <2>1, <2>2 DEF Causes
<1>6. LoginOK(bound, blame, next, l)
    <2>1. next = "refused" => Caused(bound.scope, blame, l.identifier, l.address)
        BY <1>1, <1>3, <1>4, CausedStays
    <2> QED BY <2>1 DEF LoginOK, LoginPC
<1> HIDE DEF blame, next, l
<1>7. DOMAIN pc' = Requests /\ DOMAIN loc' = Requests
      /\ \A q \in Requests : pc'[q] = (IF q = r THEN next ELSE pc[q]) /\ loc'[q] = IF q = r THEN l ELSE loc[q]
    BY <1>3 DEF TriesInv, Goto
<1>8. \A q \in Requests : LoginOK(bound, blame, pc'[q], loc'[q])
    BY <1>3, <1>6, <1>7, LoginStays DEF TriesInv
<1>9. /\ tries' \in Seq(Try(bound))
      /\ \A i \in DOMAIN tries' : tries'[i].succeeded \/ Caused(bound.scope, blame, tries'[i].identifier, tries'[i].address)
    <2> DEFINE t == Attempt(r, stored)
    <2>1. t \in Try(bound) /\ (t.succeeded \/ Caused(bound.scope, blame, t.identifier, t.address))
        <3>1. pc[r] = "record"
            BY DEF LoginRecord
        <3> QED BY <1>5, <3>1, AttemptFields
    <2> HIDE DEF t
    <2>2. tries' = Append(tries, t) /\ tries \in Seq(Try(bound))
        BY <1>2 DEF t, TriesInv
    <2>3. \A i \in DOMAIN tries : tries[i].succeeded \/ Caused(bound.scope, blame, tries[i].identifier, tries[i].address)
        BY <1>3, CausedStays DEF TriesInv
    <2>4. \A i \in DOMAIN tries' : (i \in DOMAIN tries /\ tries'[i] = tries[i]) \/ tries'[i] = t
        BY <2>1, <2>2
    <2>5. tries' \in Seq(Try(bound))
        BY <2>1, <2>2
    <2> QED BY <2>1, <2>3, <2>4, <2>5
<1> QED BY <1>3, <1>7, <1>8, <1>9 DEF TriesInv

LEMMA WindowMovesKeepsTries ==
    ASSUME TriesInv, WindowMoves
    PROVE  TriesInv'
<1>1. tries \in Seq(Try(bound)) /\ tries # <<>> /\ tries' = Tail(tries) /\ UNCHANGED <<bound, pc, loc, blamed>>
    BY DEF TriesInv, WindowMoves
<1>2. tries' \in Seq(Try(bound)) /\ \A i \in DOMAIN tries' : i + 1 \in DOMAIN tries /\ tries'[i] = tries[i + 1]
    BY <1>1
<1> QED BY <1>1, <1>2 DEF TriesInv

LEMMA SignInKeepsTries ==
    ASSUME TriesInv, bound \in Bounds, NEW r \in Requests, SignIn(r)
    PROVE  TriesInv'
<1>1. CASE \E s \in bound.spellings, password \in bound.passwords, address \in bound.addresses :
               LoginCount(r, s, address, password)
    BY <1>1, LoginCountKeepsTries
<1>2. CASE LoginLookup(r) \/ LoginSession(r)
    <2>1. pc[r] \in LoginPC /\ UNCHANGED <<bound, tries, blamed>>
        BY <1>2 DEF LoginLookup, LoginSession, LoginPC, rest, ghosts
    <2>2. \/ \E id : Goto(r, "session", [loc[r] EXCEPT !.user = id])
          \/ \E cause \in Causes \ {"lockout"} : Goto(r, "record", [loc[r] EXCEPT !.cause = cause])
        BY <1>2 DEF LoginLookup, LoginSession, Causes
    <2> QED BY <2>1, <2>2, LoginGoesOn
<1>3. CASE \/ \E s, password, avatar : Register(r, s, password, avatar)
           \/ \E subject, s : GoogleByID(r, subject, s)
           \/ GoogleByEmail(r) \/ GoogleLink(r) \/ GoogleCreate(r)
    <2>1. \E next \in Elsewhere : \E l : Goto(r, next, l)
        BY <1>3 DEF Register, GoogleByID, GoogleByEmail, GoogleLink, GoogleCreate, Finish, Elsewhere
    <2>2. UNCHANGED <<bound, tries, blamed>>
        BY <1>3 DEF Register, GoogleByID, GoogleByEmail, GoogleLink, GoogleCreate, rest, ghosts
    <2> QED BY <2>1, <2>2, ElsewhereKeepsTries
<1> QED BY <1>1, <1>2, <1>3, LoginRecordKeepsTries DEF SignIn

LEMMA NextKeepsTries == TriesInv /\ bound \in Bounds /\ [AccountsNext]_accountVars => TriesInv'
<1> SUFFICES ASSUME TriesInv, bound \in Bounds, [AccountsNext]_accountVars PROVE TriesInv'
    OBVIOUS
<1>1. ASSUME NEW r \in Requests, OwnAccount(r) \/ Administer(r) PROVE TriesInv'
    <2>1. CASE OwnAccount(r)
        <3>1. \E next \in Elsewhere : \E l : Goto(r, next, l)
            BY <2>1 DEF OwnAccount, ForgotLookup, ForgotCreate, ResetFind, ResetLoad, ChangeLoad, SavePassword,
                   MarkUsed, ProfileLoad, SaveProfile, DeleteFile, UploadCreate, UploadCopy, MarkRead,
                   Finish, Load, Elsewhere
        <3>2. UNCHANGED <<bound, tries, blamed>>
            BY <2>1 DEF OwnAccount, ForgotLookup, ForgotCreate, ResetFind, ResetLoad, ChangeLoad, SavePassword,
                   MarkUsed, ProfileLoad, SaveProfile, DeleteFile, UploadCreate, UploadCopy, MarkRead, rest, ghosts
        <3> QED BY <3>1, <3>2, ElsewhereKeepsTries
    <2>2. CASE Administer(r)
        <3>1. \E next \in Elsewhere : \E l : Goto(r, next, l)
            BY <2>2 DEF Administer, AdminCreate, EditLoad, SaveEdit, Deactivate, CreateNote, Finish, Elsewhere
        <3>2. UNCHANGED <<bound, tries, blamed>>
            BY <2>2 DEF Administer, AdminCreate, EditLoad, SaveEdit, Deactivate, CreateNote, rest
        <3> QED BY <3>1, <3>2, ElsewhereKeepsTries
    <2> QED BY <1>1, <2>1, <2>2
<1>2. ASSUME NEW r \in Requests, Abort(r) PROVE TriesInv'
    <2>1. UNCHANGED <<bound, tries, blamed>>
        BY <1>2 DEF Abort, rest, ghosts
    <2>2. CASE pc[r] \in LoginPC
        <3>1. Goto(r, "record", [loc[r] EXCEPT !.cause = "error"])
            BY <1>2, <2>2 DEF Abort
        <3> QED BY <2>1, <2>2, <3>1, LoginGoesOn DEF Causes
    <2>3. CASE pc[r] \notin LoginPC
        BY <1>2, <2>1, <2>3, ElsewhereKeepsTries DEF Abort, Finish, Elsewhere
    <2> QED BY <2>2, <2>3
<1>3. ASSUME NEW t, TokenLapses(t) PROVE TriesInv'
    BY <1>3 DEF TokenLapses, ghosts, TriesInv
<1>4. CASE UNCHANGED accountVars
    BY <1>4 DEF accountVars, TriesInv
<1> QED BY <1>1, <1>2, <1>3, <1>4, SignInKeepsTries, WindowMovesKeepsTries DEF AccountsNext

LEMMA TriesInvariant == SystemSpec => []TriesInv
<1>1. SystemInit => TriesInv
    BY DEF SystemInit, AccountsInit, TriesInv, LoginOK, LoginPC
<1>2. TriesInv /\ bound \in Bounds /\ [SystemNext]_systemVars => TriesInv'
    <2> SUFFICES ASSUME TriesInv, bound \in Bounds, [SystemNext]_systemVars PROVE TriesInv'
        OBVIOUS
    <2>1. ASSUME NEW p \in Processes, Start(p) \/ Stop(p) PROVE TriesInv'
        <3>1. UNCHANGED <<bound, tries, blamed, pc, loc>>
            BY <2>1 DEF Start, Stop, ReadVersions, ApplyMigration, SeedLookup, SeedCreate, SeedUpdate,
                        AccountsSame, accountVars, RequestsSame
        <3> QED BY <3>1 DEF TriesInv
    <2> QED BY <2>1, NextKeepsTries DEF SystemNext, Serve, systemVars, accountVars
<1>3. SystemInv /\ TablesInv => bound \in Bounds
    BY DEF SystemInv, AccountsInv
<1> QED BY <1>1, <1>2, <1>3, SystemInvariant, PTL DEF SystemSpec

(* Refusals are recorded as failures and keep a lockout going, also past   *)
(* the time the first failures leave the window; but none ever started by  *)
(* itself, in each of the three scopes.                                    *)
THEOREM LockoutStartsWithFailure == SystemSpec => []LockoutHasCause
<1>1. TriesInv => LockoutHasCause
    BY DEF TriesInv, LoginOK, Caused, Blames, LockoutHasCause
<1> QED BY <1>1, TriesInvariant, PTL

-----------------------------------------------------------------------------
(* The lockout's limit.  Logins that limit each other hold, together, one  *)
(* more place than there are failures stored when the last of them was     *)
(* admitted: what is stored and what may still be compared or stored never *)
(* outgrows what the count before the comparison left.                     *)

(* Pairs of a name and an address of which each is counted against each.   *)
LimitEachOther(K) ==
    \A j, k \in K : Matching([identifier |-> j[1], address |-> j[2]], k[1], k[2])

(* Stored rows of wrong passwords of K, and where they are in a sequence.  *)
Wrong(K) == {t \in Try(bound) : t.stored /\ t.cause = "password" /\ <<t.identifier, t.address>> \in K}
Picked(rows, T) == {i \in DOMAIN rows : rows[i] \in T}

(* Logins of K that may still leave one.                                   *)
Compares(p, l, K) ==
    /\ p = "lookup" \/ (p = "record" /\ l.cause = "password")
    /\ <<l.identifier, l.address>> \in K
Comparing(K) == {q \in Requests : Compares(pc[q], loc[q], K)}

Logins == {q \in Requests : pc[q] \in LoginPC}

Room(K) ==
    /\ IsFiniteSet(Comparing(K))
    /\ Cardinality(Picked(tries, Wrong(K))) + Cardinality(Comparing(K)) <= MaxAttempts + bound.together - 1

GuessInv ==
    /\ IsFiniteSet(Logins)
    /\ \A i \in DOMAIN tries : tries[i].succeeded => tries[i].cause = "success"
    /\ \A K \in SUBSET (bound.spellings \X bound.addresses) : LimitEachOther(K) => Room(K)

LEMMA PickedIsFinite ==
    ASSUME NEW S, NEW rows \in Seq(S), NEW T
    PROVE  IsFiniteSet(Picked(rows, T)) /\ Cardinality(Picked(rows, T)) \in Nat
<1>1. DOMAIN rows = 1 .. Len(rows) /\ Len(rows) \in Nat /\ IsFiniteSet(1 .. Len(rows))
    BY FS_Interval
<1> QED BY <1>1, FS_Subset, FS_CardinalityType DEF Picked

LEMMA PickedOfAppend ==
    ASSUME NEW S, NEW rows \in Seq(S), NEW t \in S, NEW T
    PROVE  Cardinality(Picked(Append(rows, t), T)) = Cardinality(Picked(rows, T)) + IF t \in T THEN 1 ELSE 0
<1> DEFINE n == Len(rows) + 1
           old == Picked(rows, T)
           new == Picked(Append(rows, t), T)
<1>1. n \in Nat /\ n \notin old /\ IsFiniteSet(old) /\ Cardinality(old) \in Nat
    <2>1. n \in Nat /\ n \notin old
        BY DEF Picked
    <2> QED BY <2>1, PickedIsFinite
<1>2. new = IF t \in T THEN old \cup {n} ELSE old
    <2>1. \A i : i \in DOMAIN Append(rows, t) <=> i \in DOMAIN rows \/ i = n
        OBVIOUS
    <2>2. Append(rows, t)[n] = t /\ \A i \in DOMAIN rows : Append(rows, t)[i] = rows[i]
        OBVIOUS
    <2>3. n \notin DOMAIN rows
        OBVIOUS
    <2> QED BY <2>1, <2>2, <2>3 DEF Picked
<1> HIDE DEF n, old, new
<1>3. t \in T => Cardinality(new) = Cardinality(old) + 1
    BY <1>1, <1>2, FS_AddElement
<1>4. t \notin T => Cardinality(new) = Cardinality(old)
    BY <1>2
<1> QED BY <1>1, <1>3, <1>4 DEF old, new

LEMMA PickedOfTail ==
    ASSUME NEW S, NEW rows \in Seq(S), rows # <<>>, NEW T
    PROVE  Cardinality(Picked(Tail(rows), T)) <= Cardinality(Picked(rows, T))
<1> DEFINE old == Picked(rows, T)
           new == Picked(Tail(rows), T)
           f == [i \in new |-> i + 1]
<1>1. IsFiniteSet(old)
    BY PickedIsFinite
<1>2. \A i \in new : i \in Nat /\ i + 1 \in old
    BY DEF Picked
<1>3. f \in Injection(new, old)
    BY <1>2 DEF Injection, IsInjective
<1> QED BY <1>1, <1>3, FS_Injection

(* A step of r that brings it nowhere it could compare a password from     *)
(* keeps the limit.                                                        *)
LEMMA ComparingShrinks ==
    ASSUME TriesInv, GuessInv, bound \in Bounds, UNCHANGED <<bound, tries>>,
           NEW r \in Requests, NEW next, NEW l, Goto(r, next, l),
           \A K \in SUBSET (bound.spellings \X bound.addresses) :
               Compares(next, l, K) => Compares(pc[r], loc[r], K)
    PROVE  GuessInv'
<1>1. \A q \in Requests : pc'[q] = (IF q = r THEN next ELSE pc[q]) /\ loc'[q] = IF q = r THEN l ELSE loc[q]
    BY DEF TriesInv, Goto
<1>2. IsFiniteSet(Logins')
    <2>1. Logins' \subseteq Logins \cup {r}
        BY <1>1 DEF Logins
    <2> QED BY <2>1, FS_AddElement, FS_Subset DEF GuessInv
<1>3. ASSUME NEW K \in SUBSET (bound.spellings \X bound.addresses), LimitEachOther(K) PROVE Room(K)'
    <2>1. Comparing(K)' \subseteq Comparing(K)
        BY <1>1 DEF Comparing
    <2>2. Room(K) /\ Wrong(K)' = Wrong(K)
        BY <1>3 DEF GuessInv, Wrong
    <2>3. IsFiniteSet(Comparing(K)') /\ Cardinality(Comparing(K)') <= Cardinality(Comparing(K))
          /\ Cardinality(Comparing(K)') \in Nat /\ Cardinality(Comparing(K)) \in Nat
        BY <2>1, <2>2, FS_Subset, FS_CardinalityType DEF Room
    <2>4. Cardinality(Picked(tries, Wrong(K))) \in Nat /\ Picked(tries, Wrong(K))' = Picked(tries, Wrong(K))
        BY <2>2, PickedIsFinite DEF TriesInv, Picked
    <2> QED BY <2>2, <2>3, <2>4, AttemptsAssumption, BoundsAssumption DEF Room
<1>4. \A K : LimitEachOther(K)' = LimitEachOther(K)
    BY DEF LimitEachOther, Matching
<1> QED BY <1>2, <1>3, <1>4 DEF GuessInv

(* A login is admitted when fewer failures are stored than the limit.      *)
LEMMA AdmissionKeepsRoom ==
    ASSUME TriesInv, GuessInv, bound \in Bounds, NEW r \in Requests, NEW s \in bound.spellings,
           NEW address \in bound.addresses, NEW password, LoginCount(r, s, address, password)
    PROVE  GuessInv'
<1> DEFINE mine == [NoLoc EXCEPT !.identifier = s, !.address = address, !.password = password]
           refusal == [mine EXCEPT !.cause = "lockout"]
           failed == {i \in DOMAIN tries : /\ tries[i].stored /\ ~tries[i].succeeded
                                           /\ Matching(tries[i], s, address)}
<1>1. mine.identifier = s /\ mine.address = address /\ refusal.cause = "lockout"
    BY DEF NoLoc
<1>2. UNCHANGED <<bound, tries>> /\ LoginsNow < bound.together /\ pc[r] = "idle"
    BY DEF LoginCount, rest, Arrives
<1>3. CASE ~LoginAllowed(s, address)
    <2>1. Goto(r, "record", refusal)
        BY <1>3 DEF LoginCount
    <2> HIDE DEF refusal
    <2>2. \A K : ~Compares("record", refusal, K)
        BY <1>1 DEF Compares
    <2> QED BY <1>2, <2>1, <2>2, ComparingShrinks
<1>4. CASE LoginAllowed(s, address)
    <2>1. Goto(r, "lookup", mine) /\ Cardinality(failed) < MaxAttempts
        BY <1>4 DEF LoginCount, LoginAllowed, CountRecentFailed
    <2> HIDE DEF mine, failed
    <2>2. \A q \in Requests : pc'[q] = (IF q = r THEN "lookup" ELSE pc[q]) /\ loc'[q] = IF q = r THEN mine ELSE loc[q]
        BY <2>1 DEF TriesInv, Goto
    <2>3. IsFiniteSet(Logins')
        <3>1. Logins' = Logins \cup {r}
            BY <2>2 DEF Logins, LoginPC
        <3> QED BY <3>1, FS_AddElement DEF GuessInv
    <2>4. ASSUME NEW K \in SUBSET (bound.spellings \X bound.addresses), LimitEachOther(K) PROVE Room(K)'
        <3>1. Room(K) /\ Picked(tries, Wrong(K))' = Picked(tries, Wrong(K))
            BY <1>2, <2>4 DEF GuessInv, Wrong, Picked
        <3>2. CASE <<s, address>> \notin K
            <4>1. Comparing(K)' = Comparing(K)
                BY <1>1, <1>2, <2>2, <3>2 DEF Comparing, Compares
            <4> QED BY <1>2, <3>1, <4>1 DEF Room
        <3>3. CASE <<s, address>> \in K
            <4>1. Comparing(K)' = Comparing(K) \cup {r} /\ r \notin Comparing(K)
                BY <1>1, <1>2, <2>2, <3>3 DEF Comparing, Compares
            <4>2. IsFiniteSet(Comparing(K)') /\ Cardinality(Comparing(K)') = Cardinality(Comparing(K)) + 1
                BY <3>1, <4>1, FS_AddElement DEF Room
            <4>3. Cardinality(Comparing(K)) \in Nat /\ Cardinality(Comparing(K)) < bound.together
                <5>1. Comparing(K) \subseteq Logins
                    BY DEF Comparing, Compares, Logins, LoginPC
                <5>2. Cardinality(Comparing(K)) \in Nat /\ Cardinality(Comparing(K)) <= Cardinality(Logins)
                      /\ Cardinality(Logins) \in Nat
                    BY <5>1, FS_Subset, FS_CardinalityType DEF GuessInv
                <5>3. Cardinality(Logins) < bound.together
                    BY <1>2 DEF LoginsNow, Logins
                <5> QED BY <5>2, <5>3, BoundsAssumption
            <4>4. Cardinality(Picked(tries, Wrong(K))) \in Nat /\ Cardinality(Picked(tries, Wrong(K))) < MaxAttempts
                <5>1. Picked(tries, Wrong(K)) \subseteq failed
                    <6> SUFFICES ASSUME NEW i \in Picked(tries, Wrong(K)) PROVE i \in failed
                        OBVIOUS
                    <6>1. i \in DOMAIN tries /\ tries[i] \in Wrong(K)
                        BY DEF Picked
                    <6>2. tries[i].stored /\ ~tries[i].succeeded
                        BY <6>1 DEF GuessInv, Wrong
                    <6>3. Matching([identifier |-> tries[i].identifier, address |-> tries[i].address], s, address)
                        BY <2>4, <3>3, <6>1 DEF LimitEachOther, Wrong
                    <6> QED BY <6>1, <6>2, <6>3 DEF failed, Matching
                <5>2. IsFiniteSet(failed) /\ Cardinality(failed) \in Nat
                    <6>1. failed \subseteq DOMAIN tries /\ DOMAIN tries = 1 .. Len(tries) /\ Len(tries) \in Nat
                        BY DEF failed, TriesInv
                    <6>2. IsFiniteSet(1 .. Len(tries))
                        BY <6>1, FS_Interval
                    <6>3. IsFiniteSet(failed)
                        BY <6>1, <6>2, FS_Subset
                    <6> QED BY <6>3, FS_CardinalityType
                <5>3. Cardinality(Picked(tries, Wrong(K))) <= Cardinality(failed)
                    BY <5>1, <5>2, FS_Subset
                <5> QED BY <2>1, <5>2, <5>3, PickedIsFinite, AttemptsAssumption DEF TriesInv
            <4> QED BY <1>2, <3>1, <4>2, <4>3, <4>4, AttemptsAssumption, BoundsAssumption DEF Room
        <3> QED BY <3>2, <3>3
    <2>5. \A K : LimitEachOther(K)' = LimitEachOther(K)
        BY <1>2 DEF LimitEachOther, Matching
    <2> QED BY <1>2, <2>3, <2>4, <2>5 DEF GuessInv
<1> QED BY <1>3, <1>4

(* Its row takes the place that the login held.                            *)
LEMMA RecordKeepsRoom ==
    ASSUME TriesInv, GuessInv, bound \in Bounds, NEW r \in Requests, LoginRecord(r)
    PROVE  GuessInv'
<1>1. PICK stored \in BOOLEAN : tries' = Append(tries, Attempt(r, stored))
    BY DEF LoginRecord
<1> DEFINE t == Attempt(r, stored)
<1>2. /\ t \in Try(bound)
      /\ t.identifier = loc[r].identifier /\ t.address = loc[r].address /\ t.cause = loc[r].cause
      /\ t.succeeded => t.cause = "success"
    <2>1. pc[r] = "record"
        BY DEF LoginRecord
    <2>2. t.cause = loc[r].cause
        BY DEF Attempt
    <2> QED BY <2>1, <2>2, AttemptFields
<1>3. tries' = Append(tries, t) /\ tries \in Seq(Try(bound)) /\ bound' = bound /\ pc[r] = "record"
    BY <1>1 DEF LoginRecord, TriesInv
<1> HIDE DEF t
<1>4. PICK next, l : next \in {"refused", "done"} /\ Goto(r, next, l)
    BY DEF LoginRecord
<1>5. \A q \in Requests : pc'[q] = (IF q = r THEN next ELSE pc[q]) /\ loc'[q] = IF q = r THEN l ELSE loc[q]
    BY <1>4 DEF TriesInv, Goto
<1>6. IsFiniteSet(Logins')
    <2>1. Logins' \subseteq Logins
        BY <1>4, <1>5 DEF Logins, LoginPC
    <2> QED BY <2>1, FS_Subset DEF GuessInv
<1>7. \A i \in DOMAIN tries' : tries'[i].succeeded => tries'[i].cause = "success"
    <2>1. \A i \in DOMAIN tries' : (i \in DOMAIN tries /\ tries'[i] = tries[i]) \/ tries'[i] = t
        BY <1>2, <1>3
    <2> QED BY <1>2, <2>1 DEF GuessInv
<1>8. ASSUME NEW K \in SUBSET (bound.spellings \X bound.addresses), LimitEachOther(K) PROVE Room(K)'
    <2> DEFINE rows == Cardinality(Picked(tries, Wrong(K)))
               more == Cardinality(Picked(tries', Wrong(K)))
               now == Cardinality(Comparing(K))
               then == Cardinality(Comparing(K)')
    <2>1. Room(K) /\ Wrong(K)' = Wrong(K) /\ Picked(tries, Wrong(K))' = Picked(tries', Wrong(K))
        BY <1>3, <1>8 DEF GuessInv, Wrong, Picked
    <2>2. Comparing(K)' = Comparing(K) \ {r}
        BY <1>4, <1>5 DEF Comparing, Compares
    <2>3. IsFiniteSet(Comparing(K)') /\ then = IF r \in Comparing(K) THEN now - 1 ELSE now
        BY <2>1, <2>2, FS_RemoveElement DEF Room
    <2>4. more = rows + IF t \in Wrong(K) THEN 1 ELSE 0
        BY <1>2, <1>3, PickedOfAppend
    <2>5. t \in Wrong(K) => r \in Comparing(K)
        BY <1>2, <1>3 DEF Wrong, Comparing, Compares
    <2>6. rows \in Nat /\ now \in Nat /\ rows + now <= MaxAttempts + bound.together - 1
        BY <1>3, <2>1, PickedIsFinite, FS_CardinalityType DEF Room
    <2> HIDE DEF rows, more, now, then
    <2>7. then \in Int /\ more \in Int /\ more + then <= rows + now
        BY <2>3, <2>4, <2>5, <2>6
    <2>8. more + then <= MaxAttempts + bound.together - 1
        BY <2>6, <2>7, AttemptsAssumption, BoundsAssumption
    <2> QED BY <1>3, <2>1, <2>3, <2>8 DEF Room, more, then
<1>9. \A K : LimitEachOther(K)' = LimitEachOther(K)
    BY <1>3 DEF LimitEachOther, Matching
<1> QED BY <1>3, <1>6, <1>7, <1>8, <1>9 DEF GuessInv

LEMMA WindowKeepsRoom ==
    ASSUME TriesInv, GuessInv, bound \in Bounds, WindowMoves
    PROVE  GuessInv'
<1>1. tries \in Seq(Try(bound)) /\ tries # <<>> /\ tries' = Tail(tries) /\ UNCHANGED <<bound, pc, loc>>
    BY DEF TriesInv, WindowMoves
<1>2. \A i \in DOMAIN tries' : i + 1 \in DOMAIN tries /\ tries'[i] = tries[i + 1]
    BY <1>1
<1>3. tries' \in Seq(Try(bound))
    BY <1>1
<1>4. ASSUME NEW K \in SUBSET (bound.spellings \X bound.addresses), LimitEachOther(K) PROVE Room(K)'
    <2>1. Room(K) /\ Comparing(K)' = Comparing(K) /\ Picked(tries, Wrong(K))' = Picked(tries', Wrong(K))
        BY <1>1, <1>4 DEF GuessInv, Comparing, Compares, Wrong, Picked
    <2>2. Cardinality(Picked(tries', Wrong(K))) <= Cardinality(Picked(tries, Wrong(K)))
        BY <1>1, PickedOfTail
    <2>3. Cardinality(Picked(tries', Wrong(K))) \in Nat /\ Cardinality(Picked(tries, Wrong(K))) \in Nat
        BY <1>1, <1>3, PickedIsFinite
    <2>4. Cardinality(Comparing(K)) \in Nat
        BY <2>1, FS_CardinalityType DEF Room
    <2> QED BY <1>1, <2>1, <2>2, <2>3, <2>4, AttemptsAssumption, BoundsAssumption DEF Room
<1>5. \A K : LimitEachOther(K)' = LimitEachOther(K)
    BY <1>1 DEF LimitEachOther, Matching
<1>6. Logins' = Logins
    BY <1>1 DEF Logins
<1> QED BY <1>1, <1>2, <1>4, <1>5, <1>6 DEF GuessInv

LEMMA NextKeepsRoom == TriesInv /\ GuessInv /\ bound \in Bounds /\ [AccountsNext]_accountVars => GuessInv'
<1> SUFFICES ASSUME TriesInv, GuessInv, bound \in Bounds, [AccountsNext]_accountVars PROVE GuessInv'
    OBVIOUS
<1>0. ASSUME NEW r \in Requests, NEW next \in Elsewhere, NEW l, Goto(r, next, l), UNCHANGED <<bound, tries>>
      PROVE  GuessInv'
    <2>1. \A K : ~Compares(next, l, K)
        BY DEF Elsewhere, Compares
    <2> QED BY <1>0, <2>1, ComparingShrinks
<1>1. ASSUME NEW r \in Requests, OwnAccount(r) PROVE GuessInv'
    <2>1. \E next \in Elsewhere : \E l : Goto(r, next, l)
        BY <1>1 DEF OwnAccount, ForgotLookup, ForgotCreate, ResetFind, ResetLoad, ChangeLoad, SavePassword,
               MarkUsed, ProfileLoad, SaveProfile, DeleteFile, UploadCreate, UploadCopy, MarkRead,
               Finish, Load, Elsewhere
    <2>2. UNCHANGED <<bound, tries>>
        BY <1>1 DEF OwnAccount, ForgotLookup, ForgotCreate, ResetFind, ResetLoad, ChangeLoad, SavePassword,
               MarkUsed, ProfileLoad, SaveProfile, DeleteFile, UploadCreate, UploadCopy, MarkRead, rest
    <2> QED BY <1>0, <2>1, <2>2
<1>2. ASSUME NEW r \in Requests, Administer(r) PROVE GuessInv'
    <2>1. \E next \in Elsewhere : \E l : Goto(r, next, l)
        BY <1>2 DEF Administer, AdminCreate, EditLoad, SaveEdit, Deactivate, CreateNote, Finish, Elsewhere
    <2>2. UNCHANGED <<bound, tries>>
        BY <1>2 DEF Administer, AdminCreate, EditLoad, SaveEdit, Deactivate, CreateNote, rest
    <2> QED BY <1>0, <2>1, <2>2
<1>3. ASSUME NEW r \in Requests, Abort(r) PROVE GuessInv'
    <2>1. UNCHANGED <<bound, tries>>
        BY <1>3 DEF Abort, rest
    <2>2. CASE pc[r] \in LoginPC
        <3> DEFINE l == [loc[r] EXCEPT !.cause = "error"]
        <3>1. Goto(r, "record", l) /\ l.cause = "error"
            BY <1>3, <2>2 DEF Abort, TriesInv, LoginOK, NoLoc
        <3> HIDE DEF l
        <3>2. \A K : ~Compares("record", l, K)
            BY <3>1 DEF Compares
        <3> QED BY <2>1, <3>1, <3>2, ComparingShrinks
    <2>3. CASE pc[r] \notin LoginPC
        BY <1>0, <1>3, <2>1, <2>3 DEF Abort, Finish, Elsewhere
    <2> QED BY <2>2, <2>3
<1>4. ASSUME NEW r \in Requests, LoginLookup(r) \/ LoginSession(r) PROVE GuessInv'
    <2>1. pc[r] \in {"lookup", "session"} /\ UNCHANGED <<bound, tries>> /\ DOMAIN loc[r] = DOMAIN NoLoc
        BY <1>4 DEF LoginLookup, LoginSession, rest, TriesInv, LoginOK, LoginPC
    <2>2. ASSUME NEW cause, cause = "password" => pc[r] = "lookup",
                 Goto(r, "record", [loc[r] EXCEPT !.cause = cause])
          PROVE  GuessInv'
        <3> DEFINE l == [loc[r] EXCEPT !.cause = cause]
        <3>1. Goto(r, "record", l) /\ l.identifier = loc[r].identifier /\ l.address = loc[r].address
              /\ l.cause = cause
            BY <2>1, <2>2 DEF NoLoc
        <3> HIDE DEF l
        <3>2. \A K : Compares("record", l, K) => Compares(pc[r], loc[r], K)
            BY <2>2, <3>1 DEF Compares
        <3> QED BY <2>1, <3>1, <3>2, ComparingShrinks
    <2>3. ASSUME NEW id, Goto(r, "session", [loc[r] EXCEPT !.user = id]) PROVE GuessInv'
        <3>1. \A K : ~Compares("session", [loc[r] EXCEPT !.user = id], K)
            BY DEF Compares
        <3> QED BY <2>1, <2>3, <3>1, ComparingShrinks
    <2>4. CASE LoginLookup(r)
        BY <2>2, <2>3, <2>4 DEF LoginLookup
    <2>5. CASE LoginSession(r)
        <3>1. \E cause \in {"error", "success"} : Goto(r, "record", [loc[r] EXCEPT !.cause = cause])
            BY <2>5 DEF LoginSession
        <3> QED BY <2>2, <3>1
    <2> QED BY <1>4, <2>4, <2>5
<1>5. ASSUME NEW r \in Requests, SignIn(r) PROVE GuessInv'
    <2>1. CASE \E s \in bound.spellings, password \in bound.passwords, address \in bound.addresses :
                   LoginCount(r, s, address, password)
        BY <2>1, AdmissionKeepsRoom
    <2>2. CASE \/ \E s, password, avatar : Register(r, s, password, avatar)
               \/ \E subject, s : GoogleByID(r, subject, s)
               \/ GoogleByEmail(r) \/ GoogleLink(r) \/ GoogleCreate(r)
        <3>1. \E next \in Elsewhere : \E l : Goto(r, next, l)
            BY <2>2 DEF Register, GoogleByID, GoogleByEmail, GoogleLink, GoogleCreate, Finish, Elsewhere
        <3>2. UNCHANGED <<bound, tries>>
            BY <2>2 DEF Register, GoogleByID, GoogleByEmail, GoogleLink, GoogleCreate, rest
        <3> QED BY <1>0, <3>1, <3>2
    <2> QED BY <1>4, <1>5, <2>1, <2>2, RecordKeepsRoom DEF SignIn
<1>6. ASSUME UNCHANGED <<bound, tries, pc, loc>> PROVE GuessInv'
    <2>1. Logins' = Logins /\ \A K : Room(K)' = Room(K) /\ LimitEachOther(K)' = LimitEachOther(K)
        BY <1>6 DEF Logins, Room, Comparing, Compares, Wrong, Picked, LimitEachOther, Matching
    <2> QED BY <1>6, <2>1 DEF GuessInv
<1>7. ASSUME NEW t, TokenLapses(t) PROVE GuessInv'
    BY <1>6, <1>7 DEF TokenLapses
<1>8. CASE UNCHANGED accountVars
    BY <1>6, <1>8 DEF accountVars
<1> QED BY <1>1, <1>2, <1>3, <1>5, <1>7, <1>8, WindowKeepsRoom DEF AccountsNext

LEMMA GuessInvariant == SystemSpec => []GuessInv
<1>1. SystemInit => GuessInv
    <2> SUFFICES ASSUME SystemInit PROVE GuessInv
        OBVIOUS
    <2>1. Logins = {} /\ tries = <<>> /\ \A K : Comparing(K) = {}
        BY DEF SystemInit, AccountsInit, Logins, LoginPC, Comparing, Compares
    <2>2. \A K : Picked(tries, Wrong(K)) = {}
        BY <2>1 DEF Picked
    <2>3. MaxAttempts + bound.together - 1 >= 0
        BY AttemptsAssumption, BoundsAssumption DEF SystemInit, AccountsInit
    <2>4. \A K : Room(K)
        <3>1. Cardinality({}) = 0 /\ IsFiniteSet({}) /\ 0 + 0 = 0
            BY FS_EmptySet
        <3>2. bound.together \in Nat
            BY BoundsAssumption DEF SystemInit, AccountsInit
        <3>3. 0 + 0 <= MaxAttempts + bound.together - 1
            BY <2>3, <3>2, AttemptsAssumption
        <3> QED BY <2>1, <2>2, <3>1, <3>3 DEF Room
    <2>5. IsFiniteSet(Logins) /\ DOMAIN tries = {}
        BY <2>1, FS_EmptySet
    <2> QED BY <2>4, <2>5 DEF GuessInv
<1>2. TriesInv /\ GuessInv /\ bound \in Bounds /\ [SystemNext]_systemVars => GuessInv'
    <2> SUFFICES ASSUME TriesInv, GuessInv, bound \in Bounds, [SystemNext]_systemVars PROVE GuessInv'
        OBVIOUS
    <2>1. ASSUME NEW p \in Processes, Start(p) \/ Stop(p) PROVE GuessInv'
        <3>1. UNCHANGED <<bound, tries, pc, loc>>
            BY <2>1 DEF Start, Stop, ReadVersions, ApplyMigration, SeedLookup, SeedCreate, SeedUpdate,
                        AccountsSame, accountVars, RequestsSame
        <3>2. Logins' = Logins /\ \A K : Room(K)' = Room(K) /\ LimitEachOther(K)' = LimitEachOther(K)
            BY <3>1 DEF Logins, Room, Comparing, Compares, Wrong, Picked, LimitEachOther, Matching
        <3> QED BY <3>1, <3>2 DEF GuessInv
    <2> QED BY <2>1, NextKeepsRoom DEF SystemNext, Serve, systemVars, accountVars
<1>3. SystemInv /\ TablesInv => bound \in Bounds
    BY DEF SystemInv, AccountsInv
<1> QED BY <1>1, <1>2, <1>3, SystemInvariant, TriesInvariant, PTL DEF SystemSpec

(* Counting before the comparison and recording after it lets at most the  *)
(* logins of one moment past the limit, and one more for each attempt that *)
(* was not recorded: for a name, for an address, in each scope.            *)
THEOREM WrongPasswordsLimited == SystemSpec => []TriesBounded
<1>1. TriesInv /\ GuessInv /\ bound \in Bounds => TriesBounded
    <2> SUFFICES ASSUME TriesInv, GuessInv, bound \in Bounds PROVE TriesBounded
        OBVIOUS
    <2> DEFINE limit == MaxAttempts + bound.together - 1 + Unrecorded
    <2>0. \A i \in DOMAIN tries : tries[i].identifier \in bound.spellings /\ tries[i].address \in bound.addresses
        <3>1. \A t \in Try(bound) : t.identifier \in bound.spellings /\ t.address \in bound.addresses
            BY DEF Try
        <3>2. \A i \in DOMAIN tries : tries[i] \in Try(bound)
            BY DEF TriesInv
        <3> QED BY <3>1, <3>2
    <2>1. ASSUME NEW K \in SUBSET (bound.spellings \X bound.addresses), LimitEachOther(K)
          PROVE  Cardinality({i \in DOMAIN tries : /\ tries[i].cause = "password"
                                                   /\ <<tries[i].identifier, tries[i].address>> \in K}) <= limit
        <3> DEFINE all == {i \in DOMAIN tries : /\ tries[i].cause = "password"
                                                /\ <<tries[i].identifier, tries[i].address>> \in K}
                   lost == {i \in DOMAIN tries : ~tries[i].stored}
                   kept == Picked(tries, Wrong(K))
        <3>1. DOMAIN tries = 1 .. Len(tries) /\ Len(tries) \in Nat /\ \A i \in DOMAIN tries : tries[i] \in Try(bound)
            BY DEF TriesInv
        <3>2. IsFiniteSet(lost) /\ IsFiniteSet(kept) /\ Cardinality(lost) \in Nat /\ Cardinality(kept) \in Nat
            <4>1. IsFiniteSet(DOMAIN tries)
                BY <3>1, FS_Interval
            <4>2. IsFiniteSet(lost)
                BY <4>1, FS_Subset
            <4>3. IsFiniteSet(kept)
                BY <4>1, FS_Subset DEF Picked
            <4> QED BY <4>2, <4>3, FS_CardinalityType
        <3>3. all \subseteq kept \cup lost
            BY <3>1 DEF Picked, Wrong
        <3>4. Room(K) /\ Cardinality(Comparing(K)) \in Nat
            BY <2>1, FS_CardinalityType DEF GuessInv, Room
        <3>5. IsFiniteSet(kept \cup lost) /\ Cardinality(kept \cup lost) <= Cardinality(kept) + Cardinality(lost)
              /\ Cardinality(kept \cup lost) \in Nat
            <4>1. IsFiniteSet(kept \cup lost)
                BY <3>2, FS_Union
            <4>2. IsFiniteSet(kept \cap lost) /\ Cardinality(kept \cap lost) \in Nat
                BY <3>2, FS_Intersection, FS_CardinalityType
            <4>3. Cardinality(kept \cup lost) = Cardinality(kept) + Cardinality(lost) - Cardinality(kept \cap lost)
                BY <3>2, FS_Union
            <4> HIDE DEF kept, lost
            <4> QED BY <3>2, <4>1, <4>2, <4>3, FS_CardinalityType
        <3>6. Cardinality(all) <= Cardinality(kept \cup lost) /\ Cardinality(all) \in Nat
            BY <3>3, <3>5, FS_Subset, FS_CardinalityType
        <3>7. Cardinality(lost) = Unrecorded
            BY DEF Unrecorded
        <3>8. Cardinality(kept) + Cardinality(Comparing(K)) <= MaxAttempts + bound.together - 1
            BY <3>4 DEF Room
        <3> HIDE DEF all, kept, lost
        <3>9. Cardinality(all) <= limit
            BY <3>2, <3>4, <3>5, <3>6, <3>7, <3>8, AttemptsAssumption, BoundsAssumption
        <3> QED BY <3>9 DEF all
    <2>2. ASSUME bound.scope \in {"identifier", "identifier_ip"}, NEW s \in bound.spellings
          PROVE  Guesses(LAMBDA t : t.identifier = s) <= limit
        <3> DEFINE K == {s} \X bound.addresses
        <3>1. LimitEachOther(K) /\ K \in SUBSET (bound.spellings \X bound.addresses)
            BY <2>2 DEF LimitEachOther, Matching
        <3>2. {i \in DOMAIN tries : tries[i].cause = "password" /\ tries[i].identifier = s}
              = {i \in DOMAIN tries : /\ tries[i].cause = "password"
                                      /\ <<tries[i].identifier, tries[i].address>> \in K}
            BY <2>0
        <3> QED BY <2>1, <3>1, <3>2 DEF Guesses
    <2>3. ASSUME bound.scope \in {"ip", "identifier_ip"}, NEW a \in bound.addresses \ {None}
          PROVE  Guesses(LAMBDA t : t.address = a) <= limit
        <3> DEFINE K == bound.spellings \X {a}
        <3>1. LimitEachOther(K) /\ K \in SUBSET (bound.spellings \X bound.addresses)
            BY <2>3 DEF LimitEachOther, Matching
        <3>2. {i \in DOMAIN tries : tries[i].cause = "password" /\ tries[i].address = a}
              = {i \in DOMAIN tries : /\ tries[i].cause = "password"
                                      /\ <<tries[i].identifier, tries[i].address>> \in K}
            BY <2>0
        <3> QED BY <2>1, <3>1, <3>2 DEF Guesses
    <2> QED BY <2>2, <2>3 DEF TriesBounded
<1>2. SystemInv /\ TablesInv => bound \in Bounds
    BY DEF SystemInv, AccountsInv
<1> QED BY <1>1, <1>2, SystemInvariant, TriesInvariant, GuessInvariant, PTL

-----------------------------------------------------------------------------
(* Google links.  Whoever is not stale carries the link its row still has. *)

Carries(set, p, l) ==
    /\ p \in {"savePassword", "saveProfile"} =>
         \A u \in set : u.id = l.user => l.params.google = u.google
    /\ p = "googleLink" => \A u \in set : u.id = l.user => u.google \in {None, l.token}

FreshInv ==
    /\ \A r \in Requests : r \notin stale => Carries(users, pc[r], loc[r])
    /\ \A r \in Requests : pc[r] = "googleLink" => loc[r].user \in 1 .. born

Writers == {"savePassword", "saveProfile", "googleLink"}

(* Rows are written by others: what they write makes the request stale.    *)
WritesShow ==
    \A v \in users' : \/ v \in users
                      \/ v.id \notin 1 .. born
                      \/ \A q \in Requests : InFlight(q) /\ loc[q].user = v.id => q \in stale'

LEMMA OthersStayFresh ==
    ASSUME AccountsInv, FreshInv, WritesShow, stale \subseteq stale', born' >= born, born' \in Nat,
           NEW q \in Requests, pc'[q] = pc[q], loc'[q] = loc[q]
    PROVE  /\ q \notin stale' => Carries(users', pc'[q], loc'[q])
           /\ pc'[q] = "googleLink" => loc'[q].user \in 1 .. born'
<1>1. pc[q] \in Writers => loc[q].user \in 1 .. born /\ InFlight(q)
    BY DEF AccountsInv, LocsInv, LocOK, Fits, FreshInv, InFlight, Writers
<1>2. born \in Nat
    BY DEF AccountsInv, UsersInv, RowsOK
<1>3. ASSUME q \notin stale' PROVE Carries(users', pc[q], loc[q])
    <2>1. Carries(users, pc[q], loc[q])
        BY <1>3 DEF FreshInv
    <2>2. CASE pc[q] \in Writers
        <3>1. \A v \in users' : v.id = loc[q].user => v \in users
            BY <1>1, <1>3, <2>2 DEF WritesShow
        <3> QED BY <2>1, <3>1 DEF Carries
    <2>3. CASE pc[q] \notin Writers
        BY <2>3 DEF Carries, Writers
    <2> QED BY <2>2, <2>3
<1> QED BY <1>1, <1>2, <1>3 DEF Writers

LEMMA GotoStaysFresh ==
    ASSUME AccountsInv, FreshInv, WritesShow, stale \subseteq stale', born' >= born, born' \in Nat,
           NEW r \in Requests, NEW next, NEW l, Goto(r, next, l),
           r \notin stale' => Carries(users', next, l),
           next = "googleLink" => l.user \in 1 .. born'
    PROVE  FreshInv'
<1>1. \A q \in Requests : pc'[q] = (IF q = r THEN next ELSE pc[q]) /\ loc'[q] = IF q = r THEN l ELSE loc[q]
    BY DEF AccountsInv, LocsInv, Goto
<1>2. ASSUME NEW q \in Requests
      PROVE  /\ q \notin stale' => Carries(users', pc'[q], loc'[q])
             /\ pc'[q] = "googleLink" => loc'[q].user \in 1 .. born'
    BY <1>1, OthersStayFresh
<1> QED BY <1>2 DEF FreshInv

LEMMA UpdatesShow ==
    /\ \A id, p, password, by, late : UpdateRow(id, p, password, by, late) =>
            WritesShow /\ stale \subseteq stale' /\ born' = born
    /\ \A p, by : AccountsInv /\ CreateRow(p, by) =>
            WritesShow /\ stale \subseteq stale' /\ born' = born + 1
    /\ UsersSame => WritesShow /\ stale \subseteq stale' /\ born' = born
<1>1. ASSUME NEW id, NEW p, NEW password, NEW by, NEW late, UpdateRow(id, p, password, by, late)
      PROVE  WritesShow /\ stale \subseteq stale' /\ born' = born
    <2>1. PICK u \in users : u.id = id /\ users' = (users \ {u}) \cup {Updated(u, p)}
                             /\ Written(id, password, by, late) /\ born' = born
        BY <1>1 DEF UpdateRow, ByID
    <2>2. Updated(u, p).id = id
        BY <2>1 DEF Updated
    <2>3. stale' = stale \cup {q \in Requests : InFlight(q) /\ loc[q].user = id}
        BY <2>1 DEF Written
    <2> QED BY <2>1, <2>2, <2>3 DEF WritesShow
<1>2. ASSUME NEW p, NEW by, AccountsInv, CreateRow(p, by)
      PROVE  WritesShow /\ stale \subseteq stale' /\ born' = born + 1
    <2>1. NewRow(p).id \notin 1 .. born
        BY <1>2 DEF NewRow, AccountsInv, UsersInv, RowsOK
    <2> QED BY <1>2, <2>1 DEF CreateRow, WritesShow, Written
<1> QED BY <1>1, <1>2 DEF UsersSame, WritesShow

LEMMA ElsewhereStaysFresh ==
    ASSUME AccountsInv, FreshInv, WritesShow, stale \subseteq stale', born' >= born, born' \in Nat,
           NEW r \in Requests, \E next, l : next \notin Writers /\ Goto(r, next, l)
    PROVE  FreshInv'
<1>1. PICK next, l : next \notin Writers /\ Goto(r, next, l)
    OBVIOUS
<1>2. Carries(users', next, l) /\ next # "googleLink"
    BY <1>1 DEF Carries, Writers
<1> QED BY <1>1, <1>2, GotoStaysFresh

LEMMA SignInFresh ==
    ASSUME AccountsInv, FreshInv, NEW r \in Requests, SignIn(r)
    PROVE  FreshInv'
<1>0. born \in Nat
    BY DEF AccountsInv, UsersInv, RowsOK
<1>1. CASE GoogleByEmail(r) /\ \E u \in ByEmail(loc[r].identifier) :
              u.google \in {None, loc[r].token} /\ Goto(r, "googleLink", [loc[r] EXCEPT !.user = u.id])
    <2>1. PICK u \in users : u.google \in {None, loc[r].token}
                             /\ Goto(r, "googleLink", [loc[r] EXCEPT !.user = u.id])
        BY <1>1 DEF ByEmail
    <2> DEFINE l == [loc[r] EXCEPT !.user = u.id]
    <2>2. DOMAIN loc[r] = DOMAIN NoLoc
        BY <1>1 DEF GoogleByEmail, AccountsInv, LocsInv, LocOK
    <2>3. l.user = u.id /\ l.token = loc[r].token
        BY <2>2 DEF NoLoc
    <2>4. Goto(r, "googleLink", l)
        BY <2>1
    <2> HIDE DEF l
    <2>5. UNCHANGED <<users, born, stale>>
        BY <1>1 DEF GoogleByEmail, ghosts
    <2>6. Carries(users', "googleLink", l)
        BY <2>1, <2>3, <2>5 DEF Carries, AccountsInv, UsersInv, RowsOK
    <2>7. l.user \in 1 .. born
        BY <2>3 DEF AccountsInv, UsersInv, RowsOK
    <2> QED BY <1>0, <2>4, <2>5, <2>6, <2>7, GotoStaysFresh DEF WritesShow
<1>2. CASE GoogleByEmail(r) /\ \E next, l : next \notin Writers /\ Goto(r, next, l)
    <2>1. UNCHANGED <<users, born, stale>>
        BY <1>2 DEF GoogleByEmail, ghosts
    <2> QED BY <1>0, <1>2, <2>1, ElsewhereStaysFresh DEF WritesShow
<1>3. CASE GoogleLink(r)
    <2>1. \E next, l : next \notin Writers /\ Goto(r, next, l)
        BY <1>3 DEF GoogleLink, Finish, Writers
    <2>2. WritesShow /\ stale \subseteq stale' /\ born' = born
        <3>1. ASSUME NEW u \in users, users' = (users \ {u}) \cup {[u EXCEPT !.google = loc[r].token]},
                     Written(u.id, None, None, r \in stale), born' = born
              PROVE  WritesShow /\ stale \subseteq stale' /\ born' = born
            <4>1. [u EXCEPT !.google = loc[r].token].id = u.id
                BY DEF AccountsInv, UsersInv, RowsOK, Row
            <4>2. stale' = stale \cup {q \in Requests : InFlight(q) /\ loc[q].user = u.id}
                BY <3>1 DEF Written
            <4> QED BY <3>1, <4>1, <4>2 DEF WritesShow
        <3> QED BY <1>3, <3>1, UpdatesShow DEF GoogleLink, ByID
    <2> QED BY <1>0, <2>1, <2>2, ElsewhereStaysFresh
<1>4. CASE \/ \E s, password, avatar : Register(r, s, password, avatar)
           \/ GoogleCreate(r)
    <2>1. \E next, l : next \notin Writers /\ Goto(r, next, l)
        BY <1>4 DEF Register, GoogleCreate, Finish, Writers
    <2>2. WritesShow /\ stale \subseteq stale' /\ born' \in {born, born + 1}
        BY <1>4, UpdatesShow DEF Register, GoogleCreate
    <2> QED BY <1>0, <2>1, <2>2, ElsewhereStaysFresh
<1>5. CASE \/ \E s, address, password : LoginCount(r, s, address, password)
           \/ LoginLookup(r) \/ LoginSession(r) \/ LoginRecord(r)
           \/ \E subject, s : GoogleByID(r, subject, s)
    <2>1. \E next, l : next \notin Writers /\ Goto(r, next, l)
        BY <1>5 DEF LoginCount, LoginLookup, LoginSession, LoginRecord, GoogleByID, Finish, Writers
    <2>2. UNCHANGED <<users, born, stale>>
        BY <1>5 DEF LoginCount, LoginLookup, LoginSession, LoginRecord, GoogleByID, UsersSame, ghosts
    <2> QED BY <1>0, <2>1, <2>2, ElsewhereStaysFresh DEF WritesShow
<1>6. GoogleByEmail(r) => \/ \E next, l : next \notin Writers /\ Goto(r, next, l)
                          \/ \E u \in ByEmail(loc[r].identifier) :
                               u.google \in {None, loc[r].token} /\ Goto(r, "googleLink", [loc[r] EXCEPT !.user = u.id])
    BY DEF GoogleByEmail, Finish, Writers
<1> QED BY <1>1, <1>2, <1>3, <1>4, <1>5, <1>6 DEF SignIn

(* A request that has just loaded a row carries its link.                  *)
LEMMA LoadIsFresh ==
    ASSUME AccountsInv, FreshInv, UNCHANGED <<users, born, stale>>, NEW r \in Requests,
           NEW next \in {"savePassword", "saveProfile"}, NEW u \in users, NEW p, p.google = u.google,
           NEW password, NEW locals, DOMAIN locals = DOMAIN NoLoc, Load(r, u, next, p, password, locals)
    PROVE  FreshInv'
<1> DEFINE l == [locals EXCEPT !.user = u.id, !.params = p, !.password = password, !.by = "owner"]
<1>1. l.user = u.id /\ l.params = p
    BY DEF NoLoc
<1>2. Goto(r, next, l)
    BY DEF Load
<1> HIDE DEF l
<1>3. Carries(users', next, l)
    BY <1>1 DEF Carries, AccountsInv, UsersInv, RowsOK
<1> QED BY <1>2, <1>3, GotoStaysFresh DEF WritesShow, AccountsInv, UsersInv, RowsOK

LEMMA OwnAccountFresh ==
    ASSUME AccountsInv, FreshInv, NEW r \in Requests, OwnAccount(r)
    PROVE  FreshInv'
<1>0. born \in Nat
    BY DEF AccountsInv, UsersInv, RowsOK
<1>1. CASE ResetLoad(r) /\ \E u \in users :
              Load(r, u, "savePassword", PasswordParams(u, loc[r].password), loc[r].password, loc[r])
    <2>1. UNCHANGED <<users, born, stale>> /\ DOMAIN loc[r] = DOMAIN NoLoc
        BY <1>1 DEF ResetLoad, ghosts, AccountsInv, LocsInv, LocOK
    <2>2. \A u \in users : PasswordParams(u, loc[r].password).google = u.google
        BY DEF PasswordParams, Params
    <2> QED BY <1>1, <2>1, <2>2, LoadIsFresh
<1>2. ASSUME NEW password, \E id, current : ChangeLoad(r, id, current, password),
             \E u \in users : Load(r, u, "savePassword", PasswordParams(u, password), password, NoLoc)
      PROVE  FreshInv'
    <2>1. UNCHANGED <<users, born, stale>>
        BY <1>2 DEF ChangeLoad, ghosts
    <2>2. \A u \in users : PasswordParams(u, password).google = u.google
        BY DEF PasswordParams, Params
    <2> QED BY <1>2, <2>1, <2>2, LoadIsFresh
<1>3. ASSUME NEW avatar, NEW id, ProfileLoad(r, id, avatar) PROVE FreshInv'
    <2>1. UNCHANGED <<users, born, stale>>
        BY <1>3 DEF ProfileLoad, UsersSame
    <2>2. PICK u \in users : Load(r, u, "saveProfile", ProfileParams(u, avatar), None,
                                  [NoLoc EXCEPT !.file = Replaced(u, avatar)])
        BY <1>3 DEF ProfileLoad, ByID
    <2>3. ProfileParams(u, avatar).google = u.google
        BY DEF ProfileParams, Params
    <2>4. DOMAIN [NoLoc EXCEPT !.file = Replaced(u, avatar)] = DOMAIN NoLoc
        BY DEF NoLoc
    <2> QED BY <2>1, <2>2, <2>3, <2>4, LoadIsFresh
<1>4. CASE /\ \/ \E s : ForgotLookup(r, s)
              \/ ForgotCreate(r)
              \/ \E t, password : ResetFind(r, t, password)
              \/ ResetLoad(r)
              \/ \E id, current, password : ChangeLoad(r, id, current, password)
              \/ MarkUsed(r) \/ DeleteFile(r)
              \/ \E f : UploadCreate(r, f)
              \/ UploadCopy(r)
              \/ \E n : MarkRead(r, n)
           /\ \E next, l : next \notin Writers /\ Goto(r, next, l)
    <2>1. UNCHANGED <<users, born, stale>>
        BY <1>4 DEF ForgotLookup, ForgotCreate, ResetFind, ResetLoad, ChangeLoad, MarkUsed, DeleteFile,
                    UploadCreate, UploadCopy, MarkRead, UsersSame, ghosts
    <2> QED BY <1>0, <1>4, <2>1, ElsewhereStaysFresh DEF WritesShow
<1>5. CASE SavePassword(r) \/ SaveProfile(r)
    <2>1. \E next, l : next \notin Writers /\ Goto(r, next, l)
        BY <1>5 DEF SavePassword, SaveProfile, Finish, Writers
    <2>2. WritesShow /\ stale \subseteq stale' /\ born' = born
        BY <1>5, UpdatesShow DEF SavePassword, SaveProfile
    <2> QED BY <1>0, <2>1, <2>2, ElsewhereStaysFresh
<1>6. ResetLoad(r) => \/ \E next, l : next \notin Writers /\ Goto(r, next, l)
                      \/ \E u \in users : Load(r, u, "savePassword", PasswordParams(u, loc[r].password),
                                               loc[r].password, loc[r])
    BY DEF ResetLoad, Finish, Writers
<1>7. \A id, current, password : ChangeLoad(r, id, current, password) =>
         \/ \E next, l : next \notin Writers /\ Goto(r, next, l)
         \/ \E u \in users : Load(r, u, "savePassword", PasswordParams(u, password), password, NoLoc)
    BY DEF ChangeLoad, ByID, Finish, Writers
<1>8. \/ \E s : ForgotLookup(r, s)
      \/ ForgotCreate(r) \/ MarkUsed(r) \/ DeleteFile(r) \/ UploadCopy(r)
      \/ \E t, password : ResetFind(r, t, password)
      \/ \E f : UploadCreate(r, f)
      \/ \E n : MarkRead(r, n)
      => \E next, l : next \notin Writers /\ Goto(r, next, l)
    BY DEF ForgotLookup, ForgotCreate, ResetFind, MarkUsed, DeleteFile, UploadCreate, UploadCopy,
           MarkRead, Finish, Writers
<1> QED BY <1>1, <1>2, <1>3, <1>4, <1>5, <1>6, <1>7, <1>8 DEF OwnAccount

LEMMA AdministerFresh ==
    ASSUME AccountsInv, FreshInv, NEW r \in Requests, Administer(r) \/ Abort(r)
    PROVE  FreshInv'
<1>0. born \in Nat
    BY DEF AccountsInv, UsersInv, RowsOK
<1>1. \E next, l : next \notin Writers /\ Goto(r, next, l)
    BY DEF Administer, AdminCreate, EditLoad, SaveEdit, Deactivate, CreateNote, Abort, Finish, Writers
<1>2. WritesShow /\ stale \subseteq stale' /\ born' \in {born, born + 1}
    <2>1. CASE \/ \E form : AdminCreate(r, form)
               \/ \E id, form : EditLoad(r, id, form)
               \/ SaveEdit(r)
               \/ \E id : CreateNote(r, id)
        BY <2>1, UpdatesShow DEF AdminCreate, EditLoad, SaveEdit, CreateNote
    <2>2. CASE (\E id : Deactivate(r, id)) \/ Abort(r)
        BY <2>2 DEF Deactivate, ByID, Abort, ghosts, WritesShow
    <2> QED BY <2>1, <2>2 DEF Administer
<1> QED BY <1>0, <1>1, <1>2, ElsewhereStaysFresh

LEMMA NextFresh == SystemInv /\ FreshInv /\ [SystemNext]_systemVars => FreshInv'
<1> SUFFICES ASSUME SystemInv, FreshInv, [SystemNext]_systemVars PROVE FreshInv'
    OBVIOUS
<1>0. AccountsInv /\ born \in Nat
    BY DEF SystemInv, AccountsInv, UsersInv, RowsOK
<1>1. ASSUME WritesShow, stale \subseteq stale', born' >= born, born' \in Nat, UNCHANGED <<pc, loc>>
      PROVE  FreshInv'
    <2>1. ASSUME NEW q \in Requests
          PROVE  /\ q \notin stale' => Carries(users', pc'[q], loc'[q])
                 /\ pc'[q] = "googleLink" => loc'[q].user \in 1 .. born'
        BY <1>0, <1>1, OthersStayFresh
    <2> QED BY <2>1 DEF FreshInv
<1>2. CASE WindowMoves \/ (\E t \in tokens : TokenLapses(t)) \/ UNCHANGED systemVars
    <2>1. UNCHANGED <<users, born, stale, pc, loc>>
        BY <1>2 DEF WindowMoves, TokenLapses, UsersSame, ghosts, systemVars
    <2> QED BY <1>0, <1>1, <2>1 DEF WritesShow
<1>3. ASSUME NEW p \in Processes, Start(p) \/ Stop(p) PROVE FreshInv'
    <2>1. CASE SeedCreate(p) \/ SeedUpdate(p)
        <3>1. WritesShow /\ stale \subseteq stale' /\ born' \in {born, born + 1}
            BY <1>0, <2>1, UpdatesShow DEF SeedCreate, SeedUpdate
        <3>2. UNCHANGED <<pc, loc>>
            BY <2>1 DEF SeedCreate, SeedUpdate, RequestsSame
        <3> QED BY <1>0, <1>1, <3>1, <3>2
    <2>2. CASE AccountsSame
        BY <1>0, <1>1, <2>2 DEF AccountsSame, accountVars, WritesShow
    <2> QED BY <1>3, <2>1, <2>2 DEF Start, Stop, ReadVersions, ApplyMigration, SeedLookup
<1> QED BY <1>0, <1>2, <1>3, SignInFresh, OwnAccountFresh, AdministerFresh DEF SystemNext, Serve, AccountsNext

(* Who may change the link of a row that has one.                          *)
Relinks(r) == r \in stale \/ pc[r] = "saveEdit"

LEMMA UpdateSetsLink ==
    ASSUME AccountsInv, NEW id, NEW p, NEW password, NEW by, NEW late,
           UpdateRow(id, p, password, by, late),
           NEW u \in users, NEW v \in users', u.id = v.id
    PROVE  v = u \/ (u.id = id /\ v.google = p.google)
<1>1. PICK w \in users : w.id = id /\ users' = (users \ {w}) \cup {Updated(w, p)}
    BY DEF UpdateRow, ByID
<1>2. Updated(w, p).google = p.google /\ Updated(w, p).id = id
    BY <1>1 DEF Updated
<1>3. \A x \in users : x.id = u.id => x = u
    BY DEF AccountsInv, UsersInv, RowsOK
<1> QED BY <1>1, <1>2, <1>3

LEMMA CreateKeepsLinks ==
    ASSUME AccountsInv, NEW p, NEW by, CreateRow(p, by), NEW u \in users, NEW v \in users', u.id = v.id
    PROVE  v = u
<1>1. users' = users \cup {NewRow(p)} /\ NewRow(p).id = born + 1
    BY DEF CreateRow, NewRow
<1>2. u.id # born + 1 /\ \A x \in users : x.id = u.id => x = u
    BY DEF AccountsInv, UsersInv, RowsOK
<1> QED BY <1>1, <1>2

LEMMA RequestKeepsLinks ==
    ASSUME AccountsInv, FreshInv, NEW r \in Requests, SignIn(r) \/ OwnAccount(r) \/ Administer(r) \/ Abort(r),
           NEW u \in users, NEW v \in users', u.id = v.id, u.google # None, v.google # u.google
    PROVE  pc'[r] # pc[r] /\ Relinks(r)
<1>1. \A x \in users : x.id = u.id => x = u
    BY DEF AccountsInv, UsersInv, RowsOK
<1>2. users' \subseteq users => FALSE
    BY <1>1
<1>3. CASE GoogleLink(r)
    <2>1. PICK w \in users : w.id = loc[r].user /\ users' = (users \ {w}) \cup {[w EXCEPT !.google = loc[r].token]}
        BY <1>2, <1>3 DEF GoogleLink, UsersSame, ByID
    <2>2. [w EXCEPT !.google = loc[r].token].id = w.id /\ [w EXCEPT !.google = loc[r].token].google = loc[r].token
        BY DEF AccountsInv, UsersInv, RowsOK, Row
    <2>3. u = w /\ v.google = loc[r].token
        BY <1>1, <2>1, <2>2
    <2>4. r \in stale
        BY <1>3, <2>1, <2>3 DEF GoogleLink, FreshInv, Carries
    <2>5. pc[r] = "googleLink" /\ pc'[r] = "done"
        BY <1>3 DEF GoogleLink, Finish, Goto, AccountsInv, LocsInv
    <2> QED BY <2>4, <2>5 DEF Relinks
<1>4. CASE SavePassword(r) \/ SaveProfile(r)
    <2>1. \E password, by, late : UpdateRow(loc[r].user, loc[r].params, password, by, late)
        BY <1>2, <1>4 DEF SavePassword, SaveProfile, UsersSame
    <2>2. u.id = loc[r].user /\ v.google = loc[r].params.google
        BY <2>1, UpdateSetsLink
    <2>3. r \in stale
        BY <1>4, <2>2 DEF SavePassword, SaveProfile, FreshInv, Carries
    <2>4. pc[r] \in {"savePassword", "saveProfile"} /\ pc'[r] \in {"done", "markUsed", "deleteFile"}
        BY <1>4 DEF SavePassword, SaveProfile, Finish, Goto, AccountsInv, LocsInv
    <2> QED BY <2>3, <2>4 DEF Relinks
<1>5. CASE SaveEdit(r)
    BY <1>5 DEF SaveEdit, Finish, Goto, AccountsInv, LocsInv, Relinks
<1>6. CASE \/ \E s, password, avatar : Register(r, s, password, avatar)
           \/ GoogleCreate(r)
           \/ \E form : AdminCreate(r, form)
    BY <1>2, <1>6, CreateKeepsLinks DEF Register, GoogleCreate, AdminCreate, UsersSame
<1>7. CASE \/ \E s, address, password : LoginCount(r, s, address, password)
           \/ LoginLookup(r) \/ LoginSession(r) \/ LoginRecord(r) \/ GoogleByEmail(r)
           \/ \E subject, s : GoogleByID(r, subject, s)
           \/ Abort(r)
           \/ \E id : Deactivate(r, id) \/ CreateNote(r, id)
           \/ \E id, form : EditLoad(r, id, form)
    BY <1>2, <1>7 DEF LoginCount, LoginLookup, LoginSession, LoginRecord, GoogleByEmail, GoogleByID, Abort,
                      Deactivate, CreateNote, EditLoad, UsersSame
<1>8. CASE \/ \E s : ForgotLookup(r, s)
           \/ ForgotCreate(r) \/ ResetLoad(r) \/ MarkUsed(r) \/ DeleteFile(r) \/ UploadCopy(r)
           \/ \E t, password : ResetFind(r, t, password)
           \/ \E id, current, password : ChangeLoad(r, id, current, password)
           \/ \E id, avatar : ProfileLoad(r, id, avatar)
           \/ \E f : UploadCreate(r, f)
           \/ \E n : MarkRead(r, n)
    BY <1>2, <1>8 DEF ForgotLookup, ForgotCreate, ResetLoad, MarkUsed, DeleteFile, UploadCopy, ResetFind,
                      ChangeLoad, ProfileLoad, UploadCreate, MarkRead, UsersSame
<1> QED BY <1>3, <1>4, <1>5, <1>6, <1>7, <1>8 DEF SignIn, OwnAccount, Administer

LEMMA SeedKeepsLinks ==
    ASSUME SystemInv, NEW p \in Processes, Start(p) \/ Stop(p),
           NEW u \in users, NEW v \in users', u.id = v.id, v.google # u.google
    PROVE  phase'[p] # phase[p] /\ phase[p] = "seedUpdate" /\ prepared[p].loaded # u
<1>1. \A x \in users : x.id = u.id => x = u
    BY DEF SystemInv, AccountsInv, UsersInv, RowsOK
<1>2. users' # users
    BY <1>1
<1>3. CASE SeedUpdate(p)
    <2>1. \E late : UpdateRow(prepared[p].loaded.id, prepared[p].params, SeedPassword, "seed", late)
        BY <1>2, <1>3 DEF SeedUpdate, UsersSame
    <2>2. v.google = prepared[p].params.google
        BY <2>1, UpdateSetsLink DEF SystemInv
    <2>3. phase[p] = "seedUpdate" /\ phase'[p] \in {"serving", "down"}
        BY <1>3 DEF SeedUpdate, Enter, SystemInv, PreparedInv
    <2>4. prepared[p].params.google = prepared[p].loaded.google
        <3>1. prepared[p].params = SeedParams(prepared[p].loaded)
            BY <2>3 DEF SystemInv, PreparedInv
        <3>2. SeedParams(prepared[p].loaded).google = prepared[p].loaded.google
            BY DEF SeedParams, Params
        <3> QED BY <3>1, <3>2
    <2> QED BY <2>2, <2>3, <2>4
<1>4. CASE SeedCreate(p)
    BY <1>2, <1>4, CreateKeepsLinks DEF SeedCreate, UsersSame, SystemInv
<1> QED BY <1>2, <1>3, <1>4
        DEF Start, Stop, ReadVersions, ApplyMigration, SeedLookup, AccountsSame, accountVars

(* Saving a password or a profile, a start and another sign-in all write a *)
(* column google_id that they read before; they undo a link only when the  *)
(* row was written in between.                                             *)
THEOREM LinksStay == SystemSpec => GoogleLinkStays
<1>1. SystemInit => FreshInv
    BY DEF SystemInit, AccountsInit, FreshInv, Carries
<1>2. SystemInv /\ FreshInv /\ [SystemNext]_systemVars =>
        \A u \in users, v \in users' :
          u.id = v.id /\ u.google # None /\ v.google # u.google =>
            \/ \E r \in Requests : pc'[r] # pc[r] /\ (r \in stale \/ pc[r] = "saveEdit")
            \/ \E p \in Processes : phase'[p] # phase[p] /\ phase[p] = "seedUpdate"
                                   /\ prepared[p].loaded # u
    <2> SUFFICES ASSUME SystemInv, FreshInv, [SystemNext]_systemVars,
                        NEW u \in users, NEW v \in users', u.id = v.id, u.google # None, v.google # u.google
                 PROVE  \/ \E r \in Requests : pc'[r] # pc[r] /\ Relinks(r)
                        \/ \E p \in Processes : phase'[p] # phase[p] /\ phase[p] = "seedUpdate"
                                               /\ prepared[p].loaded # u
        BY DEF Relinks
    <2>1. users' # users
        BY DEF SystemInv, AccountsInv, UsersInv, RowsOK
    <2>2. CASE Serve
        BY <2>1, <2>2, RequestKeepsLinks
           DEF Serve, AccountsNext, WindowMoves, TokenLapses, UsersSame, SystemInv
    <2>3. CASE \E p \in Processes : Start(p) \/ Stop(p)
        BY <2>3, SeedKeepsLinks
    <2> QED BY <2>1, <2>2, <2>3 DEF SystemNext, systemVars
<1> QED BY <1>1, <1>2, NextFresh, SystemInvariant, PTL DEF SystemSpec, GoogleLinkStays

-----------------------------------------------------------------------------
(* Avatars.  A file is named by rows, by requests and starts on their way  *)
(* to write a row, and by requests that will delete it.  As long as one    *)
(* request alone chose it, all of them name it for that request's user;    *)
(* and until that request has saved it, nobody else does.                  *)

Savers == {"savePassword", "saveProfile", "saveEdit"}
Choosers == {"saveProfile", "saveEdit"}
Replacers == {"saveProfile", "deleteFile"}

InRow(f, id) == \E u \in users : u.id = id /\ u.avatar = f
Brings(f, id, q) == pc[q] \in Savers /\ loc[q].user = id /\ loc[q].params.avatar = f
Drops(f, id, q) == pc[q] \in Replacers /\ loc[q].user = id /\ loc[q].file = f
Seeds(f, id) == \E p \in Processes : /\ phase[p] = "seedUpdate"
                                     /\ prepared[p].loaded.id = id /\ prepared[p].loaded.avatar = f

(* x names f for the user id: a request that will write it, else None.     *)
Held(f, id, x) ==
    /\ f \in Files
    /\ \/ x \in Requests /\ Brings(f, id, x)
       \/ x = None /\ (InRow(f, id) \/ Seeds(f, id) \/ \E q \in Requests : Drops(f, id, q))

Shared(f) == \E c, d \in chosen : c # d /\ c[1] = f /\ d[1] = f
Gone(f) == files[f] = "deleted" \/ \E q \in Requests : pc[q] = "deleteFile" /\ loc[q].file = f

HolderOwns == \A f, id, x : Held(f, id, x) => \E c \in chosen : c[1] = f /\ c[3] = id

DeletedOwned == \A f \in Files : files[f] = "deleted" => \E c \in chosen : c[1] = f

ChosenOnce == \A c \in chosen : c[2] = None \/ (c[2] \in Requests /\ pc[c[2]] # "idle")

FirstChoice ==
    \A c \in chosen :
        c[2] \in Requests /\ pc[c[2]] \in Choosers /\ loc[c[2]].params.avatar = c[1] /\ c[1] \in Files /\ ~Shared(c[1]) =>
            /\ files[c[1]] # "deleted"
            /\ \A id, x : Held(c[1], id, x) => x = c[2]

RowsHave == \A u \in users : u.avatar # None /\ Gone(u.avatar) => u.id \in mixed \/ Shared(u.avatar)

(* What a request took from the row it loaded, while that is still so.     *)
Loaded(set, who, r, p, l) ==
    /\ p = "savePassword" => \A u \in set : u.id = l.user => l.params.avatar = u.avatar
    /\ p = "saveProfile" => \A u \in set : u.id = l.user =>
          l.params.avatar = u.avatar \/ <<l.params.avatar, r, l.user>> \in who

(* What it took once for all.                                              *)
Choice(who, r, p, l) ==
    /\ p = "saveProfile" /\ l.file # None => l.file # l.params.avatar
    /\ p = "saveEdit" /\ l.params.avatar # None => <<l.params.avatar, r, l.user>> \in who

LoadsHold ==
    \A r \in Requests : /\ r \notin stale => Loaded(users, chosen, r, pc[r], loc[r])
                        /\ Choice(chosen, r, pc[r], loc[r])

AvatarInv == HolderOwns /\ DeletedOwned /\ ChosenOnce /\ FirstChoice /\ RowsHave /\ LoadsHold

(* What a step does, of the request r or of none.                          *)
Aside(r) ==
    /\ \A q \in Requests : q # r => pc'[q] = pc[q] /\ loc'[q] = loc[q]
    /\ r \in Requests => pc'[r] # "idle" /\ (pc'[r] \in Choosers => pc[r] = "idle" /\ UNCHANGED files)

ChosenGo(r) ==
    /\ chosen \subseteq chosen'
    /\ \A c \in chosen' \ chosen : r \in Requests /\ c[2] = r /\ pc[r] = "idle"

FilesGo ==
    \A f \in Files : files'[f] = "deleted" => \/ files[f] = "deleted"
                                             \/ \E q \in Requests : pc[q] = "deleteFile" /\ loc[q].file = f

HoldersGo(r) ==
    \A f, id, x : Held(f, id, x)' =>
        \/ \E y : Held(f, id, y) /\ (x = y \/ ({x, y} \subseteq {r, None}))
        \/ /\ <<f, r, id>> \in chosen' \ chosen
           /\ x \in {r, None} /\ (pc'[r] \in Choosers => x = r)

LEMMA DeletedIsHeld ==
    ASSUME NEW f \in Files, NEW q \in Requests, pc[q] = "deleteFile", loc[q].file = f
    PROVE  \E id : Held(f, id, None)
BY DEF Held, Drops, Replacers

LEMMA HoldersStay ==
    ASSUME HolderOwns, DeletedOwned, ChosenOnce, FirstChoice,
           NEW r \in Requests \cup {None}, Aside(r), ChosenGo(r), FilesGo, HoldersGo(r)
    PROVE  (HolderOwns /\ DeletedOwned /\ ChosenOnce /\ FirstChoice)'
<1>0. None \notin Requests
    BY NoneAssumption, RequestsAssumption
<1>1. HolderOwns'
    <2> SUFFICES ASSUME NEW f, NEW id, NEW x, Held(f, id, x)'
                 PROVE  \E c \in chosen' : c[1] = f /\ c[3] = id
        BY DEF HolderOwns
    <2>1. CASE \E y : Held(f, id, y)
        <3>1. \E c \in chosen : c[1] = f /\ c[3] = id
            BY <2>1 DEF HolderOwns
        <3> QED BY <3>1 DEF ChosenGo
    <2>2. CASE <<f, r, id>> \in chosen'
        <3>1. <<f, r, id>>[1] = f /\ <<f, r, id>>[3] = id
            OBVIOUS
        <3> QED BY <2>2, <3>1
    <2> QED BY <2>1, <2>2 DEF HoldersGo
<1>2. DeletedOwned'
    <2> SUFFICES ASSUME NEW f \in Files, files'[f] = "deleted" PROVE \E c \in chosen' : c[1] = f
        BY DEF DeletedOwned
    <2>1. \E c \in chosen : c[1] = f
        BY DeletedIsHeld DEF FilesGo, DeletedOwned, HolderOwns
    <2> QED BY <2>1 DEF ChosenGo
<1>3. ChosenOnce'
    BY DEF ChosenOnce, ChosenGo, Aside
<1>4. ASSUME NEW c \in chosen', NEW f \in Files, f = c[1], c[2] \in Requests, pc'[c[2]] \in Choosers,
             loc'[c[2]].params.avatar = f, ~Shared(f)'
      PROVE  files'[f] # "deleted" /\ \A id, x : Held(f, id, x)' => x = c[2]
    <2>1. CASE c[2] # r
        <3>1. c \in chosen /\ pc[c[2]] \in Choosers /\ loc[c[2]].params.avatar = f
            BY <1>4, <2>1 DEF ChosenGo, Aside
        <3>2. ~Shared(f)
            BY <1>4 DEF Shared, ChosenGo
        <3>3. files[f] # "deleted" /\ \A id, x : Held(f, id, x) => x = c[2]
            BY <1>4, <3>1, <3>2 DEF FirstChoice
        <3>4. files'[f] # "deleted"
            BY <1>0, <1>4, <3>3, DeletedIsHeld DEF FilesGo
        <3>5. ASSUME NEW id, NEW x, Held(f, id, x)' PROVE x = c[2]
            <4>1. CASE \E y : Held(f, id, y) /\ (x = y \/ ({x, y} \subseteq {r, None}))
                BY <1>0, <1>4, <2>1, <3>3, <4>1
            <4>2. CASE <<f, r, id>> \in chosen'
                <5>1. <<f, r, id>>[1] = f /\ <<f, r, id>>[2] = r
                    OBVIOUS
                <5> QED BY <1>4, <2>1, <4>2, <5>1 DEF Shared
            <4> QED BY <3>5, <4>1, <4>2 DEF HoldersGo
        <3> QED BY <3>4, <3>5
    <2>2. CASE c[2] = r
        <3>1. r \in Requests /\ pc[r] = "idle" /\ files' = files /\ pc'[r] \in Choosers
            BY <1>4, <2>2 DEF Aside
        <3>2. c \notin chosen
            BY <1>0, <2>2, <3>1 DEF ChosenOnce
        <3>3. \A d \in chosen : d[1] # f
            BY <1>4, <3>2 DEF Shared, ChosenGo
        <3>4. \A id, y : ~Held(f, id, y)
            BY <3>3 DEF HolderOwns
        <3>5. ASSUME NEW id, NEW x, Held(f, id, x)' PROVE x = r
            <4>1. ~\E y : Held(f, id, y) /\ (x = y \/ ({x, y} \subseteq {r, None}))
                BY <3>4
            <4>2. pc'[r] \in Choosers => x = r
                BY <3>5, <4>1 DEF HoldersGo
            <4> QED BY <3>1, <4>2
        <3>6. files[f] # "deleted"
            BY <1>4, <3>3 DEF DeletedOwned
        <3> QED BY <2>2, <3>1, <3>5, <3>6
    <2> QED BY <2>1, <2>2
<1>5. FirstChoice'
    <2> SUFFICES ASSUME NEW c \in chosen', c[2] \in Requests, pc'[c[2]] \in Choosers,
                        loc'[c[2]].params.avatar = c[1], c[1] \in Files, ~Shared(c[1])'
                 PROVE  files'[c[1]] # "deleted" /\ \A id, x : Held(c[1], id, x)' => x = c[2]
        BY DEF FirstChoice
    <2>1. PICK f \in Files : f = c[1]
        OBVIOUS
    <2> QED BY <1>4, <2>1
<1> QED BY <1>1, <1>2, <1>3, <1>5

(* What the step does to rows and to files that will be deleted.           *)
RowsKeep(r) ==
    /\ mixed \subseteq mixed'
    /\ \A v \in users' : \/ v.avatar = None
                         \/ InRow(v.avatar, v.id)
                         \/ v.id \in mixed'
                         \/ ~Gone(v.avatar)
                         \/ Shared(v.avatar)'

NoneDropped == \A f \in Files : Gone(f)' => Gone(f) \/ \A v \in users' : v.avatar # f \/ Shared(f)'

LEMMA RowsStay ==
    ASSUME AccountsInv, AccountsInv', RowsHave, NEW r, RowsKeep(r), ChosenGo(r), NoneDropped
    PROVE  RowsHave'
<1> SUFFICES ASSUME NEW v \in users', v.avatar # None, Gone(v.avatar)'
             PROVE  v.id \in mixed' \/ Shared(v.avatar)'
    BY DEF RowsHave
<1>1. v.avatar \in Files
    BY DEF AccountsInv, UsersInv, RowsOK, Row
<1>2. Shared(v.avatar) => Shared(v.avatar)'
    BY DEF ChosenGo, Shared
<1>3. CASE InRow(v.avatar, v.id) /\ Gone(v.avatar)
    BY <1>2, <1>3 DEF InRow, RowsHave, RowsKeep
<1> QED BY <1>1, <1>3 DEF RowsKeep, NoneDropped

LEMMA LoadsStay ==
    ASSUME AccountsInv, LoadsHold, WritesShow, stale \subseteq stale', born' >= born, born' \in Nat,
           NEW r, Aside(r), ChosenGo(r),
           r \in Requests => /\ r \notin stale' => Loaded(users', chosen', r, pc'[r], loc'[r])
                             /\ Choice(chosen', r, pc'[r], loc'[r])
    PROVE  LoadsHold'
<1> SUFFICES ASSUME NEW q \in Requests, q # r
             PROVE  /\ q \notin stale' => Loaded(users', chosen', q, pc'[q], loc'[q])
                    /\ Choice(chosen', q, pc'[q], loc'[q])
    BY DEF LoadsHold
<1>1. pc'[q] = pc[q] /\ loc'[q] = loc[q] /\ chosen \subseteq chosen'
    BY DEF Aside, ChosenGo
<1>2. Choice(chosen', q, pc'[q], loc'[q])
    BY <1>1 DEF LoadsHold, Choice
<1>3. ASSUME q \notin stale', pc[q] \in {"savePassword", "saveProfile"}
      PROVE  \A v \in users' : v.id = loc[q].user => v \in users
    <2>1. loc[q].user \in 1 .. born /\ InFlight(q)
        BY <1>3 DEF AccountsInv, LocsInv, LocOK, Fits, InFlight
    <2> QED BY <1>3, <2>1 DEF WritesShow
<1>4. q \notin stale' => Loaded(users', chosen', q, pc'[q], loc'[q])
    BY <1>1, <1>3 DEF LoadsHold, Loaded
<1> QED BY <1>2, <1>4

(* Steps that choose nothing and load nothing.                             *)
Moves(r) ==
    /\ \A q \in Requests : q # r => pc'[q] = pc[q] /\ loc'[q] = loc[q]
    /\ r \in Requests =>
         /\ pc'[r] \notin Savers \cup {"idle"}
         /\ pc'[r] = "deleteFile" =>
              /\ pc[r] = "saveProfile" /\ loc'[r] = loc[r]
              /\ \A v \in users' : v.avatar = loc[r].file => Shared(v.avatar)

SeedsGo == \A f, id : Seeds(f, id)' => Seeds(f, id) \/ InRow(f, id)

RowsGiven(r) ==
    /\ mixed \subseteq mixed'
    /\ \A v \in users' :
         \/ v.avatar = None
         \/ InRow(v.avatar, v.id)
         \/ /\ Held(v.avatar, v.id, None) \/ Held(v.avatar, v.id, r)
            /\ v.id \in mixed' \/ ~Gone(v.avatar) \/ Shared(v.avatar)

LEMMA QuietKeeps ==
    ASSUME AccountsInv, AccountsInv', AvatarInv, NEW r \in Requests \cup {None}, Moves(r), SeedsGo, RowsGiven(r),
           FilesGo, chosen' = chosen, WritesShow, stale \subseteq stale', born' >= born, born' \in Nat
    PROVE  AvatarInv'
<1>0. None \notin Requests /\ None \notin Files
    BY NoneAssumption, RequestsAssumption
<1>1. Aside(r) /\ ChosenGo(r)
    BY DEF Moves, Aside, ChosenGo, Choosers, Savers
<1>2. HoldersGo(r)
    <2> SUFFICES ASSUME NEW f, NEW id, NEW x, Held(f, id, x)'
                 PROVE  \E y : Held(f, id, y) /\ (x = y \/ ({x, y} \subseteq {r, None}))
        BY DEF HoldersGo
    <2>1. CASE x \in Requests /\ Brings(f, id, x)'
        <3>1. x # r
            BY <2>1 DEF Moves, Brings
        <3> QED BY <2>1, <3>1 DEF Moves, Brings, Held
    <2>2. CASE x = None /\ InRow(f, id)'
        <3>1. PICK v \in users' : v.id = id /\ v.avatar = f
            BY <2>2 DEF InRow
        <3>2. f # None /\ f \in Files
            BY <1>0 DEF Held
        <3>3. CASE InRow(f, id)
            BY <2>2, <3>2, <3>3 DEF Held
        <3>4. CASE Held(f, id, None) \/ Held(f, id, r)
            BY <2>2, <3>4
        <3> QED BY <3>1, <3>2, <3>3, <3>4 DEF RowsGiven
    <2>3. CASE x = None /\ Seeds(f, id)'
        BY <2>3 DEF SeedsGo, Held
    <2>4. CASE x = None /\ \E q \in Requests : Drops(f, id, q)'
        <3>1. PICK q \in Requests : Drops(f, id, q)'
            BY <2>4
        <3>2. q = r => pc[r] = "saveProfile" /\ loc'[r] = loc[r]
            BY <3>1 DEF Moves, Drops, Replacers, Savers
        <3>3. Drops(f, id, q)
            BY <3>1, <3>2 DEF Moves, Drops, Replacers
        <3> QED BY <2>4, <3>3 DEF Held
    <2> QED BY <2>1, <2>2, <2>3, <2>4 DEF Held
<1>3. (HolderOwns /\ DeletedOwned /\ ChosenOnce /\ FirstChoice)'
    BY <1>1, <1>2, HoldersStay DEF AvatarInv
<1>4. RowsHave'
    <2>1. \A f : Shared(f)' <=> Shared(f)
        BY DEF Shared
    <2>2. RowsKeep(r)
        BY <2>1 DEF RowsGiven, RowsKeep
    <2>3. NoneDropped
        <3> SUFFICES ASSUME NEW f \in Files, Gone(f)' PROVE Gone(f) \/ \A v \in users' : v.avatar # f \/ Shared(f)'
            BY DEF NoneDropped
        <3>1. CASE \E q \in Requests : pc'[q] = "deleteFile" /\ loc'[q].file = f
            BY <2>1, <3>1 DEF Moves, Gone
        <3>2. CASE files'[f] = "deleted" /\ files[f] = "deleted"
            BY <3>2 DEF Gone
        <3>3. CASE files'[f] = "deleted" /\ \E q \in Requests : pc[q] = "deleteFile" /\ loc[q].file = f
            BY <3>3 DEF Gone
        <3> QED BY <3>1, <3>2, <3>3 DEF Gone, FilesGo
    <2> QED BY <1>1, <2>2, <2>3, RowsStay DEF AvatarInv
<1>5. LoadsHold'
    <2>1. r \in Requests => /\ Loaded(users', chosen', r, pc'[r], loc'[r])
                            /\ Choice(chosen', r, pc'[r], loc'[r])
        BY DEF Moves, Loaded, Choice, Savers
    <2> QED BY <1>1, <2>1, LoadsStay DEF AvatarInv
<1> QED BY <1>3, <1>4, <1>5 DEF AvatarInv

(* Steps that change nothing an avatar depends on, but rows in passing.    *)
LEMMA PassingKeeps ==
    ASSUME AccountsInv, AccountsInv', AvatarInv, NEW r \in Requests, UNCHANGED <<phase, prepared>>,
           FilesGo, chosen' = chosen, RowsGiven(r), WritesShow, stale \subseteq stale', born' \in {born, born + 1},
           \E next, l : Goto(r, next, l) /\ next \notin Savers \cup {"idle", "deleteFile"}
    PROVE  AvatarInv'
<1>1. PICK next, l : Goto(r, next, l) /\ next \notin Savers \cup {"idle", "deleteFile"}
    OBVIOUS
<1>2. \A q \in Requests : pc'[q] = (IF q = r THEN next ELSE pc[q]) /\ loc'[q] = IF q = r THEN l ELSE loc[q]
    BY <1>1 DEF AccountsInv, LocsInv, Goto
<1>3. Moves(r)
    BY <1>1, <1>2 DEF Moves
<1>4. SeedsGo
    BY DEF SeedsGo, Seeds
<1>5. born' >= born /\ born' \in Nat
    BY DEF AccountsInv, UsersInv, RowsOK
<1> QED BY <1>3, <1>4, <1>5, QuietKeeps

LEMMA WritesGive ==
    /\ \A r : UsersSame => RowsGiven(r)
    /\ \A r, p, by : CreateRow(p, by) /\ p.avatar = None => RowsGiven(r)
    /\ \A r : users' \subseteq users /\ mixed' = mixed => RowsGiven(r)
<1>1. ASSUME NEW r, NEW p, NEW by, CreateRow(p, by), p.avatar = None PROVE RowsGiven(r)
    <2>1. NewRow(p).avatar = None
        BY <1>1 DEF NewRow
    <2> QED BY <1>1, <2>1 DEF CreateRow, Written, RowsGiven, InRow
<1>2. ASSUME NEW r, users' \subseteq users, mixed' = mixed PROVE RowsGiven(r)
    BY <1>2 DEF RowsGiven, InRow
<1> QED BY <1>1, <1>2 DEF UsersSame

LEMMA UpdateGives ==
    ASSUME NEW id, NEW p, NEW password, NEW by, NEW late, UpdateRow(id, p, password, by, late), NEW r,
           \/ p.avatar = None
           \/ InRow(p.avatar, id)
           \/ /\ Held(p.avatar, id, None) \/ Held(p.avatar, id, r)
              /\ late \/ ~Gone(p.avatar) \/ Shared(p.avatar)
    PROVE  RowsGiven(r)
<1>1. PICK u \in users : /\ u.id = id /\ users' = (users \ {u}) \cup {Updated(u, p)}
                         /\ Written(id, password, by, late)
    BY DEF UpdateRow, ByID
<1>2. Updated(u, p).id = id /\ Updated(u, p).avatar = p.avatar
    BY <1>1 DEF Updated
<1>3. mixed \subseteq mixed' /\ (late => id \in mixed')
    BY <1>1 DEF Written
<1>4. \A v \in users : InRow(v.avatar, v.id)
    BY DEF InRow
<1> QED BY <1>1, <1>2, <1>3, <1>4 DEF RowsGiven

LEMMA LinkGives ==
    ASSUME AccountsInv, NEW r \in Requests, GoogleLink(r)
    PROVE  RowsGiven(r) /\ WritesShow /\ stale \subseteq stale' /\ born' = born
<1>1. ASSUME NEW u \in users, users' = (users \ {u}) \cup {[u EXCEPT !.google = loc[r].token]},
             Written(u.id, None, None, r \in stale), born' = born
      PROVE  RowsGiven(r) /\ WritesShow /\ stale \subseteq stale'
    <2> DEFINE v == [u EXCEPT !.google = loc[r].token]
    <2>1. v.id = u.id /\ v.avatar = u.avatar
        BY DEF AccountsInv, UsersInv, RowsOK, Row
    <2>2. users' = (users \ {u}) \cup {v}
        BY <1>1
    <2> HIDE DEF v
    <2>3. stale' = stale \cup {q \in Requests : InFlight(q) /\ loc[q].user = u.id} /\ mixed \subseteq mixed'
        BY <1>1 DEF Written
    <2> QED BY <2>1, <2>2, <2>3 DEF WritesShow, RowsGiven, InRow
<1> QED BY <1>1, WritesGive, UpdatesShow DEF GoogleLink, ByID

LEMMA SignInAvatars ==
    ASSUME AccountsInv, AccountsInv', AvatarInv, NEW r \in Requests, SignIn(r), UNCHANGED <<phase, prepared>>,
           ~\E s, password : \E avatar \in AvatarURLs : Register(r, s, password, avatar)
    PROVE  AvatarInv'
<1>1. \E next, l : Goto(r, next, l) /\ next \notin Savers \cup {"idle", "deleteFile"}
    <2>1. CASE LoginRecord(r)
        <3>1. \E next, l : next \in {"refused", "done"} /\ Goto(r, next, l)
            BY <2>1 DEF LoginRecord
        <3> QED BY <3>1 DEF Savers
    <2>2. CASE LoginLookup(r) \/ LoginSession(r)
        <3>1. \E next \in {"session", "record"} : \E l : Goto(r, next, l)
            BY <2>2 DEF LoginLookup, LoginSession
        <3> QED BY <3>1 DEF Savers
    <2>3. CASE \/ \E s, address, password : LoginCount(r, s, address, password)
               \/ \E subject, s : GoogleByID(r, subject, s)
               \/ GoogleByEmail(r) \/ GoogleLink(r) \/ GoogleCreate(r)
        <3>1. \E next \in {"lookup", "record", "done", "googleEmail", "googleLink", "googleCreate"} : \E l : Goto(r, next, l)
            BY <2>3 DEF LoginCount, GoogleByID, GoogleByEmail, GoogleLink, GoogleCreate, Finish
        <3> QED BY <3>1 DEF Savers
    <2> QED BY <2>1, <2>2, <2>3 DEF SignIn
<1>2. UNCHANGED <<files, chosen>>
    BY DEF SignIn, LoginCount, LoginLookup, LoginSession, LoginRecord, GoogleByID,
           GoogleByEmail, GoogleLink, GoogleCreate, rest, ghosts
<1>3. RowsGiven(r) /\ WritesShow /\ stale \subseteq stale' /\ born' \in {born, born + 1}
    <2>1. CASE UsersSame
        BY <2>1, WritesGive, UpdatesShow
    <2>2. CASE GoogleCreate(r)
        <3>1. ASSUME NEW p, NEW by, CreateRow(p, by), p.avatar = None
              PROVE  RowsGiven(r) /\ WritesShow /\ stale \subseteq stale' /\ born' \in {born, born + 1}
            BY <3>1, WritesGive, UpdatesShow
        <3>2. \A email, google, password : Params(email, google, password, FALSE, None, None, None).avatar = None
            BY DEF Params
        <3> QED BY <2>1, <2>2, <3>1, <3>2 DEF GoogleCreate
    <2>3. CASE \/ \E s, address, password : LoginCount(r, s, address, password)
               \/ LoginLookup(r) \/ LoginSession(r) \/ LoginRecord(r)
               \/ \E subject, s : GoogleByID(r, subject, s)
               \/ GoogleByEmail(r)
        <3>1. UsersSame
            BY <2>3 DEF LoginCount, LoginLookup, LoginSession, LoginRecord, GoogleByID, GoogleByEmail, ghosts, UsersSame
        <3> QED BY <2>1, <3>1
    <2> QED BY <2>2, <2>3, LinkGives DEF SignIn
<1>4. FilesGo
    BY <1>2 DEF FilesGo
<1> QED BY <1>1, <1>2, <1>3, <1>4, PassingKeeps

(* A file that one request alone chose is not deleted before it saves.     *)
LEMMA ChoiceNotGone ==
    ASSUME AvatarInv, NEW r \in Requests, pc[r] \in Choosers, NEW f \in Files, loc[r].params.avatar = f,
           NEW id, <<f, r, id>> \in chosen
    PROVE  ~Gone(f) \/ Shared(f)
<1> SUFFICES ASSUME ~Shared(f) PROVE ~Gone(f)
    OBVIOUS
<1> DEFINE c == <<f, r, id>>
<1>1. c[1] = f /\ c[2] = r
    OBVIOUS
<1> HIDE DEF c
<1>2. c \in chosen
    BY DEF c
<1>3. files[f] # "deleted" /\ \A i, x : Held(f, i, x) => x = r
    BY <1>1, <1>2 DEF AvatarInv, FirstChoice
<1>4. None # r
    BY NoneAssumption, RequestsAssumption
<1> QED BY <1>3, <1>4, DeletedIsHeld DEF Gone

LEMMA SavesGive ==
    ASSUME AccountsInv, AvatarInv, NEW r \in Requests, pc[r] \in Savers, NEW password, NEW by,
           UpdateRow(loc[r].user, loc[r].params, password, by, r \in stale)
    PROVE  RowsGiven(r)
<1> DEFINE p == loc[r].params
           id == loc[r].user
<1>1. p \in ParamsType
    BY DEF AccountsInv, LocsInv, LocOK, Fits, Savers
<1>2. CASE p.avatar # None
    <2>1. p.avatar \in Files /\ Held(p.avatar, id, r)
        BY <1>1, <1>2 DEF ParamsType, Held, Brings
    <2>2. \/ r \in stale \/ InRow(p.avatar, id)
          \/ pc[r] \in Choosers /\ <<p.avatar, r, id>> \in chosen
        <3>1. \E u \in users : u.id = id
            BY DEF UpdateRow, ByID
        <3> QED BY <1>2, <3>1 DEF AvatarInv, LoadsHold, Loaded, Choice, Savers, Choosers, InRow
    <2>3. r \in stale \/ InRow(p.avatar, id) \/ ~Gone(p.avatar) \/ Shared(p.avatar)
        BY <2>1, <2>2, ChoiceNotGone
    <2> QED BY <2>1, <2>3, UpdateGives
<1>3. CASE p.avatar = None
    BY <1>3, UpdateGives
<1> QED BY <1>2, <1>3

(* A request loads a row to write it back: what it brings is the row's.    *)
LEMMA LoadKeeps ==
    ASSUME AccountsInv, AccountsInv', AvatarInv, NEW r \in Requests, pc[r] \notin Choosers,
           UNCHANGED <<users, born, files, chosen, stale, mixed, phase, prepared>>, NEW u \in users, NEW p,
           p.avatar = u.avatar, NEW password, NEW locals, DOMAIN locals = DOMAIN NoLoc,
           Load(r, u, "savePassword", p, password, locals)
    PROVE  AvatarInv'
<1> DEFINE l == [locals EXCEPT !.user = u.id, !.params = p, !.password = password, !.by = "owner"]
<1>1. l.user = u.id /\ l.params = p
    BY DEF NoLoc
<1>2. Goto(r, "savePassword", l)
    BY DEF Load
<1> HIDE DEF l
<1>3. \A q \in Requests : pc'[q] = (IF q = r THEN "savePassword" ELSE pc[q]) /\ loc'[q] = IF q = r THEN l ELSE loc[q]
    BY <1>2 DEF AccountsInv, LocsInv, Goto
<1>4. Aside(r) /\ ChosenGo(r)
    BY <1>3 DEF Aside, ChosenGo, Choosers
<1>5. HoldersGo(r)
    <2> SUFFICES ASSUME NEW f, NEW id, NEW x, Held(f, id, x)'
                 PROVE  \E y : Held(f, id, y) /\ (x = y \/ ({x, y} \subseteq {r, None}))
        BY DEF HoldersGo
    <2>1. CASE x = r /\ Brings(f, id, r)'
        <3>1. InRow(f, id)
            BY <1>1, <1>3, <2>1 DEF Brings, InRow
        <3>2. Held(f, id, None)
            BY <3>1 DEF Held
        <3> QED BY <2>1, <3>2
    <2>2. CASE x \in Requests /\ x # r /\ Brings(f, id, x)'
        BY <1>3, <2>2 DEF Brings, Held
    <2>3. CASE x = None /\ \E q \in Requests : Drops(f, id, q)'
        BY <1>3, <2>3 DEF Drops, Replacers, Held
    <2>4. CASE x = None /\ (InRow(f, id)' \/ Seeds(f, id)')
        BY <2>4 DEF InRow, Seeds, Held
    <2> QED BY <2>1, <2>2, <2>3, <2>4 DEF Held
<1>6. FilesGo /\ NoneDropped
    BY <1>3 DEF FilesGo, NoneDropped, Gone
<1>7. RowsKeep(r)
    BY DEF RowsKeep, InRow
<1>8. Loaded(users', chosen', r, pc'[r], loc'[r]) /\ Choice(chosen', r, pc'[r], loc'[r])
    BY <1>1, <1>3 DEF Loaded, Choice, AccountsInv, UsersInv, RowsOK
<1>9. WritesShow /\ born' >= born /\ born' \in Nat
    BY DEF WritesShow, AccountsInv, UsersInv, RowsOK
<1>10. (HolderOwns /\ DeletedOwned /\ ChosenOnce /\ FirstChoice)'
    BY <1>4, <1>5, <1>6, HoldersStay DEF AvatarInv
<1>11. RowsHave' /\ LoadsHold'
    BY <1>4, <1>6, <1>7, <1>8, <1>9, RowsStay, LoadsStay DEF AvatarInv
<1> QED BY <1>10, <1>11 DEF AvatarInv

(* A request that arrives names a file somebody was given, or none.        *)
LEMMA ChoiceKeeps ==
    ASSUME AccountsInv, AccountsInv', AvatarInv, NEW r \in Requests, pc[r] = "idle",
           UNCHANGED <<users, born, files, stale, mixed, phase, prepared>>,
           NEW next \in Choosers, NEW l, Goto(r, next, l),
           \/ /\ chosen' = chosen
              /\ l.params.avatar = None \/ InRow(l.params.avatar, l.user)
           \/ /\ chosen' = chosen \cup {<<l.params.avatar, r, l.user>>}
              /\ l.params.avatar \in Files,
           next = "saveProfile" => l.file = None \/ InRow(l.file, l.user),
           Loaded(users, chosen', r, next, l), Choice(chosen', r, next, l)
    PROVE  AvatarInv'
<1>1. \A q \in Requests : pc'[q] = (IF q = r THEN next ELSE pc[q]) /\ loc'[q] = IF q = r THEN l ELSE loc[q]
    BY DEF AccountsInv, LocsInv, Goto
<1>2. None \notin Requests /\ None \notin Files
    BY NoneAssumption, RequestsAssumption
<1>3. Aside(r) /\ ChosenGo(r)
    BY <1>1 DEF Aside, ChosenGo, Choosers
<1>4. \A f, id : <<f, r, id>> \notin chosen
    <2>1. ASSUME NEW f, NEW id, <<f, r, id>> \in chosen PROVE FALSE
        <3>1. <<f, r, id>>[2] = r
            OBVIOUS
        <3> QED BY <1>2, <2>1, <3>1 DEF AvatarInv, ChosenOnce
    <2> QED BY <2>1
<1>5. HoldersGo(r)
    <2> SUFFICES ASSUME NEW f, NEW id, NEW x, Held(f, id, x)'
                 PROVE  \/ \E y : Held(f, id, y) /\ (x = y \/ ({x, y} \subseteq {r, None}))
                        \/ /\ <<f, r, id>> \in chosen' \ chosen
                           /\ x \in {r, None} /\ (pc'[r] \in Choosers => x = r)
        BY DEF HoldersGo
    <2>0. f \in Files
        BY DEF Held
    <2>1. CASE x = r /\ Brings(f, id, r)'
        <3>1. l.user = id /\ l.params.avatar = f
            BY <1>1, <2>1 DEF Brings
        <3>2. CASE InRow(f, id)
            BY <2>0, <2>1, <3>2 DEF Held
        <3>3. CASE chosen' = chosen \cup {<<f, r, id>>}
            BY <1>4, <2>1, <3>3
        <3> QED BY <1>2, <2>0, <3>1, <3>2, <3>3
    <2>2. CASE x \in Requests /\ x # r /\ Brings(f, id, x)'
        BY <1>1, <2>0, <2>2 DEF Brings, Held
    <2>3. CASE x = None /\ \E q \in Requests : Drops(f, id, q)'
        <3>1. PICK q \in Requests : Drops(f, id, q)'
            BY <2>3
        <3>2. CASE q = r
            <4>1. InRow(f, id)
                BY <1>1, <1>2, <2>0, <3>1, <3>2 DEF Drops, Choosers, Replacers
            <4> QED BY <2>0, <2>3, <4>1 DEF Held
        <3>3. CASE q # r
            BY <1>1, <2>0, <2>3, <3>1, <3>3 DEF Drops, Held
        <3> QED BY <3>2, <3>3
    <2>4. CASE x = None /\ (InRow(f, id)' \/ Seeds(f, id)')
        BY <2>0, <2>4 DEF InRow, Seeds, Held
    <2> QED BY <2>1, <2>2, <2>3, <2>4 DEF Held
<1>6. FilesGo /\ NoneDropped
    BY <1>1 DEF FilesGo, NoneDropped, Gone, Choosers
<1>7. RowsKeep(r)
    BY DEF RowsKeep, InRow
<1>8. WritesShow /\ born' >= born /\ born' \in Nat
    BY DEF WritesShow, AccountsInv, UsersInv, RowsOK
<1>9. (HolderOwns /\ DeletedOwned /\ ChosenOnce /\ FirstChoice)'
    BY <1>3, <1>5, <1>6, HoldersStay DEF AvatarInv
<1>10. RowsHave' /\ LoadsHold'
    BY <1>1, <1>3, <1>6, <1>7, <1>8, RowsStay, LoadsStay DEF AvatarInv
<1> QED BY <1>9, <1>10 DEF AvatarInv

(* A form that is answered at once: with the new row, or with an error.    *)
LEMMA NamingKeeps ==
    ASSUME AccountsInv, AccountsInv', AvatarInv, NEW r \in Requests, pc[r] = "idle", Finish(r),
           UNCHANGED <<files, phase, prepared>>, NEW f \in Files \cup {None}, NEW id,
           chosen' = IF f = None THEN chosen ELSE chosen \cup {<<f, r, id>>},
           \/ UsersSame
           \/ \E p, by : CreateRow(p, by) /\ p.avatar = f /\ id = born + 1
    PROVE  AvatarInv'
<1>1. \A q \in Requests : pc'[q] = (IF q = r THEN "done" ELSE pc[q]) /\ loc'[q] = IF q = r THEN NoLoc ELSE loc[q]
    BY DEF AccountsInv, LocsInv, Finish, Goto
<1>2. None \notin Requests /\ None \notin Files
    BY NoneAssumption, RequestsAssumption
<1>3. Aside(r) /\ ChosenGo(r)
    BY <1>1 DEF Aside, ChosenGo, Choosers
<1>4. \A g, i : <<g, r, i>> \notin chosen
    <2>1. ASSUME NEW g, NEW i, <<g, r, i>> \in chosen PROVE FALSE
        <3>1. <<g, r, i>>[2] = r
            OBVIOUS
        <3> QED BY <1>2, <2>1, <3>1 DEF AvatarInv, ChosenOnce
    <2> QED BY <2>1
<1>5. /\ mixed \subseteq mixed' /\ WritesShow /\ stale \subseteq stale' /\ born' \in {born, born + 1}
      /\ \A v \in users' : v \in users \/ (v.id = id /\ v.avatar = f)
    <2>1. ASSUME NEW p, NEW by, CreateRow(p, by), p.avatar = f, id = born + 1
          PROVE  mixed \subseteq mixed' /\ \A v \in users' : v \in users \/ (v.id = id /\ v.avatar = f)
        <3>1. NewRow(p).id = id /\ NewRow(p).avatar = f
            BY <2>1 DEF NewRow
        <3> QED BY <2>1, <3>1 DEF CreateRow, Written
    <2>2. UsersSame => mixed \subseteq mixed' /\ \A v \in users' : v \in users
        BY DEF UsersSame
    <2> QED BY <2>1, <2>2, UpdatesShow
<1>6. HoldersGo(r)
    <2> SUFFICES ASSUME NEW g, NEW i, NEW x, Held(g, i, x)'
                 PROVE  \/ \E y : Held(g, i, y) /\ (x = y \/ ({x, y} \subseteq {r, None}))
                        \/ /\ <<g, r, i>> \in chosen' \ chosen
                           /\ x \in {r, None} /\ (pc'[r] \in Choosers => x = r)
        BY DEF HoldersGo
    <2>0. g \in Files
        BY DEF Held
    <2>1. CASE x \in Requests /\ Brings(g, i, x)'
        <3>1. Brings(g, i, x)
            BY <1>1, <2>1 DEF Brings, Savers
        <3> QED BY <2>0, <2>1, <3>1 DEF Held
    <2>2. CASE x = None /\ \E q \in Requests : Drops(g, i, q)'
        <3>1. \E q \in Requests : Drops(g, i, q)
            BY <1>1, <2>2 DEF Drops, Replacers
        <3> QED BY <2>0, <2>2, <3>1 DEF Held
    <2>3. CASE x = None /\ Seeds(g, i)'
        BY <2>0, <2>3 DEF Seeds, Held
    <2>4. CASE x = None /\ InRow(g, i)'
        <3>1. InRow(g, i) \/ (g = f /\ i = id)
            BY <1>5, <2>4 DEF InRow
        <3>2. CASE InRow(g, i)
            BY <2>0, <2>4, <3>2 DEF Held
        <3>3. CASE g = f /\ i = id
            <4>1. <<g, r, i>> \in chosen' \ chosen
                BY <1>2, <1>4, <2>0, <3>3
            <4>2. pc'[r] \notin Choosers
                BY <1>1 DEF Choosers
            <4> QED BY <2>4, <4>1, <4>2
        <3> QED BY <3>1, <3>2, <3>3
    <2> QED BY <2>1, <2>2, <2>3, <2>4 DEF Held
<1>7. FilesGo /\ NoneDropped
    BY <1>1 DEF FilesGo, NoneDropped, Gone
<1>8. RowsKeep(r)
    <2>1. ASSUME f # None, Gone(f) PROVE Shared(f)'
        <3>1. PICK c \in chosen : c[1] = f
            BY <1>2, <2>1, DeletedIsHeld DEF Gone, AvatarInv, DeletedOwned, HolderOwns
        <3>2. <<f, r, id>> \in chosen' /\ c \in chosen' /\ c # <<f, r, id>> /\ <<f, r, id>>[1] = f
            BY <1>4, <2>1, <3>1
        <3> QED BY <3>1, <3>2 DEF Shared
    <2> QED BY <1>5, <2>1 DEF RowsKeep, InRow
<1>9. born' >= born /\ born' \in Nat
    BY <1>5 DEF AccountsInv, UsersInv, RowsOK
<1>10. Loaded(users', chosen', r, pc'[r], loc'[r]) /\ Choice(chosen', r, pc'[r], loc'[r])
    BY <1>1 DEF Loaded, Choice
<1>11. (HolderOwns /\ DeletedOwned /\ ChosenOnce /\ FirstChoice)'
    BY <1>3, <1>6, <1>7, HoldersStay DEF AvatarInv
<1>12. RowsHave' /\ LoadsHold'
    BY <1>3, <1>5, <1>7, <1>8, <1>9, <1>10, RowsStay, LoadsStay DEF AvatarInv
<1> QED BY <1>11, <1>12 DEF AvatarInv

LEMMA RegisterAvatars ==
    ASSUME AccountsInv, AccountsInv', AvatarInv, NEW r \in Requests, NEW s, NEW password,
           NEW avatar \in AvatarURLs, Register(r, s, password, avatar), UNCHANGED <<phase, prepared>>
    PROVE  AvatarInv'
<1>1. pc[r] = "idle" /\ Finish(r) /\ files' = files /\ chosen' = Names(r, avatar, born + 1)
    BY DEF Register, Arrives, rest
<1>2. UsersSame \/ \E p, by : CreateRow(p, by) /\ p.avatar = avatar
    <2>1. Params(Lower[s], None, password, FALSE, None, None, avatar).avatar = avatar
        BY DEF Params
    <2> QED BY <2>1 DEF Register
<1>3. avatar \in Files \cup {None}
    BY AvatarsAreFiles
<1> QED BY <1>1, <1>2, <1>3, NamingKeeps DEF Names

LEMMA ProfileAvatars ==
    ASSUME AccountsInv, AccountsInv', AvatarInv, NEW r \in Requests, NEW id, NEW avatar \in AvatarURLs,
           ProfileLoad(r, id, avatar), UNCHANGED <<phase, prepared>>
    PROVE  AvatarInv'
<1>1. PICK u \in users : /\ u.id = id
                        /\ Load(r, u, "saveProfile", ProfileParams(u, avatar), None,
                                [NoLoc EXCEPT !.file = Replaced(u, avatar)])
                        /\ chosen' = IF avatar \in {None, u.avatar} THEN chosen ELSE chosen \cup {<<avatar, r, id>>}
    BY DEF ProfileLoad, ByID
<1>2. pc[r] = "idle" /\ UNCHANGED <<users, born, files, stale, mixed>>
    BY DEF ProfileLoad, Arrives, UsersSame, rest
<1> DEFINE p == ProfileParams(u, avatar)
           l == [[NoLoc EXCEPT !.file = Replaced(u, avatar)] EXCEPT
                   !.user = u.id, !.params = p, !.password = None, !.by = "owner"]
<1>3. Goto(r, "saveProfile", l)
    BY <1>1 DEF Load
<1>4. l.user = u.id /\ l.params = p /\ l.file = Replaced(u, avatar)
    BY DEF NoLoc
<1>5. p.avatar = IF avatar = None THEN u.avatar ELSE avatar
    BY DEF ProfileParams, Params, Kept
<1> HIDE DEF p, l
<1>6. InRow(u.avatar, l.user) /\ (l.file = None \/ InRow(l.file, l.user))
    BY <1>4 DEF InRow, Replaced
<1>7. \A v \in users : v.id = l.user => v = u
    BY <1>4 DEF AccountsInv, UsersInv, RowsOK
<1>8. CASE avatar \in {None, u.avatar}
    <2>1. chosen' = chosen /\ l.params.avatar = u.avatar /\ l.file = None
        BY <1>1, <1>4, <1>5, <1>8 DEF Replaced
    <2>2. Loaded(users, chosen', r, "saveProfile", l) /\ Choice(chosen', r, "saveProfile", l)
        BY <1>7, <2>1 DEF Loaded, Choice
    <2> QED BY <1>2, <1>3, <1>6, <2>1, <2>2, ChoiceKeeps DEF Choosers
<1>9. CASE avatar \notin {None, u.avatar}
    <2>1. l.params.avatar = avatar /\ l.file = u.avatar /\ avatar \in Files
        BY <1>4, <1>5, <1>9, AvatarsAreFiles DEF Replaced
    <2>2. chosen' = chosen \cup {<<l.params.avatar, r, l.user>>}
        BY <1>1, <1>4, <1>9, <2>1
    <2>3. Loaded(users, chosen', r, "saveProfile", l) /\ Choice(chosen', r, "saveProfile", l)
        BY <1>9, <2>1, <2>2 DEF Loaded, Choice
    <2> QED BY <1>2, <1>3, <1>6, <2>1, <2>2, <2>3, ChoiceKeeps DEF Choosers
<1> QED BY <1>8, <1>9

LEMMA SaveProfileAvatars ==
    ASSUME AccountsInv, AccountsInv', AvatarInv, NEW r \in Requests, SaveProfile(r), UNCHANGED <<phase, prepared>>
    PROVE  AvatarInv'
<1>1. UNCHANGED <<files, chosen>> /\ pc[r] = "saveProfile" /\ FilesGo
    BY DEF SaveProfile, rest, FilesGo
<1>2. CASE UsersSame /\ Finish(r)
    <2>1. RowsGiven(r) /\ WritesShow /\ stale \subseteq stale' /\ born' = born
        BY <1>2, WritesGive, UpdatesShow
    <2>2. \E next, l : Goto(r, next, l) /\ next \notin Savers \cup {"idle", "deleteFile"}
        BY <1>2 DEF Finish, Savers
    <2> QED BY <1>1, <2>1, <2>2, PassingKeeps
<1>3. CASE UpdateRow(loc[r].user, loc[r].params, None, None, r \in stale)
    <2>1. RowsGiven(r) /\ WritesShow /\ stale \subseteq stale' /\ born' = born
        BY <1>1, <1>3, SavesGive, UpdatesShow DEF Savers
    <2>2. CASE Finish(r)
        <3>1. \E next, l : Goto(r, next, l) /\ next \notin Savers \cup {"idle", "deleteFile"}
            BY <2>2 DEF Finish, Savers
        <3> QED BY <1>1, <2>1, <3>1, PassingKeeps
    <2>3. CASE loc[r].file # None /\ Goto(r, "deleteFile", loc[r])
        <3>1. \A q \in Requests : pc'[q] = (IF q = r THEN "deleteFile" ELSE pc[q]) /\ loc'[q] = loc[q]
            BY <2>3 DEF AccountsInv, LocsInv, Goto
        <3>2. ASSUME NEW v \in users', v.avatar = loc[r].file PROVE Shared(v.avatar)
            <4>1. PICK u \in users : /\ u.id = loc[r].user
                                    /\ users' = (users \ {u}) \cup {Updated(u, loc[r].params)}
                BY <1>3 DEF UpdateRow, ByID
            <4>2. Updated(u, loc[r].params).avatar # loc[r].file
                BY <1>1, <2>3 DEF AvatarInv, LoadsHold, Choice, Updated
            <4>3. v \in users /\ v.id # loc[r].user
                BY <3>2, <4>1, <4>2 DEF AccountsInv, UsersInv, RowsOK
            <4>4. v.avatar \in Files
                BY <2>3, <3>2, <4>3 DEF AccountsInv, UsersInv, RowsOK, Row
            <4>5. Held(v.avatar, v.id, None) /\ Held(v.avatar, loc[r].user, None)
                BY <1>1, <3>2, <4>3, <4>4 DEF Held, InRow, Drops, Replacers
            <4>6. /\ \E c \in chosen : c[1] = v.avatar /\ c[3] = v.id
                  /\ \E c \in chosen : c[1] = v.avatar /\ c[3] = loc[r].user
                BY <4>5 DEF AvatarInv, HolderOwns
            <4> QED BY <4>3, <4>6 DEF Shared
        <3>3. Moves(r)
            BY <1>1, <3>1, <3>2 DEF Moves, Savers
        <3>4. SeedsGo
            BY DEF SeedsGo, Seeds
        <3>5. born' >= born /\ born' \in Nat
            BY <2>1 DEF AccountsInv, UsersInv, RowsOK
        <3> QED BY <1>1, <2>1, <3>3, <3>4, <3>5, QuietKeeps
    <2> QED BY <1>3, <2>2, <2>3 DEF SaveProfile
<1> QED BY <1>2, <1>3 DEF SaveProfile

LEMMA FileStepsGo ==
    ASSUME TablesInv, NEW r \in Requests,
           DeleteFile(r) \/ UploadCopy(r) \/ \E f \in Files : UploadCreate(r, f)
    PROVE  FilesGo
<1> SUFFICES ASSUME NEW g \in Files
             PROVE  files'[g] = "deleted" => \/ files[g] = "deleted"
                                             \/ \E q \in Requests : pc[q] = "deleteFile" /\ loc[q].file = g
    BY DEF FilesGo
<1>0. DOMAIN files = Files
    BY DEF TablesInv
<1>1. CASE DeleteFile(r)
    <2>1. files'[g] = IF g = loc[r].file /\ files[g] # "none" THEN "deleted" ELSE files[g]
        BY <1>0, <1>1 DEF DeleteFile
    <2> QED BY <1>1, <2>1 DEF DeleteFile
<1>2. CASE UploadCopy(r)
    <2>1. files'[g] = IF g = loc[r].file /\ files[g] # "deleted" THEN "whole" ELSE files[g]
        BY <1>0, <1>2 DEF UploadCopy
    <2> QED BY <2>1
<1>3. CASE \E f \in Files : UploadCreate(r, f)
    <2>1. PICK f \in Files : files[f] = "none" /\ files' = [files EXCEPT ![f] = "partial"]
        BY <1>3 DEF UploadCreate
    <2>2. files'[g] = IF g = f THEN "partial" ELSE files[g]
        BY <1>0, <2>1
    <2> QED BY <2>1, <2>2
<1> QED BY <1>1, <1>2, <1>3

LEMMA OwnAccountAvatars ==
    ASSUME AccountsInv, AccountsInv', TablesInv, AvatarInv, NEW r \in Requests, OwnAccount(r),
           UNCHANGED <<phase, prepared>>
    PROVE  AvatarInv'
<1>1. CASE ResetLoad(r) /\ \E u \in users :
              Load(r, u, "savePassword", PasswordParams(u, loc[r].password), loc[r].password, loc[r])
    <2>1. UNCHANGED <<users, born, files, chosen, stale, mixed>> /\ DOMAIN loc[r] = DOMAIN NoLoc /\ pc[r] \notin Choosers
        BY <1>1 DEF ResetLoad, rest, ghosts, AccountsInv, LocsInv, LocOK, Choosers
    <2>2. \A u \in users : PasswordParams(u, loc[r].password).avatar = u.avatar
        BY DEF PasswordParams, Params
    <2> QED BY <1>1, <2>1, <2>2, LoadKeeps
<1>2. ASSUME NEW password, \E id, current : ChangeLoad(r, id, current, password),
             \E u \in users : Load(r, u, "savePassword", PasswordParams(u, password), password, NoLoc)
      PROVE  AvatarInv'
    <2>1. UNCHANGED <<users, born, files, chosen, stale, mixed>> /\ pc[r] \notin Choosers
        BY <1>2 DEF ChangeLoad, rest, ghosts, Arrives, Choosers
    <2>2. \A u \in users : PasswordParams(u, password).avatar = u.avatar
        BY DEF PasswordParams, Params
    <2> QED BY <1>2, <2>1, <2>2, LoadKeeps
<1>3. CASE /\ \/ \E s : ForgotLookup(r, s)
              \/ ForgotCreate(r)
              \/ \E t, password : ResetFind(r, t, password)
              \/ ResetLoad(r)
              \/ \E id, current, password : ChangeLoad(r, id, current, password)
              \/ MarkUsed(r)
              \/ \E n : MarkRead(r, n)
           /\ \E next \in {"issue", "done", "resetLoad"} : \E l : Goto(r, next, l)
    <2>1. UNCHANGED <<files, chosen>> /\ UsersSame
        BY <1>3 DEF ForgotLookup, ForgotCreate, ResetFind, ResetLoad, ChangeLoad, MarkUsed, MarkRead,
                    UsersSame, rest, ghosts
    <2>2. FilesGo
        BY <2>1 DEF FilesGo
    <2>3. \E next, l : Goto(r, next, l) /\ next \notin Savers \cup {"idle", "deleteFile"}
        BY <1>3 DEF Savers
    <2> QED BY <2>1, <2>2, <2>3, WritesGive, UpdatesShow, PassingKeeps
<1>4. CASE DeleteFile(r) \/ UploadCopy(r) \/ \E f \in Files : UploadCreate(r, f)
    <2>1. chosen' = chosen /\ UsersSame
        BY <1>4 DEF DeleteFile, UploadCopy, UploadCreate
    <2>2. \E next \in {"done", "copy"} : \E l : Goto(r, next, l)
        BY <1>4 DEF DeleteFile, UploadCopy, UploadCreate, Finish
    <2>3. \E next, l : Goto(r, next, l) /\ next \notin Savers \cup {"idle", "deleteFile"}
        BY <2>2 DEF Savers
    <2> QED BY <1>4, <2>1, <2>3, FileStepsGo, WritesGive, UpdatesShow, PassingKeeps
<1>5. CASE SavePassword(r)
    <2>1. UNCHANGED <<files, chosen>> /\ pc[r] = "savePassword"
        BY <1>5 DEF SavePassword, rest
    <2>2. FilesGo
        BY <2>1 DEF FilesGo
    <2>3. \E next \in {"done", "markUsed"} : \E l : Goto(r, next, l)
        BY <1>5 DEF SavePassword, Finish
    <2>4. \E next, l : Goto(r, next, l) /\ next \notin Savers \cup {"idle", "deleteFile"}
        BY <2>3 DEF Savers
    <2>5. CASE UsersSame
        BY <2>1, <2>2, <2>4, <2>5, WritesGive, UpdatesShow, PassingKeeps
    <2>6. CASE UpdateRow(loc[r].user, loc[r].params, loc[r].password, "owner", r \in stale)
        <3>1. RowsGiven(r)
            BY <2>1, <2>6, SavesGive DEF Savers
        <3> QED BY <2>1, <2>2, <2>4, <2>6, <3>1, UpdatesShow, PassingKeeps
    <2> QED BY <1>5, <2>5, <2>6 DEF SavePassword
<1>6. ResetLoad(r) => \/ \E next \in {"issue", "done", "resetLoad"} : \E l : Goto(r, next, l)
                      \/ \E u \in users : Load(r, u, "savePassword", PasswordParams(u, loc[r].password),
                                               loc[r].password, loc[r])
    BY DEF ResetLoad, Finish
<1>7. \A id, current, password : ChangeLoad(r, id, current, password) =>
         \/ \E next \in {"issue", "done", "resetLoad"} : \E l : Goto(r, next, l)
         \/ \E u \in users : Load(r, u, "savePassword", PasswordParams(u, password), password, NoLoc)
    BY DEF ChangeLoad, ByID, Finish
<1>8. \/ \E s : ForgotLookup(r, s)
      \/ ForgotCreate(r) \/ MarkUsed(r)
      \/ \E t, password : ResetFind(r, t, password)
      \/ \E n : MarkRead(r, n)
      => \E next \in {"issue", "done", "resetLoad"} : \E l : Goto(r, next, l)
    BY DEF ForgotLookup, ForgotCreate, ResetFind, MarkUsed, MarkRead, Finish
<1> QED BY <1>1, <1>2, <1>3, <1>4, <1>5, <1>6, <1>7, <1>8, ProfileAvatars, SaveProfileAvatars DEF OwnAccount

LEMMA EditAvatars ==
    ASSUME AccountsInv, AccountsInv', AvatarInv, NEW r \in Requests, NEW id, NEW form,
           form.avatar \in Files \cup {None}, EditLoad(r, id, form), UNCHANGED <<phase, prepared>>
    PROVE  AvatarInv'
<1>1. pc[r] = "idle" /\ UsersSame /\ files' = files /\ chosen' = Names(r, form.avatar, id)
    BY DEF EditLoad, Arrives, rest
<1>2. CASE Finish(r)
    BY <1>1, <1>2, NamingKeeps DEF Names
<1>3. ASSUME NEW must,
             Goto(r, "saveEdit", [NoLoc EXCEPT !.user = id, !.params = FormParams(form, must),
                                               !.password = form.password, !.by = GivenBy(form)])
      PROVE  AvatarInv'
    <2> DEFINE l == [NoLoc EXCEPT !.user = id, !.params = FormParams(form, must),
                                  !.password = form.password, !.by = GivenBy(form)]
    <2>1. l.user = id /\ l.params = FormParams(form, must)
        BY DEF NoLoc
    <2>2. Goto(r, "saveEdit", l)
        BY <1>3
    <2> HIDE DEF l
    <2>3. l.params.avatar = form.avatar
        BY <2>1 DEF FormParams, Params
    <2>4. Loaded(users, chosen', r, "saveEdit", l) /\ Choice(chosen', r, "saveEdit", l)
        BY <1>1, <2>1, <2>3 DEF Loaded, Choice, Names
    <2> QED BY <1>1, <2>1, <2>2, <2>3, <2>4, ChoiceKeeps DEF UsersSame, Names, Choosers
<1> QED BY <1>2, <1>3 DEF EditLoad

LEMMA AdministerAvatars ==
    ASSUME AccountsInv, AccountsInv', AvatarInv, NEW r \in Requests, Administer(r) \/ Abort(r),
           UNCHANGED <<phase, prepared>>
    PROVE  AvatarInv'
<1>1. ASSUME NEW form, form.avatar \in Files \cup {None}, AdminCreate(r, form) PROVE AvatarInv'
    <2>1. pc[r] = "idle" /\ Finish(r) /\ files' = files /\ chosen' = Names(r, form.avatar, born + 1)
        BY <1>1 DEF AdminCreate, Arrives, rest
    <2>2. UsersSame \/ \E p, by : CreateRow(p, by) /\ p.avatar = form.avatar
        <3>1. FormParams(form, form.password # None /\ form.admin).avatar = form.avatar
            BY DEF FormParams, Params
        <3> QED BY <1>1, <3>1 DEF AdminCreate
    <2> QED BY <1>1, <2>1, <2>2, NamingKeeps DEF Names
<1>2. CASE SaveEdit(r) \/ Abort(r) \/ \E u \in users : Deactivate(r, u.id) \/ CreateNote(r, u.id)
    <2>1. UNCHANGED <<files, chosen>>
        BY <1>2 DEF SaveEdit, Abort, Deactivate, CreateNote, rest, ghosts
    <2>2. FilesGo
        BY <2>1 DEF FilesGo
    <2>3. \E next \in {"done", "record"} : \E l : Goto(r, next, l)
        BY <1>2 DEF SaveEdit, Abort, Deactivate, CreateNote, Finish
    <2>4. \E next, l : Goto(r, next, l) /\ next \notin Savers \cup {"idle", "deleteFile"}
        BY <2>3 DEF Savers
    <2>5. RowsGiven(r) /\ WritesShow /\ stale \subseteq stale' /\ born' = born
        <3>1. CASE UsersSame
            BY <3>1, WritesGive, UpdatesShow
        <3>2. CASE SaveEdit(r) /\ UpdateRow(loc[r].user, loc[r].params, loc[r].password, loc[r].by, r \in stale)
            BY <3>2, SavesGive, UpdatesShow DEF SaveEdit, Savers
        <3>3. CASE \E u \in users : Deactivate(r, u.id)
            <4>1. users' \subseteq users /\ mixed' = mixed /\ stale \subseteq stale' /\ born' = born
                BY <3>3 DEF Deactivate
            <4> QED BY <4>1, WritesGive DEF WritesShow
        <3>4. Abort(r) \/ (\E u \in users : CreateNote(r, u.id)) => UsersSame
            BY DEF Abort, CreateNote, ghosts, UsersSame
        <3> QED BY <1>2, <3>1, <3>2, <3>3, <3>4 DEF SaveEdit
    <2> QED BY <2>1, <2>2, <2>4, <2>5, PassingKeeps
<1>3. \A form \in bound.forms : form.avatar \in Files \cup {None}
    BY BoundsAssumption DEF AccountsInv, Form
<1> QED BY <1>1, <1>2, <1>3, EditAvatars DEF Administer

(* A start brings the avatar of the row that it found.                     *)
LEMMA StartAvatars ==
    ASSUME SystemInv, AccountsInv', AvatarInv, NEW p \in Processes, Start(p) \/ Stop(p)
    PROVE  AvatarInv'
<1>0. AccountsInv /\ DOMAIN phase = Processes /\ DOMAIN prepared = Processes
    BY DEF SystemInv, PreparedInv
<1>1. UNCHANGED <<files, chosen, pc, loc>>
    BY DEF Start, Stop, ReadVersions, ApplyMigration, SeedLookup, SeedCreate, SeedUpdate,
           AccountsSame, accountVars, RequestsSame
<1>2. FilesGo /\ Moves(None)
    BY <1>1, NoneAssumption, RequestsAssumption DEF FilesGo, Moves
<1>3. SeedsGo
    <2> SUFFICES ASSUME NEW f, NEW id, Seeds(f, id)' PROVE Seeds(f, id) \/ InRow(f, id)
        BY DEF SeedsGo
    <2>1. PICK q \in Processes : /\ phase'[q] = "seedUpdate"
                                /\ prepared'[q].loaded.id = id /\ prepared'[q].loaded.avatar = f
        BY DEF Seeds
    <2>2. CASE phase'[q] = phase[q] /\ prepared'[q] = prepared[q]
        BY <2>1, <2>2 DEF Seeds
    <2>3. CASE SeedLookup(p) /\ q = p
        <3>1. PICK u \in users : prepared' = [prepared EXCEPT ![p] = [loaded |-> u, params |-> SeedParams(u)]]
            BY <1>0, <2>1, <2>3 DEF SeedLookup, Enter, ByEmail
        <3>2. prepared'[p].loaded = u
            BY <1>0, <3>1
        <3> QED BY <2>1, <2>3, <3>2 DEF InRow
    <2>4. CASE q # p
        <3>1. phase'[q] = phase[q]
            BY <1>0, <2>4 DEF Start, Stop, ReadVersions, ApplyMigration, SeedLookup, SeedCreate, SeedUpdate, Enter
        <3>2. prepared'[q] = prepared[q]
            BY <1>0, <2>4 DEF Start, Stop, ReadVersions, ApplyMigration, SeedLookup, SeedCreate, SeedUpdate
        <3> QED BY <2>2, <3>1, <3>2
    <2>5. CASE q = p /\ ~SeedLookup(p)
        <3>1. ReadVersions(p) \/ SeedCreate(p) \/ SeedUpdate(p) \/ Stop(p) => phase'[p] # "seedUpdate"
            BY <1>0 DEF ReadVersions, SeedCreate, SeedUpdate, Stop, Enter
        <3>2. ApplyMigration(p) => phase'[p] # "seedUpdate"
            BY <1>0 DEF ApplyMigration, Enter
        <3> QED BY <2>1, <2>5, <3>1, <3>2 DEF Start
    <2> QED BY <2>3, <2>4, <2>5
<1>4. RowsGiven(None) /\ WritesShow /\ stale \subseteq stale' /\ born' \in {born, born + 1}
    <2>1. CASE UsersSame
        BY <2>1, WritesGive, UpdatesShow
    <2>2. CASE SeedCreate(p)
        <3>1. Params(SeedEmail, None, SeedPassword, TRUE, TRUE, FALSE, None).avatar = None
            BY DEF Params
        <3>2. ASSUME NEW row, CreateRow(row, "seed"), row.avatar = None
              PROVE  RowsGiven(None) /\ WritesShow /\ stale \subseteq stale' /\ born' = born + 1
            BY <1>0, <3>2, WritesGive, UpdatesShow
        <3> QED BY <2>1, <2>2, <3>1, <3>2 DEF SeedCreate
    <2>3. CASE SeedUpdate(p)
        <3> DEFINE u == prepared[p].loaded
                   q == prepared[p].params
        <3>1. phase[p] = "seedUpdate" /\ q = SeedParams(u) /\ q \in ParamsType
            BY <2>3 DEF SeedUpdate, SystemInv, PreparedInv, UpdateFits, Fits
        <3>2. q.avatar = u.avatar /\ q.avatar \in Files \cup {None}
            BY <3>1 DEF SeedParams, Params, ParamsType
        <3>3. q.avatar # None => Held(q.avatar, u.id, None)
            BY <3>1, <3>2 DEF Held, Seeds
        <3>4. CASE UpdateRow(u.id, q, SeedPassword, "seed", u \notin users)
            <4>1. u \in users => InRow(q.avatar, u.id)
                BY <3>2 DEF InRow
            <4>2. RowsGiven(None)
                BY <3>3, <3>4, <4>1, UpdateGives
            <4> QED BY <3>4, <4>2, UpdatesShow
        <3> QED BY <2>1, <2>3, <3>4 DEF SeedUpdate
    <2>4. CASE AccountsSame
        BY <2>1, <2>4 DEF AccountsSame, accountVars, UsersSame
    <2> QED BY <2>2, <2>3, <2>4 DEF Start, Stop, ReadVersions, ApplyMigration, SeedLookup
<1>5. born' >= born /\ born' \in Nat
    BY <1>0, <1>4 DEF AccountsInv, UsersInv, RowsOK
<1> QED BY <1>0, <1>1, <1>2, <1>3, <1>4, <1>5, QuietKeeps

LEMMA NextAvatars == SystemInv /\ TablesInv /\ AvatarInv /\ [SystemNext]_systemVars => AvatarInv'
<1> SUFFICES ASSUME SystemInv, TablesInv, AvatarInv, [SystemNext]_systemVars PROVE AvatarInv'
    OBVIOUS
<1>0. AccountsInv /\ AccountsInv'
    BY NextKeepsSystemInv DEF SystemInv
<1>1. CASE WindowMoves \/ (\E t \in tokens : TokenLapses(t)) \/ UNCHANGED systemVars
    <2>1. UNCHANGED <<users, born, files, pc, loc, stale, mixed, chosen>>
        BY <1>1 DEF WindowMoves, TokenLapses, UsersSame, ghosts, systemVars
    <2>2. UNCHANGED <<phase, prepared>> => AvatarInv'
        <3> SUFFICES ASSUME UNCHANGED <<phase, prepared>> PROVE AvatarInv'
            OBVIOUS
        <3>1. Moves(None)
            BY <2>1, NoneAssumption, RequestsAssumption DEF Moves
        <3>2. SeedsGo
            BY DEF SeedsGo, Seeds
        <3>3. FilesGo
            BY <2>1 DEF FilesGo
        <3>4. WritesShow
            BY <2>1 DEF WritesShow
        <3>5. born' >= born /\ born' \in Nat
            BY <1>0, <2>1 DEF AccountsInv, UsersInv, RowsOK
        <3>6. RowsGiven(None)
            BY <2>1, WritesGive
        <3> QED BY <1>0, <2>1, <3>1, <3>2, <3>3, <3>4, <3>5, <3>6, QuietKeeps
    <2>3. UNCHANGED <<phase, prepared>> \/ \E p \in Processes : Start(p) \/ Stop(p)
        BY DEF SystemNext, Serve, startVars, systemVars
    <2> QED BY <1>0, <2>2, <2>3, StartAvatars
<1>2. CASE Serve
    <2>1. UNCHANGED <<phase, prepared>>
        BY <1>2 DEF Serve, startVars
    <2>2. ASSUME NEW r \in Requests, SignIn(r) PROVE AvatarInv'
        <3>1. CASE \E s, password : \E avatar \in AvatarURLs : Register(r, s, password, avatar)
            BY <1>0, <2>1, <3>1, RegisterAvatars
        <3>2. CASE ~\E s, password : \E avatar \in AvatarURLs : Register(r, s, password, avatar)
            BY <1>0, <2>1, <2>2, <3>2, SignInAvatars
        <3> QED BY <3>1, <3>2
    <2> QED BY <1>0, <1>1, <1>2, <2>1, <2>2, OwnAccountAvatars, AdministerAvatars DEF Serve, AccountsNext
<1> QED BY <1>0, <1>1, <1>2, StartAvatars DEF SystemNext

(* A profile deletes the file of the avatar it replaced, whoever names it  *)
(* by then; still a row is left with a deleted file only if the file had   *)
(* been named twice or the row was written from an older one.              *)
THEOREM AvatarsNotDeleted == SystemSpec => []AvatarNotDeleted
<1>1. SystemInit => AvatarInv
    <2> SUFFICES ASSUME SystemInit PROVE AvatarInv
        OBVIOUS
    <2>1. /\ \A r \in Requests : pc[r] = "idle"
          /\ \A p \in Processes : phase[p] # "seedUpdate"
          /\ chosen = {<<u.avatar, None, u.id>> : u \in {v \in users : v.avatar # None}}
          /\ \A f \in Files : files[f] = IF \E u \in users : u.avatar = f THEN "whole" ELSE "none"
        BY DEF SystemInit, AccountsInit
    <2>2. None \notin Requests /\ None \notin Files
        BY NoneAssumption, RequestsAssumption
    <2>3. \A f \in Files : files[f] # "deleted" /\ ~Gone(f)
        BY <2>1 DEF Gone
    <2>4. HolderOwns
        <3> SUFFICES ASSUME NEW f, NEW id, NEW x, Held(f, id, x)
                     PROVE  \E c \in chosen : c[1] = f /\ c[3] = id
            BY DEF HolderOwns
        <3>1. PICK u \in users : u.id = id /\ u.avatar = f
            BY <2>1 DEF Held, Brings, Drops, Seeds, Savers, Replacers, InRow
        <3>2. f \in Files /\ <<f, None, id>> \in chosen
            BY <2>1, <2>2, <3>1 DEF Held
        <3>3. <<f, None, id>>[1] = f /\ <<f, None, id>>[3] = id
            OBVIOUS
        <3> QED BY <3>2, <3>3
    <2>5. \A c \in chosen : c[2] = None
        BY <2>1
    <2>6. ChosenOnce /\ FirstChoice /\ DeletedOwned
        BY <2>2, <2>3, <2>5 DEF ChosenOnce, FirstChoice, DeletedOwned
    <2>7. RowsHave
        <3>1. \A u \in users : u.avatar \in Files \cup {None}
            BY InitSystemInv DEF SystemInv, AccountsInv, UsersInv, RowsOK, Row
        <3> QED BY <2>3, <3>1 DEF RowsHave
    <2>8. LoadsHold
        BY <2>1 DEF LoadsHold, Loaded, Choice
    <2> QED BY <2>4, <2>6, <2>7, <2>8 DEF AvatarInv
<1>2. AvatarInv => AvatarNotDeleted
    BY DEF AvatarInv, RowsHave, Gone, Shared, AvatarNotDeleted
<1> QED BY <1>1, <1>2, NextAvatars, SystemInvariant, PTL DEF SystemSpec
=============================================================================

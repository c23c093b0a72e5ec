------------------------------- MODULE Startup -------------------------------
(***************************************************************************)
(* How a process of the API starts (cmd/api/main.go, internal/bootstrap):  *)
(* it applies the migrations that are not recorded, prepares the super     *)
(* admin of the configuration, and serves.  An error ends the process, and *)
(* the service manager starts it again (deploy/: Restart=always).  Two     *)
(* processes may start at once on one database; nothing locks them out.    *)
(*                                                                         *)
(* Composed with Accounts: the seeder writes rows of users, and requests   *)
(* are served while a process serves.                                      *)
(***************************************************************************)
EXTENDS Accounts

CONSTANTS
    Processes,
    Migrations,     \* number of migration files, which are 1 .. Migrations
    Repeatable,     \* those that may run again: IF NOT EXISTS, plain UPDATE
    SeedEmail,      \* SEED_ADMIN_EMAIL, lower-cased
    SeedPassword    \* SEED_ADMIN_PASSWORD

ASSUME StartupAssumption == /\ Migrations \in Nat \ {0}
                            /\ Repeatable \subseteq 1 .. Migrations
                            /\ SeedEmail \in DOMAIN Lower /\ Lower[SeedEmail] = SeedEmail
                            /\ SeedPassword \in STRING
                            /\ \A b \in Bounds : b.starting \in {{}, Processes}

VARIABLES
    phase,      \* process -> what it is about to do
    known,      \* process -> versions it read as applied, and applied itself
    prepared,   \* process -> the row it found and the update of it, or None
    ran,        \* version -> how often its SQL was committed
    recorded,   \* rows of goose_db_version
    setbacks    \* bound: failures and stops so far

startVars == <<phase, known, prepared, ran, recorded, setbacks>>
systemVars == <<bound, users, born, tokens, tries, files, notes, pc, loc,
                stale, mixed, lastSet, wins, blamed, chosen,
                phase, known, prepared, ran, recorded, setbacks>>

Versions == 1 .. Migrations

(* Behaviours without starts begin while every process serves. *)
SystemInit ==
    /\ AccountsInit
    /\ phase = [p \in Processes |-> IF p \in bound.starting THEN "down" ELSE "serving"]
    /\ known = [p \in Processes |-> {}]
    /\ prepared = [p \in Processes |-> None]
    /\ ran = [v \in Versions |-> IF bound.starting = {} THEN 1 ELSE 0]
    /\ recorded = IF bound.starting = {} THEN [v \in Versions |-> v] ELSE <<>>
    /\ setbacks = 0

AccountsSame == UNCHANGED accountVars

(* What a seed leaves of Accounts: its tables but users, and the requests. *)
RequestsSame == UNCHANGED <<bound, tokens, tries, files, notes, pc, loc, wins, blamed, chosen>>

Enter(p, next) == phase' = [phase EXCEPT ![p] = next]

(* Mutant of ReadVersions: a start that takes every version as pending. *)
ReadVersionsAnew(p) ==
    /\ phase[p] = "down"
    /\ known' = [known EXCEPT ![p] = {}]
    /\ Enter(p, "migrating")
    /\ AccountsSame /\ UNCHANGED <<prepared, ran, recorded, setbacks>>

(* The manager starts the process; ensureVersionTable and appliedVersions. *)
ReadVersions(p) ==
    /\ phase[p] = "down"
    /\ known' = [known EXCEPT ![p] = {recorded[i] : i \in DOMAIN recorded}]
    /\ Enter(p, "migrating")
    /\ AccountsSame /\ UNCHANGED <<prepared, ran, recorded, setbacks>>

Pending(p) == Versions \ known[p]

FirstPending(p) == {v \in Pending(p) : \A w \in Pending(p) : v <= w}

(* Mutant of ApplyMigration: the version is recorded before the SQL runs,  *)
(* and stays recorded when it fails.                                       *)
ApplyMigrationRecorded(p) ==
    /\ phase[p] = "migrating"
    /\ \E v \in FirstPending(p) :
         /\ recorded' = Append(recorded, v)
         /\ IF ran[v] = 0 \/ v \in Repeatable
            THEN /\ ran' = [ran EXCEPT ![v] = @ + 1]
                 /\ known' = [known EXCEPT ![p] = @ \cup {v}]
                 /\ UNCHANGED phase
            ELSE Enter(p, "down") /\ UNCHANGED <<ran, known>>
    /\ AccountsSame /\ UNCHANGED <<prepared, setbacks>>

(* One transaction runs the SQL and records the version.  SQL that another *)
(* process ran first either runs again or fails, and ends the process.     *)
ApplyMigration(p) ==
    /\ phase[p] = "migrating"
    /\ \E v \in FirstPending(p) :
         IF ran[v] = 0 \/ v \in Repeatable
         THEN /\ ran' = [ran EXCEPT ![v] = @ + 1]
              /\ recorded' = Append(recorded, v)
              /\ known' = [known EXCEPT ![p] = @ \cup {v}]
              /\ UNCHANGED phase
         ELSE Enter(p, "down") /\ UNCHANGED <<ran, recorded, known>>
    /\ AccountsSame /\ UNCHANGED <<prepared, setbacks>>

(* AdminSeeder.Seed looks for the e-mail of the configuration. *)
SeedParams(u) == Params(SeedEmail, u.google, SeedPassword, TRUE, TRUE, FALSE, u.avatar)

SeedLookup(p) ==
    /\ phase[p] = "migrating"
    /\ Pending(p) = {}
    /\ \/ \E u \in ByEmail(SeedEmail) :
            /\ prepared' = [prepared EXCEPT ![p] = [loaded |-> u, params |-> SeedParams(u)]]
            /\ Enter(p, "seedUpdate")
       \/ ByEmail(SeedEmail) = {} /\ Enter(p, "seedCreate") /\ UNCHANGED prepared
    /\ AccountsSame /\ UNCHANGED <<known, ran, recorded, setbacks>>

(* The seed's writes go through UserUseCase and its rules. *)
SeedCreate(p) ==
    /\ phase[p] = "seedCreate"
    /\ LET row == Params(SeedEmail, None, SeedPassword, TRUE, TRUE, FALSE, None)
       IN  \/ CreateRow(row, "seed") /\ Enter(p, "serving")
           \/ ~KeysFree(NewRow(row)) /\ UsersSame /\ Enter(p, "down")
    /\ RequestsSame /\ UNCHANGED <<known, prepared, ran, recorded, setbacks>>

SeedUpdate(p) ==
    LET u == prepared[p].loaded
        params == prepared[p].params
    IN  /\ phase[p] = "seedUpdate"
        /\ \/ UpdateRow(u.id, params, SeedPassword, "seed", u \notin users) /\ Enter(p, "serving")
           \/ UpdateFails(u.id, params) /\ UsersSame /\ Enter(p, "down")
        /\ prepared' = [prepared EXCEPT ![p] = None]
        /\ RequestsSame /\ UNCHANGED <<known, ran, recorded, setbacks>>

(* The process stops, or a statement of its start fails. *)
Stop(p) ==
    /\ phase[p] # "down"
    /\ setbacks < bound.setbacks
    /\ setbacks' = setbacks + 1
    /\ Enter(p, "down")
    /\ prepared' = [prepared EXCEPT ![p] = None]
    /\ AccountsSame /\ UNCHANGED <<known, ran, recorded>>

Start(p) ==
    \/ ReadVersions(p) \/ ApplyMigration(p)
    \/ SeedLookup(p) \/ SeedCreate(p) \/ SeedUpdate(p)

Serve == /\ \E p \in Processes : phase[p] = "serving"
         /\ AccountsNext
         /\ UNCHANGED startVars

SystemNext ==
    \/ Serve
    \/ \E p \in Processes : Start(p) \/ Stop(p)

(* A process that runs goes on, and one that stopped is started again.     *)
SystemSpec ==
    /\ SystemInit /\ [][SystemNext]_systemVars
    /\ \A p \in Processes : WF_systemVars(Start(p))

(* Migrations are applied in order, each completely or not at all: as      *)
(* often as it is recorded, once unless it may be repeated, and all before *)
(* a process writes users or serves.                                       *)
RecordedIsApplied ==
    /\ \A v \in Versions :
         /\ Cardinality({i \in DOMAIN recorded : recorded[i] = v}) = ran[v]
         /\ v \notin Repeatable => ran[v] <= 1
         /\ \A w \in 1 .. v : ran[v] > 0 => ran[w] > 0
    /\ \A p \in Processes :
         phase[p] \notin {"down", "migrating"} => \A v \in Versions : ran[v] > 0

(* A linked Google account is unlinked or replaced only by a form of the   *)
(* super admin, or by a request or a start that had loaded the row before  *)
(* another wrote it: an update that loaded before the link undoes it.      *)
GoogleLinkStays ==
    [][\A u \in users, v \in users' :
         u.id = v.id /\ u.google # None /\ v.google # u.google =>
            \/ \E r \in Requests : pc'[r] # pc[r] /\ (r \in stale \/ pc[r] = "saveEdit")
            \/ \E p \in Processes : phase'[p] # phase[p] /\ phase[p] = "seedUpdate"
                                   /\ prepared[p].loaded # u]_systemVars

(* The seed can succeed: one row at most has its e-mail in some spelling,  *)
(* and nobody else is the super admin.                                     *)
SeedFits ==
    /\ Cardinality(ByEmail(SeedEmail)) <= 1
    /\ \A u \in users : u.super => u \in ByEmail(SeedEmail)

(* Whatever stops or races them, all processes serve again and again, if   *)
(* from some time on the seed fits the table: after the super admin has    *)
(* been given another e-mail no process gets through its start any more.   *)
StartCompletes ==
    <>[]SeedFits => \A p \in Processes : []<>(phase[p] = "serving")
=============================================================================

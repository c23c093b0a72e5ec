---------------------------- MODULE StartupProofs ----------------------------
(***************************************************************************)
(* Theorems about Accounts and Startup, for any number of requests,        *)
(* processes, migrations and users.                                        *)
(***************************************************************************)
EXTENDS Startup, FiniteSetTheorems, TLAPS

-----------------------------------------------------------------------------
(* Migrations.                                                             *)

Count(log, v) == Cardinality({i \in DOMAIN log : log[i] = v})

InOrder(r) == \A v \in Versions : \A w \in 1 .. v : r[v] > 0 => r[w] > 0

RecordInv ==
    /\ ran \in [Versions -> Nat]
    /\ recorded \in Seq(Versions)
    /\ \A v \in Versions : Count(recorded, v) = ran[v] /\ (v \notin Repeatable => ran[v] <= 1)
    /\ InOrder(ran)
    /\ DOMAIN known = Processes /\ DOMAIN phase = Processes
    /\ \A p \in Processes :
         /\ known[p] \subseteq {v \in Versions : ran[v] > 0}
         /\ phase[p] \notin {"down", "migrating"} => \A v \in Versions : ran[v] > 0

LEMMA CountAppended ==
    ASSUME NEW T, NEW log \in Seq(T), NEW v, NEW w
    PROVE  /\ Count(log, w) \in Nat
           /\ Count(Append(log, v), w) = IF w = v THEN Count(log, w) + 1 ELSE Count(log, w)
<1> DEFINE n == Len(log) + 1
           new == Append(log, v)
           old == {i \in DOMAIN log : log[i] = w}
<1>1. /\ n \in Nat \ {0} /\ DOMAIN log = 1 .. n - 1 /\ DOMAIN new = 1 .. n
      /\ new[n] = v /\ \A i \in DOMAIN log : new[i] = log[i]
    OBVIOUS
<1>2. IsFiniteSet(old) /\ n \notin old
    <2>1. IsFiniteSet(DOMAIN log) /\ n \notin DOMAIN log
        BY <1>1, FS_Interval
    <2> QED BY <2>1, FS_Subset
<1>3. {i \in DOMAIN new : new[i] = w} = IF w = v THEN old \cup {n} ELSE old
    BY <1>1
<1>4. Cardinality(old) \in Nat /\ Cardinality(old \cup {n}) = Cardinality(old) + 1
    BY <1>2, FS_CardinalityType, FS_AddElement
<1> QED BY <1>3, <1>4 DEF Count

LEMMA InitRecordInv == SystemInit => RecordInv
<1> SUFFICES ASSUME SystemInit PROVE RecordInv
    OBVIOUS
<1>1. bound.starting \in {{}, Processes} /\ Migrations \in Nat \ {0}
    BY StartupAssumption DEF SystemInit, AccountsInit
<1>2. CASE bound.starting = {}
    <2>1. ran = [v \in Versions |-> 1] /\ recorded = [v \in Versions |-> v]
        BY <1>2 DEF SystemInit
    <2>2. recorded \in Seq(Versions) /\ DOMAIN recorded = Versions
        BY <1>1, <2>1 DEF Versions
    <2>3. \A v \in Versions : Count(recorded, v) = 1
        <3>1. \A v \in Versions : {i \in DOMAIN recorded : recorded[i] = v} = {v}
            BY <2>1, <2>2
        <3> QED BY <3>1, FS_Singleton DEF Count
    <2>4. InOrder(ran)
        BY <1>1, <2>1 DEF InOrder, Versions
    <2> QED BY <2>1, <2>2, <2>3, <2>4 DEF SystemInit, RecordInv
<1>3. CASE bound.starting = Processes /\ bound.starting # {}
    <2>1. ran = [v \in Versions |-> 0] /\ recorded = <<>>
        BY <1>3 DEF SystemInit
    <2>2. \A v \in Versions : Count(recorded, v) = 0
        <3>1. \A v \in Versions : {i \in DOMAIN recorded : recorded[i] = v} = {}
            BY <2>1
        <3> QED BY <3>1, FS_EmptySet DEF Count
    <2>3. InOrder(ran)
        BY <1>1, <2>1 DEF InOrder, Versions
    <2> QED BY <1>3, <2>1, <2>2, <2>3 DEF SystemInit, RecordInv
<1> QED BY <1>1, <1>2, <1>3

LEMMA ReadVersionsKeepsRecords ==
    ASSUME RecordInv, NEW p \in Processes, ReadVersions(p)
    PROVE  RecordInv'
<1>1. \A i \in DOMAIN recorded : recorded[i] \in Versions /\ ran[recorded[i]] > 0
    <2> SUFFICES ASSUME NEW i \in DOMAIN recorded
                 PROVE  recorded[i] \in Versions /\ ran[recorded[i]] > 0
        OBVIOUS
    <2> DEFINE v == recorded[i]
               rows == {j \in DOMAIN recorded : recorded[j] = v}
    <2>1. v \in Versions /\ i \in rows
        BY DEF RecordInv
    <2>2. IsFiniteSet(rows)
        <3>1. DOMAIN recorded = 1 .. Len(recorded) /\ Len(recorded) \in Nat
            BY DEF RecordInv
        <3>2. IsFiniteSet(DOMAIN recorded)
            BY <3>1, FS_Interval
        <3> QED BY <3>2, FS_Subset
    <2>3. Cardinality(rows) # 0
        BY <2>1, <2>2, FS_EmptySet
    <2>4. ran[v] = Cardinality(rows) /\ ran[v] \in Nat
        BY <2>1 DEF RecordInv, Count
    <2> QED BY <2>1, <2>3, <2>4
<1>2. /\ known' = [known EXCEPT ![p] = {recorded[i] : i \in DOMAIN recorded}]
      /\ phase' = [phase EXCEPT ![p] = "migrating"] /\ UNCHANGED <<ran, recorded>>
    BY DEF ReadVersions, Enter
<1> QED BY <1>1, <1>2 DEF RecordInv, Count, InOrder

LEMMA ApplyMigrationKeepsRecords ==
    ASSUME RecordInv, NEW p \in Processes, ApplyMigration(p)
    PROVE  RecordInv'
<1>1. PICK v \in FirstPending(p) :
        IF ran[v] = 0 \/ v \in Repeatable
        THEN /\ ran' = [ran EXCEPT ![v] = @ + 1]
             /\ recorded' = Append(recorded, v)
             /\ known' = [known EXCEPT ![p] = @ \cup {v}]
             /\ UNCHANGED phase
        ELSE Enter(p, "down") /\ UNCHANGED <<ran, recorded, known>>
    BY DEF ApplyMigration
<1>2. v \in Versions /\ \A w \in Versions : w < v => w \in known[p]
    BY StartupAssumption DEF FirstPending, Pending, Versions
<1>3. \A w \in 1 .. v - 1 : w \in Versions /\ ran[w] > 0
    BY <1>2, StartupAssumption DEF RecordInv, Versions
<1>4. CASE ~(ran[v] = 0 \/ v \in Repeatable)
    BY <1>1, <1>4 DEF Enter, RecordInv, Count, InOrder
<1>5. CASE ran[v] = 0 \/ v \in Repeatable
    <2>1. /\ ran' = [ran EXCEPT ![v] = @ + 1] /\ recorded' = Append(recorded, v)
          /\ known' = [known EXCEPT ![p] = @ \cup {v}] /\ phase' = phase
        BY <1>1, <1>5
    <2>2. ran' \in [Versions -> Nat] /\ \A w \in Versions : ran'[w] = IF w = v THEN ran[w] + 1 ELSE ran[w]
        BY <1>2, <2>1 DEF RecordInv
    <2>3. recorded' \in Seq(Versions)
        BY <1>2, <2>1 DEF RecordInv
    <2>4. \A w \in Versions : Count(recorded', w) = ran'[w]
        BY <2>1, <2>2, CountAppended DEF RecordInv
    <2>5. \A w \in Versions : w \notin Repeatable => ran'[w] <= 1
        BY <1>5, <2>2 DEF RecordInv
    <2>6. InOrder(ran')
        <3> SUFFICES ASSUME NEW x \in Versions, NEW w \in 1 .. x, ran'[x] > 0 PROVE ran'[w] > 0
            BY DEF InOrder
        <3>1. w \in Versions /\ x \in Nat /\ v \in Nat
            BY <1>2, StartupAssumption DEF Versions
        <3>2. CASE x = v
            <4>1. w = v \/ w \in 1 .. v - 1
                BY <3>1, <3>2
            <4> QED BY <1>2, <1>3, <2>2, <3>1, <4>1 DEF RecordInv
        <3>3. CASE x # v
            BY <2>2, <3>1, <3>3 DEF RecordInv, InOrder
        <3> QED BY <3>2, <3>3
    <2>7. \A q \in Processes : known'[q] \subseteq {w \in Versions : ran'[w] > 0}
        BY <1>2, <2>1, <2>2 DEF RecordInv
    <2>8. DOMAIN known' = Processes /\ DOMAIN phase' = Processes
          /\ \A q \in Processes : phase'[q] \notin {"down", "migrating"} => \A w \in Versions : ran'[w] > 0
        BY <2>1, <2>2 DEF RecordInv
    <2> QED BY <2>2, <2>3, <2>4, <2>5, <2>6, <2>7, <2>8 DEF RecordInv
<1> QED BY <1>4, <1>5

(* A start goes on to the seed when nothing is pending.                    *)
LEMMA SeedLookupKeepsRecords ==
    ASSUME RecordInv, NEW p \in Processes, SeedLookup(p)
    PROVE  RecordInv'
<1>1. \A v \in Versions : ran[v] > 0
    BY DEF SeedLookup, Pending, RecordInv
<1> QED BY <1>1 DEF SeedLookup, Enter, RecordInv, Count, InOrder

(* The steps that only move a process between phases past the migrations. *)
LEMMA LaterStepsKeepRecords ==
    ASSUME RecordInv, NEW p \in Processes, SeedCreate(p) \/ SeedUpdate(p) \/ Stop(p)
    PROVE  RecordInv'
<1>1. /\ phase' = [phase EXCEPT ![p] = phase'[p]] /\ UNCHANGED <<known, ran, recorded>>
      /\ phase'[p] \in {"serving", "down"}
    BY DEF SeedCreate, SeedUpdate, Stop, Enter, RecordInv
<1>2. phase'[p] = "down" \/ phase[p] \notin {"down", "migrating"}
    BY DEF SeedCreate, SeedUpdate, Stop, Enter, RecordInv
<1> QED BY <1>1, <1>2 DEF RecordInv, Count, InOrder

LEMMA NextKeepsRecords == RecordInv /\ [SystemNext]_systemVars => RecordInv'
<1> SUFFICES ASSUME RecordInv, [SystemNext]_systemVars PROVE RecordInv'
    OBVIOUS
<1>1. CASE Serve \/ UNCHANGED systemVars
    BY <1>1 DEF Serve, startVars, systemVars, RecordInv, Count, InOrder
<1>2. ASSUME NEW p \in Processes, Start(p) \/ Stop(p) PROVE RecordInv'
    BY <1>2, ReadVersionsKeepsRecords, ApplyMigrationKeepsRecords, SeedLookupKeepsRecords,
       LaterStepsKeepRecords DEF Start
<1> QED BY <1>1, <1>2 DEF SystemNext

(* Whatever number of processes starts at once, stops or fails: a version  *)
(* is recorded as often as its SQL was committed, once unless it may be    *)
(* repeated, in order, and all of them before anything is served.          *)
THEOREM MigrationsRecorded == SystemSpec => []RecordedIsApplied
<1>1. RecordInv => RecordedIsApplied
    BY DEF RecordInv, RecordedIsApplied, Count, InOrder
<1> QED BY <1>1, InitRecordInv, NextKeepsRecords, PTL DEF SystemSpec
=============================================================================

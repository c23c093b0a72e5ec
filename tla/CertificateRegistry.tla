------------------------ MODULE CertificateRegistry ------------------------
(***************************************************************************)
(* What certification promises, without requests, statements or clocks: a  *)
(* register of tests passed and of certificates issued for them.  A        *)
(* certificate is entered for a test that is in the register at that       *)
(* moment, entries never change, and they leave only with their course or  *)
(* their user.                                                             *)
(***************************************************************************)

CONSTANTS
    Keys,           \* identities of entries, never used twice at a time
    Courses, Users

VARIABLES
    passed,         \* tests passed: [id, course, user]
    issued          \* certificates: [id, test], test being such an entry

Test == [id : Keys, course : Courses, user : Users]
Certificate == [id : Keys, test : Test]

RegistryInit ==
    /\ passed = {}
    /\ issued = {}

Pass(t) ==
    /\ \A p \in passed : p.id # t.id
    /\ passed' = passed \cup {t}
    /\ UNCHANGED issued

Issue(k, t) ==
    /\ t \in passed
    /\ \A i \in issued : i.id # k
    /\ issued' = issued \cup {[id |-> k, test |-> t]}
    /\ UNCHANGED passed

DropCourse(c) ==
    /\ passed' = {t \in passed : t.course # c}
    /\ issued' = {i \in issued : i.test.course # c}

DropUser(u) ==
    /\ passed' = {t \in passed : t.user # u}
    /\ issued' = {i \in issued : i.test.user # u}

RegistryNext ==
    \/ \E t \in Test : Pass(t)
    \/ \E k \in Keys, t \in Test : Issue(k, t)
    \/ \E c \in Courses : DropCourse(c)
    \/ \E u \in Users : DropUser(u)

RegistrySpec == RegistryInit /\ [][RegistryNext]_<<passed, issued>>
=============================================================================

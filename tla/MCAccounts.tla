----------------------------- MODULE MCAccounts -----------------------------
(* Small instances of Accounts and Startup for TLC.                        *)
EXTENDS Startup, TLC

CONSTANTS p1, p2

MCLower == [e \in {"ann", "Ann", "bob", "boss"} |-> IF e = "Ann" THEN "ann" ELSE e]

User(id, email, google, password, admin, super, avatar) ==
    [id |-> id, email |-> email, google |-> google, password |-> password,
     admin |-> admin, super |-> super, must |-> FALSE, avatar |-> avatar]

Ann == User(1, "ann", None, "old", FALSE, FALSE, None)
AnnWithAvatar == [Ann EXCEPT !.avatar = "f1"]
Boss == User(1, "boss", None, "top", TRUE, TRUE, None)

Entered(email, google, password, admin, avatar) ==
    [email |-> email, google |-> google, password |-> password, admin |-> admin, avatar |-> avatar]

Bound(kinds, rows, requests) ==
    [kinds |-> kinds, rows |-> rows, requests |-> requests, scope |-> "identifier_ip",
     together |-> 1, spellings |-> {"ann"}, addresses |-> {None}, subjects |-> {"g1"},
     passwords |-> {"old", "new"}, forms |-> {}, avatars |-> {}, starting |-> {}, setbacks |-> 0]

(* Signing in by the lockout's three scopes; passwords; Google accounts;   *)
(* the profile and its avatar; starts of two processes.                    *)
MCBounds ==
    {[Bound({"login"}, {Ann}, 1 .. 3) EXCEPT
        !.together = 2, !.scope = "identifier", !.spellings = {"ann", "Ann"}],
     [Bound({"login", "delete"}, {Ann}, 1 .. 3) EXCEPT
        !.together = 2, !.scope = "ip", !.addresses = {"a1", None}],
     [Bound({"login"}, {Ann}, 1 .. 3) EXCEPT
        !.together = 2, !.spellings = {"ann", "Ann"}, !.addresses = {"a1", "a2"},
        !.passwords = {"new"}],
     [Bound({"forgot", "reset", "change", "delete"}, {Ann}, 1 .. 4) EXCEPT
        !.spellings = {"Ann", "bob"}],
     [Bound({"google", "profile", "change", "register"}, {Ann}, 1 .. 3) EXCEPT
        !.subjects = {"g1", "g2"}, !.spellings = {"Ann", "bob"}],
     [Bound({"create", "edit", "delete", "profile", "change", "notify", "read"}, {Boss}, 1 .. 4) EXCEPT
        !.forms = {Entered("bob", None, "new", TRUE, None), Entered("bob", "g1", None, TRUE, None)},
        !.passwords = {"new", "own"}],
     [Bound({"upload", "profile", "edit", "register"}, {AnnWithAvatar}, 1 .. 4) EXCEPT
        !.forms = {Entered("ann", None, None, FALSE, "f2")}, !.spellings = {"bob"},
        !.passwords = {"new"}, !.avatars = Files],
     [Bound({"register", "google", "edit"}, {}, 1 .. 2) EXCEPT
        !.spellings = {"boss"}, !.passwords = {"new"}, !.starting = Processes, !.setbacks = 2,
        !.forms = {Entered("bob", None, None, FALSE, None)}]}
=============================================================================

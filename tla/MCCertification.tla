-------------------------- MODULE MCCertification --------------------------
(* Small instances of Certification for TLC.                               *)
EXTENDS Certification, TLC

CONSTANTS r1, r2, r3, r4, u1, u2, c1

Rule(max, cooldown, pass) ==
    [maxAttempts |-> max, cooldownDays |-> cooldown, passPercent |-> pass,
     certificateEnabled |-> TRUE]

(* One or two attempts a day, and the rules of a course saved without any  *)
(* (no limit and no pass mark: three attempts, 80 percent).                *)
OneADay == {Rule(1, 1, 60)}
TwoRules == {Rule(1, 1, 60), [Rule(0, 0, 0) EXCEPT !.certificateEnabled = FALSE]}
TwoADayOrOne == {Rule(2, 1, 60), Rule(1, 0, 60)}

(* The client says it started yesterday, today or, its clock wrong, tomorrow. *)
AroundToday == {-1, 0, 1}

(* Once a course has been saved again, one request at least stays unsent.  *)
ThreeAfterSave == updates > 0 => \E r \in Requests : pc[r] = "idle"

RequestSymmetry == Permutations(Requests)
Symmetry == Permutations(Requests) \cup Permutations(Users)
=============================================================================

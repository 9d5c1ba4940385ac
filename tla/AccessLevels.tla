---------------------------- MODULE AccessLevels ----------------------------
(***************************************************************************)
(* The access-level algebra of crates/pv-server/src/routes/membership.rs:  *)
(* the three levels a grant can carry, how two grants combine, what a      *)
(* route may require, and what a holder of one level may hand to others.   *)
(***************************************************************************)
EXTENDS Integers

Levels == {"read", "hidden_password", "edit"}

\* Option::None of Option<AccessLevel>: the caller cannot see the resource.
NoAccess == "none"

Access == Levels \cup {NoAccess}

Rank(a) ==
    CASE a = "read"            -> 0
      [] a = "hidden_password" -> 1
      [] a = "edit"            -> 2
      [] OTHER                 -> -1

Combine(a, b) == IF Rank(a) >= Rank(b) THEN a ELSE b

SatisfiesRead(a) == a # NoAccess
SatisfiesEdit(a) == a = "edit"

\* An editor may grant anything; everyone else exactly their own level.
MayGrant(held, requested) ==
    /\ held # NoAccess
    /\ held = "edit" \/ held = requested
=============================================================================

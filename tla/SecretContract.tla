--------------------------- MODULE SecretContract ---------------------------
(***************************************************************************)
(* What the vault promises the holder of a SecretRef, without SQL, locks,  *)
(* keys or calls: a reference is issued once, with its secret; replacing   *)
(* it retires it for good and issues a newer one in the same step.         *)
(***************************************************************************)
EXTENDS Integers

CONSTANTS Names, Secrets, MaxVersion, NoSecret

VARIABLES
  status,   \* per reference: "unused", "active" or "rotated"
  value     \* per reference: the secret behind it, NoSecret while unused

contractVars == <<status, value>>

Refs == Names \X (1..MaxVersion)

Init ==
  /\ status \in [Refs -> {"unused", "active"}]
  /\ value \in [Refs -> Secrets \cup {NoSecret}]
  /\ \A r \in Refs : IF status[r] = "unused" THEN value[r] = NoSecret ELSE value[r] \in Secrets

\* r has not been issued, and no later version of its name has.
Fresh(r) == \A q \in Refs : q[1] = r[1] /\ q[2] >= r[2] => status[q] = "unused"

Issue(r, x) ==
  /\ Fresh(r)
  /\ status' = [status EXCEPT ![r] = "active"]
  /\ value'  = [value EXCEPT ![r] = x]

Replace(old, r, x) ==
  /\ old[1] = r[1]
  /\ status[old] = "active"
  /\ Fresh(r)
  /\ status' = [status EXCEPT ![old] = "rotated", ![r] = "active"]
  /\ value'  = [value EXCEPT ![r] = x]

Next ==
  \E r \in Refs, x \in Secrets :
    Issue(r, x) \/ \E old \in Refs : Replace(old, r, x)

Spec == Init /\ [][Next]_contractVars
=============================================================================

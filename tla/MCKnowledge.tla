---------------------------- MODULE MCKnowledge ----------------------------
(***************************************************************************)
(* The two sides of the knowledge adapter for TLC: how a store writes      *)
(* (KnowledgeStore) and how a find reads (KnowledgeSearch).  Each states   *)
(* what it needs of the other, so that one of them runs, chosen at the     *)
(* start, and the other stays as it was initialised.                       *)
(***************************************************************************)
EXTENDS KnowledgeStore, KnowledgeSearch

CONSTANTS f1, f2, r1, r2, r3  \* model values

VARIABLE which

all == <<which, searchVars, vars>>

-----------------------------------------------------------------------------
(* KnowledgeSearch: two finds over three records, and a fourth that is     *)
(* refused.  Slugs are cut after three characters.  The first two topics   *)
(* share the slug a-b; that of the third would end in a dash if it were    *)
(* only cut.                                                               *)

Letter == ("a" :> "a" @@ "A" :> "a" @@ "b" :> "b" @@ "c" :> "c" @@ "." :> "-" @@ "-" :> "-"
           @@ "_" :> "-")

In(topic, tags, text, size, time) ==
  [topic |-> topic, tags |-> tags, words |-> text, size |-> size, time |-> time]

Inputs ==
  <<In(<<"A", ".", ".", "b">>, {"x"}, {"refund", "at"}, 1, 3),
    In(<<"a", "-", "b">>, {"x", "y"}, {"refund", "policy", "1"}, 1, 3),
    In(<<".", "c", "c", ".", "b">>, {"y"}, {"policy"}, 1, 2),
    In(<<"b">>, {}, {}, 0, 1)>>

Ask(topic, tags, text, limit) == [topic |-> topic, tags |-> tags, text |-> text, limit |-> limit]

Searched ==
  {Ask(<<"a", "-", "b">>, <<>>, Absent, 1), Ask(Absent, <<"y", "y">>, {"refund", "1"}, 10)}

(* KnowledgeStore: r1 and r2 are stored under two topics of one slug, r3   *)
(* under another; the caller of r2 may go away.                            *)

Written == {r1, r2, r3}
Topic == [r \in Written |-> IF r = r1 THEN "A b" ELSE IF r = r2 THEN "A-B" ELSE "C"]
Folder == [r \in Written |-> IF r = r3 THEN "c" ELSE "a-b"]
Doubtful == {r2}

-----------------------------------------------------------------------------
AllInit == which \in {"store", "search"} /\ SInit /\ Init

\* A bound: a second death comes only before the third record is begun.
SecondDeath == up /\ ~up' /\ boots = 2

RunStore ==
  /\ which = "store" /\ Next
  /\ SecondDeath => stage[r3] = "new"
  /\ UNCHANGED <<which, searchVars>>

RunSearch == which = "search" /\ SNext /\ UNCHANGED <<which, vars>>

AllNext == RunStore \/ RunSearch

\* The fairness that KnowledgeStore states.
Fairness == \A r \in Records : SF_vars(which = "store" /\ Store(r))

AllSpec == AllInit /\ [][AllNext]_all /\ Fairness
=============================================================================

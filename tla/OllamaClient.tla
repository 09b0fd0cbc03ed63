---------------------------- MODULE OllamaClient ----------------------------
(***************************************************************************)
(* The embedding adapter over HTTP: embed and embed_batch make one POST    *)
(* with all the texts, try it again after failures that may pass, wait     *)
(* between the attempts, and put the vectors of the answer in the order of *)
(* the texts by the index the server gave each.  Calls share nothing but   *)
(* the server.  A vector is named by the text it belongs to.               *)
(***************************************************************************)
EXTENDS Naturals, Sequences, FiniteSets

CONSTANTS
  EmbedCalls,   \* calls of the adapter
  Texts,        \* what is to be embedded
  Blank,        \* ... of which these are empty or whitespace
  Batches,      \* what callers pass to embed_batch
  MaxAttempts   \* MAX_ATTEMPTS: one attempt and its retries

ASSUME ClientAssumption ==
  /\ Blank \subseteq Texts
  /\ Batches \subseteq Seq(Texts)
  /\ MaxAttempts \in Nat \ {0}

VARIABLES
  clientPc,  \* where each call is
  batch,    \* the texts of its request
  attempts,  \* how many attempts it has made
  last,     \* how its last attempt failed: last_error
  vectors,  \* what it returned
  received  \* history: the items of the answer it was given, as the server sent them

clientVars == <<clientPc, batch, attempts, last, vectors, received>>

Finished == {"ok", "err", "gone"}

\* A choice among wrong items is enough: an index too many, any vector.
Items(n) == [index : 0..n, vector : Texts \ Blank]

ClientInit ==
  /\ clientPc      = [c \in EmbedCalls |-> "idle"]
  /\ batch   = [c \in EmbedCalls |-> <<>>]
  /\ attempts = [c \in EmbedCalls |-> 0]
  /\ last    = [c \in EmbedCalls |-> "none"]
  /\ vectors  = [c \in EmbedCalls |-> <<>>]
  /\ received    = [c \in EmbedCalls |-> <<>>]

ClientGoto(c, next) == clientPc' = [clientPc EXCEPT ![c] = next]

EmbedFails(c, failure) ==
  /\ ClientGoto(c, "err")
  /\ last' = [last EXCEPT ![c] = failure]

HasBlank(texts) == \E i \in DOMAIN texts : texts[i] \in Blank

(* embed and embed_batch: the checks before the wire.  embed is a batch of *)
(* its one text and the first of the vectors.                              *)
Call(c, texts) ==
  /\ clientPc[c] = "idle"
  /\ batch' = [batch EXCEPT ![c] = texts]
  /\ \/ texts = <<>> /\ ClientGoto(c, "ok") /\ UNCHANGED last
     \/ HasBlank(texts) /\ EmbedFails(c, "blank")
     \/ texts # <<>> /\ ~HasBlank(texts) /\ ClientGoto(c, "post") /\ UNCHANGED last
  /\ UNCHANGED <<attempts, vectors, received>>

(* What one attempt may come to beside an answer, and the error of each:   *)
(* try_once, map_4xx.  A body that breaks off is no JSON.                  *)
ErrorOf ==
  [blank     |-> "InvalidInput",
   timeout   |-> "AdapterUnavailable",
   connect   |-> "AdapterUnavailable",
   status404 |-> "ModelUnavailable",
   status4xx |-> "InvalidInput",
   status5xx |-> "Internal",
   notJson   |-> "Internal",
   count     |-> "Internal"]

Failures == DOMAIN ErrorOf \ {"blank"}

Retryable == {"connect", "status5xx"}

Attempted(c) == attempts' = [attempts EXCEPT ![c] = @ + 1]

GiveUp(c) ==
  /\ clientPc[c] = "post"
  /\ \E failure \in Failures \ Retryable : EmbedFails(c, failure)
  /\ Attempted(c)
  /\ UNCHANGED <<batch, vectors, received>>

MayTryAgain(n) == n < MaxAttempts

\* There is a wait after every failure but the last.
Backoff(c) ==
  /\ clientPc[c] = "post"
  /\ \E failure \in Retryable : last' = [last EXCEPT ![c] = failure]
  /\ Attempted(c)
  /\ ClientGoto(c, IF MayTryAgain(attempts'[c]) THEN "sleep" ELSE "err")
  /\ UNCHANGED <<batch, vectors, received>>

Wake(c) ==
  /\ clientPc[c] = "sleep"
  /\ ClientGoto(c, "post")
  /\ UNCHANGED <<batch, attempts, last, vectors, received>>

\* Mutant: the vectors stay as they came.
AsSent(items) == [i \in DOMAIN items |-> items[i].vector]

\* How many items sort before the i-th; the sort is stable.
Before(items, i) ==
  Cardinality({j \in DOMAIN items : \/ items[j].index < items[i].index
                                    \/ items[j].index = items[i].index /\ j < i})

SortByIndex(items) ==
  [k \in DOMAIN items |->
     items[CHOOSE i \in DOMAIN items : Before(items, i) = k - 1].vector]

(* 200 with as many items as there are texts, whatever they are.           *)
Answered(c) ==
  /\ clientPc[c] = "post"
  /\ LET n == Len(batch[c])
     IN \E items \in [1..n -> Items(n)] :
          /\ received' = [received EXCEPT ![c] = items]
          /\ vectors' = [vectors EXCEPT ![c] = SortByIndex(items)]
  /\ ClientGoto(c, "ok")
  /\ Attempted(c)
  /\ UNCHANGED <<batch, last>>

(* The caller drops the future.                                            *)
DropEmbedCall(c) ==
  /\ clientPc[c] \in {"post", "sleep"}
  /\ ClientGoto(c, "gone")
  /\ UNCHANGED <<batch, attempts, last, vectors, received>>

ClientProgress(c) == GiveUp(c) \/ Backoff(c) \/ Wake(c) \/ Answered(c)

ClientNext ==
  \E c \in EmbedCalls :
    (\E texts \in Batches : Call(c, texts)) \/ ClientProgress(c) \/ DropEmbedCall(c)

ClientSpec == ClientInit /\ [][ClientNext]_clientVars

(* The client gives every request a timeout (new), and the runtime's timer  *)
(* wakes who sleeps.                                                       *)
ClientFairSpec == ClientSpec /\ \A c \in EmbedCalls : WF_clientVars(ClientProgress(c))

-----------------------------------------------------------------------------
\* Types of the calls.
ClientTypeOK ==
  /\ clientPc \in [EmbedCalls -> {"idle", "post", "sleep"} \cup Finished]
  /\ batch \in [EmbedCalls -> Seq(Texts)]
  /\ attempts \in [EmbedCalls -> 0..MaxAttempts]
  /\ last \in [EmbedCalls -> DOMAIN ErrorOf \cup {"none"}]
  /\ \A c \in EmbedCalls : vectors[c] \in [1..Len(vectors[c]) -> Texts \ Blank]
  /\ \A c \in EmbedCalls : received[c] \in Seq([index : Nat, vector : Texts \ Blank])

\* The server gave the i-th text its vector, under its index, and that index once.
NamedOnce(items, texts, i) ==
  \E j \in DOMAIN items :
    /\ items[j] = [index |-> i - 1, vector |-> texts[i]]
    /\ \A k \in DOMAIN items : items[k].index = i - 1 => k = j

\* A caller gets a vector for each of its texts and no more, in whatever order the
\* server sends them.  An index sent twice, or never, moves the vectors from there on:
\* the texts before the first such index still get their own, and all of them when the
\* server names each once (client.rs sort_by_index, the length check of try_once;
\* traits.rs embed_batch).
VectorsInOrder ==
  \A c \in EmbedCalls : clientPc[c] = "ok" =>
    /\ Len(vectors[c]) = Len(batch[c])
    /\ \A i \in DOMAIN batch[c] :
         (\A k \in 1..i : NamedOnce(received[c], batch[c], k)) =>
           vectors[c][i] = batch[c][i]

\* What would only come again is reported at once, what may pass is reported after
\* the last attempt and not before, and no call makes more attempts than that
\* (client.rs embed_batch: only 5xx and connection errors are retried).
RetriesBounded ==
  \A c \in EmbedCalls :
    /\ attempts[c] <= MaxAttempts
    /\ clientPc[c] \in {"post", "sleep"} /\ attempts[c] > 0 =>
         last[c] \in {"connect", "status5xx"}
    /\ clientPc[c] = "err" /\ last[c] \in {"connect", "status5xx"} =>
         attempts[c] = MaxAttempts
    /\ HasBlank(batch[c]) => attempts[c] = 0

\* The vectors, and what it took to get them.
InOrder == VectorsInOrder /\ RetriesBounded

\* Every call comes to an end though the server never answers (client.rs embed_batch).
EmbedsEnd == \A c \in EmbedCalls : clientPc[c] = "post" ~> clientPc[c] \in Finished
=============================================================================

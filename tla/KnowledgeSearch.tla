-------------------------- MODULE KnowledgeSearch --------------------------
(***************************************************************************)
(* The reading side of the JSON knowledge adapter: find_information and    *)
(* list_topics over the in-memory index, while records are stored and the  *)
(* adapter is started again from its index file or, when that is damaged,  *)
(* from the bodies.  A find looks at the index once, then reads bodies     *)
(* with no lock held.  (How a store writes is KnowledgeStore's: here its   *)
(* body and its index entry are one step.)                                 *)
(*                                                                         *)
(* A topic is a sequence of characters, a text a set of words.             *)
(***************************************************************************)
EXTENDS Integers, SequencesExt

CONSTANTS
  Input,         \* KnowledgeRecordInput of each record: topic, tags, words, size; and
                 \* the wall clock when it is stored: time
  Requests,      \* what is searched for: topic, tags, text, limit
  Finds,         \* calls of find_information
  Absent,           \* a filter that is not given: Option::None
  Plain,         \* the slug's character for each character
  Dash,          \* ... and '-'
  SlugLength,    \* 64 in the code
  Ignored,       \* words too short, or of digits only
  MaxSize,       \* max_record_size_bytes
  Second,        \* ticks per second, the resolution of a rebuilt created_at
  MaxStarts, MaxFaults  \* bounds of the model

RecordIds == DOMAIN Input
Before(a, b) == a < b  \* the order of record ids

Tags  == UNION {Input[r].tags : r \in RecordIds}
Words == UNION {Input[r].words : r \in RecordIds}
Text  == Seq(DOMAIN Plain)

KnowledgeRecordInput ==
  [topic : Text, tags : SUBSET Tags, words : SUBSET Words, size : Nat, time : Nat]

\* The tags of a request may repeat; its text may hold words no record has.
FindInformationRequest ==
  [topic : {Absent} \cup Text, tags : Seq(Tags), text : {Absent} \cup SUBSET STRING,
   limit : Nat]

ASSUME InputAssumption ==
  /\ RecordIds \subseteq Nat
  /\ \A r \in RecordIds : Input[r] \in KnowledgeRecordInput
ASSUME SearchAssumption ==
  /\ Requests \subseteq FindInformationRequest
  /\ \A q \in Requests : q.text # Absent => IsFiniteSet(q.text)
  /\ {SlugLength, MaxSize, Second, MaxStarts, MaxFaults} \subseteq Nat
  /\ SlugLength > 0 /\ Second > 0
ASSUME PlainAssumption ==
  /\ \A c \in DOMAIN Plain : Plain[c] \in DOMAIN Plain /\ Plain[Plain[c]] = Plain[c]
  /\ "_" \in DOMAIN Plain /\ Plain["_"] = Dash

-----------------------------------------------------------------------------
(* topic_slug                                                               *)

Underscore == <<"_">>

\* Runs of '-' become one.
Collapsed(s) ==
  LET upTo[i \in 0..Len(s)] ==
        IF i = 0 THEN <<>>
        ELSE IF i > 1 /\ s[i] = Dash /\ s[i - 1] = Dash THEN upTo[i - 1]
        ELSE Append(upTo[i - 1], s[i])
  IN  upTo[Len(s)]

Places(s) == {i \in DOMAIN s : s[i] # Dash}

TrimEnd(s) == IF Places(s) = {} THEN <<>> ELSE SubSeq(s, 1, Max(Places(s)))

Trim(s) == IF Places(s) = {} THEN <<>> ELSE SubSeq(s, Min(Places(s)), Max(Places(s)))

Slug(topic) ==
  LET t == Trim(Collapsed([i \in DOMAIN topic |-> Plain[topic[i]]]))
      cut == TrimEnd(SubSeq(t, 1, Min({Len(t), SlugLength})))
  IN  IF cut = <<>> THEN Underscore ELSE cut

Stored == {Input[r].topic : r \in RecordIds}
UsedSlugs == {Slug(topic) : topic \in Stored}

ASSUME AbsentAssumption ==
  /\ Absent \notin Stored /\ Absent \notin UsedSlugs
  /\ \A r \in RecordIds : Input[r].time # Absent

\* Of every topic there can be: a rebuilt one is a slug.
TopicSlug ==
  [topic \in (Stored \cup UsedSlugs \cup {q.topic : q \in Requests}) \ {Absent} |->
     Slug(topic)]

-----------------------------------------------------------------------------
VARIABLES
  bodies,    \* when each file <slug>/<record_id>.md was written; Absent: there is none
  topics,    \* InMemoryIndex::topics: the RecordMeta under each slug
  slugToTopic,  \* InMemoryIndex::slug_to_topic
  tagIndex,  \* InMemoryIndex::tag_index
  cache,     \* InMemoryIndex::content_tokens
  sidecar,   \* .index.json: the RecordMeta in it, Absent when damaged
  running, starts, faults,
  phase,     \* where each find is
  request,
  cands,     \* its candidates
  words,     \* the tokens it has for each: local_tokens
  reading,   \* the candidate whose body it has read, and what it read
  answer,    \* the records found, in order
  published, \* the audit events
  asOf,      \* history: all RecordMeta at its look at the index
  hurt       \* history: one of its reads failed

searchIndex == <<topics, slugToTopic, tagIndex, cache>>
finding     == <<phase, request, cands, words, reading, answer, asOf, hurt>>
searchDisk  == <<bodies, published, sidecar>>
process     == <<running, starts, faults>>
searchVars == <<searchDisk, searchIndex, process, finding>>

Meta(r, topic, slug, tags, time) ==
  [id |-> r, topic |-> topic, slug |-> slug, tags |-> tags, created |-> time]

Nothing == [s \in UsedSlugs |-> {}]
Unread  == [r \in RecordIds |-> Absent]
Unnamed == [s \in UsedSlugs |-> Absent]

SInit ==
  /\ bodies = Unread /\ sidecar = {}
  /\ topics = Nothing /\ slugToTopic = Unnamed
  /\ tagIndex = [t \in Tags |-> {}]
  /\ cache = Unread
  /\ running = TRUE /\ starts = 1 /\ faults = 0
  /\ published = {}
  /\ phase = [c \in Finds |-> "idle"]
  /\ request = [c \in Finds |-> Absent]
  /\ cands = [c \in Finds |-> {}]
  /\ words = [c \in Finds |-> Unread]
  /\ reading = [c \in Finds |-> <<>>]
  /\ answer = [c \in Finds |-> <<>>]
  /\ asOf = [c \in Finds |-> {}]
  /\ hurt = [c \in Finds |-> FALSE]

All == UNION {topics[s] : s \in UsedSlugs}

\* collect_entries: the records of a slug share its name in the file.
CollectEntries(tops, nms) ==
  UNION {{[m EXCEPT !.topic = nms[s]] : m \in tops[s]} : s \in UsedSlugs}

Named(nms, m) == [nms EXCEPT ![m.slug] = IF @ = Absent THEN m.topic ELSE @]

Tagged(tgs, m) == [t \in Tags |-> tgs[t] \cup (IF t \in m.tags THEN {m.id} ELSE {})]

\* InMemoryIndex::add_record, add_meta
AddMeta(m) ==
  /\ topics' = [topics EXCEPT ![m.slug] = @ \cup {m}]
  /\ slugToTopic' = Named(slugToTopic, m)
  /\ tagIndex' = Tagged(tagIndex, m)

KnowledgeRecordStored(r) ==
  [event |-> "Stored", of |-> r, count |-> Cardinality(Input[r].tags)]
KnowledgeQueried(c, n) == [event |-> "Queried", of |-> c, count |-> n]

Audit(event) == published' = published \cup {event}

Acceptable(r) == Input[r].size \in 1..MaxSize /\ Input[r].topic # <<>>

StoreInformation(r) ==
  /\ running /\ bodies[r] = Absent
  /\ Acceptable(r)
  /\ bodies' = [bodies EXCEPT ![r] = Input[r].time]
  /\ LET i == Input[r]
     IN  AddMeta(Meta(r, i.topic, TopicSlug[i.topic], i.tags, i.time))
  /\ cache' = [cache EXCEPT ![r] = Absent]
  /\ sidecar' = CollectEntries(topics', slugToTopic')
  /\ Audit(KnowledgeRecordStored(r))
  /\ UNCHANGED <<process, finding>>

\* InvalidInput, before anything is written.
RefuseStore(r) ==
  /\ running /\ ~Acceptable(r)
  /\ UNCHANGED searchVars

-----------------------------------------------------------------------------
(* find_information                                                         *)

\* records_in_topic, all_records
InTopic(topic) ==
  IF topic = Absent THEN All
  ELSE UNION {topics[s] : s \in UsedSlugs \cap {TopicSlug[topic]}}

\* records_with_all_tags; of the request's tags each counts once.
WithAllTags(tags) == {r \in RecordIds : \A t \in Range(tags) : r \in tagIndex[t]}

Candidates(q) == {m \in InTopic(q.topic) : q.tags # <<>> => m.id \in WithAllTags(q.tags)}

Look(c, q) ==
  /\ running /\ phase[c] = "idle"
  /\ request' = [request EXCEPT ![c] = q]
  /\ cands' = [cands EXCEPT ![c] = Candidates(q)]
  /\ asOf' = [asOf EXCEPT ![c] = All]
  /\ words' = [words EXCEPT ![c] =
       [r \in RecordIds |-> IF q.text # Absent /\ \E m \in Candidates(q) : m.id = r
                            THEN cache[r] ELSE Absent]]
  /\ phase' = [phase EXCEPT ![c] = IF q.text = Absent THEN "rank" ELSE "load"]
  /\ UNCHANGED <<searchDisk, searchIndex, process, reading, answer, hurt>>

Lacking(c) == {m.id : m \in {n \in cands[c] : words[c][n.id] = Absent}}

\* tokenize
Tokens(text) == text \ Ignored

\* load_and_cache_content_tokens, up to the end of the read.
ReadBody(c, r) ==
  /\ running /\ phase[c] = "load" /\ reading[c] = <<>>
  /\ r \in Lacking(c)
  /\ reading' = [reading EXCEPT ![c] =
                  <<r, IF cache[r] # Absent THEN cache[r] ELSE Tokens(Input[r].words)>>]
  /\ UNCHANGED <<searchDisk, searchIndex, process, phase, request, cands, words, answer,
                 asOf, hurt>>

Take(c, r, tokens) == words' = [words EXCEPT ![c][r] = tokens]

CacheOne(r, tokens) == [cache EXCEPT ![r] = tokens]

CacheTokens(c) ==
  /\ running /\ phase[c] = "load" /\ reading[c] # <<>>
  /\ LET r == reading[c][1] tokens == reading[c][2]
     IN  cache' = CacheOne(r, tokens) /\ Take(c, r, tokens)
  /\ reading' = [reading EXCEPT ![c] = <<>>]
  /\ UNCHANGED <<searchDisk, topics, slugToTopic, tagIndex, process, phase, request, cands,
                 answer, asOf, hurt>>

\* A body that cannot be read now counts as one without words, in silence.
ReadFails(c, r) ==
  /\ running /\ phase[c] = "load" /\ reading[c] = <<>>
  /\ r \in Lacking(c)
  /\ faults < MaxFaults /\ faults' = faults + 1
  /\ Take(c, r, IF cache[r] = Absent THEN {} ELSE cache[r])
  /\ hurt' = [hurt EXCEPT ![c] = TRUE]
  /\ UNCHANGED <<searchDisk, searchIndex, running, starts, phase, request, cands, reading,
                 answer, asOf>>

AllRead(c) ==
  /\ running /\ phase[c] = "load" /\ Lacking(c) = {}
  /\ phase' = [phase EXCEPT ![c] = "rank"]
  /\ UNCHANGED <<searchDisk, searchIndex, process, request, cands, words, reading, answer,
                 asOf, hurt>>

\* score_candidate, times 5 |tags| |query|: exact in place of its f32.
Score(q, m, tokens) ==
  LET query == IF q.text = Absent THEN {} ELSE Tokens(q.text)
      given == Cardinality(m.tags \cap Range(q.tags))
      nT == IF q.tags = <<>> THEN 1 ELSE Len(q.tags)
      nQ == IF query = {} THEN 1 ELSE Cardinality(query)
      tag  == IF q.tags = <<>> THEN 1 ELSE given
      text == IF query = {} THEN 1 ELSE Cardinality(tokens \cap query)
      same == IF q.topic \in {Absent, m.topic} THEN 1 ELSE 0
  IN  2 * tag * nQ + 2 * text * nT + same * nT * nQ

Better(sm, m, sn, n) ==
  \/ sm > sn
  \/ sm = sn /\ m.created > n.created
  \/ sm = sn /\ m.created = n.created /\ Before(m.id, n.id)

\* What scores nothing is dropped, the rest sorted: find_information, and its copy
\* filter_and_score.
Ranked(q, metas, tokensOf) ==
  LET score(m) == Score(q, m, tokensOf[m.id])
      hits == {m \in metas : score(m) > 0}
      above(m) == {o \in hits : o # m /\ Better(score(o), o, score(m), m)}
  IN  [i \in 1..Cardinality(hits) |-> CHOOSE m \in hits : Cardinality(above(m)) = i - 1]

First(limit, seq) == SubSeq(seq, 1, Min({limit, Len(seq)}))

\* Mutant: the limit is applied before the sort.
LimitFirst(q, metas, tokensOf) ==
  Ranked(q, {m \in metas : Cardinality({o \in metas : Before(o.id, m.id)}) < q.limit},
         tokensOf)

Top(q, metas, tokensOf) == First(q.limit, Ranked(q, metas, tokensOf))

TokensOf(c) == [r \in RecordIds |-> IF words[c][r] = Absent THEN {} ELSE words[c][r]]

\* A call that is over has no locals.
Forget(calls) ==
  /\ cands' = [c \in Finds |-> IF c \in calls THEN {} ELSE cands[c]]
  /\ words' = [c \in Finds |-> IF c \in calls THEN Unread ELSE words[c]]
  /\ reading' = [c \in Finds |-> IF c \in calls THEN <<>> ELSE reading[c]]

\* All of the bodies are read, and the audit event is published.
Respond(c) ==
  /\ running /\ phase[c] = "rank"
  /\ answer' = [answer EXCEPT ![c] = Top(request[c], cands[c], TokensOf(c))]
  /\ phase' = [phase EXCEPT ![c] = "ok"]
  /\ Audit(KnowledgeQueried(c, Len(answer'[c])))
  /\ Forget({c})
  /\ UNCHANGED <<bodies, searchIndex, sidecar, process, request, asOf, hurt>>

\* One body that cannot be read fails the whole call: MalformedRecord.
Unreadable(c) ==
  /\ running /\ phase[c] = "rank"
  /\ Top(request[c], cands[c], TokensOf(c)) # <<>>
  /\ faults < MaxFaults /\ faults' = faults + 1
  /\ phase' = [phase EXCEPT ![c] = "err"]
  /\ Forget({c})
  /\ UNCHANGED <<searchDisk, searchIndex, running, starts, request, answer, asOf, hurt>>

-----------------------------------------------------------------------------
(* JsonKnowledgeAdapter::new                                                *)

ProcessDies ==
  /\ running /\ starts < MaxStarts
  /\ running' = FALSE
  /\ phase' = [c \in Finds |-> IF phase[c] \in {"load", "rank"} THEN "gone" ELSE phase[c]]
  /\ Forget(Finds)
  /\ UNCHANGED <<searchDisk, searchIndex, starts, faults, request, answer, asOf, hurt>>

Damage ==
  /\ ~running /\ sidecar # Absent
  /\ sidecar' = Absent
  /\ UNCHANGED <<bodies, published, searchIndex, process, finding>>

\* rebuild_from_disk: the slug for a topic, no tags, whole seconds.
RebuildFromDisk ==
  LET From(r, slug) == Meta(r, slug, slug, {}, (bodies[r] \div Second) * Second)
  IN  {From(r, TopicSlug[Input[r].topic]) : r \in {q \in RecordIds : bodies[q] # Absent}}

\* Mutant: the file keeps no tags either.
FileTagless ==
  IF sidecar = Absent THEN RebuildFromDisk ELSE {[m EXCEPT !.tags = {}] : m \in sidecar}

Kept == IF sidecar = Absent THEN RebuildFromDisk ELSE sidecar

\* ingest_file
Ingest(metas) ==
  /\ topics' = [s \in UsedSlugs |-> {m \in metas : m.slug = s}]
  /\ slugToTopic' = [s \in UsedSlugs |-> IF \E m \in metas : m.slug = s
                                     THEN (CHOOSE m \in metas : m.slug = s).topic ELSE Absent]
  /\ tagIndex' = [t \in Tags |-> {m.id : m \in {n \in metas : t \in n.tags}}]

Restart ==
  /\ ~running
  /\ running' = TRUE /\ starts' = starts + 1
  /\ Ingest(Kept)
  /\ cache' = Unread
  /\ UNCHANGED <<bodies, published, sidecar, faults, finding>>

SNext ==
  \/ \E r \in RecordIds : StoreInformation(r) \/ RefuseStore(r)
  \/ \E c \in Finds :
       \/ \E q \in Requests : Look(c, q)
       \/ \E r \in RecordIds : ReadBody(c, r) \/ ReadFails(c, r)
       \/ CacheTokens(c) \/ AllRead(c) \/ Respond(c) \/ Unreadable(c)
  \/ ProcessDies \/ Damage \/ Restart

SearchSpec == SInit /\ [][SNext]_searchVars

-----------------------------------------------------------------------------
\* list_topics, topic_summary: a topic without a name is left out.
Summaries ==
  {[name |-> slugToTopic[s], count |-> Cardinality(topics[s]),
    tags |-> Cardinality(UNION {m.tags : m \in topics[s]})] :
     s \in {z \in UsedSlugs : topics[z] # {} /\ slugToTopic[z] # Absent}}

\* Which of all records a request is for, by the records alone.
Wanted(q, metas) ==
  {m \in metas : /\ q.topic # Absent => m.slug = TopicSlug[q.topic]
                 /\ Range(q.tags) \subseteq m.tags}

TrueTokens == [r \in RecordIds |-> Tokens(Input[r].words)]

\* A find none of whose reads failed returns what its request asks for of the records
\* there were when it looked, in the order of score, age and id, and no more than the
\* limit, although bodies are read and cached with no lock held, by two finds at once,
\* while records are stored (adapter.rs find_information; search.rs).
FindIsExact ==
  \A c \in Finds : phase[c] = "ok" /\ ~hurt[c] =>
    LET q == request[c]
        best == answer[c]
        wanted == Wanted(q, asOf[c])
        score(m) == Score(q, m, IF q.text = Absent THEN {} ELSE TrueTokens[m.id])
    IN  /\ Range(best) \subseteq wanted
        /\ KnowledgeQueried(c, Len(best)) \in published
        /\ Len(best) = Min({q.limit, Cardinality(wanted)})
        /\ \A i \in DOMAIN best : \A m \in wanted :
             m # best[i] =>
               \/ \E j \in 1..(i - 1) : best[j] = m
               \/ Better(score(best[i]), best[i], score(m), m)

\* Each topic that list_topics names can be searched by that name, and has as many
\* records as are counted, before and after a start from the file or from the bodies
\* (index.rs topic_summary, topic_slug.rs: the slug of a slug is itself).
ListMatchesFind ==
  running => /\ \A s \in Summaries : Cardinality(InTopic(s.name)) = s.count
             /\ \A m \in All : \E s \in Summaries : m \in InTopic(s.name)

\* A restart from the index file changes no request's candidates, though the records
\* take the name of their slug's first topic; one from the bodies only loses the tags
\* (index_file.rs ingest_file, rebuild_from_disk).
CandidateIds(q) == {m.id : m \in Candidates(q)}

RestartKeepsAnswers ==
  [][~running /\ running' => \A q \in Requests :
       (sidecar # Absent \/ q.tags = <<>>) => CandidateIds(q)' = CandidateIds(q)]_searchVars

SearchIsRight == FindIsExact /\ ListMatchesFind

=============================================================================

----------------------------- MODULE KnowledgeBase ----------------------------
(***************************************************************************)
(* The curated knowledge: documents, their chunks, the buckets they are    *)
(* tagged with, and what an agent is handed. A namespace (the platform's   *)
(* or one application's) is the boundary between applications, and only    *)
(* an approved document is retrieved.                                      *)
(*                                                                         *)
(* An ingestion is a sequence of transactions with awaits between them:    *)
(* look the text's hash up, embed, write the document, its chunks, its     *)
(* tags, and for a trusted source the approval. Curators, purges and a     *)
(* crash come in between. A retrieval searches, hydrates what it found     *)
(* later, and is remembered by the identical-query cache.                  *)
(***************************************************************************)
EXTENDS Naturals, FiniteSets

CONSTANTS Docs, Spaces, Personal, Platform, Texts, Buckets, Writers, MaxCached, MaxEdits, Null

VARIABLES
  doc,     \* kb_documents with kb_document_buckets and their chunks
  buckets, \* kb_buckets
  job,     \* the ingestions in progress
  look,    \* the retrieval in progress
  cache,   \* Retriever._cache
  edits,   \* bound on the curators' operations
  vetted,  \* history: documents ever approved
  handed   \* history: what the last answer gave, <<namespace searched, document>>
knowledgeVars == <<doc, buckets, job, look, cache, edits, vetted, handed>>

Live(d) == doc[d] # Null /\ doc[d].status # "gone"
Status == {"pending", "approved", "superseded", "retired", "gone"}
Idle == [stage |-> "idle"]

Document == [space: Spaces, text: Texts, status: Status, chunked: BOOLEAN,
             tags: SUBSET Buckets, synced: SUBSET Buckets]
Ingestion == [stage: {"embed", "insert", "tag", "approve"}, doc: Docs \cup {Null}, space: Spaces,
              text: Texts, tags: SUBSET Buckets, source: {"upload", "auto", "trusted"}]
Retrieval == [space: Spaces, scope: SUBSET Buckets, found: SUBSET Docs]
Answer == [key: Spaces \X SUBSET Buckets, found: SUBSET Docs]

TypeOK ==
  /\ doc \in [Docs -> Document \cup {Null}]
  /\ buckets \subseteq Buckets /\ edits \in 0..MaxEdits /\ vetted \subseteq Docs
  /\ job \in [Writers -> Ingestion \cup {Idle}]
  /\ look \in Retrieval \cup {Null} /\ cache \subseteq Answer
  /\ handed \subseteq Spaces \X Docs

Init ==
  /\ doc = [d \in Docs |-> Null] /\ buckets = Buckets /\ job = [w \in Writers |-> Idle]
  /\ look = Null /\ cache = {} /\ edits = 0 /\ vetted = {} /\ handed = {}

SetsDoc(d, f) == doc' = [doc EXCEPT ![d] = f]
Goes(w, stage) == job' = [job EXCEPT ![w] = [@ EXCEPT !.stage = stage]]
Stops(w) == job' = [job EXCEPT ![w] = Idle]
\* _sync_chunk_buckets: the chunks repeat the document's tags.
Tagged(d, tags) == [doc[d] EXCEPT !.tags = tags, !.synced = IF doc[d].chunked THEN tags ELSE @]

(***************************************************************************)
(* Ingestion                                                               *)
(***************************************************************************)
Same(space, text) == {d \in Docs : Live(d) /\ doc[d].space = space /\ doc[d].text = text}

\* ingest_text: the same text in the same namespace only adds tags.
Begins(w, space, text, tags, source) ==
  /\ job[w] = Idle
  /\ IF Same(space, text) # {}
     THEN /\ tags # {} /\ UNCHANGED job
          /\ \E d \in Same(space, text) : SetsDoc(d, Tagged(d, doc[d].tags \cup tags))
     ELSE /\ job' = [job EXCEPT ![w] = [stage |-> "embed", doc |-> Null, space |-> space,
                       text |-> text, tags |-> tags, source |-> source]]
          /\ UNCHANGED doc
  /\ UNCHANGED <<buckets, look, cache, edits, vetted, handed>>

\* A file for the platform or for a project waits for a curator. (The bucket
\* every document of a project carries, made on demand, is left out.)
Upload(w) == \E space \in Spaces \ {Personal}, text \in Texts, tags \in SUBSET buckets :
  Begins(w, space, text, tags, "upload")

\* A page or a pasted text of the personal library may be born approved.
IngestPersonal(w) == \E text \in Texts, tags \in SUBSET buckets, source \in {"upload", "auto"} :
  Begins(w, Personal, text, tags, source)

\* Finalised documents, research and commits of a project are trusted.
IngestTrusted(w) == \E space \in Spaces \ {Personal, Platform}, text \in Texts, tags \in SUBSET buckets :
  Begins(w, space, text, tags, "trusted")
\* So are the files found in the source tree of a project that is created, and
\* the platform's own documents whenever they are indexed again.
Seed(w) == \E space \in Spaces \ {Personal, Platform}, text \in Texts : Begins(w, space, text, {}, "trusted")
Reindex(w) == \E text \in Texts : Begins(w, Platform, text, {}, "trusted")

\* The embedding is done, or fails before anything is written.
WriteDocument(w) ==
  /\ job[w].stage = "embed"
  /\ \/ Stops(w) /\ UNCHANGED <<doc, vetted>>
     \/ \E d \in Docs :
          /\ doc[d] = Null
          /\ SetsDoc(d, [space |-> job[w].space, text |-> job[w].text,
                         status |-> IF job[w].source = "auto" THEN "approved" ELSE "pending",
                         chunked |-> FALSE, tags |-> {}, synced |-> {}])
          /\ vetted' = IF job[w].source = "auto" THEN vetted \cup {d} ELSE vetted
          /\ job' = [job EXCEPT ![w] = [@ EXCEPT !.stage = "insert", !.doc = d]]
  /\ UNCHANGED <<buckets, look, cache, edits, handed>>

\* The foreign key refuses the chunks and the tags of a document that is gone.
InsertChunks(w) ==
  /\ job[w].stage = "insert"
  /\ IF Live(job[w].doc)
     THEN SetsDoc(job[w].doc, [doc[job[w].doc] EXCEPT !.chunked = TRUE, !.synced = {}]) /\ Goes(w, "tag")
     ELSE Stops(w) /\ UNCHANGED doc
  /\ UNCHANGED <<buckets, look, cache, edits, vetted, handed>>

SetTags(w) ==
  /\ job[w].stage = "tag"
  /\ LET d == job[w].doc IN
     IF job[w].tags = {} THEN UNCHANGED doc /\ Goes(w, "approve")
     ELSE IF Live(d) /\ job[w].tags \subseteq buckets
     THEN SetsDoc(d, Tagged(d, job[w].tags)) /\ Goes(w, "approve")
     ELSE Stops(w) /\ UNCHANGED doc
  /\ UNCHANGED <<buckets, look, cache, edits, vetted, handed>>

\* A trusted source approves what it ingested, whatever a curator did with it.
ApproveTrusted(w) ==
  /\ job[w].stage = "approve" /\ Stops(w)
  /\ IF job[w].source = "trusted" /\ Live(job[w].doc)
     THEN SetsDoc(job[w].doc, [doc[job[w].doc] EXCEPT !.status = "approved"]) /\ vetted' = vetted \cup {job[w].doc}
     ELSE UNCHANGED <<doc, vetted>>
  /\ UNCHANGED <<buckets, look, cache, edits, handed>>

(***************************************************************************)
(* Curation                                                                *)
(***************************************************************************)
Edit == edits < MaxEdits /\ edits' = edits + 1

\* A curator approves a document of any status.
Approve(d) ==
  /\ Edit /\ Live(d) /\ doc[d].status # "approved"
  /\ SetsDoc(d, [doc[d] EXCEPT !.status = "approved"]) /\ vetted' = vetted \cup {d}
  /\ UNCHANGED <<buckets, job, look, cache, handed>>

Retire(d) ==
  /\ Edit /\ Live(d)
  /\ \E status \in {"superseded", "retired", "pending"} : SetsDoc(d, [doc[d] EXCEPT !.status = status])
  /\ UNCHANGED <<buckets, job, look, cache, vetted, handed>>

\* The row and, by the foreign keys, its chunks and tags. The cache is left.
Erased(gone) == doc' = [d \in Docs |-> IF d \in gone /\ Live(d) THEN [doc[d] EXCEPT !.status = "gone"] ELSE doc[d]]

PurgeDocument(d) ==
  /\ Edit /\ Live(d) /\ Erased({d})
  /\ UNCHANGED <<buckets, job, look, cache, vetted, handed>>

\* forget_subject: every document that mentions it, in any namespace.
ForgetSubject(text) ==
  /\ Edit /\ \E d \in Docs : Live(d) /\ doc[d].text = text
  /\ Erased({d \in Docs : doc[d] # Null /\ doc[d].text = text})
  /\ UNCHANGED <<buckets, job, look, cache, vetted, handed>>

\* purge_project, when the project is deleted.
PurgeProject(space) ==
  /\ Edit /\ space \notin {Personal, Platform} /\ \E d \in Docs : Live(d) /\ doc[d].space = space
  /\ Erased({d \in Docs : doc[d] # Null /\ doc[d].space = space})
  /\ UNCHANGED <<buckets, job, look, cache, vetted, handed>>

SetBuckets(d) ==
  /\ Edit /\ Live(d)
  /\ \E tags \in SUBSET buckets : tags # doc[d].tags /\ SetsDoc(d, Tagged(d, tags))
  /\ UNCHANGED <<buckets, job, look, cache, vetted, handed>>

\* One transaction: the bucket, its memberships, the chunks of its documents.
DeleteBucket(b) ==
  /\ Edit /\ b \in buckets /\ buckets' = buckets \ {b}
  /\ doc' = [d \in Docs |-> IF Live(d) /\ b \in doc[d].tags THEN Tagged(d, doc[d].tags \ {b}) ELSE doc[d]]
  /\ UNCHANGED <<job, look, cache, vetted, handed>>

(***************************************************************************)
(* What an agent is handed, in the scope the tool call carries: the one on *)
(* the agent object then, whoever stored it (AgentLoop)                    *)
(***************************************************************************)
\* Both arms filter by namespace, by approval and by the chunks' buckets.
Matches(space, scope) ==
  {d \in Docs : /\ Live(d) /\ doc[d].space = space /\ doc[d].status = "approved" /\ doc[d].chunked
                /\ scope = {} \/ doc[d].synced \cap scope # {}}
\* The identical-query key, and the one a cache of queries alone would use.
KeyOfQuery(space, scope) == <<Null, scope>>
CacheKey(space, scope) == <<space, scope>>
Cached(space, scope) == {c \in cache : c.key = CacheKey(space, scope)}
Hands(space, found) == handed' = {space} \X found

\* A hit answers without looking at the documents again.
Search(space, scope) ==
  /\ look = Null
  /\ IF Cached(space, scope) # {}
     THEN \E c \in Cached(space, scope) : Hands(space, c.found) /\ UNCHANGED look
     ELSE \E found \in SUBSET Matches(space, scope) :
            look' = [space |-> space, scope |-> scope, found |-> found] /\ UNCHANGED handed
  /\ UNCHANGED <<doc, buckets, job, cache, edits, vetted>>

\* _cache_put: in place of the same key, and of the oldest when the cache is full.
CachePut(key, found) ==
  LET others == {c \in cache : c.key # key} IN
  \E kept \in SUBSET others :
    /\ Cardinality(kept) = IF Cardinality(others) < MaxCached THEN Cardinality(others) ELSE MaxCached - 1
    /\ cache' = kept \cup {[key |-> key, found |-> found]}

\* get_chunks_by_ids drops what was purged since, not what was retired.
Hydrate ==
  /\ look # Null /\ look' = Null
  /\ LET found == {d \in look.found : Live(d)} IN
     /\ Hands(look.space, found)
     /\ IF look.found = {} THEN UNCHANGED cache ELSE CachePut(CacheKey(look.space, look.scope), found)
  /\ UNCHANGED <<doc, buckets, job, edits, vetted>>

\* The entry's time is up.
Evict ==
  /\ \E c \in cache : cache' = cache \ {c}
  /\ UNCHANGED <<doc, buckets, job, look, edits, vetted, handed>>

\* knowledge_get reads one document by an id the agent names.
Get(space, d) ==
  /\ Live(d) /\ doc[d].space = space /\ doc[d].status = "approved" /\ Hands(space, {d})
  /\ UNCHANGED <<doc, buckets, job, look, cache, edits, vetted>>

\* The worker dies: its ingestions stop where they are.
Crash ==
  /\ Edit /\ \E w \in Writers : job[w] # Idle
  /\ job' = [w \in Writers |-> Idle] /\ look' = Null /\ cache' = {}
  /\ UNCHANGED <<doc, buckets, vetted, handed>>

Next ==
  \/ \E w \in Writers : \/ Upload(w) \/ IngestPersonal(w) \/ IngestTrusted(w) \/ Seed(w) \/ Reindex(w)
                       \/ WriteDocument(w) \/ InsertChunks(w) \/ SetTags(w) \/ ApproveTrusted(w)
  \/ \E d \in Docs : Approve(d) \/ Retire(d) \/ SetBuckets(d) \/ PurgeDocument(d)
  \/ \E d \in Docs, space \in Spaces : Get(space, d)
  \/ \E text \in Texts : ForgetSubject(text)
  \/ \E space \in Spaces : PurgeProject(space)
  \/ \E b \in Buckets : DeleteBucket(b)
  \/ \E space \in Spaces, scope \in SUBSET Buckets : Search(space, scope)
  \/ Hydrate \/ Evict \/ Crash
KnowledgeSpec == Init /\ [][Next]_knowledgeVars

(***************************************************************************)
(* Properties                                                              *)
(***************************************************************************)
\* Whatever a search, the cache or a read by id answers is a document of the
\* namespace the call carried, and one that somebody or a trusted source has
\* approved: no ingestion under way, purge or cached answer brings in a text of
\* another namespace or an unreviewed one (Retriever.retrieve, KnowledgeGetTool).
\* That the call carries its own request's namespace is not said here, and is
\* not so: see AgentLoop's KnowledgeStaysInProject.
HandedIsVetted == \A h \in handed : doc[h[2]].space = h[1] /\ h[2] \in vetted
==============================================================================

-------------------------- MODULE DocumentIndexing --------------------------
(***************************************************************************)
(* The documents of one knowledge base of the gulu service, of type normal:  *)
(* the handlers of knowledge_base_logic.go, which start background           *)
(* goroutines, the pipeline of knowledge_processor.go that such a goroutine  *)
(* runs, and the calls of knowledge_qdrant.go.  A goroutine works on three   *)
(* stores (the MySQL rows, the Qdrant collection, the files) without a lock  *)
(* or a transaction; every call that changes MySQL or Qdrant is one step, and *)
(* so is every read whose answer is used later.                              *)
(***************************************************************************)
EXTENDS Integers, FiniteSets, Functions

CONSTANTS
    Docs,          \* document ids
    Jobs,          \* bound: the background goroutines that are ever started
    Dims,          \* output dimensions of the embedding models on offer
    FirstDim,      \* ... and of the one the knowledge base is created with
    ImageDims,     \* output dimensions of the multimodal models on offer
    FirstImageDim, \* ... and of the one the knowledge base is created with, 0: none
    FirstColls,    \* the collections an empty knowledge base has, after an earlier life
    ChunkCounts,   \* the numbers of chunks a chunk setting makes of a document
    DefaultChunks, \* ... and the default setting
    Illustrated,   \* the documents with an image in them
    Stride,        \* 100000 in the code: ids a document has for its points
    MaxEvents      \* bound: failing calls, panics, restarts, images without data, updates

ASSUME DocsAssumption   == Docs \subseteq Nat /\ Illustrated \subseteq Docs
ASSUME DimsAssumption   == Dims \subseteq Nat \ {0} /\ FirstDim \in Dims
ASSUME ImageDimsAssumption == ImageDims \subseteq Nat \ {0} /\ FirstImageDim \in ImageDims \cup {0}
ASSUME CollsAssumption  == FirstColls \subseteq [text : Nat, image : Nat]
ASSUME ChunksAssumption == ChunkCounts \subseteq Nat /\ DefaultChunks \in ChunkCounts
ASSUME StrideAssumption == Stride \in Nat /\ \A n \in ChunkCounts : n + 1 <= Stride
ASSUME BoundAssumption  == MaxEvents \in Nat

VARIABLES
    kb,      \* row of t_knowledge_base: is_delete, models, multimodal flag, config
    update,  \* the Update of that row that is on its way, with the config it has read
    row,     \* rows of t_knowledge_document
    segs,    \* rows of t_knowledge_segment
    coll,    \* the dimensions of the collection's text and image fields, 0: none
    points,  \* the collection's points, by id
    files,   \* files of the knowledge base's directory
    job,     \* the background goroutines
    events   \* the failures, restarts and updates so far

stores == <<kb, row, segs, coll, points, files>>
around == <<update, events>>
indexVars == <<stores, job, around>>

NoColl     == [text |-> 0, image |-> 0]
CollExists == coll # NoColl
PointID(d, i) == d * Stride + i
NoPoints   == [k \in {} |-> 0]
PointsOf(d) == {k \in DOMAIN points : points[k].doc = d}
SegsOf(d)   == {s \in segs : s.doc = d}
Keep(S)     == points' = Restrict(points, S)

NoSeg == [job |-> 0, doc |-> 0, pos |-> 0, kind |-> "text", enabled |-> FALSE, text |-> 0]
SameRow(s, t) == s.job = t.job /\ s.doc = t.doc /\ s.pos = t.pos

Active(j) == job[j].pc \notin {"idle", "done"}

\* A goroutine that is not running; a running one has its own copy of kb.
NotRunning(pc) ==
    [pc |-> pc, docs |-> {}, dim |-> 0, imgdim |-> 0, multimodal |-> FALSE, config |-> NoColl,
     settings |-> [d \in Docs |-> 0], field |-> "text", total |-> 0, seg |-> NoSeg,
     refused |-> FALSE,  \* its next statement fails
     left |-> FALSE,     \* the image of its document is not indexed ...
     extra |-> 0,        \* ... but counted
     remade |-> FALSE,   \* history: the collection was made for another image model
     calm |-> TRUE]      \* history: nothing ran beside it or failed in it

NoUpdate == [pending |-> FALSE, config |-> NoColl]

IndexInit ==
    /\ coll \in FirstColls
    /\ kb = [deleted |-> FALSE, dim |-> FirstDim, imgdim |-> FirstImageDim, multimodal |-> TRUE,
             config |-> coll]
    /\ update = NoUpdate
    /\ row = [d \in Docs |-> [status |-> "new", setting |-> DefaultChunks, count |-> 0, orphan |-> FALSE]]
    /\ segs = {} /\ points = NoPoints /\ files = {}
    /\ job = [j \in Jobs |-> NotRunning("idle")]
    /\ events = 0

-----------------------------------------------------------------------------
(* The handlers.  safeGo starts a goroutine.                                 *)

SafeGo(pc, docs, settings, seg) ==
    \E j \in Jobs :
        /\ job[j].pc = "idle" /\ \A i \in Jobs : i < j => job[i].pc # "idle"
        /\ job' = [i \in Jobs |->
             IF i = j
             THEN [NotRunning(pc) EXCEPT !.docs = docs, !.settings = settings, !.seg = seg,
                     !.dim = kb.dim, !.imgdim = kb.imgdim, !.multimodal = kb.multimodal,
                     !.config = kb.config,
                     !.calm = \A k \in Jobs : ~Active(k)]
             ELSE [job[i] EXCEPT !.calm = @ /\ ~Active(i)]]

\* The chunk settings of the rows the handler has read.
Settings(D) == [d \in Docs |-> IF d \in D THEN row[d].setting ELSE 0]

\* The file is stored first, even when the knowledge base is gone.
UploadDocument(d) ==
    /\ row[d].status = "new" /\ <<d, "doc">> \notin files
    /\ files' = files \cup {<<d, "doc">>}
    /\ row' = IF kb.deleted THEN row ELSE [row EXCEPT ![d].status = "waiting"]
    /\ UNCHANGED <<kb, segs, coll, points, job, around>>

Exists(d) == row[d].status \notin {"new", "deleted"}

ProcessDocument(d, n) ==
    /\ ~kb.deleted /\ Exists(d)
    /\ row' = [row EXCEPT ![d] = [@ EXCEPT !.status = "waiting", !.setting = n, !.orphan = FALSE]]
    /\ SafeGo("parsing", {d}, [Settings({d}) EXCEPT ![d] = n], NoSeg)
    /\ UNCHANGED <<kb, segs, coll, points, files, around>>

\* ReprocessDocument and BatchReprocessDocuments: one goroutine for all of D.
ReprocessDocuments(D) ==
    /\ ~kb.deleted /\ \A d \in D : Exists(d)
    /\ row' = [d \in Docs |-> IF d \in D THEN [row[d] EXCEPT !.status = "waiting", !.orphan = FALSE]
                              ELSE row[d]]
    /\ SafeGo("parsing", D, Settings(D), NoSeg)
    /\ UNCHANGED <<kb, segs, coll, points, files, around>>

\* DeleteDocument and BatchDeleteDocuments.  The two DELETE statements commute
\* with every other step, since none looks at both tables.
DeleteDocuments(D) ==
    /\ ~kb.deleted /\ \A d \in D : Exists(d)
    /\ row' = [d \in Docs |-> IF d \in D THEN [row[d] EXCEPT !.status = "deleted"] ELSE row[d]]
    /\ segs' = {s \in segs : s.doc \notin D}
    /\ SafeGo("delvectors", D, Settings({}), NoSeg)
    /\ UNCHANGED <<kb, coll, points, files, around>>

\* Delete of the knowledge base.
DeleteBase ==
    /\ ~kb.deleted
    /\ kb' = [kb EXCEPT !.deleted = TRUE]
    /\ SafeGo("dropcoll", {}, Settings({}), NoSeg)
    /\ UNCHANGED <<row, segs, coll, points, files, around>>

\* Update of the knowledge base reads the row, and later writes a model, and the
\* multimodal flag, with the config it has read, whatever became of the row.
ReadBase ==
    /\ ~kb.deleted /\ ~update.pending /\ events < MaxEvents
    /\ events' = events + 1
    /\ update' = [pending |-> TRUE, config |-> kb.config]
    /\ UNCHANGED <<stores, job>>

UpdateBase(dim, imgdim, multimodal) ==
    /\ update.pending
    /\ kb' = [kb EXCEPT !.dim = dim, !.imgdim = imgdim, !.multimodal = multimodal,
                        !.config = update.config]
    /\ update' = NoUpdate
    /\ UNCHANGED <<row, segs, coll, points, files, job, events>>

\* UpdateSegment: the row is changed here, the vector in a goroutine.
UpdateSegment(s, enabled, text) ==
    LET t == [s EXCEPT !.enabled = enabled, !.text = text] IN
    /\ t # s /\ events < MaxEvents
    /\ events' = events + 1
    /\ segs' = (segs \ {s}) \cup {t}
    /\ CASE s.enabled /\ ~enabled -> SafeGo("unembed", {s.doc}, Settings({}), t)
         [] enabled               -> SafeGo("reembed", {s.doc}, Settings({}), t)
         [] OTHER                 -> UNCHANGED job
    /\ UNCHANGED <<kb, row, coll, points, files, update>>

Handlers ==
    \/ \E d \in Docs : UploadDocument(d) \/ \E n \in ChunkCounts : ProcessDocument(d, n)
    \/ \E D \in (SUBSET Docs) \ {{}} : ReprocessDocuments(D) \/ DeleteDocuments(D)
    \/ DeleteBase
    \/ ReadBase
    \/ \E dim \in Dims, i \in ImageDims \cup {0}, m \in BOOLEAN : UpdateBase(dim, i, m)
    \/ \E s \in segs, e \in BOOLEAN, t \in 0 .. MaxEvents : UpdateSegment(s, e, t)

-----------------------------------------------------------------------------
(* DocumentProcessor.Process, for the first of the goroutine's documents.    *)

Doc(j)    == CHOOSE d \in job[j].docs : \A e \in job[j].docs : d <= e
Chunks(j) == job[j].settings[Doc(j)]
HasImages(j) == job[j].multimodal /\ Doc(j) \in Illustrated
Text(j)   == job[j].field = "text"

In(j, pc) == job[j].pc = pc
Go(j, pc) == job' = [job EXCEPT ![j].pc = pc, ![j].refused = FALSE]
OnError(j) == IF Text(j) THEN "failed" ELSE "complete"

\* The next document of a batch, or the end.
Leave(j, pc) ==
    LET rest == job[j].docs \ {Doc(j)} IN
    job' = [job EXCEPT ![j] = IF rest = {} THEN NotRunning("done")
                              ELSE [@ EXCEPT !.docs = rest, !.pc = pc, !.total = 0, !.field = "text",
                                             !.refused = FALSE, !.left = FALSE, !.extra = 0, !.remade = FALSE]]

EndJob(j) == job' = [job EXCEPT ![j] = NotRunning("done")]

\* updateIndexingStatus.  An UPDATE of a row that is gone changes nothing, and
\* nobody looks at the error of one that fails.
SetStatus(j, status) ==
    row' = IF Exists(Doc(j)) /\ ~job[j].refused THEN [row EXCEPT ![Doc(j)].status = status] ELSE row

\* The UPDATE that ends Process; orphan is history, and says that it has failed.
SetFinal(j, status, count) ==
    row' = IF ~Exists(Doc(j)) THEN row
           ELSE [row EXCEPT ![Doc(j)] = IF job[j].refused THEN [@ EXCEPT !.orphan = TRUE]
                                        ELSE [@ EXCEPT !.status = status, !.count = count]]

\* The image has no data, or it cannot be stored, which is only logged.
ImageLeft(j) ==
    /\ In(j, "parsing") /\ HasImages(j) /\ ~job[j].left /\ events < MaxEvents
    /\ events' = events + 1
    /\ job' = [job EXCEPT ![j].left = TRUE]
    /\ UNCHANGED <<stores, update>>

Parse(j) ==
    /\ In(j, "parsing")
    /\ SetStatus(j, "parsing")
    /\ IF <<Doc(j), "doc">> \in files
       THEN /\ files' = files \cup (IF HasImages(j) /\ ~job[j].left THEN {<<Doc(j), "image">>} ELSE {})
            /\ Go(j, "splitting")
       ELSE Go(j, "failed") /\ UNCHANGED files
    /\ UNCHANGED <<kb, segs, coll, points, around>>

\* Cleaning, splitting and the start of indexing: three writes of the status with
\* nothing but computation between them.  A document without text only has its
\* old data wiped before its images.
Split(j) ==
    /\ In(j, "splitting")
    /\ IF Chunks(j) = 0 /\ ~HasImages(j)
       THEN SetStatus(j, "splitting") /\ Go(j, "failed")
       ELSE /\ SetStatus(j, "indexing")
            /\ job' = [job EXCEPT ![j].pc = IF Chunks(j) > 0 THEN "ensure" ELSE "wipevectors",
                                  ![j].refused = FALSE,
                                  ![j].field = IF Chunks(j) > 0 THEN "text" ELSE "image"]
    /\ UNCHANGED <<kb, segs, coll, points, files, around>>

\* The dimensions ensureCollectionDimension is called with: one is what the
\* model has just returned, the other comes from the config read at the start.
Wanted(j) == [text  |-> IF Text(j) THEN job[j].dim ELSE job[j].config.text,
              image |-> IF Text(j) THEN job[j].config.image ELSE job[j].imgdim]

\* Mutated form: a missing image field counts as a mismatch.
EnsureAllFields(j) ==
    /\ In(j, "ensure")
    /\ LET w == Wanted(j) IN
       Go(j, CASE ~CollExists -> "create"
               [] CollExists /\ (\/ w.text > 0 /\ coll.text # w.text
                                 \/ w.image > 0 /\ coll.image # w.image) -> "rebuild"
               [] OTHER -> "config")
    /\ UNCHANGED <<stores, around>>

\* ensureCollectionDimension looks at the fields that the collection has.
Ensure(j) ==
    /\ In(j, "ensure")
    /\ LET w == Wanted(j) IN
       Go(j, CASE ~CollExists -> "create"
               [] CollExists /\ (\/ w.text > 0 /\ coll.text # w.text
                                 \/ w.image > 0 /\ coll.image \notin {0, w.image}) -> "rebuild"
               [] OTHER -> "config")
    /\ UNCHANGED <<stores, around>>

\* The whole collection goes, with the text of the document when it is the
\* image model that has changed.
Rebuild(j) ==
    /\ In(j, "rebuild")
    /\ coll' = NoColl /\ points' = NoPoints
    /\ job' = [job EXCEPT ![j].pc = "create",
         ![j].remade = ~Text(j) /\ Chunks(j) > 0 /\ coll.image \notin {0, Wanted(j).image}]
    /\ UNCHANGED <<kb, row, segs, files, around>>

\* CreateQdrantCollectionMultiVector has a test of its own.
Create(j) ==
    /\ In(j, "create")
    /\ LET w == Wanted(j) IN
       IF CollExists /\ (coll.text # w.text \/ (w.image > 0 /\ coll.image = 0))
       THEN coll' = NoColl /\ points' = NoPoints /\ Go(j, "make")
       ELSE UNCHANGED <<coll, points>> /\ Go(j, IF CollExists THEN "config" ELSE "make")
    /\ UNCHANGED <<kb, row, segs, files, around>>

\* The calls that look at the collection fail: ensureCollectionDimension goes on
\* to create it, CreateQdrantCollectionMultiVector takes it as it is.
InfoFails(j) ==
    /\ job[j].pc \in {"ensure", "create"} /\ CollExists /\ events < MaxEvents
    /\ events' = events + 1
    /\ job' = [job EXCEPT ![j].pc = IF @ = "ensure" THEN "create" ELSE "config", ![j].calm = FALSE]
    /\ UNCHANGED <<stores, update>>

\* Qdrant refuses a collection that exists and a field without a dimension.
Make(j) ==
    /\ In(j, "make")
    /\ IF CollExists \/ Wanted(j).text = 0
       THEN Go(j, OnError(j)) /\ UNCHANGED coll
       ELSE Go(j, "config") /\ coll' = Wanted(j)
    /\ UNCHANGED <<kb, row, segs, points, files, around>>

\* The goroutine writes its own copy of the config back, in memory in any case.
WriteConfig(j) ==
    LET f == job[j].field IN
    LET c == [job[j].config EXCEPT ![f] = Wanted(j)[f]] IN
    /\ In(j, "config")
    /\ kb' = IF c = job[j].config \/ job[j].refused THEN kb ELSE [kb EXCEPT !.config = c]
    /\ job' = [job EXCEPT ![j].config = c, ![j].refused = FALSE,
                          ![j].pc = IF Text(j) THEN "wipevectors" ELSE "upsert"]
    /\ UNCHANGED <<row, segs, coll, points, files, around>>

\* Mutated form: the old vectors of the document stay.
WipeVectorsKept(j) ==
    /\ In(j, "wipevectors")
    /\ Go(j, "wipesegments")
    /\ UNCHANGED <<stores, around>>

\* DeleteDocumentVectors.
WipeVectors(j) ==
    /\ In(j, "wipevectors")
    /\ Keep(DOMAIN points \ PointsOf(Doc(j)))
    /\ Go(j, "wipesegments")
    /\ UNCHANGED <<kb, row, segs, coll, files, around>>

WipeSegments(j) ==
    /\ In(j, "wipesegments")
    /\ segs' = IF job[j].refused THEN segs ELSE segs \ SegsOf(Doc(j))
    /\ Go(j, IF Text(j) THEN "upsert" ELSE "images")
    /\ UNCHANGED <<kb, row, coll, points, files, around>>

\* The positions the goroutine writes in the field it is at.
Positions(j) == IF Text(j) THEN 0 .. (Chunks(j) - 1) ELSE {Chunks(j)}

\* UpsertVectorsToField; Qdrant refuses a vector that does not fit the field.
Upsert(j) ==
    /\ In(j, "upsert")
    /\ IF coll[job[j].field] = Wanted(j)[job[j].field]
       THEN LET new == [k \in {PointID(Doc(j), i) : i \in Positions(j)} |->
                          [doc |-> Doc(j), pos |-> k - PointID(Doc(j), 0),
                           kind |-> job[j].field, text |-> 0]]
            IN  points' = [k \in DOMAIN new \cup DOMAIN points |->
                             IF k \in DOMAIN new THEN new[k] ELSE points[k]]
                /\ Go(j, "segments")
       ELSE Go(j, OnError(j)) /\ UNCHANGED points
    /\ UNCHANGED <<kb, row, segs, coll, files, around>>

\* The INSERT; its error is only logged.
InsertSegments(j) ==
    /\ In(j, "segments")
    /\ job' = [job EXCEPT ![j].pc = IF Text(j) THEN "images" ELSE "complete",
                          ![j].total = @ + Cardinality(Positions(j)), ![j].refused = FALSE]
    /\ segs' = IF job[j].refused THEN segs
               ELSE segs \cup {[job |-> j, doc |-> Doc(j), pos |-> i, kind |-> job[j].field,
                                enabled |-> TRUE, text |-> 0] : i \in Positions(j)}
    /\ UNCHANGED <<kb, row, coll, points, files, around>>

\* indexImages: an error without a model; an image that was left out is counted
\* by Process all the same.
Images(j) ==
    /\ In(j, "images")
    /\ LET indexed == HasImages(j) /\ job[j].imgdim > 0
           n == IF indexed /\ job[j].left THEN 1 ELSE 0 IN
       job' = [job EXCEPT ![j].field = "image", ![j].total = @ + n, ![j].extra = n,
                          ![j].pc = IF indexed /\ ~job[j].left THEN "ensure" ELSE "complete"]
    /\ UNCHANGED <<stores, around>>

\* Any other error of indexImages is logged too.
ImagesFail(j) ==
    /\ \/ In(j, "images") /\ HasImages(j)
       \/ ~Text(j) /\ job[j].pc \in {"ensure", "create", "make", "upsert"}
    /\ events < MaxEvents
    /\ events' = events + 1
    /\ job' = [job EXCEPT ![j].pc = "complete", ![j].calm = FALSE]
    /\ UNCHANGED <<stores, update>>

Complete(j) ==
    /\ In(j, "complete")
    /\ SetFinal(j, "completed", job[j].total)
    /\ Leave(j, "parsing")
    /\ UNCHANGED <<kb, segs, coll, points, files, around>>

\* Mutated form: an early return without markFailed.
MarkFailedForgotten(j) ==
    /\ In(j, "failed")
    /\ Leave(j, "parsing")
    /\ UNCHANGED <<stores, around>>

MarkFailed(j) ==
    /\ In(j, "failed")
    /\ SetFinal(j, "error", row[Doc(j)].count)
    /\ Leave(j, "parsing")
    /\ UNCHANGED <<kb, segs, coll, points, files, around>>

Processing == {"parsing", "splitting", "ensure", "rebuild", "create", "make",
               "config", "wipevectors", "wipesegments", "upsert", "segments", "images", "complete"}

\* A call that fails in a stage whose error ends Process, or a panic anywhere,
\* which the deferred function turns into markFailed.
Fails(j) ==
    /\ job[j].pc \in Processing /\ events < MaxEvents
    /\ events' = events + 1
    /\ job' = [job EXCEPT ![j].pc = "failed", ![j].calm = FALSE]
    /\ UNCHANGED <<stores, update>>

Process(j) ==
    \/ Parse(j) \/ Split(j)
    \/ Ensure(j) \/ Rebuild(j) \/ Create(j) \/ Make(j) \/ WriteConfig(j)
    \/ WipeVectors(j) \/ WipeSegments(j) \/ Upsert(j)
    \/ InsertSegments(j) \/ Images(j)
    \/ Complete(j) \/ MarkFailed(j)

-----------------------------------------------------------------------------
(* The other goroutines.                                                     *)

\* DeleteDocument's: the vectors, then the file; the images stay.
DeleteVectors(j) ==
    /\ In(j, "delvectors")
    /\ Keep(DOMAIN points \ PointsOf(Doc(j)))
    /\ Go(j, "delfile")
    /\ UNCHANGED <<kb, row, segs, coll, files, around>>

DeleteFile(j) ==
    /\ In(j, "delfile")
    /\ files' = files \ {<<Doc(j), "doc">>}
    /\ Leave(j, "delvectors")
    /\ UNCHANGED <<kb, row, segs, coll, points, around>>

\* Delete's: the collection, the rows, the directory.
DropCollection(j) ==
    /\ In(j, "dropcoll")
    /\ coll' = NoColl /\ points' = NoPoints
    /\ Go(j, "droprows")
    /\ UNCHANGED <<kb, row, segs, files, around>>

\* Mutated form: the rows of the segments are forgotten.
DropRowsKeepSegments(j) ==
    /\ In(j, "droprows")
    /\ row' = [d \in Docs |-> IF Exists(d) THEN [row[d] EXCEPT !.status = "deleted"] ELSE row[d]]
    /\ Go(j, "dropdir")
    /\ UNCHANGED <<kb, segs, coll, points, files, around>>

DropRows(j) ==
    /\ In(j, "droprows")
    /\ segs' = IF job[j].refused THEN segs ELSE {}
    /\ row' = [d \in Docs |-> IF Exists(d) /\ ~job[j].refused THEN [row[d] EXCEPT !.status = "deleted"] ELSE row[d]]
    /\ Go(j, "dropdir")
    /\ UNCHANGED <<kb, coll, points, files, around>>

DropDir(j) ==
    /\ In(j, "dropdir")
    /\ files' = {}
    /\ EndJob(j)
    /\ UNCHANGED <<kb, row, segs, coll, points, around>>

\* reEmbedSegment reads the base and asks its model, reads the segment, and
\* writes to the text field if the vector fits; DeleteSegmentVector removes by id.
ReadModel(j) ==
    /\ In(j, "reembed")
    /\ job' = [job EXCEPT ![j].pc = "findseg", ![j].dim = kb.dim]
    /\ UNCHANGED <<stores, around>>

FindSegment(j) ==
    /\ In(j, "findseg")
    /\ IF \E t \in segs : SameRow(job[j].seg, t) THEN Go(j, "reupsert") ELSE EndJob(j)
    /\ UNCHANGED <<stores, around>>

ReEmbedSegment(j) ==
    LET s == job[j].seg IN
    /\ In(j, "reupsert")
    /\ points' = IF coll.text = job[j].dim
                 THEN [k \in DOMAIN points \cup {PointID(s.doc, s.pos)} |->
                         IF k = PointID(s.doc, s.pos)
                         THEN [doc |-> s.doc, pos |-> s.pos, kind |-> "text", text |-> s.text]
                         ELSE points[k]]
                 ELSE points
    /\ EndJob(j)
    /\ UNCHANGED <<kb, row, segs, coll, files, around>>

DeleteSegmentVector(j) ==
    LET s == job[j].seg IN
    /\ In(j, "unembed")
    /\ Keep(DOMAIN points \ {PointID(s.doc, s.pos)})
    /\ EndJob(j)
    /\ UNCHANGED <<kb, row, segs, coll, files, around>>

Other(j) ==
    \/ DeleteVectors(j) \/ DeleteFile(j)
    \/ DropCollection(j) \/ DropRows(j) \/ DropDir(j)
    \/ ReadModel(j) \/ FindSegment(j) \/ ReEmbedSegment(j) \/ DeleteSegmentVector(j)

\* Calls whose error is logged and otherwise ignored, and where they go on.
LoggedOnly == [rebuild |-> "create", wipevectors |-> "wipesegments",
               delvectors |-> "delfile", dropcoll |-> "droprows",
               reembed |-> "done", findseg |-> "done", reupsert |-> "done", unembed |-> "done"]

CallFails(j) ==
    /\ job[j].pc \in DOMAIN LoggedOnly /\ events < MaxEvents
    /\ events' = events + 1
    /\ LET pc == LoggedOnly[job[j].pc] IN
       job' = [job EXCEPT ![j] = IF pc = "done" THEN NotRunning(pc)
                                 ELSE [@ EXCEPT !.pc = pc, !.calm = FALSE]]
    /\ UNCHANGED <<stores, update>>

\* A statement of a goroutine that writes to the database fails; nobody looks at
\* the error.
StatementFails(j) ==
    /\ job[j].pc \in {"parsing", "splitting", "config", "wipesegments", "segments",
                      "complete", "failed", "droprows"}
    /\ ~job[j].refused /\ events < MaxEvents
    /\ events' = events + 1
    /\ job' = [job EXCEPT ![j].refused = TRUE, ![j].calm = FALSE]
    /\ UNCHANGED <<stores, update>>

\* What goes wrong around a goroutine.
Failure(j) ==
    \/ ImageLeft(j) \/ Fails(j) \/ ImagesFail(j) \/ InfoFails(j) \/ CallFails(j)
    \/ StatementFails(j)

\* The process ends and is started again; nothing resumes the goroutines.
Restart ==
    /\ events < MaxEvents /\ events' = events + 1
    /\ job' = [j \in Jobs |-> IF Active(j) THEN NotRunning("done") ELSE job[j]]
    /\ update' = NoUpdate
    /\ row' = [d \in Docs |-> [row[d] EXCEPT !.orphan = TRUE]]
    /\ UNCHANGED <<kb, segs, coll, points, files>>

Quiet == (\A j \in Jobs : ~Active(j)) /\ UNCHANGED indexVars

IndexNext ==
    \/ Handlers \/ Restart \/ Quiet
    \/ \E j \in Jobs : Process(j) \/ Other(j) \/ Failure(j)

IndexSpec == IndexInit /\ [][IndexNext]_indexVars

-----------------------------------------------------------------------------
(* Properties.                                                               *)

\* What the stores say of a document: the points are those of the rows, with
\* their text.
Agree(d) ==
    {<<points[k].pos, points[k].kind, points[k].text>> : k \in PointsOf(d)} =
    {<<s.pos, s.kind, s.text>> : s \in {t \in SegsOf(d) : t.enabled}}

\* A document that Process completes, with no other goroutine beside it and no
\* failed call, is the same in the collection and in the database, whatever an
\* earlier run with another chunk setting, model or failure left behind, unless
\* its images came with another model than the collection was made for.  Its
\* chunk_count is the number of its rows, and of an image that was left out.
CompletedIsIndexed ==
    [][\A j \in Jobs, d \in Docs :
         In(j, "complete") /\ d = Doc(j) /\ row'[d].status = "completed" /\ row[d].status # "completed"
           /\ job[j].calm /\ ~job[j].remade
         => /\ row[d].status = "indexing" /\ Agree(d)'
            /\ row'[d].count = Cardinality(SegsOf(d)') + job[j].extra]_indexVars

\* Nothing that a search could find is left of a document, or of the whole
\* knowledge base, once its deletion has run with nothing beside it.
DeletedIsGone ==
    [][\A j \in Jobs, d \in Docs :
         job[j].calm /\ job'[j].pc # job[j].pc /\ events' = events =>
           /\ In(j, "delfile") /\ d = Doc(j) => SegsOf(d)' = {} /\ PointsOf(d)' = {}
           /\ In(j, "dropdir") => segs' = {} /\ points' = NoPoints /\ files' = {}]_indexVars

\* The models a goroutine works with are those the collection was made for, as
\* far as it has their fields, and so are the dimensions in its config.
Fits(j) ==
    /\ job[j].dim = coll.text
    /\ coll.image # 0 => job[j].imgdim \in {0, coll.image} /\ job[j].config.image \in {0, coll.image}

\* A goroutine that runs alone, with the models the collection was made for and
\* text in its documents, never drops the collection: as long as the image model
\* stays, indexing the images of a document, even the first ones, does not cost
\* the vectors of its text or of other documents.
CollectionIsKept ==
    [][CollExists /\ ~kb.deleted
         /\ (\A j \in Jobs : Active(j) =>
               job[j].calm /\ Fits(j) /\ \A d \in job[j].docs : job[j].settings[d] > 0)
         => coll' = coll]_indexVars

\* A document whose row says that it is being processed has a goroutine that will
\* write how it ends, whichever call fails on the way and whatever runs beside it,
\* unless the process was restarted meanwhile or that very last UPDATE failed.
Attended ==
    \A d \in Docs :
        row[d].status \in {"parsing", "splitting", "indexing"} =>
            row[d].orphan \/ \E j \in Jobs : job[j].pc \in Processing \cup {"failed"} /\ d \in job[j].docs
=============================================================================

--------------------------- MODULE ContextDocuments ---------------------------
(***************************************************************************)
(* The documents that support a project.  An upload writes the file and a  *)
(* row of the catalog; a background task reads it into chunks and an       *)
(* index.  Whoever ends an operation writes the manifest, from which the   *)
(* generation of scenarios takes its documents.  Only a row is saved under *)
(* a lock, and each by itself; a document's copy, the directory and the    *)
(* manifest are everybody's.                                               *)
(***************************************************************************)
EXTENDS FiniteSetsExt, Naturals

CONSTANTS
    Worker,         \* the threads of requests and of background tasks
    Document,       \* the documents that may be uploaded
    Csv,            \* those that are lists of cases; the others are presentations
    MaxChunks,      \* a bound on the chunks of a document
    MaxRestarts     \* a bound on the restarts of the process

VARIABLES
    memory,         \* the background tasks that have not begun
    disk,           \* the rows, the directories of the documents, and the manifest
    thread,         \* of each worker: its step, document and operation, its copy
                    \* of the row, and the list it makes a manifest of; fresh, no
                    \* other manifest was written since it took the list
    past            \* the bounds, and what a property has to remember:
                    \* deleted, the documents deleted
                    \* raced, those deleted while they were processed
                    \* stale, the manifest was written last from an older list

vars == <<memory, disk, thread, past>>

NoRow == [status |-> "none", chunks |-> 0]
Row(status, chunks) == [status |-> status, chunks |-> chunks]
NoFiles == [source |-> FALSE, index |-> 0, chunks |-> 0]
Searched == {"ready", "partial"}

Free == [op |-> "none", step |-> "idle", doc |-> CHOOSE d \in Document : TRUE, row |-> NoRow,
         list |-> [d \in Document |-> NoRow], fresh |-> TRUE, missing |-> FALSE]
At(w, step) == thread[w].step = step
Becomes(w, t) == thread' = [thread EXCEPT ![w] = t]
Goes(w, step) == Becomes(w, [thread[w] EXCEPT !.step = step])

Init ==
    /\ memory = [tasks |-> {}]
    /\ disk = [rows |-> [d \in Document |-> NoRow], files |-> [d \in Document |-> NoFiles],
               manifest |-> [d \in Document |-> NoRow]]
    /\ thread = [w \in Worker |-> Free]
    /\ past = [uploaded |-> {}, restarts |-> 0, deleted |-> {}, raced |-> {}, stale |-> FALSE]

\* ProjectContextRepository.save: the row takes the place of the document's row,
\* or is added, whether there was one or not.
Saves(w, row, step) ==
    /\ disk' = [disk EXCEPT !.rows[thread[w].doc] = row]
    /\ Becomes(w, [thread[w] EXCEPT !.row = row, !.step = step])

\* create_upload: first the file, then the row.
CreateUpload(w, d) ==
    /\ At(w, "idle") /\ d \notin past.uploaded
    /\ disk' = [disk EXCEPT !.files[d].source = TRUE]
    /\ past' = [past EXCEPT !.uploaded = @ \cup {d}]
    /\ Becomes(w, [Free EXCEPT !.op = "upload", !.step = "save", !.doc = d])
    /\ UNCHANGED memory
UploadSaves(w) ==
    /\ At(w, "save")
    /\ Saves(w, Row("queued", 0), "list")
    /\ UNCHANGED <<memory, past>>

\* _write_manifest: the rows are listed, and then written.
Lists(w) ==
    /\ At(w, "list")
    /\ Becomes(w, [thread[w] EXCEPT !.step = "manifest", !.list = disk.rows, !.fresh = TRUE])
    /\ UNCHANGED <<memory, disk, past>>
WritesManifest(w) ==
    /\ At(w, "manifest")
    /\ disk' = [disk EXCEPT !.manifest = thread[w].list]
    /\ past' = [past EXCEPT !.stale = ~thread[w].fresh]
    /\ thread' = [v \in Worker |-> IF v = w THEN Free ELSE [thread[v] EXCEPT !.fresh = FALSE]]
    /\ memory' = IF thread[w].op = "upload"
                 THEN [memory EXCEPT !.tasks = @ \cup {thread[w].doc}] ELSE memory

\* The task reads the row again, since the document may be gone.
Found(d) == disk.rows[d]

\* process: a document that is not found is left alone.
Process(w, d) ==
    /\ At(w, "idle") /\ d \in memory.tasks
    /\ memory' = [memory EXCEPT !.tasks = @ \ {d}]
    /\ Becomes(w, IF Found(d) = NoRow THEN Free
                  ELSE [Free EXCEPT !.op = "process", !.step = "extracting", !.doc = d,
                                    !.row = Found(d)])
    /\ UNCHANGED <<disk, past>>

Extracting(w) ==
    /\ At(w, "extracting")
    /\ Saves(w, Row("extracting", 0), "extract")
    /\ UNCHANGED <<memory, past>>

\* A source that is gone, or cannot be read: the document becomes one in error.
Fails(w) ==
    /\ thread[w].step \in {"extract", "index", "chunks"}
    /\ Goes(w, "error")
    /\ UNCHANGED <<memory, disk, past>>

\* The chunks of the document are in the copy; whether something is missing.
Extracts(w, n, missing) ==
    /\ At(w, "extract") /\ disk.files[thread[w].doc].source
    /\ disk' = [disk EXCEPT !.rows[thread[w].doc] = Row("embedding", 0)]
    /\ Becomes(w, [thread[w] EXCEPT !.row = Row("embedding", n), !.missing = missing,
                                    !.step = "index"])
    /\ UNCHANGED <<memory, past>>

\* _extract_csv: a row is a chunk, and nothing is missing.
ExtractsCsv(w, n) == thread[w].doc \in Csv /\ Extracts(w, n, FALSE)
\* _extract_presentation: slides and images; the model that reads images may be
\* missing.
ExtractsPresentation(w, n, missing) ==
    thread[w].doc \in Document \ Csv /\ Extracts(w, n, missing)

\* _embed_and_index, in the document's directory, if it is still there.
Indexes(w) ==
    LET t == thread[w] IN
    /\ At(w, "index") /\ disk.files[t.doc].source
    /\ disk' = [disk EXCEPT !.files[t.doc].index = t.row.chunks]
    /\ Goes(w, "chunks")
    /\ UNCHANGED <<memory, past>>

\* The row is saved as ready before the chunks are written.
MutantWritesChunks(w) ==
    /\ At(w, "chunks")
    /\ Saves(w, Row("ready", thread[w].row.chunks), "ready")
    /\ UNCHANGED <<memory, past>>
WritesChunks(w) ==
    LET t == thread[w] IN
    /\ At(w, "chunks") /\ disk.files[t.doc].source
    /\ disk' = [disk EXCEPT !.files[t.doc].chunks = t.row.chunks]
    /\ Goes(w, "ready")
    /\ UNCHANGED <<memory, past>>

Ready(w) ==
    /\ At(w, "ready")
    /\ Saves(w, Row(IF thread[w].missing THEN "partial" ELSE "ready", thread[w].row.chunks), "list")
    /\ UNCHANGED <<memory, past>>
Errors(w) ==
    /\ At(w, "error")
    /\ Saves(w, Row("error", 0), "list")
    /\ UNCHANGED <<memory, past>>

\* delete: the row, if it is still there; then the directory.
Delete(w, d) ==
    /\ At(w, "idle") /\ disk.rows[d] # NoRow
    /\ Becomes(w, [Free EXCEPT !.op = "delete", !.step = "delete", !.doc = d])
    /\ UNCHANGED <<memory, disk, past>>
Deletes(w) ==
    LET d == thread[w].doc
        processed == \E v \in Worker :
            /\ thread[v].op = "process" /\ thread[v].doc = d
            /\ thread[v].step \notin {"list", "manifest"} IN
    /\ At(w, "delete")
    /\ IF disk.rows[d] = NoRow THEN Becomes(w, Free) /\ UNCHANGED <<disk, past>>
       ELSE /\ disk' = [disk EXCEPT !.rows[d] = NoRow]
            /\ past' = [past EXCEPT !.deleted = @ \cup {d},
                                    !.raced = IF processed THEN @ \cup {d} ELSE @]
            /\ Goes(w, "rmtree")
    /\ UNCHANGED memory
RemovesFiles(w) ==
    /\ At(w, "rmtree")
    /\ disk' = [disk EXCEPT !.files[thread[w].doc] = NoFiles]
    /\ Goes(w, "list")
    /\ UNCHANGED <<memory, past>>

\* Background tasks are lost.
Restart ==
    /\ past.restarts < MaxRestarts
    /\ memory' = [tasks |-> {}]
    /\ thread' = [w \in Worker |-> Free]
    /\ past' = [past EXCEPT !.restarts = @ + 1,
                  !.stale = @ \/ \E w \in Worker : ~At(w, "idle")]
    /\ UNCHANGED disk

Next ==
    \/ Restart
    \/ \E w \in Worker :
         \/ \E d \in Document : CreateUpload(w, d) \/ Process(w, d) \/ Delete(w, d)
         \/ UploadSaves(w) \/ Lists(w) \/ WritesManifest(w)
         \/ Extracting(w) \/ Fails(w) \/ Indexes(w) \/ WritesChunks(w)
         \/ \E n \in 1..MaxChunks :
              ExtractsCsv(w, n) \/ \E missing \in BOOLEAN : ExtractsPresentation(w, n, missing)
         \/ Ready(w) \/ Errors(w) \/ Deletes(w) \/ RemovesFiles(w)

Spec == Init /\ [][Next]_vars

-----------------------------------------------------------------------------

\* A document that was not deleted is what the catalog and the manifest say of
\* it, also when a crash cuts its upload or its processing: it has its file, and
\* when it is to be searched, an index and all of the chunks that are counted.
\* When nobody works, the manifest says what the catalog says, unless it was
\* written from an older list, or an operation was cut.
ContextIsHonest ==
    /\ \A d \in Document \ past.deleted : \A row \in {disk.rows[d], disk.manifest[d]} :
         LET files == disk.files[d] IN
         /\ row # NoRow => files.source
         /\ row.status \in Searched =>
              row.chunks > 0 /\ files.index = row.chunks /\ files.chunks = row.chunks
    /\ (\A w \in Worker : At(w, "idle")) /\ ~past.stale => disk.manifest = disk.rows

\* A deleted document does not come back, unless it was being processed: the
\* task, which holds a copy of the document, saves it again.
DeletedStays == \A d \in past.deleted \ past.raced : disk.rows[d] = NoRow

=============================================================================

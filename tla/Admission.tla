------------------------------- MODULE Admission -------------------------------
(***************************************************************************)
(* What becomes of the files of one POST /documents: the loop of           *)
(* upload_documents (src/api/routers/documents.py) and the first line of   *)
(* CorpusIngestor.ingest (src/ingest/loader.py).                           *)
(*                                                                         *)
(* A file is [stem, suffix, content]: its name up to the last dot, the     *)
(* lower-cased rest, and "text", "blank" (nothing to chunk), "large" or    *)
(* "binary" (not UTF-8).  A document is named after the stem alone.        *)
(***************************************************************************)
EXTENDS Integers, Sequences, FiniteSets

TextSuffixes == {".txt", ".md"}

Indexable(f) == f.suffix \in TextSuffixes /\ f.content \notin {"large", "binary"}

(* The positions of the files the response lists under "documents". *)
Accepted(files) == {i \in DOMAIN files : Indexable(files[i])}

(* Mutant: of two files with one document id the first is kept. *)
KeptFirst(files) ==
    {i \in Accepted(files) :
        \A j \in Accepted(files) : files[j].stem = files[i].stem => i <= j}

(* The positions that reach the chunker: a dict by doc_id keeps the last.  *)
Kept(files) ==
    {i \in Accepted(files) :
        \A j \in Accepted(files) : files[j].stem = files[i].stem => j <= i}

(* A dict keeps the place of a key's first insertion. *)
Place(files, i) ==
    CHOOSE j \in Accepted(files) :
        /\ files[j].stem = files[i].stem
        /\ \A k \in Accepted(files) : files[k].stem = files[i].stem => j <= k

(* The documents written when ingestion stops after place n: each batch    *)
(* goes to Qdrant before the next one is embedded.                         *)
WrittenUpTo(files, n) == {i \in Kept(files) : Place(files, i) <= n}

(* A document without text has no chunk, so it replaces nothing. *)
HasChunks(f) == f.content = "text"

=============================================================================

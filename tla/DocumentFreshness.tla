------------------------- MODULE DocumentFreshness -------------------------
(***************************************************************************)
(* HTTP freshness of the documents the web connector indexes.  A crawl asks *)
(* for the file's validators (HEAD), and hands an empty placeholder to the  *)
(* indexing pipeline when the database says that exactly this file is       *)
(* indexed; otherwise it fetches the file and stores the validators with    *)
(* it.  Indexing skips placeholders.                                        *)
(*                                                                          *)
(* A version of the file stands for its content, its Last-Modified and its  *)
(* Content-Length.  The database row, the pipeline's own gates and its      *)
(* writes are upstream's, modelled by how the patch uses them.              *)
(***************************************************************************)
EXTENDS Naturals, FiniteSets

CONSTANTS
    Crawls,         \* index attempts that may run side by side
    MaxVersion,     \* versions of the file
    MaxFaults       \* failed, refused and abandoned crawl steps

VARIABLES
    active,     \* the attempts of this behavior
    version,    \* the file on the server
    db,         \* the document's row
    pc,         \* step of each attempt
    forced,     \* targeted reindex: ignore_timestamp_gate
    head,       \* validators of the HEAD answer, 0 when there are none
    doc,        \* the scraped document
    faults

vars == <<active, version, db, pc, forced, head, doc, faults>>

Hash(content, meta) == <<content, meta>>
NoRow == [content |-> 0, meta |-> 0, updated |-> 0, hash |-> Hash(0, 0), present |-> FALSE]
Unpatched == [NoRow EXCEPT !.content = 1, !.hash = Hash(1, 0), !.present = TRUE]
Scraped(content) == [content |-> content, meta |-> 0, updated |-> 0, sentinel |-> "no"]
Sentinel(kind, validators) ==
    [content |-> 0, meta |-> validators, updated |-> validators, sentinel |-> kind]

(* Every validator of the row is the given one. *)
DocMatches(validators) == /\ db.present /\ db.updated # 0
                          /\ db.updated = validators /\ db.meta = validators

Init ==
    /\ active \in {a \in SUBSET Crawls : a # {}}
    /\ version = 1
    /\ db \in {NoRow, Unpatched}
    /\ pc = [c \in Crawls |-> "idle"]
    /\ forced = [c \in Crawls |-> FALSE]
    /\ head = [c \in Crawls |-> 0]
    /\ doc = [c \in Crawls |-> Scraped(0)]
    /\ faults = 0

-----------------------------------------------------------------------------
Goto(c, step) == pc' = [pc EXCEPT ![c] = step]

Start(c) ==
    /\ pc[c] = "idle"
    /\ Goto(c, "head")
    /\ \E f \in BOOLEAN : forced' = [forced EXCEPT ![c] = f]
    /\ head' = [head EXCEPT ![c] = 0]
    /\ doc' = [doc EXCEPT ![c] = Scraped(0)]
    /\ UNCHANGED <<active, version, db, faults>>

HeadAnswer(c) ==
    /\ pc[c] = "head"
    /\ head' = [head EXCEPT ![c] = version]
    /\ Goto(c, "lookup")
    /\ UNCHANGED <<active, version, db, forced, doc, faults>>

(* HEAD fails, or its answer carries no usable validators: normal scrape.   *)
HeadUseless(c) ==
    /\ pc[c] = "head" /\ faults < MaxFaults
    /\ faults' = faults + 1
    /\ Goto(c, "get")
    /\ UNCHANGED <<active, version, db, forced, head, doc>>

(* A terminal status: the file is there but may not be read. *)
HeadRefused(c) ==
    /\ pc[c] = "head" /\ faults < MaxFaults
    /\ faults' = faults + 1
    /\ doc' = [doc EXCEPT ![c] = Sentinel("unreadable", version)]
    /\ Goto(c, "filter")
    /\ UNCHANGED <<active, version, db, forced, head>>

(* A lookup that fails is logged and the file is scraped. *)
Lookup(c) ==
    /\ pc[c] = "lookup"
    /\ \/ /\ DocMatches(head[c])
          /\ doc' = [doc EXCEPT ![c] = Sentinel("unchanged", head[c])]
          /\ Goto(c, "filter")
          /\ UNCHANGED faults
       \/ /\ ~DocMatches(head[c])
          /\ Goto(c, "get")
          /\ UNCHANGED <<doc, faults>>
       \/ /\ faults < MaxFaults /\ faults' = faults + 1
          /\ Goto(c, "get")
          /\ UNCHANGED doc
    /\ UNCHANGED <<active, version, db, forced, head>>

Get(c) ==
    /\ pc[c] = "get"
    /\ doc' = [doc EXCEPT ![c] = Scraped(version)]
    /\ Goto(c, IF head[c] = 0 THEN "filter" ELSE "compare")
    /\ UNCHANGED <<active, version, db, forced, head, faults>>

(* Validators taken when the file arrives, by a second HEAD. *)
StampLate(c) == [doc[c] EXCEPT !.meta = version, !.updated = version]
(* The validators of the HEAD that came before the file. *)
Stamp(c) == [doc[c] EXCEPT !.meta = head[c], !.updated = head[c]]

SameContent(c) == db.present /\ db.hash = Hash(doc[c].content, 0)

Compare(c) ==
    /\ pc[c] = "compare"
    /\ \/ /\ SameContent(c)
          /\ Goto(c, "seed")
          /\ UNCHANGED <<doc, faults>>
       \/ /\ ~SameContent(c)
          /\ doc' = [doc EXCEPT ![c] = Stamp(c)]
          /\ Goto(c, "filter")
          /\ UNCHANGED faults
       \/ /\ faults < MaxFaults /\ faults' = faults + 1
          /\ doc' = [doc EXCEPT ![c] = Stamp(c)]
          /\ Goto(c, "filter")
    /\ UNCHANGED <<active, version, db, forced, head>>

(* A transaction of its own: the row is no longer the one compared. *)
Seed(c) ==
    /\ pc[c] = "seed"
    /\ db' = [db EXCEPT !.updated = head[c], !.meta = head[c]]
    /\ doc' = [doc EXCEPT ![c].updated = head[c]]
    /\ Goto(c, "filter")
    /\ UNCHANGED <<active, version, forced, head, faults>>

(* get_docs_to_update: the placeholders first, then upstream's gates. *)
Unchanged(c) == doc[c].sentinel = "unchanged"
Confirmed(c) == doc[c].sentinel = "unreadable" \/ (Unchanged(c) /\ DocMatches(doc[c].updated))
Contradicted(c) == Unchanged(c) /\ ~DocMatches(doc[c].updated)

TimeGate(c) == /\ ~forced[c] /\ db.present
               /\ db.updated # 0 /\ doc[c].updated # 0 /\ doc[c].updated <= db.updated
HashGate(c) == ~forced[c] /\ db.present /\ db.hash = Hash(doc[c].content, doc[c].meta)

(* Placeholders go through upstream's gates like any document. *)
SkippedAsUsual(c) == TimeGate(c) \/ HashGate(c)
Skipped(c) == \/ Confirmed(c)
              \/ doc[c].sentinel = "no" /\ (TimeGate(c) \/ HashGate(c))

Filter(c) ==
    /\ pc[c] = "filter"
    /\ \/ Skipped(c) /\ Goto(c, "idle")
       \/ Contradicted(c) /\ ~Skipped(c) /\ Goto(c, "idle")
       \/ ~Skipped(c) /\ ~Contradicted(c) /\ Goto(c, "index")
    /\ UNCHANGED <<active, version, db, forced, head, doc, faults>>

Index(c) ==
    /\ pc[c] = "index"
    /\ db' = [content |-> doc[c].content, meta |-> doc[c].meta, present |-> TRUE,
              updated |-> IF doc[c].updated # 0 THEN doc[c].updated ELSE db.updated,
              hash |-> Hash(doc[c].content, doc[c].meta)]
    /\ Goto(c, "idle")
    /\ UNCHANGED <<active, version, forced, head, doc, faults>>

(* The attempt fails or its worker dies. *)
Abandon(c) ==
    /\ pc[c] # "idle" /\ faults < MaxFaults
    /\ faults' = faults + 1
    /\ Goto(c, "idle")
    /\ UNCHANGED <<active, version, db, forced, head, doc>>

Edit ==
    /\ version < MaxVersion
    /\ version' = version + 1
    /\ UNCHANGED <<active, db, pc, forced, head, doc, faults>>

Step(c) == Start(c) \/ HeadAnswer(c) \/ Lookup(c) \/ Get(c) \/ Compare(c) \/ Seed(c)
           \/ Filter(c) \/ Index(c)

Next == \/ \E c \in active : Step(c) \/ HeadUseless(c) \/ HeadRefused(c) \/ Abandon(c)
        \/ Edit

(* Crawls are scheduled again and again, and each takes its steps. *)
FairSpec == Init /\ [][Next]_vars /\ \A c \in Crawls : WF_vars(c \in active /\ Step(c))

-----------------------------------------------------------------------------
TypeOK ==
    /\ version \in 1..MaxVersion /\ faults <= MaxFaults
    /\ pc \in [Crawls -> {"idle", "head", "lookup", "get", "compare", "seed", "filter", "index"}]
    /\ db.content \in 0..MaxVersion /\ db.updated \in 0..MaxVersion

(* The pipeline never indexes the empty placeholder, also when a targeted  *)
(* reindex ignores the timestamps and another attempt has changed the row  *)
(* since the placeholder was made.                                         *)
PlaceholderNeverIndexed == TypeOK /\ (db.present => db.content # 0)

(* A row whose validators are those of the file holds that file: otherwise *)
(* every later crawl, forced or not, skips it and the content stays stale. *)
SkipIsSafe == DocMatches(version) => db.content = version

Alone == Cardinality(active) = 1

(* With one attempt at a time the validators never run ahead of the        *)
(* content, whatever edits, failures and fallbacks come between its steps. *)
AloneSkipIsSafe == Alone => SkipIsSafe

(* What the row says of the file can be trusted to skip it                 *)
(* (_patched_do_scrape, _patched_get_docs_to_update).                      *)
FreshnessSound == PlaceholderNeverIndexed /\ AloneSkipIsSafe

(* An edited file is indexed in the end by crawls that come one by one.     *)
EditIsIndexed == Alone => []<>(db.content = version)
-----------------------------------------------------------------------------
(* The inductive invariant behind FreshnessSound.  What is known of the    *)
(* file is never ahead of it, in the row and in every attempt,             *)
NeverAhead ==
    /\ active \subseteq Crawls /\ version \in 1..MaxVersion /\ faults \in 0..MaxFaults
    /\ pc \in [Crawls -> {"idle", "head", "lookup", "get", "compare", "seed", "filter",
                          "index"}]
    /\ head \in [Crawls -> 0..version]
    /\ doc \in [Crawls -> [content : 0..version, meta : 0..version, updated : 0..version,
                           sentinel : {"no", "unchanged", "unreadable"}]]
    /\ db \in [content : 0..version, meta : 0..version, updated : 0..version,
               hash : (0..version) \X (0..version), present : BOOLEAN]

(* a document with validators holds that version of the file or a later    *)
(* one, since the HEAD comes before the file,                              *)
ValidatorsFirst ==
    /\ \A c \in Crawls : pc[c] \in {"compare", "seed"} =>
          /\ doc[c] = Scraped(doc[c].content)
          /\ head[c] # 0 /\ head[c] <= doc[c].content
    /\ \A c \in Crawls : pc[c] \in {"filter", "index"} /\ doc[c].sentinel = "no" =>
          /\ doc[c].content # 0
          /\ doc[c].meta # 0 =>
                doc[c].updated = doc[c].meta /\ doc[c].updated <= doc[c].content
    /\ \A c \in Crawls : pc[c] = "index" => doc[c].sentinel = "no"

(* the hash of a row is that of its content,                               *)
RowHashed == db.present => db.content # 0 /\ db.hash[1] = db.content

(* and an attempt that is alone seeds the row it compared, so that a row   *)
(* with validators holds that version of the file or a later one too.      *)
RowKept ==
    /\ \A c \in active : pc[c] = "seed" => SameContent(c)
    /\ db.present /\ db.meta # 0 => db.updated <= db.content

SeedsTheCompared == Alone => RowKept

FreshnessInv == NeverAhead /\ ValidatorsFirst /\ RowHashed /\ SeedsTheCompared
=============================================================================

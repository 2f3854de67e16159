------------------------------- MODULE PageCache -------------------------------
(***************************************************************************)
(* The reader's page cache: files under cache/pages and cache/prefetch, the *)
(* cache_entries ledger that accounts for them and the memory tier in front *)
(* (reader/cache.rs, reader/memory.rs, store/cache.rs, cache/mod.rs), with  *)
(* the calls that use it at the same time (ffi/application.rs): displaying  *)
(* a page, a prefetch pass, the sweep a device report runs, the clean-ups.  *)
(*                                                                         *)
(* No lock spans two calls.  Each has a connection of its own that commits  *)
(* statement by statement, so a file operation, the row about it, what a    *)
(* trim measures and every row it drops are steps of their own; a prefetch  *)
(* pass writes the ledger in one deferred transaction over a snapshot.  A   *)
(* page costs one unit of either budget, or is larger than both; which of   *)
(* several rows of a tier is the oldest is left open.                       *)
(***************************************************************************)
EXTENDS Naturals, FiniteSets, Sequences, Sift

CONSTANTS
    Page,           \* the pages of the open book
    Large,          \* pages larger than the pool, and than the memory tier
    Format,         \* containers the server sends, see Trailered
    Viewer,         \* display calls that may be under way together
    Answers,        \* what a page response may hold: "whole", "short", "error"
    Budget,         \* the pool's ceiling in pages
    MemoryBudget,   \* the memory tier's ceiling in pages
    InFlight,       \* pages one prefetch pass may pull
    Upkeep,         \* bound: the clean-ups that may run, of "sweep" and "clear"
    Mishaps,        \* what may go wrong: "crash", "error"
    MaxMishaps      \* bound: how often

ASSUME PageCacheAssumption ==
    /\ IsFiniteSet(Page) /\ Page # {} /\ Large \subseteq Page
    /\ Format # {} /\ Format \subseteq {"png", "webp"}
    /\ Answers \subseteq {"whole", "short", "error"}
    /\ Budget \in Nat \ {0}
    /\ MemoryBudget \in Nat
    /\ InFlight \in Nat \ {0}
    /\ Upkeep \subseteq {"sweep", "clear"}
    /\ Mishaps \subseteq {"crash", "error"}
    /\ MaxMishaps \in Nat

VARIABLES
    disk,       \* what each file name holds, "none" when there is no file
    parts,      \* staging files
    rows,       \* cache_entries, as committed
    memory,     \* the memory tier, least recently used first
    viewer,     \* the display calls
    pass,       \* the prefetch pass and its transaction
    sweep,      \* the reconciliation under way
    clearing,   \* files whose rows clear_tier has deleted, still to be removed
    owed,       \* history: a trim ended before its time, none has measured since
    mishaps

cvars == <<disk, parts, rows, memory, viewer, pass, sweep, clearing, owed, mishaps>>

-------------------------------------------------------------------------------
(* Types                                                                     *)

File == [dir : {"pages", "prefetch"}, page : Page, format : Format]
Content == {"whole", "short"}

\* A row names its file, whose directory is its kind, and the size it measured.
Row == [file : File, size : Content]

Bytes == [page : Page, format : Format, content : Content]

NoBytes == [page |-> "none", format |-> "none", content |-> "none"]

Calling ==
    [pc : {"idle", "file", "relocate", "fetch", "stage", "land", "record", "measure",
           "evict", "unlink"},
     bytes : [page : Page \cup {"none"}, format : Format \cup {"none"},
              content : Content \cup {"none"}],
     resident : BOOLEAN, found : SUBSET Row, left : SUBSET Row, victims : SUBSET File]

NoCall ==
    [pc |-> "idle", bytes |-> NoBytes, resident |-> FALSE, found |-> {},
     left |-> {}, victims |-> {}]

\* tx: "none", "read" once the snapshot is taken, "write" once a statement wrote;
\* torn: the last trim of its view ended before its time.
Passing ==
    [pc : {"idle", "next", "land", "record", "evict", "unlink"}, todo : SUBSET Bytes,
     bytes : Bytes \cup {NoBytes}, tx : {"none", "read", "write"}, stale : BOOLEAN,
     view : SUBSET Row, torn : BOOLEAN, victims : SUBSET File]

NoPass ==
    [pc |-> "idle", todo |-> {}, bytes |-> NoBytes, tx |-> "none",
     stale |-> FALSE, view |-> {}, torn |-> FALSE, victims |-> {}]

Sweeping ==
    [pc : {"idle", "rows", "files", "measure", "evict", "unlink", "done"},
     live : SUBSET File, left : SUBSET Row, victims : SUBSET File, alone : BOOLEAN]

NoSweep ==
    [pc |-> "idle", live |-> {}, left |-> {}, victims |-> {}, alone |-> FALSE]

CacheTypeOK ==
    /\ disk \in [File -> Content \cup {"none"}]
    /\ parts \subseteq File
    /\ rows \subseteq Row
    /\ \A r, s \in rows : r.file.page = s.file.page => r = s
    /\ memory \in Seq(Bytes)
    /\ \A i, j \in DOMAIN memory : memory[i].page = memory[j].page => i = j
    /\ viewer \in [Viewer -> Calling]
    /\ pass \in Passing
    /\ sweep \in Sweeping
    /\ clearing \subseteq File
    /\ owed \in BOOLEAN
    /\ mishaps \in 0 .. MaxMishaps

CacheInit ==
    /\ disk = [f \in File |-> "none"]
    /\ parts = {}
    /\ rows = {}
    /\ memory = <<>>
    /\ viewer = [v \in Viewer |-> NoCall]
    /\ pass = NoPass
    /\ sweep = NoSweep
    /\ clearing = {}
    /\ owed = FALSE
    /\ mishaps = 0

-------------------------------------------------------------------------------
(* Integrity                                                                 *)

\* FAULT: a trailer is looked for in no container.
Unchecked(format) == FALSE

\* Containers whose end the checks look for.  A WebP names its length at the
\* front, and the checks refuse only one that is longer than that.
Trailered(format) == format # "webp"

\* inspect, without the size the manifest declared.
Refused(bytes) == bytes.content = "short" /\ Trailered(bytes.format)

\* FAULT: a hit is not checked.
Trusting(row) == FALSE

\* quick_check_file on a hit: shorter than the row says, or visibly cut.
Broken(row) ==
    disk[row.file] = "short" /\ (row.size = "whole" \/ Trailered(row.file.format))

-------------------------------------------------------------------------------
(* Ledger and memory                                                         *)

RowsOfPage(view, p) == {r \in view : r.file.page = p}
Exists(f) == disk[f] # "none"
FilesOf(view) == {r.file : r \in view}

\* record: one row per key, the later one.
Recorded(view, row) == (view \ RowsOfPage(view, row.file.page)) \cup {row}

Guess(row) == row.file.dir = "prefetch"

\* What the ledger adds up to fits the pool; a page has one row.
Fits(view) ==
    LET pages == {r.file.page : r \in view}
    IN  Cardinality(pages) <= Budget /\ pages \cap Large = {}

\* enforce_budget_except: nothing while the ledger's total fits; otherwise rows
\* without a file are pruned before the worst go.
Measured(view) == IF Fits(view) THEN view ELSE {r \in view : Exists(r.file)}

\* FAULT: age alone decides, whatever the tier.
OldestGo(left, keep) ==
    IF Fits(left) THEN {} ELSE {r \in left : r.file.page \notin keep}

\* FAULT: the trim stops one victim early.
StopsEarly(left, keep) ==
    IF Cardinality(left) <= Budget + 1 THEN {} ELSE {r \in left : r.file.page \notin keep}

\* evict_to_budget_except, the next to go: guessed pages before displayed ones,
\* never the kept key, until what is left fits.
Worst(left, keep) ==
    LET evictable == {r \in left : r.file.page \notin keep}
    IN  IF Fits(left) THEN {}
        ELSE {r \in evictable : Guess(r) \/ \A s \in evictable : ~Guess(s)}

\* FAULT: the page just written may be its own victim.
NothingKept(p) == {}

Kept(p) == {p}

\* remove: what the memory tier holds beside those pages.
Without(tier, pages) == Sift(tier, {bytes \in Bytes : bytes.page \notin pages})

\* FAULT: room is made for one entry too few.
InsertedLate(tier, bytes) ==
    LET others == Without(tier, {bytes.page})
    IN  Append(IF Len(others) > MemoryBudget THEN Tail(others) ELSE others, bytes)

\* insert: refused when it cannot fit at all, replaced rather than added, room
\* made from the least recently used end before it lands.
Inserted(tier, bytes) ==
    IF MemoryBudget = 0 \/ bytes.page \in Large THEN tier
    ELSE LET others == Without(tier, {bytes.page})
         IN  Append(IF Len(others) >= MemoryBudget THEN Tail(others) ELSE others, bytes)

Resident(p) == {memory[i] : i \in {j \in DOMAIN memory : memory[j].page = p}}

\* get: a hit becomes the most recently used.
Touched(p) ==
    LET held == Resident(p)
    IN  IF held = {} THEN memory ELSE Append(Without(memory, {p}), CHOOSE b \in held : TRUE)

\* A write of another connection waits while the pass holds the write lock, and
\* leaves the snapshot of a pass that has only read so far behind.
Wrote == pass.tx # "write" /\ pass' = [pass EXCEPT !.stale = @ \/ pass.tx = "read"]

\* What a trim measures, in one step with the pruning: the count starts there.
Measures ==
    /\ rows' = Measured(rows)
    /\ IF Measured(rows) = rows THEN UNCHANGED pass ELSE Wrote
    /\ owed' = FALSE

\* remove: by key, so whatever row the page has by then.
Drops(row) ==
    LET gone == RowsOfPage(rows, row.file.page)
    IN  /\ rows' = rows \ gone
        /\ IF gone = {} THEN UNCHANGED pass ELSE Wrote

Emptied(files) == [f \in File |-> IF f \in files THEN "none" ELSE disk[f]]

\* Anything but the sweep's own steps.
NotAlone == sweep' = IF sweep.pc = "done" THEN NoSweep ELSE [sweep EXCEPT !.alone = FALSE]

FileOf(dir, bytes) == [dir |-> dir, page |-> bytes.page, format |-> bytes.format]

-------------------------------------------------------------------------------
(* Displaying a page: reader_page_path, then reader_page                     *)

Calls(v, call) == viewer' = [viewer EXCEPT ![v] = call]
Advance(v, pc) == Calls(v, [viewer[v] EXCEPT !.pc = pc, !.found = {}])

\* lookup: the ledger row ...
Ask(v, p) ==
    /\ viewer[v].pc = "idle"
    /\ Calls(v, [NoCall EXCEPT !.pc = "file", !.bytes.page = p,
                               !.found = RowsOfPage(rows, p)])
    /\ NotAlone
    /\ UNCHANGED <<disk, parts, rows, memory, pass, clearing, owed, mishaps>>

\* ... and what the file and the memory tier say of it by then.  Without a file,
\* resident bytes are landed again; without those the row goes and the caller
\* fetches.  A broken file goes with its row and its bytes.
LookFile(v) ==
    /\ viewer[v].pc = "file"
    /\ LET p == viewer[v].bytes.page
           held == Resident(p)
           found == viewer[v].found
           row == CHOOSE r \in found : TRUE
           forget == rows \ RowsOfPage(rows, p)
           absent == \A r \in found : ~Exists(r.file)
       IN  \/ /\ absent /\ held # {}
              /\ memory' = Touched(p)
              /\ Calls(v, [NoCall EXCEPT !.pc = "stage", !.resident = TRUE,
                                         !.bytes = CHOOSE b \in held : TRUE])
              /\ UNCHANGED <<disk, rows, pass>>
           \/ /\ found = {} /\ held = {}
              /\ Advance(v, "fetch")
              /\ UNCHANGED <<disk, rows, memory, pass>>
           \/ /\ found # {} /\ absent /\ held = {}
              /\ Wrote /\ rows' = forget
              /\ Advance(v, "fetch")
              /\ UNCHANGED <<disk, memory>>
           \/ /\ ~absent /\ Broken(row)
              /\ Wrote /\ rows' = forget
              /\ disk' = Emptied({row.file})
              /\ memory' = Without(memory, {p})
              /\ Advance(v, "fetch")
           \/ /\ ~absent /\ ~Broken(row) /\ Guess(row)
              /\ disk' = [Emptied({row.file}) EXCEPT
                             ![[row.file EXCEPT !.dir = "pages"]] = disk[row.file]]
              /\ Calls(v, [viewer[v] EXCEPT !.pc = "relocate"])
              /\ UNCHANGED <<rows, memory, pass>>
           \/ /\ ~absent /\ ~Broken(row) /\ ~Guess(row)
              /\ Wrote
              /\ Calls(v, NoCall)
              /\ UNCHANGED <<disk, rows, memory>>
    /\ NotAlone
    /\ UNCHANGED <<parts, clearing, owed, mishaps>>

\* promote's second half: the ledger follows the rename, or finds the row gone.
Relocate(v) ==
    /\ viewer[v].pc = "relocate"
    /\ LET p == viewer[v].bytes.page
           now == RowsOfPage(rows, p)
           old == CHOOSE r \in viewer[v].found : TRUE
           size == (CHOOSE r \in now : TRUE).size
       IN  IF now = {} THEN pass.tx # "write" /\ UNCHANGED <<rows, memory, pass>>
           ELSE /\ Wrote
                /\ rows' = Recorded(rows, [file |-> [old.file EXCEPT !.dir = "pages"],
                                           size |-> size])
                /\ memory' = Without(memory, {p})
    /\ Calls(v, NoCall)
    /\ NotAlone
    /\ UNCHANGED <<disk, parts, clearing, owed, mishaps>>

\* The network: an error ends the call.
Fetch(v) ==
    /\ viewer[v].pc = "fetch"
    /\ \E answer \in Answers, format \in Format :
          IF answer = "error" THEN Calls(v, NoCall)
          ELSE Calls(v, [viewer[v] EXCEPT !.pc = "stage", !.bytes.format = format,
                                          !.bytes.content = answer])
    /\ NotAlone
    /\ UNCHANGED <<disk, parts, rows, memory, pass, clearing, owed, mishaps>>

\* store_tier: refused bytes are not written; an earlier file of another
\* container goes; then the staging file.
Stage(v) ==
    /\ viewer[v].pc = "stage"
    /\ LET bytes == viewer[v].bytes
           previous == {r \in RowsOfPage(rows, bytes.page) : r.file.format # bytes.format}
       IN  IF Refused(bytes) THEN Calls(v, NoCall) /\ UNCHANGED <<disk, parts, memory>>
           ELSE /\ disk' = Emptied(FilesOf(previous))
                /\ memory' = IF previous = {} THEN memory ELSE Without(memory, {bytes.page})
                /\ parts' = parts \cup {FileOf("pages", bytes)}
                /\ Advance(v, "land")
    /\ NotAlone
    /\ UNCHANGED <<rows, pass, clearing, owed, mishaps>>

\* The rename, which fails when somebody removed the staging file.
Land(v) ==
    /\ viewer[v].pc = "land"
    /\ LET bytes == viewer[v].bytes
           file == FileOf("pages", bytes)
       IN  IF file \in parts
             THEN /\ disk' = [disk EXCEPT ![file] = bytes.content]
                  /\ parts' = parts \ {file}
                  /\ Advance(v, "record")
             ELSE Calls(v, NoCall) /\ UNCHANGED <<disk, parts>>
    /\ NotAlone
    /\ UNCHANGED <<rows, memory, pass, clearing, owed, mishaps>>

\* The row, measured from the file: a statement that commits by itself.
Record(v) ==
    /\ viewer[v].pc = "record"
    /\ LET file == FileOf("pages", viewer[v].bytes)
       IN  IF ~Exists(file) THEN Calls(v, NoCall) /\ UNCHANGED <<rows, pass>>
           ELSE /\ Wrote
                /\ rows' = Recorded(rows, [file |-> file, size |-> disk[file]])
                /\ Advance(v, "measure")
    /\ NotAlone
    /\ UNCHANGED <<disk, parts, memory, clearing, owed, mishaps>>

\* The trim that recording triggers: the total and the order ...
Measure(v) ==
    /\ viewer[v].pc = "measure"
    /\ Measures
    /\ Calls(v, [viewer[v] EXCEPT !.pc = "evict", !.left = Measured(rows)])
    /\ NotAlone
    /\ UNCHANGED <<disk, parts, memory, clearing, mishaps>>

\* ... and then row after row, each a statement that commits by itself.
Evict(v) ==
    /\ viewer[v].pc = "evict"
    /\ LET call == viewer[v]
           worst == Worst(call.left, Kept(call.bytes.page))
       IN  \/ /\ worst = {}
              /\ Calls(v, [call EXCEPT !.pc = "unlink", !.left = {}])
              /\ UNCHANGED <<rows, pass>>
           \/ \E row \in worst :
                 /\ Drops(row)
                 /\ Calls(v, [call EXCEPT !.left = @ \ {row},
                                          !.victims = @ \cup {row.file}])
    /\ NotAlone
    /\ UNCHANGED <<disk, parts, memory, clearing, owed, mishaps>>

\* The victims' files, and the resident copy that was landed again.
Unlink(v) ==
    /\ viewer[v].pc = "unlink"
    /\ disk' = Emptied(viewer[v].victims)
    /\ memory' = IF viewer[v].resident THEN Without(memory, {viewer[v].bytes.page})
                 ELSE memory
    /\ Calls(v, NoCall)
    /\ NotAlone
    /\ UNCHANGED <<parts, rows, pass, clearing, owed, mishaps>>

\* A statement or a file operation fails: the call ends with an error, and what it
\* had done stays done.
Fail(v) ==
    /\ "error" \in Mishaps /\ mishaps < MaxMishaps
    /\ viewer[v].pc # "idle"
    /\ mishaps' = mishaps + 1
    /\ owed' = (owed \/ viewer[v].pc \in {"measure", "evict"})
    /\ Calls(v, NoCall)
    /\ NotAlone
    /\ UNCHANGED <<disk, parts, rows, memory, pass, clearing>>

-------------------------------------------------------------------------------
(* A prefetch pass: reader_prefetch                                          *)

\* Pages the ledger does not know are fetched, the whole window before anything
\* is stored, up to the first failure.  Only whole ones count: the manifest
\* declares their size and the store refuses a short one without a trace.
PassFetch ==
    /\ pass.pc = "idle"
    /\ \E todo \in SUBSET [page : Page, format : Format, content : {"whole"}] :
          /\ todo # {}
          /\ Cardinality(todo) <= InFlight
          /\ \A b, c \in todo : b.page = c.page => b = c
          /\ \A b \in todo : RowsOfPage(rows, b.page) = {}
          /\ pass' = [NoPass EXCEPT !.pc = "next", !.todo = todo]
    /\ NotAlone
    /\ UNCHANGED <<disk, parts, rows, memory, viewer, clearing, owed, mishaps>>

\* One page: is_cached opens the transaction's snapshot; a page found there by
\* now is skipped; otherwise its staging file is written.
PassStage ==
    /\ pass.pc = "next"
    /\ \E bytes \in pass.todo :
          LET view == IF pass.tx = "none" THEN rows ELSE pass.view
              skip == RowsOfPage(view, bytes.page) # {}
          IN  /\ pass' = [pass EXCEPT !.todo = @ \ {bytes},
                             !.bytes = IF skip THEN NoBytes ELSE bytes,
                             !.tx = IF @ = "none" THEN "read" ELSE @,
                             !.view = view,
                             !.pc = IF skip THEN "next" ELSE "land"]
              /\ parts' = IF skip THEN parts ELSE parts \cup {FileOf("prefetch", bytes)}
    /\ NotAlone
    /\ UNCHANGED <<disk, rows, memory, viewer, clearing, owed, mishaps>>

PassLand ==
    /\ pass.pc = "land"
    /\ LET file == FileOf("prefetch", pass.bytes)
       IN  IF file \in parts
             THEN /\ disk' = [disk EXCEPT ![file] = pass.bytes.content]
                  /\ parts' = parts \ {file}
                  /\ pass' = [pass EXCEPT !.pc = "record"]
             ELSE /\ pass' = [pass EXCEPT !.pc = "next", !.bytes = NoBytes]
                  /\ UNCHANGED <<disk, parts>>
    /\ NotAlone
    /\ UNCHANGED <<rows, memory, viewer, clearing, owed, mishaps>>

\* The first write turns the snapshot into a write transaction.  When somebody
\* committed since the snapshot SQLite refuses at once, without waiting: the page
\* is logged and dropped, its file stays.
PassRecord ==
    /\ pass.pc = "record"
    /\ LET file == FileOf("prefetch", pass.bytes)
       IN  IF ~Exists(file) \/ (pass.tx = "read" /\ pass.stale)
             THEN pass' = [pass EXCEPT !.pc = "next", !.bytes = NoBytes]
             ELSE LET more == Recorded(pass.view, [file |-> file, size |-> disk[file]])
                  IN  pass' = [pass EXCEPT !.pc = "evict", !.tx = "write", !.torn = FALSE,
                                           !.view = Measured(more)]
    /\ NotAlone
    /\ UNCHANGED <<disk, parts, rows, memory, viewer, clearing, owed, mishaps>>

PassEvict ==
    /\ pass.pc = "evict"
    /\ LET worst == Worst(pass.view, Kept(pass.bytes.page))
       IN  \/ worst = {} /\ pass' = [pass EXCEPT !.pc = "unlink"]
           \/ \E row \in worst :
                 pass' = [pass EXCEPT !.view = @ \ {row}, !.victims = @ \cup {row.file}]
    /\ NotAlone
    /\ UNCHANGED <<disk, parts, rows, memory, viewer, clearing, owed, mishaps>>

\* The victims' files go before the transaction that dropped their rows commits.
PassUnlink ==
    /\ pass.pc = "unlink"
    /\ disk' = Emptied(pass.victims)
    /\ memory' = Inserted(memory, pass.bytes)
    /\ pass' = [pass EXCEPT !.pc = "next", !.bytes = NoBytes, !.victims = {}]
    /\ NotAlone
    /\ UNCHANGED <<parts, rows, viewer, clearing, owed, mishaps>>

\* FAULT: the transaction is never ended.
EndedOpen(tx) == [NoPass EXCEPT !.tx = tx]

Ended(tx) == NoPass

PassCommit ==
    /\ pass.pc = "next" /\ pass.todo = {}
    /\ rows' = IF pass.tx = "write" THEN pass.view ELSE rows
    /\ owed' = IF pass.tx = "write" THEN pass.torn ELSE owed
    /\ pass' = Ended(pass.tx)
    /\ NotAlone
    /\ UNCHANGED <<disk, parts, memory, viewer, clearing, mishaps>>

\* An error over one page is logged and the pass goes on with the next; an error of
\* the commit ends it with nothing written.
PassFail ==
    /\ "error" \in Mishaps /\ mishaps < MaxMishaps
    /\ mishaps' = mishaps + 1
    /\ \/ /\ pass.pc \in {"land", "record", "evict", "unlink"}
          /\ pass' = [pass EXCEPT !.pc = "next", !.bytes = NoBytes, !.victims = {},
                                  !.torn = @ \/ pass.pc = "evict"]
       \/ /\ pass.pc = "next" /\ pass.todo = {}
          /\ pass' = NoPass
    /\ NotAlone
    /\ UNCHANGED <<disk, parts, rows, memory, viewer, clearing, owed>>

-------------------------------------------------------------------------------
(* The sweep and the clean-ups                                               *)

Busy == (\E v \in Viewer : viewer[v].pc # "idle") \/ pass.pc # "idle" \/ clearing # {}

\* reconcile begins by removing every staging file.
SweepParts ==
    /\ "sweep" \in Upkeep
    /\ sweep.pc \in {"idle", "done"}
    /\ parts' = {}
    /\ sweep' = [NoSweep EXCEPT !.pc = "rows", !.alone = ~Busy]
    /\ UNCHANGED <<disk, rows, memory, viewer, pass, clearing, owed, mishaps>>

\* FAULT: a row whose file is gone is kept.
KeepsGhosts(row) == Exists(row.file) => (disk[row.file] = row.size /\ ~Broken(row))

\* A row stays when its file is there, measures what it says and is not broken.
Stays(row) == Exists(row.file) /\ disk[row.file] = row.size /\ ~Broken(row)

SweepRows ==
    /\ sweep.pc = "rows"
    /\ LET kept == {r \in rows : Stays(r)}
       IN  /\ rows' = kept
           /\ disk' = Emptied(FilesOf(rows \ kept))
           /\ sweep' = [sweep EXCEPT !.pc = "files", !.live = FilesOf(kept)]
           /\ IF kept = rows THEN UNCHANGED pass ELSE Wrote
    /\ UNCHANGED <<parts, memory, viewer, clearing, owed, mishaps>>

\* FAULT: only the displayed pages' directory is walked.
OnePlace(f) == f.dir = "pages"

Walked(f) == TRUE

\* Every file of both directories that none of the rows read before names,
\* staging files among them.
SweepFiles ==
    /\ sweep.pc = "files"
    /\ disk' = Emptied({f \in File \ sweep.live : Walked(f)})
    /\ parts' = {}
    /\ sweep' = [sweep EXCEPT !.pc = "measure"]
    /\ UNCHANGED <<rows, memory, viewer, pass, clearing, owed, mishaps>>

SweepMeasure ==
    /\ sweep.pc = "measure"
    /\ Measures
    /\ sweep' = [sweep EXCEPT !.pc = "evict", !.live = {}, !.left = Measured(rows)]
    /\ UNCHANGED <<disk, parts, memory, viewer, clearing, mishaps>>

SweepEvict ==
    /\ sweep.pc = "evict"
    /\ LET worst == Worst(sweep.left, {})
       IN  \/ /\ worst = {}
              /\ sweep' = [sweep EXCEPT !.pc = "unlink", !.left = {}]
              /\ UNCHANGED <<rows, pass>>
           \/ \E row \in worst :
                 /\ Drops(row)
                 /\ sweep' = [sweep EXCEPT !.left = @ \ {row},
                                           !.victims = @ \cup {row.file}]
    /\ UNCHANGED <<disk, parts, memory, viewer, clearing, owed, mishaps>>

SweepUnlink ==
    /\ sweep.pc = "unlink"
    /\ disk' = Emptied(sweep.victims)
    /\ sweep' = [sweep EXCEPT !.pc = "done", !.victims = {}]
    /\ UNCHANGED <<parts, rows, memory, viewer, pass, clearing, owed, mishaps>>

SweepFail ==
    /\ "error" \in Mishaps /\ mishaps < MaxMishaps
    /\ sweep.pc \notin {"idle", "done"}
    /\ mishaps' = mishaps + 1
    /\ owed' = (owed \/ sweep.pc = "evict")
    /\ sweep' = NoSweep
    /\ UNCHANGED <<disk, parts, rows, memory, viewer, pass, clearing>>

\* clear_tier(Prefetch): the rows, then the files and the bytes held for them.
ClearRows ==
    /\ "clear" \in Upkeep
    /\ clearing = {}
    /\ LET guesses == {r \in rows : Guess(r)}
       IN  /\ guesses # {}
           /\ Wrote
           /\ rows' = rows \ guesses
           /\ clearing' = FilesOf(guesses)
    /\ NotAlone
    /\ UNCHANGED <<disk, parts, memory, viewer, owed, mishaps>>

ClearFiles ==
    /\ clearing # {}
    /\ disk' = Emptied(clearing)
    /\ memory' = Without(memory, {f.page : f \in clearing})
    /\ clearing' = {}
    /\ NotAlone
    /\ UNCHANGED <<parts, rows, viewer, pass, owed, mishaps>>

\* release_prefetch_memory: the bytes behind guessed rows, never their files.
Release ==
    /\ memory' = Without(memory, {r.file.page : r \in {s \in rows : Guess(s)}})
    /\ memory' # memory
    /\ NotAlone
    /\ UNCHANGED <<disk, parts, rows, viewer, pass, clearing, owed, mishaps>>

\* Another writer of the same database commits: a position, a sync page.
OtherWrite ==
    /\ pass.tx = "read" /\ ~pass.stale
    /\ pass' = [pass EXCEPT !.stale = TRUE]
    /\ UNCHANGED <<disk, parts, rows, memory, viewer, sweep, clearing, owed, mishaps>>

\* Calls between a row they recorded and the end of their trim, and a sweep in its own.
Trimming ==
    \/ \E v \in Viewer : viewer[v].pc \in {"measure", "evict"}
    \/ sweep.pc = "evict"

\* The process dies; with the power gone one file that was never flushed may be
\* cut.  An uncommitted transaction is rolled back.
Crash ==
    /\ "crash" \in Mishaps /\ mishaps < MaxMishaps
    /\ mishaps' = mishaps + 1
    /\ owed' = (owed \/ Trimming)
    /\ \E cut \in {{}} \cup {{f} : f \in {g \in File : disk[g] = "whole"}} :
          disk' = [f \in File |-> IF f \in cut THEN "short" ELSE disk[f]]
    /\ memory' = <<>>
    /\ viewer' = [v \in Viewer |-> NoCall]
    /\ pass' = NoPass
    /\ sweep' = NoSweep
    /\ clearing' = {}
    /\ UNCHANGED <<parts, rows>>

Display(v) ==
    \/ LookFile(v) \/ Relocate(v) \/ Fetch(v)
    \/ Stage(v) \/ Land(v) \/ Record(v) \/ Measure(v) \/ Evict(v) \/ Unlink(v)

Prefetch ==
    PassStage \/ PassLand \/ PassRecord \/ PassEvict \/ PassUnlink \/ PassCommit

Sweep ==
    SweepParts \/ SweepRows \/ SweepFiles \/ SweepMeasure \/ SweepEvict \/ SweepUnlink

CacheNext ==
    \/ \E v \in Viewer : Display(v) \/ Fail(v) \/ \E p \in Page : Ask(v, p)
    \/ PassFetch \/ Prefetch \/ PassFail
    \/ Sweep \/ SweepFail
    \/ ClearRows \/ ClearFiles \/ Release
    \/ OtherWrite
    \/ Crash

CacheSpec == CacheInit /\ [][CacheNext]_cvars

\* A call that was made runs on, and the reader keeps reporting its device: when
\* a book opens, when the link changes, when memory is short.  A writer waits for
\* the lock (busy_timeout), which a pass takes again and again but never keeps.
CacheFairness ==
    /\ \A v \in Viewer : SF_cvars(Display(v))
    /\ WF_cvars(Prefetch)
    /\ SF_cvars(Sweep)
    /\ WF_cvars(ClearFiles)

FairCacheSpec == CacheSpec /\ CacheFairness

-------------------------------------------------------------------------------
(* Properties                                                                *)

\* A ledger a finished trim leaves: within the pool, or the page alone it had to keep.
Within(view) == Fits(view) \/ Cardinality(view) = 1

\* The ledger is over its budget only while somebody who recorded a page, or the
\* sweep, has yet to end a trim, or after a trim that failed or died and until the
\* next one measures: trims that each drop by what they measured, a pass on its
\* snapshot among them, never leave more between them.  The memory tier never
\* outgrows its own.
TiersFit ==
    /\ owed \/ Trimming \/ Within(rows)
    /\ pass.tx = "write" => pass.torn \/ pass.pc = "evict" \/ Within(pass.view)
    /\ Len(memory) <= MemoryBudget

\* The ledger alone, whoever is at work and whatever went wrong before.
PoolIsNeverOver == Within(rows)

\* A sweep nobody disturbed leaves the ledger and the disk in agreement and the
\* pool within its budget: every file described, every row backed by the bytes it
\* measured, no staging file, after any crash, error and race before it.
SweptCacheAgrees ==
    (sweep.pc = "done" /\ sweep.alone)
        => /\ {f \in File : Exists(f)} = FilesOf(rows)
           /\ \A r \in rows : disk[r.file] = r.size
           /\ parts = {}
           /\ Fits(rows)

\* The page file of the row a lookup found, promoted or displayed already.
Promoted(found) == [(CHOOSE r \in found : TRUE).file EXCEPT !.dir = "pages"]

\* The file a display call answers with: the one it stored, or the one it hit.
Answered(call) ==
    IF call.pc \in {"record", "measure", "evict", "unlink"} THEN FileOf("pages", call.bytes)
    ELSE Promoted(call.found)

Returns(v) ==
    /\ mishaps' = mishaps
    /\ viewer[v].pc \in {"file", "relocate", "unlink"} /\ viewer'[v].pc = "idle"

\* No call answers with a cut page: whatever races, promotions and evictions come
\* between, the file a display call returns is whole when it returns, in every
\* container whose end the checks look for.
AnswersAreWhole ==
    [][\A v \in Viewer :
          (Returns(v) /\ Answered(viewer[v]).format # "webp")
          => disk'[Answered(viewer[v])] # "short"]_cvars

\* The same of every container.
EveryAnswerIsWhole ==
    [][\A v \in Viewer : Returns(v) => disk'[Answered(viewer[v])] # "short"]_cvars

\* Bytes the reader looked at outrank bytes it did not, and the page a call has
\* just written survives the trim it triggers, whatever others record, promote and
\* drop meanwhile: of the rows it measured, the trim drops a displayed one only when
\* no guessed one is left to drop.
SeenOutranksGuessed ==
    [][\A v \in Viewer :
          (viewer[v].pc = "evict" /\ viewer'[v].pc = "evict" /\ viewer'[v] # viewer[v])
          => LET p == viewer[v].bytes.page
                 known == rows \cap viewer[v].left
             IN  /\ RowsOfPage(rows, p) \subseteq rows'
                 /\ (\E r \in known \ rows' : ~Guess(r))
                       => \A r \in known \cap rows' : Guess(r) => r.file.page = p
      ]_cvars

\* The same of every row there is when one is dropped, landed or promoted since the
\* trim measured or not.
SeenOutranksLanded ==
    [][\A v \in Viewer :
          (viewer[v].pc = "evict" /\ \E r \in rows \ rows' : ~Guess(r))
          => \A r \in rows' : Guess(r) => r.file.page = viewer[v].bytes.page]_cvars

\* A file the ledger does not describe, and so no budget sees, is described or
\* removed in the end: after a crash between the rename and the row, a pass that
\* lost its snapshot, two stores of one page in different tiers.
HiddenBytesAreSwept ==
    \A f \in File :
        (Exists(f) /\ f \notin FilesOf(rows)) ~> (~Exists(f) \/ f \in FilesOf(rows))

\* Every call returns and every pass gives the database back.
CallsReturn ==
    /\ \A v \in Viewer : viewer[v].pc # "idle" ~> viewer[v].pc = "idle"
    /\ pass.pc # "idle" ~> pass.pc = "idle"

\* The sweep removes only files no row describes.
SweepSparesDescribed ==
    [][\A f \in File :
          (sweep.pc = "files" /\ sweep'.pc = "measure" /\ Exists(f) /\ disk'[f] = "none")
          => f \notin FilesOf(rows)]_cvars

\* Waiting for the write lock keeps a pass's pages: what it renamed into place
\* is recorded, whoever writes meanwhile.
PassKeepsItsPages ==
    [][(pass.pc = "record" /\ Exists(FileOf("prefetch", pass.bytes))
          /\ pass'.pc \in {"next", "evict"})
          => pass'.tx = "write"]_cvars
=============================================================================

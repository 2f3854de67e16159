------------------------------- MODULE SeriesPage -------------------------------
(***************************************************************************)
(* One series on the screen (series_detail.dart): its books, filtered by how *)
(* far they are read, and the one book that "start or continue reading"      *)
(* opens (store/query.rs: ordered_books, series_read_target).  Every read is  *)
(* several statements on a connection without a transaction, and a reading   *)
(* session or a sync may commit between any two of them.                     *)
(***************************************************************************)
EXTENDS Naturals, FiniteSets, SequencesExt, Sift

CONSTANTS
    Book,           \* books of the series
    InOrder,        \* Book as a sequence: number, then title, then id; extras last
    Chips,          \* filters the user may choose, a subset of Filter
    DetailPage,     \* books of one page of the list (100 in the code)
    MaxLoads,       \* bound: reads of the screen
    MaxWrites       \* bound: commits of others

ASSUME SeriesPageAssumption ==
    /\ InOrder \in Seq(Book) /\ ToSet(InOrder) = Book /\ Len(InOrder) = Cardinality(Book)
    /\ Chips \subseteq {"all", "unread", "in_progress", "read"}
    /\ DetailPage \in Nat \ {0}
    /\ MaxLoads \in Nat /\ MaxWrites \in Nat

VARIABLES
    server,     \* books the server has
    catalog,    \* the mirror's rows of this series, see Catalog
    detail,     \* the screen, see SeriesPageTypeOK
    loads,      \* reads under way, see Load
    issued,     \* bound: reads issued
    writes      \* bound: commits

pvars == <<server, catalog, detail, loads, issued, writes>>

Status == {"unread", "in_progress", "read"}
Filter == Status \cup {"all"}
NoBook == "none"

\* declared: the books the server had when the series row, with its books_count,
\* was written.  recent: books by the stamp of their progress, newest first.
Catalog ==
    [books : SUBSET Book, declared : SUBSET Book, status : [Book -> Status],
     recent : Seq(Book)]

\* intent "none": not asked for, or not answered yet.
Target ==
    [book : Book \cup {NoBook}, position : Nat,
     intent : {"continue", "start", "reread", "empty", "none"}, complete : BOOLEAN,
     quiet : BOOLEAN, allRead : BOOLEAN]

NoTarget ==
    [book |-> NoBook, position |-> 0, intent |-> "none", complete |-> FALSE,
     quiet |-> TRUE, allRead |-> FALSE]

SeriesPageTypeOK ==
    /\ server \subseteq Book
    /\ catalog \in Catalog
    /\ detail.filter \in Filter /\ detail.of \in Filter
    /\ detail.target \in Target

-------------------------------------------------------------------------------
(* The catalog                                                               *)

\* The rows of ordered_books.
Ordered(c) == Sift(InOrder, c.books)

\* book_where: the read-status filter.
Filtered(c, filter) ==
    Sift(Ordered(c), {b \in Book : filter = "all" \/ c.status[b] = filter})

\* OrderedBooks.complete: a number of rows is compared with a number.
Complete(c, books) == Cardinality(c.declared) = Len(books)

\* FAULT: a finished book that has a page counts as being read.
NewestWithPage(c) ==
    Sift(c.recent, {b \in c.books : c.status[b] # "unread"})

\* The book that was being read last.
NewestInProgress(c) ==
    Sift(c.recent, {b \in c.books : c.status[b] = "in_progress"})

PositionIn(books, b) == IF b \in ToSet(books) THEN CHOOSE i \in DOMAIN books : books[i] = b ELSE 1

-------------------------------------------------------------------------------
(* The reads                                                                 *)

\* kind "load" also asks for the target, in statements of its own (aim): the
\* order twice, as series_read_target_row does, then the book in progress.
NewLoad(kind) ==
    [id |-> issued + 1, kind |-> kind, filter |-> detail.filter,
     offset |-> IF kind = "more" THEN Len(detail.shown) ELSE 0,
     step |-> "count", total |-> 0, items |-> <<>>,
     aim |-> IF kind = "load" THEN "complete" ELSE "done",
     ordered |-> <<>>, statuses |-> [b \in Book |-> "unread"],
     target |-> [NoTarget EXCEPT !.allRead = \A b \in catalog.books :
                                                catalog.status[b] = "read"]]

Begin(kind) ==
    /\ issued < MaxLoads
    /\ issued' = issued + 1
    /\ loads' = loads \cup {NewLoad(kind)}

\* _load: the screen opens, or comes back from the reader.
LoadDetail ==
    /\ Begin("load")
    /\ UNCHANGED <<server, catalog, detail, writes>>

\* A chip: the filter changes at once, the books are asked for.
ChooseFilter ==
    /\ issued < MaxLoads
    /\ issued' = issued + 1
    /\ \E filter \in Chips \ {detail.filter} :
          /\ detail' = [detail EXCEPT !.filter = filter]
          /\ loads' = loads \cup {[NewLoad("reload") EXCEPT !.filter = filter]}
    /\ UNCHANGED <<server, catalog, writes>>

\* _loadMoreBooks: nothing keeps a second tap from asking for the same page.
LoadMoreBooks ==
    /\ Len(detail.shown) < detail.total
    /\ Begin("more")
    /\ UNCHANGED <<server, catalog, detail, writes>>

Becomes(old, new) ==
    /\ loads' = (loads \ {old}) \cup {new}
    /\ UNCHANGED <<server, catalog, detail, issued, writes>>

CountBooks(r) ==
    /\ r.step = "count"
    /\ Becomes(r, [r EXCEPT !.step = "rows", !.total = Len(Filtered(catalog, r.filter))])

SelectBooks(r) ==
    /\ r.step = "rows"
    /\ LET found == Filtered(catalog, r.filter)
           last  == IF r.offset + DetailPage < Len(found) THEN r.offset + DetailPage
                    ELSE Len(found)
       IN  Becomes(r, [r EXCEPT !.step = "covers",
                                !.items = SubSeq(found, r.offset + 1, last)])

\* series_read_target_row: its own ordered_books, of which it keeps `complete`.
ReadComplete(r) ==
    /\ r.aim = "complete"
    /\ Becomes(r, [r EXCEPT !.aim = "order",
                            !.target.complete = Complete(catalog, Ordered(catalog))])

\* series_read_target: the books in order, or nothing to read.
ReadOrder(r) ==
    /\ r.aim = "order"
    /\ IF catalog.books = {}
       THEN Becomes(r, [r EXCEPT !.aim = "done", !.target.intent = "empty"])
       ELSE Becomes(r, [r EXCEPT !.aim = "newest", !.ordered = Ordered(catalog),
                                 !.statuses = catalog.status])

\* ... then the book in progress, else the first unread of the order read before,
\* else its first.
ReadNewest(r) ==
    LET newest == NewestInProgress(catalog)
        unread == Sift(r.ordered, {b \in Book : r.statuses[b] = "unread"})
        aimed(b, intent) ==
            [r EXCEPT !.aim = "done", !.target.book = b, !.target.intent = intent,
                      !.target.position = PositionIn(r.ordered, b)]
    IN  /\ r.aim = "newest"
        /\ Becomes(r, IF newest # <<>> THEN aimed(Head(newest), "continue")
                      ELSE IF unread # <<>> THEN aimed(Head(unread), "start")
                      ELSE aimed(Head(r.ordered), "reread"))

\* All of a read has come, and its covers: whichever read it is, its rows are shown.
DetailLands(r) ==
    /\ r.step = "covers" /\ r.aim = "done"
    /\ loads' = loads \ {r}
    /\ detail' = IF r.kind = "more"
                 THEN [detail EXCEPT !.shown = @ \o r.items]
                 ELSE [detail EXCEPT !.shown = r.items, !.total = r.total, !.of = r.filter,
                                     !.target = IF r.kind = "load" THEN r.target ELSE @]
    /\ UNCHANGED <<server, catalog, issued, writes>>

\* A statement fails: the screen stays as it was.
DetailFails(r) ==
    /\ loads' = loads \ {r}
    /\ UNCHANGED <<server, catalog, detail, issued, writes>>

-------------------------------------------------------------------------------
(* What others commit                                                        *)

\* The catalog becomes c; history: no target read before is quiet any more.
Commits(c) ==
    /\ writes < MaxWrites
    /\ writes' = writes + 1
    /\ catalog' = c
    /\ detail' = [detail EXCEPT !.target.quiet = FALSE]
    /\ loads' = {[r EXCEPT !.target.quiet = r.aim = "complete",
                           !.target.allRead = @ \/ \A b \in c.books : c.status[b] = "read"]
                  : r \in loads}
    /\ UNCHANGED <<server, issued>>

\* A sync writes the series row, a book the server has, or removes one it has not.
SeriesRowArrives == Commits([catalog EXCEPT !.declared = server])
BookArrives == \E b \in server \ catalog.books : Commits([catalog EXCEPT !.books = @ \cup {b}])
BookPruned == \E b \in catalog.books \ server : Commits([catalog EXCEPT !.books = @ \ {b}])

\* The reader, a gesture or the server's progress: the book is the newest now.
ProgressWritten ==
    \E b \in catalog.books, status \in Status :
       Commits([catalog EXCEPT !.status[b] = status,
                               !.recent = <<b>> \o Sift(@, Book \ {b})])

\* Books come to the server and leave it.
ServerEdits ==
    /\ writes < MaxWrites
    /\ writes' = writes + 1
    /\ server' \in SUBSET Book \ {server}
    /\ UNCHANGED <<catalog, detail, loads, issued>>

-------------------------------------------------------------------------------

\* Any series, mirrored as the server has it, read from its end, as far as it may be.
SeriesPageInit ==
    /\ server \in SUBSET Book
    /\ \E status \in [Book -> Status] :
          /\ \A b \in Book \ server : status[b] = "unread"
          /\ catalog = [books |-> server, declared |-> server, status |-> status,
                        recent |-> Reverse(InOrder)]
    /\ detail = [filter |-> "all", shown |-> <<>>, total |-> 0, of |-> "all",
                 target |-> NoTarget]
    /\ loads = {}
    /\ issued = 0
    /\ writes = 0

SeriesPageNext ==
    \/ LoadDetail \/ ChooseFilter \/ LoadMoreBooks
    \/ \E r \in loads :
          \/ CountBooks(r) \/ SelectBooks(r) \/ DetailLands(r) \/ DetailFails(r)
          \/ ReadComplete(r) \/ ReadOrder(r) \/ ReadNewest(r)
    \/ SeriesRowArrives \/ BookArrives \/ BookPruned \/ ProgressWritten \/ ServerEdits

SeriesPageSpec == SeriesPageInit /\ [][SeriesPageNext]_pvars

-------------------------------------------------------------------------------
(* Properties                                                                *)

Before(b) == {o \in catalog.books : \E i, j \in DOMAIN InOrder :
                                      i < j /\ InOrder[i] = o /\ InOrder[j] = b}

\* Nothing was committed since the target was read: it is the book last read of
\* those begun and not finished; else the first that is not finished, with only
\* finished ones before it; else, and only when all are finished, the first; and it
\* stands where the screen lists it.
TargetFollowsTheRule ==
    LET t     == detail.target
        begun == {b \in catalog.books : catalog.status[b] = "in_progress"}
        rank(b) == CHOOSE i \in DOMAIN catalog.recent : catalog.recent[i] = b
    IN  t.quiet /\ t.intent # "none" =>
          /\ (t.intent = "empty") <=> (catalog.books = {})
          /\ t.intent # "empty" =>
                /\ t.book \in catalog.books
                /\ t.position = Cardinality(Before(t.book)) + 1
                /\ (t.intent = "continue") <=> (begun # {})
                /\ t.intent = "continue" =>
                      t.book \in begun /\ \A b \in begun : rank(t.book) <= rank(b)
                /\ t.intent = "start" =>
                      /\ catalog.status[t.book] = "unread"
                      /\ \A b \in Before(t.book) : catalog.status[b] = "read"
                /\ t.intent = "reread" =>
                      /\ Before(t.book) = {}
                      /\ \A b \in catalog.books : catalog.status[b] = "read"

\* "Read again" is only offered when every book was finished, at some moment of
\* the read: not what statements of different moments give.
RereadIsEarned == detail.target.intent = "reread" => detail.target.allRead

\* `complete` says that the mirror has every book the server said the series has:
\* not while one book has been replaced by another.
CompleteIsWhole ==
    (detail.target.quiet /\ detail.target.complete) => catalog.declared \subseteq catalog.books

\* Once no read is under way, the rows are those of the filter the chips show: not
\* when an older read ends last.
DetailShowsItsFilter == loads = {} => detail.of = detail.filter
=============================================================================

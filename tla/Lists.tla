-------------------------------- MODULE Lists --------------------------------
(* Libraries, collections and read lists in the mirror: the steps of both syncs *)
(* that list them (sync/full.rs, sync/reconcile.rs), their tables and member    *)
(* tables (store/libraries.rs, store/collections.rs, store/readlists.rs) and    *)
(* their deletion (store/prune.rs).                                             *)
(*                                                                              *)
(* The members of a list live in a table of their own.  The server may change   *)
(* them without a new stamp, and the deletion of a book or a series takes its   *)
(* memberships along whether or not the server agrees.  MirrorSync has the      *)
(* other steps; the lock keeps them and these apart, so here they only appear   *)
(* as deletions of members between two syncs.                                   *)
(*                                                                              *)
(* The rows of a page are written as one step, and so are the tombstones it     *)
(* clears.  A library has no stamp and is always written; its stamp here is the *)
(* state of its fields.  FAULT marks a plausible slip of the operator after it. *)
EXTENDS Naturals, SequencesExt, FiniteSetsExt, Sift

CONSTANTS
    ListId,         \* remote ids of lists; only their order matters
    Member,         \* ids of what lists hold: series, or books
    ListPageSize,   \* lists per request (100 in the code)
    MaxEdits,       \* bound: changes on the server
    MaxLosses,      \* bound: members deleted here on their own
    MaxStops        \* bound: requests that fail and processes that end

ASSUME ListsAssumption ==
    /\ ListId \subseteq Nat /\ IsFiniteSet(ListId) /\ IsFiniteSet(Member)
    /\ ListPageSize \in Nat \ {0}
    /\ {MaxEdits, MaxLosses, MaxStops} \subseteq Nat

VARIABLES
    kind,       \* which of the three tables this behaviour is about
    lists,      \* the server's lists: stamp and members
    listRow,    \* the mirror's rows: their stamps
    member,     \* the member table: collection_series, readlist_books
    buried,     \* ids with a tombstone
    listState,  \* sync_state of the step: status, and the page its cursor names
    errand,     \* the sync at this step
    tally       \* bounds used up

lvars == <<kind, lists, listRow, member, buried, listState, errand, tally>>

NoStamp == 0
NoList == [stamp |-> NoStamp, members |-> <<>>]
Arrangement == IF kind = "libraries" THEN {<<>>} ELSE SetToAllKPermutations(Member)
Listed == {l \in ListId : lists[l].stamp # NoStamp}
Rowed == {l \in ListId : listRow[l] # NoStamp}

\* known, had: the rows and members found when the step began; seen: the ids of
\* the pages so far; answer: the page that arrived; doomed: rows being pruned, at
\* the statement del; calm (history): nothing else has moved since the step began.
NoErrand ==
    [mode |-> "none", at |-> "idle", page |-> 0, known |-> [l \in ListId |-> NoStamp],
     had |-> [l \in ListId |-> <<>>], seen |-> {}, answer |-> [l \in ListId |-> NoList],
     last |-> FALSE, doomed |-> {}, calm |-> TRUE]

ListsInit ==
    /\ kind \in {"libraries", "collections", "readlists"}
    /\ lists = [l \in ListId |-> NoList]
    /\ listRow = [l \in ListId |-> NoStamp]
    /\ member = [l \in ListId |-> <<>>]
    /\ buried = {}
    /\ listState = [status |-> "none", page |-> 0]
    /\ errand = NoErrand
    /\ tally = [edits |-> 0, losses |-> 0, stops |-> 0]

(* ------------------------------------------------------------------------- *)
(* The server, and deletions of what lists hold.                             *)

Disturbed == [errand EXCEPT !.calm = @ /\ errand.at = "idle"]

\* A list is made, renamed or given other members; only some of that moves its
\* stamp.  A list that leaves may come back under its id.
EditList(l) ==
    /\ tally.edits < MaxEdits
    /\ \/ \E m \in Arrangement, moves \in BOOLEAN :
              /\ lists[l] = NoList => moves
              /\ lists' = [lists EXCEPT ![l] =
                    [stamp |-> IF moves THEN tally.edits + 1 ELSE @.stamp, members |-> m]]
       \/ lists[l] # NoList /\ lists' = [lists EXCEPT ![l] = NoList]
    /\ tally' = [tally EXCEPT !.edits = @ + 1]
    /\ errand' = Disturbed
    /\ UNCHANGED <<kind, listRow, member, buried, listState>>

\* delete_book and delete_series: an event, or a sweep an offset has misled.
MemberDeleted(x) ==
    /\ tally.losses < MaxLosses
    /\ \E l \in ListId : Contains(member[l], x)
    /\ member' = [l \in ListId |->
          IF Contains(member[l], x) THEN Sift(member[l], Member \ {x}) ELSE member[l]]
    /\ tally' = [tally EXCEPT !.losses = @ + 1]
    /\ errand' = Disturbed
    /\ UNCHANGED <<kind, lists, listRow, buried, listState>>

(* ------------------------------------------------------------------------- *)
(* The step.                                                                 *)

\* step_plan: a bootstrap leaves out a step that is complete, and begins at the
\* cursor of one that is not; starting over forgets both.  Libraries are one
\* request.
BeginLists(mode, fresh) ==
    /\ errand.at = "idle"
    /\ fresh => mode = "bootstrap"
    /\ LET old == IF fresh THEN [status |-> "none", page |-> 0] ELSE listState
       IN  /\ mode = "bootstrap" => old # [status |-> "idle", page |-> 0]
           /\ listState' = [old EXCEPT !.status = "syncing"]
           /\ errand' = [NoErrand EXCEPT !.mode = mode, !.at = "fetch",
                 !.page = IF mode = "bootstrap" /\ kind # "libraries" THEN old.page ELSE 0,
                 !.known = listRow, !.had = member]
    /\ UNCHANGED <<kind, lists, listRow, member, buried, tally>>

PageIndex(l) ==
    IF kind = "libraries" THEN 0
    ELSE Cardinality({k \in Listed : k < l}) \div ListPageSize

FetchLists ==
    /\ errand.at = "fetch"
    /\ errand' = [errand EXCEPT !.at = "save",
          !.answer = [l \in ListId |->
              IF l \in Listed /\ PageIndex(l) = errand.page THEN lists[l] ELSE NoList],
          !.last = \A l \in Listed : PageIndex(l) <= errand.page]
    /\ UNCHANGED <<kind, lists, listRow, member, buried, listState, tally>>

\* A collection is a set, a read list is in order.
SameMembers(s, t) == IF kind = "collections" THEN ToSet(s) = ToSet(t) ELSE s = t

\* FAULT: only a list whose stamp moved is written.
ToWriteByStamp(l) ==
    errand.answer[l] # NoList
        /\ (errand.mode = "bootstrap" \/ kind = "libraries"
            \/ errand.known[l] # errand.answer[l].stamp)

\* A reconciliation writes the lists that are new, or have another stamp, or have
\* other members than the mirror when the step began.
ToWrite(l) ==
    errand.answer[l] # NoList
        /\ (errand.mode = "bootstrap" \/ kind = "libraries"
            \/ errand.known[l] # errand.answer[l].stamp
            \/ ~SameMembers(errand.had[l], errand.answer[l].members))

\* One transaction: the rows, and their members replaced as a whole.
SaveLists ==
    /\ errand.at = "save"
    /\ listRow' = [l \in ListId |-> IF ToWrite(l) THEN errand.answer[l].stamp ELSE listRow[l]]
    /\ member' = [l \in ListId |-> IF ToWrite(l) THEN errand.answer[l].members ELSE member[l]]
    /\ LET page == {l \in ListId : errand.answer[l] # NoList}
       IN  /\ buried' = IF errand.mode = "reconcile" THEN buried \ page ELSE buried
           /\ errand' = [errand EXCEPT !.at = "next", !.seen = @ \cup page]
    /\ UNCHANGED <<kind, lists, listState, tally>>

\* Only the bootstrap records where it is.
NextLists ==
    /\ errand.at = "next"
    /\ IF errand.last
       THEN /\ errand' = [errand EXCEPT !.at = IF errand.mode = "reconcile" THEN "prune" ELSE "done",
                                        !.doomed = IF errand.mode = "reconcile"
                                                   THEN Rowed \ errand.seen ELSE {}]
            /\ UNCHANGED listState
       ELSE /\ errand' = [errand EXCEPT !.at = "fetch", !.page = @ + 1]
            /\ listState' = IF errand.mode = "bootstrap"
                            THEN [status |-> "syncing", page |-> errand.page + 1] ELSE listState
    /\ UNCHANGED <<kind, lists, listRow, member, buried, tally>>

\* Tombstone, members, row: three statements, list by list.
BuryList ==
    /\ errand.at = "prune" /\ errand.doomed # {}
    /\ buried' = buried \cup {Min(errand.doomed)}
    /\ errand' = [errand EXCEPT !.at = "unlist"]
    /\ UNCHANGED <<kind, lists, listRow, member, listState, tally>>

UnlistMembers ==
    /\ errand.at = "unlist"
    /\ member' = [member EXCEPT ![Min(errand.doomed)] = <<>>]
    /\ errand' = [errand EXCEPT !.at = "drop"]
    /\ UNCHANGED <<kind, lists, listRow, buried, listState, tally>>

DropList ==
    /\ errand.at = "drop"
    /\ listRow' = [listRow EXCEPT ![Min(errand.doomed)] = NoStamp]
    /\ errand' = [errand EXCEPT !.at = "prune", !.doomed = @ \ {Min(@)}]
    /\ UNCHANGED <<kind, lists, member, buried, listState, tally>>

ListsDone ==
    /\ errand.at = "done" \/ (errand.at = "prune" /\ errand.doomed = {})
    /\ listState' = [status |-> "idle", page |-> 0]
    /\ errand' = NoErrand
    /\ UNCHANGED <<kind, lists, listRow, member, buried, tally>>

\* A request or a statement fails, and the step keeps its cursor; or the process
\* ends, and not even that is recorded.
ListsStop(recorded) ==
    /\ errand.at # "idle" /\ tally.stops < MaxStops
    /\ tally' = [tally EXCEPT !.stops = @ + 1]
    /\ listState' = IF recorded THEN [listState EXCEPT !.status = "error"] ELSE listState
    /\ errand' = NoErrand
    /\ UNCHANGED <<kind, lists, listRow, member, buried>>

ListsNext ==
    \/ \E l \in ListId : EditList(l)
    \/ \E x \in Member : MemberDeleted(x)
    \/ \E mode \in {"bootstrap", "reconcile"}, fresh \in BOOLEAN : BeginLists(mode, fresh)
    \/ FetchLists \/ SaveLists \/ NextLists
    \/ BuryList \/ UnlistMembers \/ DropList
    \/ ListsDone
    \/ \E recorded \in BOOLEAN : ListsStop(recorded)

ListsSpec == ListsInit /\ [][ListsNext]_lvars

(* ------------------------------------------------------------------------- *)
(* Properties                                                                *)

ListsTypeOK ==
    /\ lists \in [ListId -> [stamp : 0 .. MaxEdits, members : SetToAllKPermutations(Member)]]
    /\ listRow \in [ListId -> 0 .. MaxEdits]
    /\ member \in [ListId -> SetToAllKPermutations(Member)]
    /\ buried \subseteq ListId
    /\ listState.status \in {"none", "syncing", "idle", "error"}
    /\ errand.mode \in {"none", "bootstrap", "reconcile"}

\* When a reconciliation of the lists ends undisturbed, the mirror has the
\* server's lists and exactly their members, in order where the order counts,
\* and no list that is there is on record as deleted: whatever was deleted or
\* changed without a stamp before it, and wherever earlier syncs were cut off.
ListsAgree ==
    [][(errand.mode = "reconcile" /\ errand.calm /\ listState'.status = "idle")
        => \A l \in ListId :
              /\ listRow'[l] = lists[l].stamp
              /\ SameMembers(member'[l], lists[l].members)
              /\ ~(l \in buried' /\ l \in Listed)]_lvars
==============================================================================

------------------------------- MODULE Covers --------------------------------
(* Covers: the files under cache/thumbnails, the thumbnails rows that name them *)
(* (store/thumbnails.rs), and who writes and removes both: backfills of the     *)
(* wall and of a book list (cache/cover.rs, ensure_covers and                   *)
(* ensure_book_covers), sweeps that prune an entity and hand its cover's path   *)
(* on, and delete_server (ffi/application.rs).                                  *)
(*                                                                              *)
(* A file's content is the cover it was fetched for.  FAULT marks a plausible   *)
(* slip of the operator after it.                                               *)
EXTENDS Naturals, FiniteSets

CONSTANTS
    Cover,          \* a server with the id of one of its series or books
    BookCovers,     \* those of books
    Filler,         \* backfills that may run side by side
    MaxMishaps      \* bound: kinds of things that go wrong, each once

ASSUME CoversAssumption ==
    /\ BookCovers \subseteq Cover
    /\ MaxMishaps \in Nat

VARIABLES
    mirrored,   \* entities whose series or books row is in the mirror
    thumbnail,  \* the thumbnails rows: the file each names
    picture,    \* the files: what each holds
    filler,     \* backfills under way
    orphaned,   \* paths the sweep under way has collected; NoSweepYet without one
    dropping,   \* delete_server under way: the server, its files, how far it is
    dropped,    \* servers deleted
    mishaps     \* what went wrong: "crash", "fail", "vanish", "return"

kvars == <<mirrored, thumbnail, picture, filler, orphaned, dropping, dropped, mishaps>>

ServerOf(c) == c[1]
CoverServers == {ServerOf(c) : c \in Cover}
NoFile == <<"none", "none">>
Torn == <<"torn", "torn">>

\* FAULT: two servers with the same series share the file.
KeyOfEntity(c) == <<"any", c[2]>>

\* cover_key: the file's name says the server and the entity.
CoverKey(c) == c

CoverFile == Cover \cup {KeyOfEntity(c) : c \in Cover}
NoFill == [at |-> "idle", todo |-> {}, cover |-> NoFile]
NoSweepYet == [on |-> FALSE, paths |-> {}]
NoDrop == [at |-> "idle", server |-> "none", paths |-> {}]

CoversInit ==
    /\ mirrored = Cover
    /\ thumbnail = [c \in Cover |-> NoFile]
    /\ picture = [f \in CoverFile |-> NoFile]
    /\ filler = [k \in Filler |-> NoFill]
    /\ orphaned = NoSweepYet
    /\ dropping = NoDrop
    /\ dropped = {}
    /\ mishaps = {}

\* cover_path: a row whose file is gone is a miss.
Usable(c) == thumbnail[c] # NoFile /\ picture[thumbnail[c]] # NoFile

\* The wall's backfill takes the series without a row, a book list's takes all.
Candidates(s) ==
    {c \in mirrored : ServerOf(c) = s /\ (c \in BookCovers \/ thumbnail[c] = NoFile)}

\* At most MaxMishaps kinds of trouble, each at most once.
Mishap(what) ==
    /\ what \notin mishaps /\ Cardinality(mishaps) < MaxMishaps
    /\ mishaps' = mishaps \cup {what}

(* ------------------------------------------------------------------------- *)
(* Backfills.                                                                *)

FillBegins(k, s) ==
    /\ filler[k] = NoFill /\ s \notin dropped /\ Candidates(s) # {}
    /\ \E variant \in {BookCovers, Cover \ BookCovers} :
           filler' = [filler EXCEPT ![k] =
               [at |-> "next", todo |-> Candidates(s) \cap variant, cover |-> NoFile]]
    /\ UNCHANGED <<mirrored, thumbnail, picture, orphaned, dropping, dropped, mishaps>>

\* ensure_cover: the row, else the file that may be there already, else a request.
FillLooks(k, c) ==
    /\ filler[k].at = "next" /\ c \in filler[k].todo
    /\ filler' = [filler EXCEPT ![k] =
          [at |-> IF Usable(c) THEN "next"
                  ELSE IF picture[CoverKey(c)] # NoFile THEN "record" ELSE "fetch",
           todo |-> @.todo \ {c}, cover |-> IF Usable(c) THEN NoFile ELSE c]]
    /\ UNCHANGED <<mirrored, thumbnail, picture, orphaned, dropping, dropped, mishaps>>

\* The answer is written in place: the file is there before its bytes are.
FillWrites(k) ==
    /\ filler[k].at = "fetch"
    /\ picture' = [picture EXCEPT ![CoverKey(filler[k].cover)] = Torn]
    /\ filler' = [filler EXCEPT ![k].at = "bytes"]
    /\ UNCHANGED <<mirrored, thumbnail, orphaned, dropping, dropped, mishaps>>

\* A request that fails costs this cover only.
FillFails(k) ==
    /\ filler[k].at = "fetch"
    /\ filler' = [filler EXCEPT ![k].at = "next", ![k].cover = NoFile]
    /\ UNCHANGED <<mirrored, thumbnail, picture, orphaned, dropping, dropped, mishaps>>

\* The bytes of a file that was removed meanwhile go nowhere.
FillWritten(k) ==
    /\ filler[k].at = "bytes"
    /\ LET f == CoverKey(filler[k].cover)
       IN  picture' = [picture EXCEPT ![f] = IF @ = NoFile THEN NoFile ELSE filler[k].cover]
    /\ filler' = [filler EXCEPT ![k].at = "record"]
    /\ UNCHANGED <<mirrored, thumbnail, orphaned, dropping, dropped, mishaps>>

FillRecords(k) ==
    /\ filler[k].at = "record"
    /\ thumbnail' = [thumbnail EXCEPT ![filler[k].cover] = CoverKey(filler[k].cover)]
    /\ filler' = [filler EXCEPT ![k].at = "next", ![k].cover = NoFile]
    /\ UNCHANGED <<mirrored, picture, orphaned, dropping, dropped, mishaps>>

FillEnds(k) ==
    /\ filler[k].at = "next" /\ filler[k].todo = {}
    /\ filler' = [filler EXCEPT ![k] = NoFill]
    /\ UNCHANGED <<mirrored, thumbnail, picture, orphaned, dropping, dropped, mishaps>>

(* ------------------------------------------------------------------------- *)
(* Sweeps.                                                                   *)

\* delete_book, delete_series: the row goes with the entity, its path is kept.
PruneCover(c) ==
    /\ c \in mirrored
    /\ mirrored' = mirrored \ {c}
    /\ thumbnail' = [thumbnail EXCEPT ![c] = NoFile]
    /\ orphaned' = [on |-> TRUE, paths |-> orphaned.paths \cup ({thumbnail[c]} \ {NoFile})]
    /\ UNCHANGED <<picture, filler, dropping, dropped, mishaps>>

WithoutFiles(P) == [f \in CoverFile |-> IF f \in P THEN NoFile ELSE picture[f]]

\* reconcile_with removes the files after the whole sweep.
CoverSweepEnds ==
    /\ orphaned.on
    /\ picture' = WithoutFiles(orphaned.paths)
    /\ orphaned' = NoSweepYet
    /\ UNCHANGED <<mirrored, thumbnail, filler, dropping, dropped, mishaps>>

\* A sweep that fails in a later step returns its error without the paths.
CoverSweepFails ==
    /\ orphaned.on /\ Mishap("fail")
    /\ orphaned' = NoSweepYet
    /\ UNCHANGED <<mirrored, thumbnail, picture, filler, dropping, dropped>>

\* The entity is on the server again, and a sweep or an event mirrors it.
EntityReturns(c) ==
    /\ Mishap("return")
    /\ c \notin mirrored /\ ServerOf(c) \notin dropped
    /\ mirrored' = mirrored \cup {c}
    /\ UNCHANGED <<thumbnail, picture, filler, orphaned, dropping, dropped>>

(* ------------------------------------------------------------------------- *)
(* delete_server: the paths, the rows table by table, the files.             *)

DropBegins(s) ==
    /\ dropping = NoDrop /\ s \notin dropped
    /\ dropping' = [at |-> "mirror", server |-> s,
                    paths |-> {thumbnail[c] : c \in {x \in Cover : ServerOf(x) = s}} \ {NoFile}]
    /\ dropped' = dropped \cup {s}
    /\ UNCHANGED <<mirrored, thumbnail, picture, filler, orphaned, mishaps>>

DropMirror ==
    /\ dropping.at = "mirror"
    /\ mirrored' = {c \in mirrored : ServerOf(c) # dropping.server}
    /\ dropping' = [dropping EXCEPT !.at = "rows"]
    /\ UNCHANGED <<thumbnail, picture, filler, orphaned, dropped, mishaps>>

DropRows ==
    /\ dropping.at = "rows"
    /\ thumbnail' = [c \in Cover |->
          IF ServerOf(c) = dropping.server THEN NoFile ELSE thumbnail[c]]
    /\ dropping' = [dropping EXCEPT !.at = "files"]
    /\ UNCHANGED <<mirrored, picture, filler, orphaned, dropped, mishaps>>

DropFiles ==
    /\ dropping.at = "files"
    /\ picture' = WithoutFiles(dropping.paths)
    /\ dropping' = NoDrop
    /\ UNCHANGED <<mirrored, thumbnail, filler, orphaned, dropped, mishaps>>

(* ------------------------------------------------------------------------- *)
(* The device.                                                               *)

Vanishes(f) ==
    /\ Mishap("vanish")
    /\ picture[f] # NoFile
    /\ picture' = [picture EXCEPT ![f] = NoFile]
    /\ UNCHANGED <<mirrored, thumbnail, filler, orphaned, dropping, dropped>>

CoversCrash ==
    /\ Mishap("crash")
    /\ filler' = [k \in Filler |-> NoFill]
    /\ orphaned' = NoSweepYet /\ dropping' = NoDrop
    /\ UNCHANGED <<mirrored, thumbnail, picture, dropped>>

CoversNext ==
    \/ \E k \in Filler :
          \/ \E s \in CoverServers : FillBegins(k, s)
          \/ \E c \in Cover : FillLooks(k, c)
          \/ FillWrites(k) \/ FillFails(k) \/ FillWritten(k) \/ FillRecords(k) \/ FillEnds(k)
    \/ \E c \in Cover : PruneCover(c) \/ EntityReturns(c)
    \/ CoverSweepEnds \/ CoverSweepFails
    \/ \E s \in CoverServers : DropBegins(s)
    \/ DropMirror \/ DropRows \/ DropFiles
    \/ \E f \in CoverFile : Vanishes(f)
    \/ CoversCrash

CoversSpec == CoversInit /\ [][CoversNext]_kvars

(* ------------------------------------------------------------------------- *)
(* Properties                                                                *)

CoversTypeOK ==
    /\ mirrored \subseteq Cover
    /\ thumbnail \in [Cover -> CoverFile \cup {NoFile}]
    /\ picture \in [CoverFile -> Cover \cup {NoFile, Torn}]
    /\ orphaned.paths \subseteq CoverFile /\ dropping.paths \subseteq CoverFile
    /\ dropped \subseteq CoverServers

\* With backfills, a sweep and the deletion of a server under way at once, crashes
\* and failures included: what is in the mirror is never shown another one's cover,
\* and a row names a file that is there unless a file vanished by itself or an
\* entity came back while the sweep that pruned it went on.
CoverIsShown ==
    \A c \in mirrored :
        thumbnail[c] # NoFile =>
            picture[thumbnail[c]] \in
                {c, Torn} \cup (IF mishaps \cap {"vanish", "return"} = {} THEN {} ELSE {NoFile})

AtRest == \A k \in Filler : filler[k] = NoFill /\ ~orphaned.on /\ dropping = NoDrop

\* A series or book without a usable cover is one a backfill takes up.
MissingIsTakenUp ==
    AtRest => \A c \in mirrored : Usable(c) \/ c \in Candidates(ServerOf(c))

\* A cover on the disk is whole.
CoverIsWhole == AtRest => \A f \in CoverFile : picture[f] # Torn

\* No file outlives the entity it is the cover of.
NoCoverOutlives == AtRest => \A f \in CoverFile : picture[f] # NoFile => \E c \in mirrored : CoverKey(c) = f
==============================================================================

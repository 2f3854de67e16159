----------------------------- MODULE UpkeepProofs -----------------------------
(***************************************************************************)
(* Theorems about Covers, Lists and Servers, for every number of entities, *)
(* lists, backfills, pages, servers, gestures, edits and mishaps.          *)
(*                                                                         *)
(* Servers: a reference is dead when no row has it and no gesture may      *)
(* still write it into one.  KeyInv says that only dead references are     *)
(* ever deleted or listed for deletion; NoteInv, that a verdict is about   *)
(* the row's key as long as nothing has been excused; PickInv and MemoInv, *)
(* that a gesture still to tell its end stands behind whatever the shelf   *)
(* has wrong.                                                              *)
(***************************************************************************)
EXTENDS Covers, Lists, Servers, SequenceProofs, FiniteSetTheorems

-------------------------------------------------------------------------------
(* Covers: what the steps keep                                               *)

Filling ==
    [at : {"idle", "next", "fetch", "bytes", "record"}, todo : SUBSET Cover,
     cover : Cover \cup {NoFile}]

CoversTyped ==
    /\ CoversTypeOK
    /\ filler \in [Filler -> Filling]
    /\ \A k \in Filler : filler[k].at \in {"fetch", "bytes", "record"} => filler[k].cover \in Cover

\* A file's name is the entity whose cover it is, so no file holds another one's.
FilesAreTheirOwn ==
    /\ \A c \in Cover : thumbnail[c] \in {NoFile, c}
    /\ \A c \in Cover : picture[c] \in {NoFile, Torn, c}

\* What is about to be removed belongs to nothing that is mirrored.
DoomedIsUnmirrored ==
    /\ orphaned.paths \subseteq Cover \ mirrored
    /\ \A f \in dropping.paths : f \in Cover /\ ServerOf(f) = dropping.server
    /\ dropping.at \in {"rows", "files"} => \A c \in mirrored : ServerOf(c) # dropping.server

\* c has a file; no entity is called NoFile, which nothing here needs to know.
Settles(c) == c = NoFile \/ picture[c] # NoFile

\* A row, or a backfill about to write one, names a file that is there.
NamedIsThere ==
    /\ \A c \in mirrored : thumbnail[c] # NoFile => Settles(c)
    /\ \A k \in Filler : (filler[k].at \in {"bytes", "record"} /\ filler[k].cover \in mirrored)
                            => Settles(filler[k].cover)

Untroubled == mishaps \cap {"vanish", "return"} = {}

CoversInv ==
    /\ CoversTyped
    /\ FilesAreTheirOwn
    /\ Untroubled => DoomedIsUnmirrored /\ NamedIsThere

LEMMA InitCovers == CoversInit => CoversInv
<1>1. SUFFICES ASSUME CoversInit PROVE CoversInv
  OBVIOUS
<1>2. CoversTyped
  BY <1>1 DEF CoversInit, CoversTyped, CoversTypeOK, Filling, NoFill, NoSweepYet, NoDrop
<1>3. FilesAreTheirOwn
  BY <1>1 DEF CoversInit, FilesAreTheirOwn, CoverFile
<1>4. DoomedIsUnmirrored /\ NamedIsThere
  BY <1>1 DEF CoversInit, DoomedIsUnmirrored, NamedIsThere, NoFill, NoSweepYet, NoDrop
<1> QED
  BY <1>2, <1>3, <1>4 DEF CoversInv

FillStep(k) ==
    \/ \E s \in CoverServers : FillBegins(k, s)
    \/ \E c \in Cover : FillLooks(k, c)
    \/ FillWrites(k) \/ FillFails(k) \/ FillWritten(k) \/ FillRecords(k) \/ FillEnds(k)

LEMMA FillTyped ==
    ASSUME CoversTyped, NEW k \in Filler, FillStep(k)
    PROVE  CoversTyped'
<1> USE DEF CoversTyped, CoversTypeOK, Filling
<1>1. filler[k] \in Filling
  OBVIOUS
<1>2. mirrored' = mirrored /\ orphaned' = orphaned /\ dropping' = dropping /\ dropped' = dropped
  BY DEF FillStep, FillBegins, FillLooks, FillWrites, FillFails, FillWritten, FillRecords, FillEnds
<1>3. CASE \E s \in CoverServers : FillBegins(k, s)
  BY <1>1, <1>2, <1>3, CoversAssumption DEF FillBegins, Candidates
<1>4. CASE \E c \in Cover : FillLooks(k, c)
  BY <1>1, <1>2, <1>4 DEF FillLooks
<1>5. CASE FillWrites(k)
  BY <1>1, <1>2, <1>5 DEF FillWrites
<1>6. CASE FillFails(k)
  BY <1>1, <1>2, <1>6 DEF FillFails
<1>7. CASE FillWritten(k)
  BY <1>1, <1>2, <1>7 DEF FillWritten
<1>8. CASE FillRecords(k)
  BY <1>1, <1>2, <1>8 DEF FillRecords, CoverKey, CoverFile
<1>9. CASE FillEnds(k)
  BY <1>1, <1>2, <1>9 DEF FillEnds, NoFill
<1> QED
  BY <1>3, <1>4, <1>5, <1>6, <1>7, <1>8, <1>9 DEF FillStep

LEMMA CrashTyped ==
    ASSUME CoversTyped, CoversCrash
    PROVE  CoversTyped'
BY DEF CoversTyped, CoversTypeOK, Filling, CoversCrash, NoFill, NoSweepYet, NoDrop

LEMMA CoversTypeInductive == CoversTyped /\ [CoversNext]_kvars => CoversTyped'
<1>1. SUFFICES ASSUME CoversTyped, [CoversNext]_kvars PROVE CoversTyped'
  OBVIOUS
<1> USE DEF CoversTyped, CoversTypeOK
<1>2. CASE \E k \in Filler : FillStep(k)
  BY <1>1, <1>2, FillTyped
<1>3. CASE \E c \in Cover : PruneCover(c)
  BY <1>1, <1>3 DEF PruneCover
<1>4. CASE \E c \in Cover : EntityReturns(c)
  BY <1>1, <1>4 DEF EntityReturns
<1>5. CASE CoverSweepEnds
  BY <1>1, <1>5 DEF CoverSweepEnds, WithoutFiles, NoSweepYet
<1>6. CASE CoverSweepFails
  BY <1>1, <1>6 DEF CoverSweepFails, NoSweepYet
<1>7. CASE \E s \in CoverServers : DropBegins(s)
  BY <1>1, <1>7 DEF DropBegins
<1>8. CASE DropMirror
  BY <1>1, <1>8 DEF DropMirror
<1>9. CASE DropRows
  BY <1>1, <1>9 DEF DropRows
<1>10. CASE DropFiles
  BY <1>1, <1>10 DEF DropFiles, WithoutFiles, NoDrop
<1>11. CASE \E f \in CoverFile : Vanishes(f)
  BY <1>1, <1>11 DEF Vanishes
<1>12. CASE CoversCrash
  BY <1>1, <1>12, CrashTyped
<1>13. CASE UNCHANGED kvars
  BY <1>1, <1>13 DEF kvars, Filling
<1> QED
  BY <1>1, <1>2, <1>3, <1>4, <1>5, <1>6, <1>7, <1>8, <1>9, <1>10, <1>11, <1>12, <1>13
     DEF CoversNext, FillStep

\* The mirror's covers, the thumbnails rows, the files, the backfills and the two
\* collections of paths keep to their types, through every crash and mishap.
THEOREM CoverTypes == CoversSpec => []CoversTypeOK
<1>1. CoversInit => CoversTyped
  BY InitCovers DEF CoversInv
<1>2. CoversTyped => CoversTypeOK
  BY DEF CoversTyped
<1> QED
  BY <1>1, <1>2, CoversTypeInductive, PTL DEF CoversSpec

LEMMA OwnInductive ==
    CoversTyped /\ FilesAreTheirOwn /\ [CoversNext]_kvars => FilesAreTheirOwn'
<1>1. SUFFICES ASSUME CoversTyped, FilesAreTheirOwn, [CoversNext]_kvars PROVE FilesAreTheirOwn'
  OBVIOUS
<1>2. Cover \subseteq CoverFile
  BY DEF CoverFile
<1>3. CASE thumbnail' = thumbnail /\ picture' = picture
  BY <1>1, <1>3 DEF FilesAreTheirOwn
<1>4. ASSUME NEW k \in Filler, FillWrites(k) PROVE FilesAreTheirOwn'
  BY <1>1, <1>2, <1>4 DEF FilesAreTheirOwn, CoversTyped, CoversTypeOK, FillWrites, CoverKey
<1>5. ASSUME NEW k \in Filler, FillWritten(k) PROVE FilesAreTheirOwn'
  BY <1>1, <1>2, <1>5 DEF FilesAreTheirOwn, CoversTyped, CoversTypeOK, FillWritten, CoverKey
<1>6. ASSUME NEW k \in Filler, FillRecords(k) PROVE FilesAreTheirOwn'
  BY <1>1, <1>2, <1>6 DEF FilesAreTheirOwn, CoversTyped, CoversTypeOK, FillRecords, CoverKey
<1>7. CASE \E c \in Cover : PruneCover(c)
  BY <1>1, <1>2, <1>7 DEF FilesAreTheirOwn, CoversTyped, CoversTypeOK, PruneCover
<1>8. CASE CoverSweepEnds \/ DropFiles
  BY <1>1, <1>2, <1>8 DEF FilesAreTheirOwn, CoverSweepEnds, DropFiles, WithoutFiles
<1>9. CASE DropRows
  BY <1>1, <1>2, <1>9 DEF FilesAreTheirOwn, DropRows
<1>10. CASE \E f \in CoverFile : Vanishes(f)
  BY <1>1, <1>2, <1>10 DEF FilesAreTheirOwn, CoversTyped, CoversTypeOK, Vanishes
<1> QED
  BY <1>1, <1>3, <1>4, <1>5, <1>6, <1>7, <1>8, <1>9, <1>10
     DEF CoversNext, FillBegins, FillLooks, FillFails, FillEnds, EntityReturns,
         CoverSweepFails, DropBegins, DropMirror, CoversCrash, kvars

\* The steps by what they do to the mirror and the mishaps.
LEMMA MirrorOnlyShrinks ==
    ASSUME [CoversNext]_kvars
    PROVE  /\ Untroubled' => Untroubled
           /\ Untroubled' => mirrored' \subseteq mirrored
BY DEF CoversNext, FillBegins, FillLooks, FillWrites, FillFails, FillWritten, FillRecords,
       FillEnds, PruneCover, EntityReturns, CoverSweepEnds, CoverSweepFails, DropBegins,
       DropMirror, DropRows, DropFiles, Vanishes, CoversCrash, kvars, Mishap, Untroubled

LEMMA UnmirroredInductive ==
    CoversTyped /\ FilesAreTheirOwn /\ DoomedIsUnmirrored /\ [CoversNext]_kvars /\ Untroubled'
        => DoomedIsUnmirrored'
<1>1. SUFFICES ASSUME CoversTyped, FilesAreTheirOwn, DoomedIsUnmirrored, [CoversNext]_kvars,
                      Untroubled'
               PROVE  DoomedIsUnmirrored'
  OBVIOUS
<1>2. mirrored' \subseteq mirrored
  BY <1>1, MirrorOnlyShrinks
<1> USE DEF DoomedIsUnmirrored
<1>3. CASE orphaned' = orphaned /\ dropping' = dropping
  BY <1>1, <1>2, <1>3
<1>4. CASE \E c \in Cover : PruneCover(c)
  <2>1. PICK c \in Cover : PruneCover(c)
    BY <1>4
  <2>2. /\ orphaned'.paths \subseteq orphaned.paths \cup {c}
        /\ mirrored' = mirrored \ {c} /\ dropping' = dropping
    BY <1>1, <2>1 DEF PruneCover, FilesAreTheirOwn
  <2> QED
    BY <1>1, <2>2
<1>5. CASE CoverSweepEnds \/ CoverSweepFails
  BY <1>1, <1>2, <1>5 DEF CoverSweepEnds, CoverSweepFails, NoSweepYet
<1>6. CASE \E s \in CoverServers : DropBegins(s)
  BY <1>1, <1>6 DEF DropBegins, FilesAreTheirOwn
<1>7. CASE DropMirror
  BY <1>1, <1>7 DEF DropMirror, CoversTyped, CoversTypeOK
<1>8. CASE DropRows
  BY <1>1, <1>8 DEF DropRows
<1>9. CASE DropFiles \/ CoversCrash
  BY <1>1, <1>2, <1>9 DEF DropFiles, CoversCrash, NoDrop, NoSweepYet
<1> QED
  BY <1>1, <1>3, <1>4, <1>5, <1>6, <1>7, <1>8, <1>9
     DEF CoversNext, FillBegins, FillLooks, FillWrites, FillFails, FillWritten, FillRecords,
         FillEnds, EntityReturns, Vanishes, kvars

\* Files go only where nothing mirrored is concerned, unless one vanishes by itself.
LEMMA MirroredFilesStay ==
    CoversTyped /\ FilesAreTheirOwn /\ DoomedIsUnmirrored /\ [CoversNext]_kvars /\ Untroubled'
        => \A c \in mirrored : Settles(c) => Settles(c)'
<1>1. SUFFICES ASSUME CoversTyped, FilesAreTheirOwn, DoomedIsUnmirrored, [CoversNext]_kvars,
                      Untroubled', NEW c \in mirrored, Settles(c)
               PROVE  Settles(c)'
  OBVIOUS
<1>2. c \in Cover /\ c \in CoverFile /\ picture \in [CoverFile -> Cover \cup {NoFile, Torn}]
  BY <1>1 DEF CoversTyped, CoversTypeOK, CoverFile
<1>3. NoFile # Torn
  BY DEF NoFile, Torn
<1> USE DEF Settles
<1>4. CASE picture' = picture
  BY <1>1, <1>4
<1>5. ASSUME NEW k \in Filler, FillWrites(k) PROVE Settles(c)'
  BY <1>1, <1>2, <1>3, <1>5 DEF FillWrites
<1>6. ASSUME NEW k \in Filler, FillWritten(k) PROVE Settles(c)'
  <2>1. filler[k].cover # c => picture'[c] = picture[c]
    BY <1>2, <1>6 DEF FillWritten, CoverKey
  <2>2. filler[k].cover = c => picture'[c] \in {picture[c], c}
    BY <1>1, <1>2, <1>6 DEF FillWritten, CoverKey
  <2> QED
    BY <1>1, <2>1, <2>2
<1>7. CASE CoverSweepEnds
  BY <1>1, <1>2, <1>7 DEF CoverSweepEnds, WithoutFiles, DoomedIsUnmirrored
<1>8. CASE DropFiles
  BY <1>1, <1>2, <1>8 DEF DropFiles, WithoutFiles, DoomedIsUnmirrored
<1>9. CASE \E f \in CoverFile : Vanishes(f)
  BY <1>1, <1>9 DEF Vanishes, Mishap, Untroubled
<1> QED
  BY <1>1, <1>4, <1>5, <1>6, <1>7, <1>8, <1>9
     DEF CoversNext, FillBegins, FillLooks, FillFails, FillRecords, FillEnds, PruneCover,
         EntityReturns, CoverSweepFails, DropBegins, DropMirror, DropRows, CoversCrash, kvars

LEMMA NamedInductive ==
    ASSUME CoversTyped, FilesAreTheirOwn, DoomedIsUnmirrored, NamedIsThere,
           [CoversNext]_kvars, Untroubled'
    PROVE  NamedIsThere'
<1>1. /\ CoversTyped /\ FilesAreTheirOwn /\ DoomedIsUnmirrored /\ NamedIsThere
      /\ [CoversNext]_kvars /\ Untroubled'
  OBVIOUS
<1>2. mirrored' \subseteq mirrored /\ mirrored \subseteq Cover
  BY <1>1, MirrorOnlyShrinks DEF CoversTyped, CoversTypeOK
<1>3. \A c \in mirrored : Settles(c) => Settles(c)'
  BY <1>1, MirroredFilesStay
<1>4. \A c \in mirrored : thumbnail'[c] = thumbnail[c] \/ thumbnail'[c] = NoFile
          \/ \E k \in Filler : filler[k].at = "record" /\ filler[k].cover = c
  BY <1>1, <1>2 DEF CoversTyped, CoversTypeOK, CoversNext, FillBegins, FillLooks, FillWrites, FillFails, FillWritten,
       FillRecords, FillEnds, PruneCover, EntityReturns, CoverSweepEnds, CoverSweepFails,
       DropBegins, DropMirror, DropRows, DropFiles, Vanishes, CoversCrash, kvars
<1>5. \A c \in mirrored' : thumbnail'[c] # NoFile => Settles(c)'
  BY <1>1, <1>2, <1>3, <1>4 DEF NamedIsThere
<1>6. ASSUME NEW k \in Filler, NEW c \in mirrored', filler'[k].cover = c,
             filler'[k].at \in {"bytes", "record"}
      PROVE  Settles(c)'
  <2> USE <1>6
  <2>1. CASE filler'[k] = filler[k]
    BY <1>1, <1>2, <1>3, <2>1 DEF NamedIsThere
  <2>2. filler \in [Filler -> Filling]
    BY <1>1 DEF CoversTyped
  <2>3. ASSUME NEW d \in Cover, FillLooks(k, d), filler'[k] # filler[k]
        PROVE  Settles(c)'
    <3>1. c = d /\ picture[d] # NoFile /\ picture' = picture
      BY <2>2, <2>3 DEF FillLooks, CoverKey, Filling
    <3> QED
      BY <3>1 DEF Settles
  <2>4. CASE FillWrites(k)
    <3>1. filler[k].cover = c /\ c \in CoverFile
      BY <1>1, <2>2, <2>4 DEF FillWrites, CoversTyped, Filling, CoverFile
    <3>2. picture'[c] = Torn
      BY <1>1, <3>1, <2>4 DEF FillWrites, CoversTyped, CoversTypeOK, CoverKey
    <3> QED
      BY <3>2 DEF Settles, Torn, NoFile
  <2>5. CASE FillWritten(k)
    <3>1. filler[k].cover = c /\ filler[k].at = "bytes"
      BY <2>2, <2>5 DEF FillWritten, Filling
    <3> QED
      BY <1>1, <1>2, <1>3, <3>1 DEF NamedIsThere
  <2>6. ASSUME NEW j \in Filler, FillStep(j), filler'[k] # filler[k]
        PROVE  (\E d \in Cover : FillLooks(k, d)) \/ FillWrites(k) \/ FillWritten(k)
    <3>1. j = k
      BY <2>2, <2>6 DEF FillStep, FillBegins, FillLooks, FillWrites, FillFails, FillWritten,
         FillRecords, FillEnds
    <3>2. CASE (\E s \in CoverServers : FillBegins(k, s)) \/ FillFails(k) \/ FillRecords(k)
               \/ FillEnds(k)
      BY <2>2, <3>2 DEF FillBegins, FillFails, FillRecords, FillEnds, NoFill, Filling
    <3> QED
      BY <2>6, <3>1, <3>2 DEF FillStep
  <2>7. \/ filler' = filler \/ (\E j \in Filler : FillStep(j)) \/ CoversCrash
    BY <1>1 DEF CoversNext, PruneCover, EntityReturns, CoverSweepEnds, CoverSweepFails,
       DropBegins, DropMirror, DropRows, DropFiles, Vanishes, kvars, FillStep
  <2>8. ~CoversCrash
    BY DEF CoversCrash, NoFill
  <2> QED
    BY <2>1, <2>3, <2>4, <2>5, <2>6, <2>7, <2>8
<1> QED
  BY <1>5, <1>6 DEF NamedIsThere

LEMMA CoversInvInductive == CoversInv /\ [CoversNext]_kvars => CoversInv'
<1>1. SUFFICES ASSUME CoversInv, [CoversNext]_kvars PROVE CoversInv'
  OBVIOUS
<1>2. Untroubled' => Untroubled
  BY <1>1, MirrorOnlyShrinks
<1> QED
  BY <1>1, <1>2, CoversTypeInductive, OwnInductive, UnmirroredInductive, NamedInductive
     DEF CoversInv

\* Backfills beside each other, beside the sweep that prunes what they fill and
\* beside the deletion of its server (cover.rs, thumbnails.rs, delete_server): what
\* is mirrored is shown its own cover or none, and its row names a file that is there.
THEOREM CoversAreShown == CoversSpec => []CoverIsShown
<1>1. CoversInv => CoverIsShown
  <2>1. SUFFICES ASSUME CoversInv, NEW c \in mirrored, thumbnail[c] # NoFile
                 PROVE  picture[thumbnail[c]] \in
                           {c, Torn} \cup (IF Untroubled THEN {} ELSE {NoFile})
    BY DEF CoverIsShown, Untroubled
  <2>2. c \in Cover /\ thumbnail[c] = c /\ picture[c] \in {NoFile, Torn, c}
    BY <2>1 DEF CoversInv, CoversTyped, CoversTypeOK, FilesAreTheirOwn
  <2>3. Untroubled => picture[c] # NoFile
    BY <2>1, <2>2 DEF CoversInv, NamedIsThere, Settles
  <2> QED
    BY <2>2, <2>3
<1> QED
  BY <1>1, InitCovers, CoversInvInductive, PTL DEF CoversSpec
-------------------------------------------------------------------------------
(* Lists                                                                     *)

ListRecord == [stamp : Nat, members : Arrangement \cup {<<>>}]

\* Members are kept and compared as they are, so their type plays no part.
Errand(had) ==
    [mode : {"none", "bootstrap", "reconcile"},
     at : {"idle", "fetch", "save", "next", "prune", "unlist", "drop", "done"},
     page : Nat, known : [ListId -> Nat], had : {had}, seen : SUBSET ListId,
     answer : [ListId -> ListRecord], last : BOOLEAN, doomed : SUBSET ListId, calm : BOOLEAN]

OverLists(f) == f = [l \in ListId |-> f[l]]

ListsTyped ==
    /\ lists \in [ListId -> ListRecord]
    /\ listRow \in [ListId -> Nat]
    /\ OverLists(member)
    /\ buried \subseteq ListId
    /\ errand \in Errand(errand.had)
    /\ listState \in [status : {"none", "syncing", "idle", "error"}, page : Nat]
    /\ tally \in [edits : Nat, losses : Nat, stops : Nat]

\* How the step goes: where it can be in which mode.
ErrandGoes ==
    /\ errand.mode = "none" <=> errand.at = "idle"
    /\ errand.at = "done" => errand.mode = "bootstrap"
    /\ errand.at \in {"prune", "unlist", "drop"} => errand.mode = "reconcile"
    /\ errand.at \in {"unlist", "drop"} => errand.doomed # {}
    /\ errand.mode # "none" => listState.status = "syncing"

\* What is not there has no members, and what a page holds is there.
GoneHoldNothing ==
    /\ \A l \in ListId : lists[l].stamp = NoStamp => lists[l].members = <<>>
    /\ \A l \in ListId : listRow[l] = NoStamp => member[l] = <<>>
    /\ errand.at = "drop" => member[Min(errand.doomed)] = <<>>
    /\ \A l \in ListId : errand.answer[l] # NoList => errand.answer[l].stamp # NoStamp

Agrees(l) ==
    /\ listRow[l] = lists[l].stamp
    /\ SameMembers(member[l], lists[l].members)
    /\ l \notin buried

\* A reconciliation nothing has disturbed: what it has seen is what the pages so
\* far hold, and agrees; the rest is as it was found; what it will prune is what
\* the server has not.
CalmSweep ==
    (errand.mode = "reconcile" /\ errand.calm) =>
        /\ \A l \in errand.seen : l \in Listed /\ Agrees(l)
        /\ errand.at \in {"fetch", "save", "next"} =>
              \A l \in ListId \ errand.seen :
                 listRow[l] = errand.known[l] /\ member[l] = errand.had[l]
        /\ errand.at \in {"fetch", "save"} =>
              \A l \in Listed : l \in errand.seen <=> PageIndex(l) < errand.page
        /\ errand.at = "next" =>
              \A l \in Listed : l \in errand.seen <=> PageIndex(l) <= errand.page
        /\ errand.at = "save" =>
              \A l \in ListId : errand.answer[l] =
                 IF l \in Listed /\ PageIndex(l) = errand.page THEN lists[l] ELSE NoList
        /\ errand.at \in {"save", "next"} =>
              (errand.last <=> \A l \in Listed : PageIndex(l) <= errand.page)
        /\ errand.at \in {"prune", "unlist", "drop"} =>
              /\ errand.seen = Listed
              /\ errand.doomed \cap Listed = {}
              /\ \A l \in ListId \ Listed : listRow[l] # NoStamp => l \in errand.doomed

ListsInv == ListsTyped /\ ErrandGoes /\ GoneHoldNothing /\ CalmSweep

LEMMA PageIndexIs ==
    ASSUME ListsTyped, NEW l \in ListId
    PROVE  PageIndex(l) \in Nat
<1>1. IsFiniteSet({k \in Listed : k < l})
  BY ListsAssumption, FS_Subset DEF Listed
<1>2. Cardinality({k \in Listed : k < l}) \in Nat
  BY <1>1, FS_CardinalityType
<1> QED
  BY <1>2, ListsAssumption DEF PageIndex

LEMMA PagesStay ==
    ASSUME lists' = lists, kind' = kind
    PROVE  /\ Listed' = Listed
           /\ \A l \in ListId : PageIndex(l)' = PageIndex(l)
           /\ \A s, t : SameMembers(s, t)' <=> SameMembers(s, t)
BY DEF Listed, PageIndex, SameMembers

LEMMA FirstDoomed ==
    ASSUME ListsTyped, errand.doomed # {}
    PROVE  Min(errand.doomed) \in errand.doomed /\ Min(errand.doomed) \in ListId
<1>1. errand.doomed \subseteq ListId /\ errand.doomed \in SUBSET Nat
  BY ListsAssumption DEF ListsTyped, Errand
<1>2. \E x \in errand.doomed : \A y \in errand.doomed : x <= y
  BY <1>1, LeastNat
<1> QED
  BY <1>1, <1>2 DEF Min

LEMMA InitLists == ListsInit => ListsInv
<1>1. SUFFICES ASSUME ListsInit PROVE ListsInv
  OBVIOUS
<1>2. NoList \in ListRecord
  BY DEF NoList, ListRecord, NoStamp
<1>3. ListsTyped
  BY <1>1, <1>2 DEF ListsInit, ListsTyped, OverLists, Errand, NoErrand, NoStamp
<1>4. ErrandGoes /\ CalmSweep
  BY <1>1 DEF ListsInit, ErrandGoes, CalmSweep, NoErrand
<1>5. GoneHoldNothing
  BY <1>1 DEF ListsInit, GoneHoldNothing, NoErrand, NoList
<1> QED
  BY <1>3, <1>4, <1>5 DEF ListsInv

LEMMA RecordsStay == kind' = kind => ListRecord' = ListRecord
BY DEF ListRecord, Arrangement

LEMMA TypedShape ==
    ASSUME ListsTyped, kind' = kind, lists' \in [ListId -> ListRecord],
           listRow' \in [ListId -> Nat], OverLists(member'),
           buried' \subseteq ListId, errand' \in Errand(errand'.had),
           listState' \in [status : {"none", "syncing", "idle", "error"}, page : Nat],
           tally' \in [edits : Nat, losses : Nat, stops : Nat]
    PROVE  ListsTyped'
<1>1. ListRecord' = ListRecord
  BY RecordsStay
<1>2. errand' \in Errand(errand.had)'
  BY <1>1 DEF Errand
<1> QED
  BY <1>1, <1>2 DEF ListsTyped

LEMMA EditLists ==
    ASSUME ListsInv, NEW l \in ListId, EditList(l)
    PROVE  ListsInv'
<1>1. /\ kind' = kind /\ listRow' = listRow /\ member' = member /\ buried' = buried
      /\ listState' = listState /\ errand' = Disturbed
      /\ tally' = [tally EXCEPT !.edits = @ + 1]
  BY DEF EditList
<1>2. PICK entry : /\ lists' = [lists EXCEPT ![l] = entry]
                   /\ entry \in ListRecord
                   /\ entry.stamp = NoStamp => entry.members = <<>>
  <2>1. CASE lists' = [lists EXCEPT ![l] = NoList]
    <3>1. NoList \in ListRecord /\ NoList.members = <<>>
      BY DEF NoList, ListRecord, NoStamp
    <3> QED
      BY <2>1, <3>1
  <2>2. CASE lists' # [lists EXCEPT ![l] = NoList]
    <3>1. PICK m \in Arrangement, moves \in BOOLEAN :
             /\ lists[l] = NoList => moves
             /\ lists' = [lists EXCEPT ![l] =
                   [stamp |-> IF moves THEN tally.edits + 1 ELSE lists[l].stamp, members |-> m]]
      BY <2>2, ListsInv DEF EditList, ListsInv, ListsTyped
    <3>2. PICK entry : entry = [stamp |-> IF moves THEN tally.edits + 1 ELSE lists[l].stamp,
                                members |-> m]
      OBVIOUS
    <3>3. lists[l] \in ListRecord /\ tally.edits \in Nat
      BY DEF ListsInv, ListsTyped
    <3>4. lists[l].stamp = NoStamp => lists[l] = NoList
      BY <3>3 DEF ListsInv, GoneHoldNothing, ListRecord, NoList
    <3>5. entry.stamp \in Nat /\ entry.stamp # NoStamp
      BY <3>1, <3>2, <3>3, <3>4 DEF ListRecord, NoStamp
    <3> QED
      BY <3>1, <3>2, <3>5 DEF ListRecord
  <2> QED
    BY <2>1, <2>2
<1>3. /\ Disturbed \in Errand(errand.had)
      /\ Disturbed.had = errand.had /\ Disturbed.at = errand.at /\ Disturbed.mode = errand.mode
      /\ Disturbed.doomed = errand.doomed /\ Disturbed.answer = errand.answer
      /\ Disturbed.calm => errand.at = "idle"
  BY DEF Disturbed, ListsInv, ListsTyped, Errand
<1>4. ListsTyped'
  <2>1. lists' \in [ListId -> ListRecord]
    BY <1>2 DEF ListsInv, ListsTyped
  <2>2. tally' \in [edits : Nat, losses : Nat, stops : Nat]
    BY <1>1 DEF ListsInv, ListsTyped
  <2> QED
    BY <1>1, <1>3, <2>1, <2>2, TypedShape DEF ListsInv, ListsTyped
<1>5. ErrandGoes'
  BY <1>1, <1>3 DEF ListsInv, ErrandGoes
<1>6. GoneHoldNothing'
  BY <1>1, <1>2, <1>3 DEF ListsInv, ListsTyped, GoneHoldNothing
<1>7. CalmSweep'
  BY <1>1, <1>3 DEF ListsInv, ErrandGoes, CalmSweep
<1> QED
  BY <1>4, <1>5, <1>6, <1>7 DEF ListsInv

LEMMA LoseMembers ==
    ASSUME ListsInv, NEW x \in Member, MemberDeleted(x)
    PROVE  ListsInv'
<1>1. /\ kind' = kind /\ listRow' = listRow /\ lists' = lists /\ buried' = buried
      /\ listState' = listState /\ errand' = Disturbed
      /\ tally' = [tally EXCEPT !.losses = @ + 1]
  BY DEF MemberDeleted
<1>2. \A l \in ListId : member[l] = <<>> => member'[l] = <<>>
  BY DEF MemberDeleted, Contains
<1>3. /\ Disturbed \in Errand(errand.had)
      /\ Disturbed.had = errand.had /\ Disturbed.at = errand.at /\ Disturbed.mode = errand.mode
      /\ Disturbed.doomed = errand.doomed /\ Disturbed.answer = errand.answer
      /\ Disturbed.calm => errand.at = "idle"
  BY DEF Disturbed, ListsInv, ListsTyped, Errand
<1>4. OverLists(member')
  BY DEF MemberDeleted, OverLists
<1>5. ListsTyped'
  <2>1. tally' \in [edits : Nat, losses : Nat, stops : Nat]
    BY <1>1 DEF ListsInv, ListsTyped
  <2> QED
    BY <1>1, <1>3, <1>4, <2>1, TypedShape DEF ListsInv, ListsTyped
<1>6. ErrandGoes'
  BY <1>1, <1>3 DEF ListsInv, ErrandGoes
<1>7. GoneHoldNothing'
  <2>1. errand.at = "drop" => Min(errand.doomed) \in ListId
    BY FirstDoomed DEF ListsInv, ErrandGoes
  <2> QED
    BY <1>1, <1>2, <1>3, <2>1 DEF ListsInv, ListsTyped, GoneHoldNothing
<1>8. CalmSweep'
  BY <1>1, <1>3 DEF ListsInv, ErrandGoes, CalmSweep
<1> QED
  BY <1>5, <1>6, <1>7, <1>8 DEF ListsInv

LEMMA BeginsLists ==
    ASSUME ListsInv, NEW mode \in {"bootstrap", "reconcile"}, NEW fresh \in BOOLEAN,
           BeginLists(mode, fresh)
    PROVE  ListsInv'
<1>1. /\ kind' = kind /\ listRow' = listRow /\ lists' = lists /\ member' = member
      /\ buried' = buried /\ tally' = tally
  BY DEF BeginLists
<1>2. PICK old, page : /\ old \in [status : {"none", "syncing", "idle", "error"}, page : Nat]
                       /\ page \in Nat
                       /\ mode = "reconcile" => page = 0
                       /\ listState' = [old EXCEPT !.status = "syncing"]
                       /\ errand' = [NoErrand EXCEPT !.mode = mode, !.at = "fetch", !.page = page,
                                                     !.known = listRow, !.had = member]
  <2>1. [status |-> "none", page |-> 0] \in [status : {"none", "syncing", "idle", "error"}, page : Nat]
    OBVIOUS
  <2>2. listState \in [status : {"none", "syncing", "idle", "error"}, page : Nat]
    BY DEF ListsInv, ListsTyped
  <2> QED
    BY <2>1, <2>2 DEF BeginLists
<1>3. NoList \in ListRecord /\ NoStamp \in Nat
  BY DEF NoList, ListRecord, NoStamp
<1>4. /\ errand' = [mode |-> mode, at |-> "fetch", page |-> page, known |-> listRow,
                    had |-> member, seen |-> {}, answer |-> [l \in ListId |-> NoList],
                    last |-> FALSE, doomed |-> {}, calm |-> TRUE]
  BY <1>2 DEF NoErrand
<1>5. ListsTyped'
  <2>1. errand' \in Errand(member) /\ errand'.had = member
    <3>1. page \in Nat /\ listRow \in [ListId -> Nat]
      BY <1>2 DEF ListsInv, ListsTyped
    <3> QED
      BY <1>3, <1>4, <3>1 DEF Errand
  <2> QED
    BY <1>1, <1>2, <2>1, TypedShape DEF ListsInv, ListsTyped
<1>6. ErrandGoes'
  BY <1>2, <1>4 DEF ErrandGoes
<1>7. GoneHoldNothing'
  BY <1>1, <1>4 DEF ListsInv, GoneHoldNothing, ListsTyped
<1>8. CalmSweep'
  <2>1. SUFFICES ASSUME mode = "reconcile" PROVE CalmSweep'
    BY <1>4 DEF CalmSweep
  <2>2. \A l \in ListId : PageIndex(l)' \in Nat
    BY <1>1, PagesStay, PageIndexIs DEF ListsInv
  <2>3. Listed' \subseteq ListId
    BY DEF Listed
  <2>4. /\ errand'.seen = {} /\ errand'.at = "fetch" /\ errand'.page = 0
        /\ errand'.known = listRow /\ errand'.had = member
    <3>1. page = 0
      BY <1>2, <2>1
    <3> QED
      BY <1>4, <3>1
  <2>5. \A l \in Listed' : ~(PageIndex(l)' < 0)
    BY <2>2, <2>3
  <2> QED
    BY <1>1, <2>4, <2>5 DEF CalmSweep
<1> QED
  BY <1>5, <1>6, <1>7, <1>8 DEF ListsInv

LEMMA FetchesLists ==
    ASSUME ListsInv, FetchLists
    PROVE  ListsInv'
<1>1. /\ kind' = kind /\ listRow' = listRow /\ lists' = lists /\ member' = member
      /\ buried' = buried /\ tally' = tally /\ listState' = listState
  BY DEF FetchLists
<1>2. PICK answer, last :
         /\ answer = [l \in ListId |->
               IF l \in Listed /\ PageIndex(l) = errand.page THEN lists[l] ELSE NoList]
         /\ last = (\A l \in Listed : PageIndex(l) <= errand.page)
         /\ errand' = [errand EXCEPT !.at = "save", !.answer = answer, !.last = last]
         /\ errand.at = "fetch"
  BY DEF FetchLists
<1>3. errand \in Errand(errand.had) /\ lists \in [ListId -> ListRecord] /\ Listed \subseteq ListId
  BY DEF ListsInv, ListsTyped, Listed
<1>4. NoList \in ListRecord
  BY DEF NoList, ListRecord, NoStamp
<1>5. answer \in [ListId -> ListRecord] /\ last \in BOOLEAN
  BY <1>2, <1>3, <1>4
<1>6. errand' \in Errand(errand.had) /\ errand'.had = errand.had
  BY <1>2, <1>3, <1>5 DEF Errand
<1>7. ListsTyped'
  BY <1>1, <1>6, TypedShape DEF ListsInv, ListsTyped
<1>8. ErrandGoes'
  BY <1>1, <1>2, <1>3 DEF ListsInv, ErrandGoes, Errand
<1>9. GoneHoldNothing'
  BY <1>1, <1>2, <1>3 DEF ListsInv, GoneHoldNothing, Errand, Listed
<1>10. CalmSweep'
  <2>1. /\ errand'.mode = errand.mode /\ errand'.calm = errand.calm /\ errand'.seen = errand.seen
        /\ errand'.known = errand.known /\ errand'.had = errand.had /\ errand'.page = errand.page
        /\ errand'.at = "save" /\ errand'.answer = answer /\ errand'.last = last
    BY <1>2, <1>3 DEF Errand
  <2>2. /\ Listed' = Listed
        /\ \A l \in ListId : PageIndex(l)' = PageIndex(l)
        /\ \A s, t : SameMembers(s, t)' <=> SameMembers(s, t)
    BY <1>1, PagesStay
  <2>3. SUFFICES ASSUME errand.mode = "reconcile", errand.calm
                 PROVE  CalmSweep'
    BY <2>1 DEF CalmSweep
  <2>4. \A l \in errand.seen : l \in Listed' /\ Agrees(l)'
    BY <1>1, <2>2, <2>3 DEF ListsInv, CalmSweep, Agrees
  <2>5. \A l \in ListId \ errand.seen : listRow[l] = errand.known[l] /\ member[l] = errand.had[l]
    BY <1>2, <2>3 DEF ListsInv, CalmSweep
  <2>6. \A l \in Listed : l \in errand.seen <=> PageIndex(l) < errand.page
    BY <1>2, <2>3 DEF ListsInv, CalmSweep
  <2>7. \A l \in ListId : answer[l] =
            IF l \in Listed /\ PageIndex(l) = errand.page THEN lists[l] ELSE NoList
    BY <1>2
  <2> QED
    BY <1>1, <1>2, <1>3, <2>1, <2>2, <2>4, <2>5, <2>6, <2>7 DEF CalmSweep
<1> QED
  BY <1>7, <1>8, <1>9, <1>10 DEF ListsInv

LEMMA SavesLists ==
    ASSUME ListsInv, SaveLists
    PROVE  ListsInv'
<1>1. /\ kind' = kind /\ lists' = lists /\ tally' = tally /\ listState' = listState
      /\ errand.at = "save"
  BY DEF SaveLists
<1>2. /\ errand \in Errand(errand.had) /\ listRow \in [ListId -> Nat] /\ OverLists(member)
      /\ buried \subseteq ListId
  BY DEF ListsInv, ListsTyped
<1>3. PICK page : page = {l \in ListId : errand.answer[l] # NoList}
  OBVIOUS
<1>4. /\ errand' = [errand EXCEPT !.at = "next", !.seen = errand.seen \cup page]
      /\ buried' = IF errand.mode = "reconcile" THEN buried \ page ELSE buried
      /\ \A l \in ListId : listRow'[l] = IF ToWrite(l) THEN errand.answer[l].stamp ELSE listRow[l]
      /\ \A l \in ListId : member'[l] = IF ToWrite(l) THEN errand.answer[l].members ELSE member[l]
      /\ OverLists(member')
  BY <1>2, <1>3 DEF SaveLists, OverLists, Errand
<1>5. \A l \in ListId : errand.answer[l] \in ListRecord
  BY <1>2 DEF Errand
<1>6. \A l \in ListId : errand.answer[l].stamp \in Nat
  BY <1>5 DEF ListRecord
<1>7. listRow' \in [ListId -> Nat]
  BY <1>2, <1>6 DEF SaveLists
<1>8. /\ errand'.mode = errand.mode /\ errand'.calm = errand.calm /\ errand'.page = errand.page
      /\ errand'.known = errand.known /\ errand'.had = errand.had /\ errand'.last = errand.last
      /\ errand'.at = "next" /\ errand'.answer = errand.answer /\ errand'.doomed = errand.doomed
      /\ errand'.seen = errand.seen \cup page
      /\ errand' \in Errand(errand.had)
  BY <1>2, <1>3, <1>4 DEF Errand
<1>9. ListsTyped'
  BY <1>1, <1>2, <1>4, <1>7, <1>8, TypedShape DEF ListsInv, ListsTyped
<1>10. ErrandGoes'
  BY <1>1, <1>8 DEF ListsInv, ErrandGoes
<1>11. GoneHoldNothing'
  <2>1. \A l \in ListId : ToWrite(l) => errand.answer[l] # NoList
    BY DEF ToWrite
  <2>2. \A l \in ListId : listRow'[l] = NoStamp => member'[l] = <<>>
    BY <1>4, <2>1 DEF ListsInv, GoneHoldNothing
  <2> QED
    BY <1>1, <1>8, <2>2 DEF ListsInv, GoneHoldNothing
<1>12. CalmSweep'
  <2>1. SUFFICES ASSUME errand.mode = "reconcile", errand.calm
                 PROVE  CalmSweep'
    BY <1>8 DEF CalmSweep
  <2>2. /\ \A l \in errand.seen : l \in Listed /\ Agrees(l)
        /\ \A l \in ListId \ errand.seen : listRow[l] = errand.known[l] /\ member[l] = errand.had[l]
        /\ \A l \in Listed : l \in errand.seen <=> PageIndex(l) < errand.page
        /\ \A l \in ListId : errand.answer[l] =
              IF l \in Listed /\ PageIndex(l) = errand.page THEN lists[l] ELSE NoList
        /\ errand.last <=> \A l \in Listed : PageIndex(l) <= errand.page
    BY <1>1, <2>1 DEF ListsInv, CalmSweep
  <2>3. /\ Listed' = Listed
        /\ \A l \in ListId : PageIndex(l)' = PageIndex(l)
        /\ \A s, t : SameMembers(s, t)' <=> SameMembers(s, t)
    BY <1>1, PagesStay
  <2>4. /\ errand.page \in Nat /\ Listed \subseteq ListId /\ errand.seen \subseteq ListId
        /\ \A l \in Listed : lists[l] # NoList
    BY <1>2 DEF Errand, Listed, NoList
  <2>5. page = {l \in Listed : PageIndex(l) = errand.page}
    BY <1>3, <2>2, <2>4
  <2>6. \A l \in Listed : l \in errand'.seen <=> PageIndex(l) <= errand.page
    <3>1. \A l \in Listed : PageIndex(l) \in Nat
      BY <2>4, PageIndexIs DEF ListsInv
    <3> QED
      BY <1>8, <2>2, <2>4, <2>5, <3>1
  <2>7. ASSUME NEW l \in page PROVE l \in Listed' /\ Agrees(l)'
    <3>1. l \in ListId /\ l \in Listed /\ l \notin errand.seen /\ errand.answer[l] = lists[l]
      <4>1. PageIndex(l) \in Nat
        BY <2>4, <2>5, PageIndexIs DEF ListsInv
      <4> QED
        BY <2>2, <2>4, <2>5, <4>1
    <3>2. listRow'[l] = lists[l].stamp /\ SameMembers(member'[l], lists[l].members)
      <4>1. CASE ToWrite(l)
        BY <1>4, <3>1, <4>1 DEF SameMembers
      <4>2. CASE ~ToWrite(l)
        <5>1. listRow'[l] = errand.known[l] /\ member'[l] = errand.had[l]
          BY <1>4, <2>2, <3>1, <4>2
        <5>2. /\ errand.known[l] = errand.answer[l].stamp
              /\ SameMembers(errand.had[l], errand.answer[l].members)
          BY <2>4, <3>1, <4>2 DEF ToWrite
        <5> QED
          BY <3>1, <5>1, <5>2
      <4> QED
        BY <4>1, <4>2
    <3>3. l \notin buried'
      BY <1>4, <2>1
    <3> QED
      BY <1>1, <2>3, <3>1, <3>2, <3>3 DEF Agrees
  <2>8. ASSUME NEW l \in errand.seen, l \notin page PROVE l \in Listed' /\ Agrees(l)'
    <3>1. l \in ListId /\ l \in Listed /\ Agrees(l) /\ errand.answer[l] = NoList
      BY <1>3, <2>2, <2>4, <2>8
    <3>2. listRow'[l] = listRow[l] /\ member'[l] = member[l]
      BY <1>4, <3>1 DEF ToWrite
    <3>3. l \notin buried'
      BY <1>4, <3>1 DEF Agrees
    <3> QED
      BY <1>1, <2>3, <3>1, <3>2, <3>3 DEF Agrees
  <2>9. ASSUME NEW l \in ListId \ errand'.seen
        PROVE  listRow'[l] = errand.known[l] /\ member'[l] = errand.had[l]
    <3>1. l \notin errand.seen /\ l \notin page
      BY <1>8
    <3>2. ~ToWrite(l)
      BY <1>3, <3>1 DEF ToWrite
    <3> QED
      BY <1>4, <2>2, <3>1, <3>2
  <2> QED
    BY <1>8, <2>2, <2>3, <2>4, <2>6, <2>7, <2>8, <2>9 DEF CalmSweep
<1> QED
  BY <1>9, <1>10, <1>11, <1>12 DEF ListsInv

MovedOn(at, page, doomed) == [errand EXCEPT !.at = at, !.page = page, !.doomed = doomed]

LEMMA TurnsPage ==
    ASSUME ListsInv, NextLists
    PROVE  ListsInv'
<1>1. /\ kind' = kind /\ lists' = lists /\ listRow' = listRow /\ member' = member
      /\ buried' = buried /\ tally' = tally /\ errand.at = "next"
  BY DEF NextLists
<1>2. /\ errand \in Errand(errand.had) /\ Rowed \subseteq ListId
      /\ errand.mode # "none" /\ listState.status = "syncing"
  BY <1>1 DEF ListsInv, ListsTyped, ErrandGoes, Rowed
<1>3. PICK at, page, doomed :
         /\ errand' = MovedOn(at, page, doomed)
         /\ at \in {"done", "prune", "fetch"} /\ page \in Nat /\ doomed \subseteq ListId
         /\ at = "done" => errand.mode = "bootstrap"
         /\ at = "prune" => /\ errand.mode = "reconcile" /\ errand.last
                            /\ doomed = Rowed \ errand.seen
         /\ at = "fetch" => ~errand.last /\ page = errand.page + 1
  <2>1. CASE errand.last /\ errand.mode = "reconcile"
    <3>1. errand' = MovedOn("prune", errand.page, Rowed \ errand.seen)
      BY <1>2, <2>1 DEF NextLists, Errand, MovedOn
    <3> QED
      BY <1>2, <2>1, <3>1 DEF Errand
  <2>2. CASE errand.last /\ errand.mode # "reconcile"
    <3>1. errand' = MovedOn("done", errand.page, {})
      BY <1>2, <2>2 DEF NextLists, Errand, MovedOn
    <3> QED
      BY <1>2, <2>2, <3>1 DEF Errand
  <2>3. CASE ~errand.last
    <3>1. errand' = MovedOn("fetch", errand.page + 1, errand.doomed)
      BY <1>2, <2>3 DEF NextLists, Errand, MovedOn
    <3> QED
      BY <1>2, <2>3, <3>1 DEF Errand
  <2> QED
    BY <2>1, <2>2, <2>3
<1>4. /\ errand'.mode = errand.mode /\ errand'.calm = errand.calm /\ errand'.page = page
      /\ errand'.known = errand.known /\ errand'.had = errand.had /\ errand'.seen = errand.seen
      /\ errand'.at = at /\ errand'.answer = errand.answer /\ errand'.doomed = doomed
      /\ errand'.last = errand.last
      /\ errand' \in Errand(errand.had)
  BY <1>2, <1>3 DEF Errand, MovedOn
<1>5. /\ listState' \in [status : {"none", "syncing", "idle", "error"}, page : Nat]
      /\ listState'.status = "syncing"
  <2>1. errand.page + 1 \in Nat
    BY <1>2 DEF Errand
  <2> QED
    BY <1>2, <2>1 DEF NextLists, ListsInv, ListsTyped
<1>6. ListsTyped'
  BY <1>1, <1>4, <1>5, TypedShape DEF ListsInv, ListsTyped
<1>7. ErrandGoes'
  BY <1>2, <1>3, <1>4, <1>5 DEF ErrandGoes
<1>8. GoneHoldNothing'
  BY <1>1, <1>3, <1>4 DEF ListsInv, GoneHoldNothing
<1>9. CalmSweep'
  <2>1. SUFFICES ASSUME errand.mode = "reconcile", errand.calm
                 PROVE  CalmSweep'
    BY <1>4 DEF CalmSweep
  <2>2. /\ \A l \in errand.seen : l \in Listed /\ Agrees(l)
        /\ \A l \in ListId \ errand.seen : listRow[l] = errand.known[l] /\ member[l] = errand.had[l]
        /\ \A l \in Listed : l \in errand.seen <=> PageIndex(l) <= errand.page
        /\ errand.last <=> \A l \in Listed : PageIndex(l) <= errand.page
    BY <1>1, <2>1 DEF ListsInv, CalmSweep
  <2>3. /\ Listed' = Listed
        /\ \A l \in ListId : PageIndex(l)' = PageIndex(l)
        /\ \A s, t : SameMembers(s, t)' <=> SameMembers(s, t)
    BY <1>1, PagesStay
  <2>4. \A l \in errand.seen : l \in Listed' /\ Agrees(l)'
    BY <1>1, <2>2, <2>3 DEF Agrees
  <2>5. \A l \in Listed : PageIndex(l) \in Nat /\ l \in ListId
    BY PageIndexIs DEF ListsInv, Listed
  <2>6. at = "fetch" => \A l \in Listed : l \in errand.seen <=> PageIndex(l) < page
    BY <1>2, <1>3, <2>2, <2>5 DEF Errand
  <2>7. at = "prune" => /\ errand.seen = Listed
                        /\ doomed \cap Listed = {}
                        /\ \A l \in ListId \ Listed : listRow[l] # NoStamp => l \in doomed
    BY <1>3, <2>2, <2>5 DEF Rowed
  <2> QED
    BY <1>1, <1>3, <1>4, <2>1, <2>2, <2>3, <2>4, <2>5, <2>6, <2>7 DEF CalmSweep
<1> QED
  BY <1>6, <1>7, <1>8, <1>9 DEF ListsInv

LEMMA PrunesLists ==
    ASSUME ListsInv, BuryList \/ UnlistMembers \/ DropList
    PROVE  ListsInv'
<1>1. /\ kind' = kind /\ lists' = lists /\ tally' = tally /\ listState' = listState
      /\ errand.at \in {"prune", "unlist", "drop"} /\ errand.doomed # {}
  BY DEF BuryList, UnlistMembers, DropList, ListsInv, ErrandGoes
<1>2. /\ errand \in Errand(errand.had) /\ listRow \in [ListId -> Nat] /\ OverLists(member)
      /\ buried \subseteq ListId /\ errand.mode = "reconcile" /\ listState.status = "syncing"
  BY <1>1 DEF ListsInv, ListsTyped, ErrandGoes
<1>3. PICK first \in ListId : first = Min(errand.doomed) /\ first \in errand.doomed
  BY <1>1, FirstDoomed DEF ListsInv
<1>4. PICK at, doomed :
         /\ errand' = [errand EXCEPT !.at = at, !.doomed = doomed]
         /\ doomed \subseteq errand.doomed
         /\ \/ /\ BuryList /\ at = "unlist" /\ doomed = errand.doomed
            \/ /\ UnlistMembers /\ at = "drop" /\ doomed = errand.doomed
            \/ /\ DropList /\ at = "prune" /\ doomed = errand.doomed \ {first}
  <2>1. CASE BuryList
    <3>1. errand' = [errand EXCEPT !.at = "unlist", !.doomed = errand.doomed]
      BY <1>2, <2>1 DEF BuryList, Errand
    <3> QED
      BY <2>1, <3>1
  <2>2. CASE UnlistMembers
    <3>1. errand' = [errand EXCEPT !.at = "drop", !.doomed = errand.doomed]
      BY <1>2, <2>2 DEF UnlistMembers, Errand
    <3> QED
      BY <2>2, <3>1
  <2>3. CASE DropList
    <3>1. errand' = [errand EXCEPT !.at = "prune", !.doomed = errand.doomed \ {first}]
      BY <1>2, <1>3, <2>3 DEF DropList
    <3> QED
      BY <2>3, <3>1
  <2> QED
    BY <2>1, <2>2, <2>3
<1>5. /\ errand'.mode = errand.mode /\ errand'.calm = errand.calm /\ errand'.page = errand.page
      /\ errand'.known = errand.known /\ errand'.had = errand.had /\ errand'.seen = errand.seen
      /\ errand'.at = at /\ errand'.answer = errand.answer /\ errand'.doomed = doomed
      /\ errand'.last = errand.last
      /\ errand' \in Errand(errand.had)
  BY <1>2, <1>4 DEF Errand
<1>6. /\ listRow' \in [ListId -> Nat] /\ OverLists(member') /\ buried' \subseteq ListId
      /\ buried' \subseteq buried \cup {first}
      /\ \A l \in ListId \ {first} : listRow'[l] = listRow[l] /\ member'[l] = member[l]
      /\ member'[first] \in {<<>>, member[first]}
      /\ listRow'[first] # NoStamp => listRow'[first] = listRow[first]
      /\ UnlistMembers => member'[first] = <<>>
      /\ DropList => member'[first] = member[first] /\ listRow'[first] = NoStamp
      /\ ~DropList => listRow' = listRow
      /\ BuryList => member' = member
  <2>1. CASE BuryList
    BY <1>2, <1>3, <2>1 DEF BuryList, UnlistMembers, DropList
  <2>2. CASE UnlistMembers
    BY <1>2, <1>3, <2>2 DEF BuryList, UnlistMembers, DropList, OverLists
  <2>3. CASE DropList
    BY <1>2, <1>3, <2>3 DEF BuryList, UnlistMembers, DropList, NoStamp
  <2> QED
    BY <2>1, <2>2, <2>3
<1>7. ListsTyped'
  BY <1>1, <1>5, <1>6, TypedShape DEF ListsInv, ListsTyped
<1>8. ErrandGoes'
  BY <1>1, <1>2, <1>4, <1>5 DEF ErrandGoes
<1>9. GoneHoldNothing'
  <2>1. \A l \in ListId : listRow'[l] = NoStamp => member'[l] = <<>>
    <3>1. \A l \in ListId \ {first} : listRow'[l] = NoStamp => member'[l] = <<>>
      BY <1>6 DEF ListsInv, GoneHoldNothing
    <3>2. DropList => member[first] = <<>>
      BY <1>3 DEF DropList, ListsInv, GoneHoldNothing
    <3>3. listRow'[first] = NoStamp => member'[first] = <<>>
      BY <1>4, <1>6, <3>2 DEF ListsInv, GoneHoldNothing
    <3> QED
      BY <3>1, <3>3
  <2>2. errand'.at = "drop" => member'[Min(errand'.doomed)] = <<>>
    BY <1>3, <1>4, <1>5, <1>6
  <2> QED
    BY <1>1, <1>5, <2>1, <2>2 DEF ListsInv, GoneHoldNothing
<1>10. CalmSweep'
  <2>1. SUFFICES ASSUME errand.calm
                 PROVE  CalmSweep'
    BY <1>5 DEF CalmSweep
  <2>2. /\ \A l \in errand.seen : l \in Listed /\ Agrees(l)
        /\ errand.seen = Listed
        /\ errand.doomed \cap Listed = {}
        /\ \A l \in ListId \ Listed : listRow[l] # NoStamp => l \in errand.doomed
    BY <1>1, <1>2, <2>1 DEF ListsInv, CalmSweep
  <2>3. /\ Listed' = Listed
        /\ \A s, t : SameMembers(s, t)' <=> SameMembers(s, t)
    BY <1>1, PagesStay
  <2>4. \A l \in errand.seen : l \in ListId /\ l # first
    BY <1>2, <1>3, <2>2 DEF Errand
  <2>5. \A l \in errand.seen : l \in Listed' /\ Agrees(l)'
    BY <1>1, <1>6, <2>2, <2>3, <2>4 DEF Agrees
  <2>6. \A l \in ListId \ Listed : listRow'[l] # NoStamp => l \in doomed
    BY <1>4, <1>6, <2>2
  <2> QED
    BY <1>1, <1>2, <1>4, <1>5, <2>1, <2>2, <2>3, <2>5, <2>6 DEF CalmSweep
<1> QED
  BY <1>7, <1>8, <1>9, <1>10 DEF ListsInv

LEMMA EndsLists ==
    ASSUME ListsInv, ListsDone \/ \E recorded \in BOOLEAN : ListsStop(recorded)
    PROVE  ListsInv'
<1>1. /\ kind' = kind /\ lists' = lists /\ listRow' = listRow /\ member' = member
      /\ buried' = buried /\ errand' = NoErrand
  BY DEF ListsDone, ListsStop
<1>2. NoList \in ListRecord /\ NoStamp \in Nat
  BY DEF NoList, ListRecord, NoStamp
<1>3. /\ NoErrand \in Errand([l \in ListId |-> <<>>]) /\ NoErrand.had = [l \in ListId |-> <<>>]
      /\ NoErrand.mode = "none" /\ NoErrand.at = "idle" /\ NoErrand.answer = [l \in ListId |-> NoList]
  BY <1>2 DEF NoErrand, Errand
<1>4. /\ listState' \in [status : {"none", "syncing", "idle", "error"}, page : Nat]
      /\ tally' \in [edits : Nat, losses : Nat, stops : Nat]
  BY DEF ListsDone, ListsStop, ListsInv, ListsTyped
<1>5. ListsTyped'
  BY <1>1, <1>3, <1>4, TypedShape DEF ListsInv, ListsTyped
<1>6. ErrandGoes' /\ CalmSweep'
  BY <1>1, <1>3 DEF ErrandGoes, CalmSweep
<1>7. GoneHoldNothing'
  BY <1>1, <1>3 DEF ListsInv, GoneHoldNothing
<1> QED
  BY <1>5, <1>6, <1>7 DEF ListsInv

LEMMA ListsRest ==
    ASSUME ListsInv, UNCHANGED lvars
    PROVE  ListsInv'
<1>1. /\ kind' = kind /\ lists' = lists /\ listRow' = listRow /\ member' = member
      /\ buried' = buried /\ errand' = errand /\ listState' = listState /\ tally' = tally
  BY DEF lvars
<1>2. ListsTyped'
  BY <1>1, TypedShape DEF ListsInv, ListsTyped
<1>3. ErrandGoes' /\ GoneHoldNothing'
  BY <1>1 DEF ListsInv, ErrandGoes, GoneHoldNothing
<1>4. CalmSweep'
  <2>1. /\ Listed' = Listed
        /\ \A l \in ListId : PageIndex(l)' = PageIndex(l)
        /\ \A l : Agrees(l)' <=> Agrees(l)
    BY <1>1, PagesStay DEF Agrees
  <2>2. Listed \subseteq ListId
    BY DEF Listed
  <2> QED
    BY <1>1, <2>1, <2>2 DEF ListsInv, CalmSweep
<1> QED
  BY <1>2, <1>3, <1>4 DEF ListsInv

LEMMA ListsInvInductive == ListsInv /\ [ListsNext]_lvars => ListsInv'
<1>1. SUFFICES ASSUME ListsInv, [ListsNext]_lvars PROVE ListsInv'
  OBVIOUS
<1> QED
  BY <1>1, EditLists, LoseMembers, BeginsLists, FetchesLists, SavesLists, TurnsPage,
     PrunesLists, EndsLists, ListsRest DEF ListsNext

\* A reconciliation of libraries, collections or read lists that nothing disturbed
\* (reconcile.rs, full.rs, prune.rs) leaves the server's lists in the mirror, with
\* exactly their members and no tombstone on one that is there: for any number of
\* lists, pages and edits before it, whatever earlier syncs left behind.
THEOREM ListsComeToAgree == ListsSpec => ListsAgree
<1>1. ListsInv /\ [ListsNext]_lvars =>
         ((errand.mode = "reconcile" /\ errand.calm /\ listState'.status = "idle")
            => \A l \in ListId :
                  /\ listRow'[l] = lists[l].stamp
                  /\ SameMembers(member'[l], lists[l].members)
                  /\ ~(l \in buried' /\ l \in Listed))
  <2>1. SUFFICES ASSUME ListsInv, [ListsNext]_lvars,
                        errand.mode = "reconcile", errand.calm, listState'.status = "idle",
                        NEW l \in ListId
                 PROVE  /\ listRow'[l] = lists[l].stamp
                        /\ SameMembers(member'[l], lists[l].members)
                        /\ ~(l \in buried' /\ l \in Listed)
    OBVIOUS
  <2>2. /\ errand \in Errand(errand.had) /\ listState.status = "syncing" /\ errand.at # "idle"
        /\ errand.at # "done"
    BY <2>1 DEF ListsInv, ListsTyped, ErrandGoes
  <2>3. ListsDone
    BY <2>1, <2>2 DEF ListsInv, ListsTyped, ListsNext, EditList, MemberDeleted, BeginLists, FetchLists,
       SaveLists, NextLists, BuryList, UnlistMembers, DropList, ListsStop, lvars
  <2>4. /\ errand.at = "prune" /\ errand.doomed = {}
        /\ listRow' = listRow /\ member' = member /\ buried' = buried
    BY <2>2, <2>3 DEF ListsDone
  <2>5. /\ \A k \in Listed : Agrees(k)
        /\ \A k \in ListId \ Listed : listRow[k] = NoStamp
    BY <2>1, <2>4 DEF ListsInv, CalmSweep
  <2>6. CASE l \in Listed
    BY <2>4, <2>5, <2>6 DEF Agrees
  <2>7. CASE l \notin Listed
    <3>1. listRow[l] = NoStamp /\ lists[l].stamp = NoStamp
      BY <2>5, <2>7 DEF Listed
    <3>2. member[l] = <<>> /\ lists[l].members = <<>>
      BY <2>1, <3>1 DEF ListsInv, GoneHoldNothing
    <3> QED
      BY <2>4, <2>7, <3>1, <3>2 DEF SameMembers
  <2> QED
    BY <2>6, <2>7
<1> QED
  BY <1>1, InitLists, ListsInvInductive, PTL DEF ListsSpec, ListsAgree

-------------------------------------------------------------------------------
(* Lists: types                                                              *)

Arrangements == SetToAllKPermutations(Member)

\* An arrangement is a sequence of members in which none comes twice.
LEMMA ArrangementIs ==
    ASSUME NEW s \in Arrangements
    PROVE  s \in Seq(Member) /\ Once(s)
<1>1. PICK held \in SUBSET Member : s \in SetToSeqs(held)
  BY DEF Arrangements, SetToAllKPermutations
<1>2. IsFiniteSet(held)
  BY ListsAssumption, FS_Subset
<1>3. PICK n : n = Cardinality(held)
  OBVIOUS
<1>4. n \in Nat
  BY <1>2, <1>3, FS_CardinalityType
<1>5. s \in [1 .. n -> held] /\ \A i, j \in 1 .. n : i # j => s[i] # s[j]
  BY <1>1, <1>3 DEF SetToSeqs
<1>6. s \in Seq(Member) /\ Len(s) = n
  BY <1>4, <1>5
<1> QED
  BY <1>5, <1>6 DEF Once

LEMMA IsArrangement ==
    ASSUME NEW s \in Seq(Member), Once(s)
    PROVE  s \in Arrangements
<1>1. PICK n : n = Len(s)
  OBVIOUS
<1>2. n \in Nat /\ s \in [1 .. n -> Member]
  BY <1>1
<1>3. PICK held : held = {s[i] : i \in 1 .. n}
  OBVIOUS
<1>4. held \in SUBSET Member /\ s \in [1 .. n -> held]
  BY <1>2, <1>3
<1>5. \A i, j \in 1 .. n : s[i] = s[j] => i = j
  BY <1>1 DEF Once
<1>6. s \in Bijection(1 .. n, held)
  BY <1>3, <1>4, <1>5 DEF Bijection, Injection, Surjection, IsInjective
<1>7. IsFiniteSet(1 .. n) /\ Cardinality(1 .. n) = n
  BY <1>2, FS_Interval
<1>8. ExistsBijection(1 .. n, held)
  BY <1>6 DEF ExistsBijection
<1>9. Cardinality(held) = n
  BY <1>7, <1>8, FS_Bijection
<1>10. s \in SetToSeqs(held)
  BY <1>4, <1>5, <1>9 DEF SetToSeqs
<1> QED
  BY <1>4, <1>10 DEF Arrangements, SetToAllKPermutations

LEMMA NothingIsArranged == <<>> \in Arrangements
<1>1. <<>> \in Seq(Member) /\ Len(<<>>) = 0
  OBVIOUS
<1>2. Once(<<>>)
  BY <1>1 DEF Once
<1> QED
  BY <1>1, <1>2, IsArrangement

LEMMA SiftedIsArranged ==
    ASSUME NEW s \in Arrangements, NEW kept
    PROVE  Sift(s, kept) \in Arrangements
<1>1. s \in Seq(Member) /\ Once(s)
  BY ArrangementIs
<1>2. PICK r : r = Sift(s, kept)
  OBVIOUS
<1>3. r \in Seq(Member) /\ Once(r)
  BY <1>1, <1>2, SiftOnce
<1> QED
  BY <1>2, <1>3, IsArrangement

\* A list as the server has it, or nothing.
Entry == [stamp : 0 .. MaxEdits, members : Arrangements]

\* ListsInv leaves the members untyped and the stamps unbounded.
ListsKept ==
    /\ lists \in [ListId -> Entry]
    /\ listRow \in [ListId -> 0 .. MaxEdits]
    /\ member \in [ListId -> Arrangements]
    /\ errand.answer \in [ListId -> Entry]

LEMMA NoListIsEntry == NoList \in Entry
BY NothingIsArranged, ListsAssumption DEF NoList, Entry, NoStamp

LEMMA KeptAtFirst == ListsInit => ListsKept
BY NoListIsEntry, NothingIsArranged, ListsAssumption DEF ListsInit, ListsKept, NoErrand, NoStamp

LEMMA KeptOn == ListsInv /\ ListsKept /\ [ListsNext]_lvars => ListsKept'
<1>1. SUFFICES ASSUME ListsInv, ListsKept, [ListsNext]_lvars PROVE ListsKept'
  OBVIOUS
<1>2. /\ lists \in [ListId -> Entry]
      /\ listRow \in [ListId -> 0 .. MaxEdits]
      /\ member \in [ListId -> Arrangements]
      /\ errand.answer \in [ListId -> Entry]
  BY <1>1 DEF ListsKept
<1>3. tally \in [edits : Nat, losses : Nat, stops : Nat] /\ errand \in Errand(errand.had)
  BY <1>1 DEF ListsInv, ListsTyped
<1>4. NoErrand.answer \in [ListId -> Entry]
  BY NoListIsEntry DEF NoErrand
<1>5. errand' = Disturbed => errand'.answer = errand.answer
  BY <1>3 DEF Disturbed, Errand
<1>6. ASSUME NEW l \in ListId, EditList(l) PROVE ListsKept'
  <2>1. listRow' = listRow /\ member' = member /\ errand'.answer = errand.answer
    BY <1>5, <1>6 DEF EditList
  <2>2. PICK entry \in Entry : lists' = [lists EXCEPT ![l] = entry]
    <3>1. CASE lists' = [lists EXCEPT ![l] = NoList]
      BY <3>1, NoListIsEntry
    <3>2. CASE lists' # [lists EXCEPT ![l] = NoList]
      <4>1. PICK m \in Arrangement, moves \in BOOLEAN :
               lists' = [lists EXCEPT ![l] =
                   [stamp |-> IF moves THEN tally.edits + 1 ELSE @.stamp, members |-> m]]
        BY <1>6, <3>2 DEF EditList
      <4>2. PICK entry : entry = [stamp |-> IF moves THEN tally.edits + 1 ELSE lists[l].stamp,
                                  members |-> m]
        OBVIOUS
      <4>3. lists' = [lists EXCEPT ![l] = entry]
        BY <1>2, <4>1, <4>2
      <4>4. m \in Arrangements
        BY NothingIsArranged DEF Arrangement, Arrangements
      <4>5. tally.edits + 1 \in 0 .. MaxEdits
        BY <1>3, <1>6, ListsAssumption DEF EditList
      <4>6. lists[l].stamp \in 0 .. MaxEdits
        BY <1>2 DEF Entry
      <4>7. entry \in Entry
        BY <4>2, <4>4, <4>5, <4>6 DEF Entry
      <4> QED
        BY <4>3, <4>7
    <3> QED
      BY <3>1, <3>2
  <2> QED
    BY <1>2, <2>1, <2>2 DEF ListsKept
<1>7. ASSUME NEW x \in Member, MemberDeleted(x) PROVE ListsKept'
  <2>1. listRow' = listRow /\ lists' = lists /\ errand'.answer = errand.answer
    BY <1>5, <1>7 DEF MemberDeleted
  <2>2. \A l \in ListId : Sift(member[l], Member \ {x}) \in Arrangements
    BY <1>2, SiftedIsArranged
  <2>3. member' \in [ListId -> Arrangements]
    BY <1>2, <1>7, <2>2 DEF MemberDeleted
  <2> QED
    BY <1>2, <2>1, <2>3 DEF ListsKept
<1>8. ASSUME FetchLists PROVE ListsKept'
  <2>1. lists' = lists /\ listRow' = listRow /\ member' = member
    BY <1>8 DEF FetchLists
  <2>2. errand'.answer = [l \in ListId |->
              IF l \in Listed /\ PageIndex(l) = errand.page THEN lists[l] ELSE NoList]
    BY <1>3, <1>8 DEF FetchLists, Errand
  <2>3. errand'.answer \in [ListId -> Entry]
    BY <1>2, <2>2, NoListIsEntry
  <2> QED
    BY <1>2, <2>1, <2>3 DEF ListsKept
<1>9. ASSUME SaveLists PROVE ListsKept'
  <2>1. \A l \in ListId : errand.answer[l].stamp \in 0 .. MaxEdits /\ errand.answer[l].members \in Arrangements
    BY <1>2 DEF Entry
  <2>2. listRow' \in [ListId -> 0 .. MaxEdits] /\ member' \in [ListId -> Arrangements]
    BY <1>2, <1>9, <2>1 DEF SaveLists
  <2>3. lists' = lists /\ errand'.answer = errand.answer
    BY <1>3, <1>9 DEF SaveLists, Errand
  <2> QED
    BY <1>2, <2>2, <2>3 DEF ListsKept
<1>10. ASSUME \/ \E mode \in {"bootstrap", "reconcile"}, fresh \in BOOLEAN : BeginLists(mode, fresh)
              \/ ListsDone
              \/ \E recorded \in BOOLEAN : ListsStop(recorded)
       PROVE  ListsKept'
  <2>1. lists' = lists /\ listRow' = listRow /\ member' = member
    BY <1>10 DEF BeginLists, ListsDone, ListsStop
  <2>2. errand'.answer = NoErrand.answer
    BY <1>10 DEF BeginLists, ListsDone, ListsStop, NoErrand
  <2> QED
    BY <1>2, <1>4, <2>1, <2>2 DEF ListsKept
<1>11. ASSUME NextLists \/ BuryList PROVE ListsKept'
  <2>1. lists' = lists /\ listRow' = listRow /\ member' = member
    BY <1>11 DEF NextLists, BuryList
  <2>2. errand'.answer = errand.answer
    BY <1>3, <1>11 DEF NextLists, BuryList, Errand
  <2> QED
    BY <1>2, <2>1, <2>2 DEF ListsKept
<1>12. ASSUME UnlistMembers PROVE ListsKept'
  <2>1. lists' = lists /\ listRow' = listRow /\ errand'.answer = errand.answer
    BY <1>3, <1>12 DEF UnlistMembers, Errand
  <2>2. member' \in [ListId -> Arrangements]
    BY <1>2, <1>12, NothingIsArranged DEF UnlistMembers
  <2> QED
    BY <1>2, <2>1, <2>2 DEF ListsKept
<1>13. ASSUME DropList PROVE ListsKept'
  <2>1. lists' = lists /\ member' = member /\ errand'.answer = errand.answer
    BY <1>3, <1>13 DEF DropList, Errand
  <2>2. listRow' \in [ListId -> 0 .. MaxEdits]
    <3>1. PICK gone : gone = Min(errand.doomed)
      OBVIOUS
    <3>2. listRow' = [listRow EXCEPT ![gone] = 0]
      BY <1>13, <3>1 DEF DropList, NoStamp
    <3>3. PICK Stamp : Stamp = 0 .. MaxEdits
      OBVIOUS
    <3>4. 0 \in Stamp /\ listRow \in [ListId -> Stamp]
      BY <1>2, <3>3, ListsAssumption
    <3>5. listRow' \in [ListId -> Stamp]
      BY <3>2, <3>4
    <3> QED
      BY <3>3, <3>5
  <2> QED
    BY <1>2, <2>1, <2>2 DEF ListsKept
<1>14. CASE UNCHANGED lvars
  BY <1>2, <1>14 DEF lvars, ListsKept
<1> QED
  BY <1>1, <1>6, <1>7, <1>8, <1>9, <1>10, <1>11, <1>12, <1>13, <1>14 DEF ListsNext

\* The tables of lists keep their types: no list ever holds a member twice, on the server
\* or in the mirror, whatever deletions and prunes did to the member table in between.
THEOREM ListTypes == ListsSpec => []ListsTypeOK
<1>1. ListsInit => ListsInv /\ ListsKept
  BY InitLists, KeptAtFirst
<1>2. ListsInv /\ ListsKept /\ [ListsNext]_lvars => ListsInv' /\ ListsKept'
  BY ListsInvInductive, KeptOn
<1>3. ListsInv /\ ListsKept => ListsTypeOK
  <2>1. SUFFICES ASSUME ListsInv, ListsKept PROVE ListsTypeOK
    OBVIOUS
  <2>2. /\ lists \in [ListId -> [stamp : 0 .. MaxEdits, members : SetToAllKPermutations(Member)]]
        /\ listRow \in [ListId -> 0 .. MaxEdits]
        /\ member \in [ListId -> SetToAllKPermutations(Member)]
    BY <2>1 DEF ListsKept, Entry, Arrangements
  <2>3. /\ buried \subseteq ListId
        /\ listState.status \in {"none", "syncing", "idle", "error"}
        /\ errand.mode \in {"none", "bootstrap", "reconcile"}
    BY <2>1 DEF ListsInv, ListsTyped, Errand
  <2> QED
    BY <2>2, <2>3 DEF ListsTypeOK
<1> QED
  BY <1>1, <1>2, <1>3, PTL DEF ListsSpec

-------------------------------------------------------------------------------
(* Servers: what a gesture, a trouble and a row may be                       *)

Points ==
    {"secret", "readback", "undo", "profile", "unnote", "libraries", "cleanup", "enqueue",
     "append", "pick", "tell", "weigh", "row", "unpick", "mirror", "over"}

Gesturing ==
    [does : {"none", "add", "update", "switch", "delete", "done"}, at : Points,
     id : ServerId \cup {NoId}, key : Keys, old : Keys, wasActive : BOOLEAN, list : SUBSET Keys]

Requesting == [at : {"unsent", "key", "sent", "over"}, id : ServerId \cup {NoId}, key : Keys]
Retrying == [at : {"idle", "going"}, todo : SUBSET Keys, left : SUBSET Keys, some : BOOLEAN]
Memory == [at : {"none", "list", "active", "settled"}, id : ServerId \cup {NoId}]
Excuses == {"key", "note", "pick", "lost"}

\* Which gesture may stand where.
DeedFits(g) ==
    /\ gesture[g].does = "none" => gesture[g].at = "over" /\ gesture[g].list = {} /\ gesture[g].id = NoId
    /\ gesture[g].does # "none" => gesture[g].id \in ServerId
    /\ gesture[g].at \in {"secret", "readback", "undo", "profile", "libraries"} =>
           gesture[g].does \in {"add", "update"}
    /\ gesture[g].at \in {"weigh", "row", "unpick", "mirror"} => gesture[g].does = "delete"
    /\ gesture[g].at = "unnote" => gesture[g].does \in {"add", "update", "delete"}
    /\ gesture[g].at \in {"cleanup", "enqueue", "append"} => gesture[g].does \in {"update", "delete"}
    /\ gesture[g].at = "pick" => gesture[g].does \in {"add", "update", "switch"}
    /\ gesture[g].at # "over" => gesture[g].does \notin {"none", "done"}

Typed ==
    /\ profile \in [ServerId -> Keys] /\ pool \in [ServerId -> Keys]
    /\ vault \subseteq Keys /\ cleanups \subseteq Keys
    /\ note \in [ServerId -> [is : {"unknown", "valid", "expired"}, of : Keys]]
    /\ activePick \in ServerId \cup {NoId} /\ memo \in Memory
    /\ chosen \in ServerId \cup {NoId}
    /\ gesture \in [Gestures -> Gesturing] /\ retry \in Retrying
    /\ asking \in [Asker -> Requesting]
    /\ excuse \in [ServerId -> SUBSET Excuses]

Fits ==
    /\ \A g \in Gestures : DeedFits(g)
    /\ \A r \in Asker : Waiting(r) => asking[r].id \in ServerId
    /\ memo.at \in {"active", "settled"} => memo.id \in ServerId

\* A key that no row has had yet.
Fresh(g) == gesture[g].at \in {"secret", "readback", "profile"}

\* The gesture that makes the key has begun, or nobody will make it again.
Begun(k) ==
    IF k[2] = 0 THEN k[1] \in SavedAtFirst \/ \E g \in Gestures : gesture[g].id = k[1]
    ELSE gesture[k[2]].does # "none"

\* A key that no gesture writes into a row any more; one that no row has either.
Out(k) == k # NoKey /\ Begun(k) /\ \A g \in Gestures : Fresh(g) => gesture[g].key # k
Dead(k) == Out(k) /\ \A s \in ServerId : profile[s] # k

\* A gesture has a key in its hands.
Makes(g) ==
    /\ gesture[g].does \in {"add", "update"}
    /\ gesture[g].at \in {"secret", "readback", "undo", "profile", "unnote", "libraries"}

\* Every gesture makes a key of its own.
OwnKeys ==
    \A g \in Gestures :
        /\ Makes(g) =>
               gesture[g].key = <<gesture[g].id, IF gesture[g].does = "add" THEN 0 ELSE g>>
        /\ gesture[g].does = "add" =>
               /\ gesture[g].id \notin SavedAtFirst
               /\ \A h \in Gestures : gesture[h].does = "add" /\ gesture[h].id = gesture[g].id => h = g

\* What a gesture has made is there until it is in a row; what it undoes is in none.
NewKeys ==
    \A g \in Gestures :
        /\ Fresh(g) => \A s \in ServerId : profile[s] # gesture[g].key
        /\ gesture[g].at \in {"readback", "profile"} => gesture[g].key \in vault
        /\ gesture[g].at = "undo" =>
               (\A s \in ServerId : profile[s] # gesture[g].key) \/ "key" \in excuse[gesture[g].id]

\* A row's key is its own and no gesture's any more, and the keystore has it.
RowKeys ==
    \A s \in Saved :
        /\ Out(profile[s]) /\ profile[s][1] = s
        /\ profile[s] \in vault \/ "key" \in excuse[s]

\* Only dead keys are on their way out.
OldKeys ==
    \A g \in Gestures :
        /\ gesture[g].does \in {"update", "delete"} =>
               Out(gesture[g].old) /\ gesture[g].old[1] = gesture[g].id
        /\ gesture[g].does \in {"update", "delete"}
             /\ gesture[g].at \in {"unpick", "unnote", "libraries", "mirror", "cleanup", "enqueue", "append"}
             => Dead(gesture[g].old)
        /\ \A k \in gesture[g].list : Dead(k)

ListedKeys == \A k \in cleanups \cup retry.todo \cup retry.left : Dead(k)

KeyInv == OwnKeys /\ NewKeys /\ RowKeys /\ OldKeys /\ ListedKeys

\* A request has the row's key, and a verdict is about it, or a gesture is about to
\* clear the verdict, or the overlap is excused.
NoteInv ==
    /\ \A r \in Asker : Waiting(r) =>
           asking[r].key = profile[asking[r].id] \/ "note" \in excuse[asking[r].id]
    /\ \A s \in ServerId : note[s] # Unsaid =>
           \/ note[s].of = profile[s] \/ "note" \in excuse[s]
           \/ \E g \in Gestures : gesture[g].id = s /\ gesture[g].at \in {"unpick", "unnote"}

\* What was picked is there, or a deletion is about to take the pick back.
PickInv ==
    /\ \A g \in Gestures :
           gesture[g].at \in {"row", "unpick"} /\ activePick = gesture[g].id =>
               gesture[g].wasActive \/ "pick" \in excuse[gesture[g].id]
    /\ \/ activePick \in Saved \cup {NoId} \/ "pick" \in excuse[activePick]
       \/ \E g \in Gestures : gesture[g].at = "unpick" /\ gesture[g].id = activePick

\* What is picked is what the user picked last, and so it was when a deletion found
\* its own server picked.
ChosenInv ==
    /\ activePick = chosen \/ (activePick = NoId /\ "lost" \in excuse[chosen])
    /\ \A g \in Gestures :
           gesture[g].at \in {"row", "unpick"} /\ gesture[g].wasActive =>
               chosen \in {gesture[g].id, NoId} \/ "lost" \in excuse[chosen]

\* A deletion that has taken the row and has not told the shelf yet.
Late(g) ==
    /\ gesture[g].does = "delete"
    /\ gesture[g].at \in {"unpick", "unnote", "mirror", "cleanup", "enqueue", "append"}

\* The shelf shows what was picked, or what may stand in for it, or will be told.
MemoInv ==
    memo.at \in {"active", "settled"} =>
        \/ memo.at = "settled" /\ memo.id = activePick
        \/ /\ memo.at = "settled" => activePick = NoId
           /\ \/ memo.id \in Saved \/ "pick" \in excuse[memo.id]
              \/ \E g \in Gestures : Late(g) /\ gesture[g].id = memo.id
        \/ \E g \in Gestures : gesture[g].at = "tell"

-------------------------------------------------------------------------------
(* Types                                                                     *)

LEMMA KeysAre ==
    /\ 0 \notin ServerId /\ NoKey \in Keys /\ NoKey[1] = 0 /\ NoKey[2] = 0
    /\ SavedAtFirst \subseteq ServerId /\ MaxGestures \in Nat
    /\ \A s \in ServerId : FirstKey(s) \in Keys /\ FirstKey(s) # NoKey
    /\ \A s \in ServerId, g \in Gestures : <<s, g>> \in Keys /\ <<s, g>> # NoKey
    /\ \A g \in Gestures : g \in Nat /\ g # 0
    /\ \A k \in Keys \ {NoKey} : k[1] \in ServerId /\ k[2] \in Gestures \cup {0}
<1>1. 0 \notin ServerId /\ SavedAtFirst \subseteq ServerId /\ MaxGestures \in Nat
  BY ServersAssumption
<1>2. \A s \in ServerId, n \in 0 .. MaxGestures : <<s, n>> \in Keys /\ <<s, n>> # NoKey
  BY <1>1 DEF Keys, NoKey, NoId
<1>3. \A g \in Gestures : g \in Nat /\ g # 0 /\ g \in 0 .. MaxGestures
  BY <1>1 DEF Gestures
<1>4. 0 \in 0 .. MaxGestures
  BY <1>1
<1>5. \A n \in 0 .. MaxGestures : n \in Gestures \cup {0}
  BY <1>1 DEF Gestures
<1> QED
  BY <1>1, <1>2, <1>3, <1>4, <1>5 DEF Keys, NoKey, NoId, FirstKey

LEMMA PastIs ==
    ASSUME Typed, NEW g \in Gestures
    PROVE  /\ Past(g) \in Gesturing /\ Past(g).at = "over" /\ Past(g).list = {}
           /\ Past(g).does = IF gesture[g].does = "none" THEN "none" ELSE "done"
           /\ Past(g).id = IF gesture[g].does = "none" THEN NoId ELSE gesture[g].id
<1>1. NoGesture \in Gesturing /\ gesture[g] \in Gesturing
  BY KeysAre DEF NoGesture, Gesturing, Points, Typed
<1>2. CASE gesture[g].does = "none"
  BY <1>1, <1>2 DEF Past, NoGesture
<1>3. CASE gesture[g].does # "none"
  BY <1>1, <1>3 DEF Past, NoGesture, Gesturing
<1> QED
  BY <1>2, <1>3

LEMMA GoesToIs ==
    ASSUME Typed, NEW g \in Gestures, NEW place \in Points, GoesTo(g, place)
    PROVE  /\ gesture' \in [Gestures -> Gesturing]
           /\ \A h \in Gestures : h # g => gesture'[h] = gesture[h]
           /\ gesture'[g] = IF place = "over" THEN Past(g) ELSE [gesture[g] EXCEPT !.at = place]
<1> DEFINE x == IF place = "over" THEN Past(g) ELSE [gesture[g] EXCEPT !.at = place]
<1>1. gesture \in [Gestures -> Gesturing] /\ gesture' = [gesture EXCEPT ![g] = x]
  BY DEF Typed, GoesTo
<1>2. [gesture[g] EXCEPT !.at = place] \in Gesturing
  BY <1>1 DEF Gesturing
<1>3. x \in Gesturing
  BY <1>2, PastIs
<1> HIDE DEF x
<1>4. gesture' \in [Gestures -> Gesturing] /\ gesture'[g] = x
      /\ \A h \in Gestures : h # g => gesture'[h] = gesture[h]
  BY <1>1, <1>3
<1> QED
  BY <1>4 DEF x

\* What a gesture is when it begins.
LEMMA BeginIs ==
    ASSUME Typed, Fits, NEW g \in Gestures, NEW s \in ServerId,
           AddBegins(g, s) \/ UpdateBegins(g, s) \/ SwitchBegins(g, s) \/ DeleteBegins(g, s)
    PROVE  /\ gesture' \in [Gestures -> Gesturing]
           /\ \A h \in Gestures : h # g => gesture'[h] = gesture[h]
           /\ gesture[g].does = "none" /\ gesture'[g].id = s /\ gesture'[g].list = {}
           /\ AddBegins(g, s) => /\ gesture'[g].does = "add" /\ gesture'[g].at = "secret"
                                 /\ gesture'[g].key = <<s, 0>>
           /\ UpdateBegins(g, s) => /\ gesture'[g].does = "update" /\ gesture'[g].at = "secret"
                                    /\ gesture'[g].key = <<s, g>> /\ gesture'[g].old = profile[s]
           /\ SwitchBegins(g, s) => gesture'[g].does = "switch" /\ gesture'[g].at = "pick"
           /\ DeleteBegins(g, s) => /\ gesture'[g].does = "delete" /\ gesture'[g].at = "weigh"
                                    /\ gesture'[g].old = profile[s]
<1>1. NoGesture \in Gesturing /\ gesture \in [Gestures -> Gesturing] /\ profile[s] \in Keys
      /\ <<s, 0>> \in Keys /\ <<s, g>> \in Keys /\ gesture[g].does = "none"
  BY KeysAre DEF FirstKey, NoGesture, Gesturing, Points, Typed, AddBegins, UpdateBegins, SwitchBegins, DeleteBegins, IsNext
<1>2. ASSUME NEW x \in Gesturing, gesture' = [gesture EXCEPT ![g] = x]
      PROVE  /\ gesture' \in [Gestures -> Gesturing] /\ gesture'[g] = x
             /\ \A h \in Gestures : h # g => gesture'[h] = gesture[h]
  BY <1>1, <1>2
<1>3. ASSUME AddBegins(g, s)
      PROVE  /\ gesture' \in [Gestures -> Gesturing] /\ gesture'[g].id = s /\ gesture'[g].list = {}
             /\ \A h \in Gestures : h # g => gesture'[h] = gesture[h]
             /\ gesture'[g].does = "add" /\ gesture'[g].at = "secret" /\ gesture'[g].key = <<s, 0>>
  <2> DEFINE x == [NoGesture EXCEPT !.does = "add", !.at = "secret", !.id = s, !.key = <<s, 0>>]
  <2>1. x \in Gesturing /\ x.id = s /\ x.list = {} /\ x.does = "add" /\ x.at = "secret" /\ x.key = <<s, 0>>
    BY <1>1 DEF NoGesture, Gesturing, Points
  <2>2. gesture' = [gesture EXCEPT ![g] = x]
    BY <1>3 DEF AddBegins, FirstKey
  <2> HIDE DEF x
  <2> QED
    BY <1>2, <2>1, <2>2
<1>4. ASSUME UpdateBegins(g, s)
      PROVE  /\ gesture' \in [Gestures -> Gesturing] /\ gesture'[g].id = s /\ gesture'[g].list = {}
             /\ \A h \in Gestures : h # g => gesture'[h] = gesture[h]
             /\ gesture'[g].does = "update" /\ gesture'[g].at = "secret" /\ gesture'[g].key = <<s, g>> /\ gesture'[g].old = profile[s]
  <2> DEFINE x == [NoGesture EXCEPT !.does = "update", !.at = "secret", !.id = s, !.key = <<s, g>>,
                                    !.old = profile[s]]
  <2>1. x \in Gesturing /\ x.id = s /\ x.list = {} /\ x.does = "update" /\ x.at = "secret" /\ x.key = <<s, g>> /\ x.old = profile[s]
    BY <1>1 DEF NoGesture, Gesturing, Points
  <2>2. gesture' = [gesture EXCEPT ![g] = x]
    BY <1>4 DEF UpdateBegins, FirstKey
  <2> HIDE DEF x
  <2> QED
    BY <1>2, <2>1, <2>2
<1>5. ASSUME SwitchBegins(g, s)
      PROVE  /\ gesture' \in [Gestures -> Gesturing] /\ gesture'[g].id = s /\ gesture'[g].list = {}
             /\ \A h \in Gestures : h # g => gesture'[h] = gesture[h]
             /\ gesture'[g].does = "switch" /\ gesture'[g].at = "pick"
  <2> DEFINE x == [NoGesture EXCEPT !.does = "switch", !.at = "pick", !.id = s]
  <2>1. x \in Gesturing /\ x.id = s /\ x.list = {} /\ x.does = "switch" /\ x.at = "pick"
    BY <1>1 DEF NoGesture, Gesturing, Points
  <2>2. gesture' = [gesture EXCEPT ![g] = x]
    BY <1>5 DEF SwitchBegins, FirstKey
  <2> HIDE DEF x
  <2> QED
    BY <1>2, <2>1, <2>2
<1>6. ASSUME DeleteBegins(g, s)
      PROVE  /\ gesture' \in [Gestures -> Gesturing] /\ gesture'[g].id = s /\ gesture'[g].list = {}
             /\ \A h \in Gestures : h # g => gesture'[h] = gesture[h]
             /\ gesture'[g].does = "delete" /\ gesture'[g].at = "weigh" /\ gesture'[g].old = profile[s]
  <2> DEFINE x == [NoGesture EXCEPT !.does = "delete", !.at = "weigh", !.id = s, !.old = profile[s]]
  <2>1. x \in Gesturing /\ x.id = s /\ x.list = {} /\ x.does = "delete" /\ x.at = "weigh" /\ x.old = profile[s]
    BY <1>1 DEF NoGesture, Gesturing, Points
  <2>2. gesture' = [gesture EXCEPT ![g] = x]
    BY <1>6 DEF DeleteBegins, FirstKey
  <2> HIDE DEF x
  <2> QED
    BY <1>2, <2>1, <2>2
<1> QED
  BY <1>1, <1>3, <1>4, <1>5, <1>6

\* Which step moves a gesture where.  The one that reads the list of clean-ups and
\* the one that weighs a deletion note something on the way.
Same(g) ==
    /\ gesture'[g].does = gesture[g].does /\ gesture'[g].id = gesture[g].id
    /\ gesture'[g].key = gesture[g].key /\ gesture'[g].old = gesture[g].old

Leads(g, from, to) ==
    /\ Same(g) /\ gesture[g].at = from /\ gesture'[g].at = to
    /\ from # "enqueue" => gesture'[g].list = gesture[g].list
    /\ from # "weigh" => gesture'[g].wasActive = gesture[g].wasActive

Begins(g, s) == AddBegins(g, s) \/ UpdateBegins(g, s) \/ SwitchBegins(g, s) \/ DeleteBegins(g, s)

Outcomes(g, fails) ==
    \/ SecretSaved(g, fails) \/ SecretRead(g, fails) \/ SecretUndone(g, fails)
    \/ ProfileSaved(g, fails) \/ LibrariesSaved(g, fails)
    \/ CleanedUp(g, fails) \/ CleanupAppended(g, fails)
    \/ RowDeleted(g, fails) \/ Unpicked(g, fails) \/ NoteCleared(g, fails)
    \/ Picked(g, fails) \/ MirrorDeleted(g, fails)

Certain(g) == CleanupListed(g) \/ Told(g) \/ Weighed(g)

\* The steps that leave the gestures alone.
Aside ==
    \/ RetryBegins \/ \E fails \in BOOLEAN : RetryDeletes(fails) \/ RetryEnds(fails)
    \/ LookupBegins \/ LookupLists \/ LookupSettles
    \/ \E r \in Asker :
          \/ \E s \in ServerId : RequestBegins(r, s)
          \/ RequestSent(r)
          \/ \E verdict \in {"valid", "expired", "nothing"} : RequestAnswered(r, verdict)
    \/ UNCHANGED avars

LEMMA StepsAre ==
    ASSUME [ServersNext]_avars
    PROVE  \/ \E g \in Gestures, s \in ServerId : Begins(g, s)
           \/ \E g \in Gestures, fails \in BOOLEAN : Outcomes(g, fails)
           \/ \E g \in Gestures : Certain(g)
           \/ Aside \/ ServersCrash
BY DEF ServersNext, Begins, Outcomes, Certain, Aside

\* What happens to a gesture at its next step.
Onward(g) ==
    \/ Leads(g, "secret", "readback") /\ gesture[g].key \in vault'
    \/ Leads(g, "readback", "profile") /\ vault' = vault
    \/ Leads(g, "readback", "undo") /\ profile' = profile
    \/ Leads(g, "profile", "unnote") /\ profile' = [profile EXCEPT ![gesture[g].id] = gesture[g].key]
    \/ Leads(g, "profile", "undo") /\ profile' = profile
    \/ /\ Leads(g, "unnote", IF gesture[g].does = "delete" THEN "mirror" ELSE "libraries")
       /\ \/ note' = [note EXCEPT ![gesture[g].id] = Unsaid]
          \/ excuse' = Excused(gesture[g].id, "note", TRUE)
    \/ /\ gesture[g].does = "add" /\ Leads(g, "libraries", "undo")
       /\ excuse' = Excused(gesture[g].id, "key", TRUE)
    \/ gesture[g].does = "add" /\ Leads(g, "libraries", "pick")
    \/ gesture[g].does = "update" /\ Leads(g, "libraries", "cleanup")
    \/ Leads(g, "cleanup", "enqueue") \/ Leads(g, "cleanup", AfterCleanup(g))
    \/ Leads(g, "enqueue", "append") /\ gesture'[g].list = cleanups
    \/ Leads(g, "append", AfterCleanup(g))
    \/ Leads(g, "pick", "tell")
    \/ Leads(g, "weigh", "row") /\ gesture'[g].wasActive = (activePick = gesture[g].id) /\ activePick' = activePick
    \/ Leads(g, "row", "unpick") /\ profile' = [profile EXCEPT ![gesture[g].id] = NoKey]
    \/ /\ Leads(g, "unpick", "unnote")
       /\ \/ activePick' = IF gesture[g].wasActive THEN NoId ELSE activePick
          \/ excuse' = Excused(gesture[g].id, "pick", TRUE)
    \/ Leads(g, "mirror", "cleanup")

\* A gesture ends.
Ends(g) ==
    /\ gesture'[g] = Past(g)
    /\ \/ gesture[g].at \in {"secret", "readback", "undo", "libraries", "pick", "row"}
       \/ gesture[g].at = "tell" /\ memo' = NoMemo
       \/ gesture[g].at = "mirror" /\ excuse' = Excused(gesture[g].id, "pick", TRUE)

LEMMA StepIs ==
    ASSUME Typed, Fits, NEW g \in Gestures, NEW fails \in BOOLEAN, Outcomes(g, fails) \/ Certain(g)
    PROVE  /\ gesture' \in [Gestures -> Gesturing]
           /\ \A h \in Gestures : h # g => gesture'[h] = gesture[h]
           /\ Onward(g) \/ Ends(g)
<1> DEFINE Is(place) == /\ gesture' \in [Gestures -> Gesturing]
                        /\ \A h \in Gestures : h # g => gesture'[h] = gesture[h]
                        /\ IF place = "over" THEN gesture'[g] = Past(g)
                           ELSE Leads(g, gesture[g].at, place)
<1>1. ASSUME NEW place \in Points, GoesTo(g, place)
      PROVE  Is(place)
  <2>1. gesture[g] \in Gesturing
    BY DEF Typed
  <2>2. CASE place = "over"
    BY <1>1, <2>2, GoesToIs
  <2>3. CASE place # "over"
    <3>1. gesture'[g] = [gesture[g] EXCEPT !.at = place]
      BY <1>1, <2>3, GoesToIs
    <3>2. Leads(g, gesture[g].at, place)
      BY <2>1, <3>1 DEF Leads, Same, Gesturing
    <3> QED
      BY <1>1, <2>3, <3>2, GoesToIs
  <2> QED
    BY <2>2, <2>3
<1>2. DeedFits(g) /\ gesture[g] \in Gesturing
  BY DEF Fits, Typed
<1>3. AfterCleanup(g) \in {"tell", "pick"}
  BY DEF AfterCleanup
<1> HIDE DEF Is
<1>4. CASE SecretSaved(g, fails)
  <2>1. Is(IF fails THEN "over" ELSE "readback")
    BY <1>1, <1>4 DEF SecretSaved, Points
  <2>2. gesture[g].at = "secret" /\ (~fails => gesture[g].key \in vault')
    BY <1>4 DEF SecretSaved, Stands
  <2> QED
    BY <2>1, <2>2 DEF Is, Onward, Ends
<1>5. CASE SecretRead(g, fails)
  <2>1. PICK place \in {"undo", "over", "profile"} : GoesTo(g, place)
    BY <1>5 DEF SecretRead
  <2>2. Is(place)
    BY <1>1, <2>1 DEF Points
  <2>3. gesture[g].at = "readback" /\ vault' = vault /\ profile' = profile
    BY <1>5 DEF SecretRead, Stands
  <2> QED
    BY <2>2, <2>3 DEF Is, Onward, Ends
<1>6. CASE SecretUndone(g, fails)
  <2>1. Is("over") /\ gesture[g].at = "undo"
    BY <1>1, <1>6 DEF SecretUndone, Points, Stands
  <2> QED
    BY <2>1 DEF Is, Ends
<1>7. CASE ProfileSaved(g, fails)
  <2>1. Is(IF fails THEN "undo" ELSE "unnote")
    BY <1>1, <1>7 DEF ProfileSaved, Points
  <2>2. gesture[g].at = "profile"
        /\ profile' = IF fails THEN profile ELSE [profile EXCEPT ![gesture[g].id] = gesture[g].key]
    BY <1>7 DEF ProfileSaved, Stands
  <2> QED
    BY <2>1, <2>2 DEF Is, Onward
<1>8. CASE LibrariesSaved(g, fails)
  <2>1. gesture[g].at = "libraries" /\ gesture[g].does \in {"add", "update"}
        /\ excuse' = Excused(gesture[g].id, "key", fails /\ gesture[g].does = "add")
    BY <1>2, <1>8 DEF LibrariesSaved, Stands, DeedFits
  <2>2. CASE fails /\ gesture[g].does = "add"
    <3>1. GoesTo(g, "undo")
      BY <1>8, <2>2 DEF LibrariesSaved
    <3>2. Is("undo")
      BY <1>1, <3>1 DEF Points
    <3> QED
      BY <2>1, <2>2, <3>2 DEF Is, Onward
  <2>3. CASE fails /\ gesture[g].does # "add"
    <3>1. Is("over")
      BY <1>1, <1>8, <2>3 DEF LibrariesSaved, Points
    <3> QED
      BY <2>1, <3>1 DEF Is, Ends
  <2>4. CASE ~fails /\ gesture[g].does = "add"
    <3>1. Is("pick")
      BY <1>1, <1>8, <2>4 DEF LibrariesSaved, Points
    <3> QED
      BY <2>1, <2>4, <3>1 DEF Is, Onward
  <2>5. CASE ~fails /\ gesture[g].does # "add"
    <3>1. Is("cleanup")
      BY <1>1, <1>8, <2>5 DEF LibrariesSaved, Points
    <3> QED
      BY <2>1, <2>5, <3>1 DEF Is, Onward
  <2> QED
    BY <2>2, <2>3, <2>4, <2>5
<1>9. CASE CleanedUp(g, fails)
  <2>1. Is(IF fails THEN "enqueue" ELSE AfterCleanup(g)) /\ gesture[g].at = "cleanup"
    BY <1>1, <1>3, <1>9 DEF CleanedUp, Points, Stands
  <2> QED
    BY <1>3, <2>1 DEF Is, Onward
<1>10. CASE CleanupAppended(g, fails)
  <2>1. Is(AfterCleanup(g)) /\ gesture[g].at = "append"
    BY <1>1, <1>3, <1>10 DEF CleanupAppended, Points, Stands
  <2> QED
    BY <1>3, <2>1 DEF Is, Onward
<1>11. CASE Picked(g, fails)
  <2>1. Is(IF fails THEN "over" ELSE "tell") /\ gesture[g].at = "pick"
    BY <1>1, <1>11 DEF Picked, Points, Stands
  <2> QED
    BY <2>1 DEF Is, Onward, Ends
<1>12. CASE MirrorDeleted(g, fails)
  <2>1. Is(IF fails THEN "over" ELSE "cleanup") /\ gesture[g].at = "mirror"
        /\ excuse' = Excused(gesture[g].id, "pick", fails)
    BY <1>1, <1>12 DEF MirrorDeleted, Points, Stands
  <2> QED
    BY <2>1 DEF Is, Onward, Ends
<1>13. CASE NoteCleared(g, fails)
  <2>1. gesture[g].at = "unnote" /\ GoesTo(g, IF gesture[g].does = "delete" THEN "mirror" ELSE "libraries")
    BY <1>13 DEF NoteCleared, Stands
  <2>2. Is(IF gesture[g].does = "delete" THEN "mirror" ELSE "libraries")
    BY <1>1, <2>1 DEF Points
  <2>3. CASE fails
    <3>1. fails = TRUE /\ excuse' = Excused(gesture[g].id, "note", fails)
      BY <1>13, <2>3 DEF NoteCleared
    <3>2. excuse' = Excused(gesture[g].id, "note", TRUE)
      BY <3>1
    <3> QED
      BY <2>1, <2>2, <3>2 DEF Is, Onward
  <2>4. CASE ~fails
    <3>1. note' = [note EXCEPT ![gesture[g].id] = Unsaid]
      BY <1>13, <2>4 DEF NoteCleared
    <3> QED
      BY <2>1, <2>2, <3>1 DEF Is, Onward
  <2> QED
    BY <2>3, <2>4
<1>14. CASE CleanupListed(g)
  <2> DEFINE x == [gesture[g] EXCEPT !.list = cleanups, !.at = "append"]
  <2>1. gesture' = [gesture EXCEPT ![g] = x] /\ gesture[g].at = "enqueue"
    BY <1>14 DEF CleanupListed, Stands
  <2>2. x \in Gesturing /\ x.list = cleanups /\ x.at = "append" /\ x.does = gesture[g].does
        /\ x.id = gesture[g].id /\ x.key = gesture[g].key /\ x.old = gesture[g].old
        /\ x.wasActive = gesture[g].wasActive
    BY <1>2 DEF Gesturing, Points, Typed
  <2> HIDE DEF x
  <2>3. gesture' \in [Gestures -> Gesturing] /\ gesture'[g] = x
        /\ \A h \in Gestures : h # g => gesture'[h] = gesture[h]
    BY <2>1, <2>2 DEF Typed
  <2> QED
    BY <2>1, <2>2, <2>3 DEF Onward, Leads, Same
<1>15. CASE Told(g)
  <2>1. Is("over") /\ gesture[g].at = "tell" /\ memo' = NoMemo
    BY <1>1, <1>15 DEF Told, Points, Stands, MemoAfter
  <2> QED
    BY <2>1 DEF Is, Ends
<1>16. CASE Weighed(g)
  <2>1. PICK was \in BOOLEAN : was = (activePick = gesture[g].id)
    OBVIOUS
  <2> DEFINE x == [gesture[g] EXCEPT !.wasActive = was, !.at = "row"]
  <2>2. gesture' = [gesture EXCEPT ![g] = x] /\ gesture[g].at = "weigh" /\ activePick' = activePick
    BY <1>16, <2>1 DEF Weighed, WasActive, Stands
  <2>3. x \in Gesturing /\ x.wasActive = was /\ x.at = "row" /\ x.does = gesture[g].does
        /\ x.id = gesture[g].id /\ x.key = gesture[g].key /\ x.old = gesture[g].old
        /\ x.list = gesture[g].list
    BY <1>2 DEF Gesturing, Points
  <2> HIDE DEF x
  <2>4. gesture' \in [Gestures -> Gesturing] /\ gesture'[g] = x
        /\ \A h \in Gestures : h # g => gesture'[h] = gesture[h]
    BY <2>2, <2>3 DEF Typed
  <2> QED
    BY <2>1, <2>2, <2>3, <2>4 DEF Onward, Leads, Same
<1>17. CASE RowDeleted(g, fails)
  <2>1. gesture[g].at = "row"
    BY <1>17 DEF RowDeleted, Stands
  <2>2. CASE gesture[g].id \in Saved /\ ~fails
    <3>1. Is("unpick") /\ profile' = [profile EXCEPT ![gesture[g].id] = NoKey]
      BY <1>1, <1>17, <2>2 DEF RowDeleted, Points
    <3> QED
      BY <2>1, <3>1 DEF Is, Onward
  <2>3. CASE ~(gesture[g].id \in Saved /\ ~fails)
    <3>1. Is("over")
      BY <1>1, <1>17, <2>3 DEF RowDeleted, Points
    <3> QED
      BY <2>1, <3>1 DEF Is, Ends
  <2> QED
    BY <2>2, <2>3
<1>18. CASE Unpicked(g, fails)
  <2>1. Is("unnote") /\ gesture[g].at = "unpick"
    BY <1>1, <1>18 DEF Unpicked, Points, Stands
  <2>2. CASE fails
    <3>1. fails = TRUE /\ excuse' = Excused(gesture[g].id, "pick", fails)
      BY <1>18, <2>2 DEF Unpicked
    <3>2. excuse' = Excused(gesture[g].id, "pick", TRUE)
      BY <3>1
    <3> QED
      BY <2>1, <3>2 DEF Is, Onward
  <2>3. CASE ~fails
    <3>1. activePick' = IF gesture[g].wasActive THEN NoId ELSE activePick
      BY <1>18, <2>3 DEF Unpicked
    <3> QED
      BY <2>1, <3>1 DEF Is, Onward
  <2> QED
    BY <2>2, <2>3
<1> QED
  BY <1>4, <1>5, <1>6, <1>7, <1>8, <1>9, <1>10, <1>11, <1>12, <1>13, <1>14, <1>15, <1>16, <1>17, <1>18
  DEF Outcomes, Certain

LEMMA CrashIs ==
    ASSUME Typed, ServersCrash
    PROVE  /\ gesture' \in [Gestures -> Gesturing]
           /\ \A g \in Gestures : gesture'[g] = Past(g)
BY PastIs DEF ServersCrash

LEMMA GestureMoves ==
    ASSUME Typed, Fits, [ServersNext]_avars, NEW g \in Gestures
    PROVE  \/ gesture'[g] = gesture[g]
           \/ \E s \in ServerId : Begins(g, s)
           \/ Onward(g) \/ Ends(g)
           \/ ServersCrash /\ gesture'[g] = Past(g)
<1>1. CASE \E h \in Gestures, s \in ServerId : Begins(h, s)
  BY <1>1, BeginIs DEF Begins
<1>2. ASSUME NEW h \in Gestures, NEW fails \in BOOLEAN, Outcomes(h, fails) \/ Certain(h)
      PROVE  gesture'[g] = gesture[g] \/ Onward(g) \/ Ends(g)
  <2>1. (\A k \in Gestures : k # h => gesture'[k] = gesture[k]) /\ (Onward(h) \/ Ends(h))
    BY <1>2, StepIs
  <2> QED
    BY <2>1
<1>3. CASE Aside
  BY <1>3 DEF Aside, RetryBegins, RetryDeletes, RetryEnds, LookupBegins, LookupLists, LookupSettles,
     RequestBegins, RequestSent, RequestAnswered, avars
<1>4. CASE ServersCrash
  BY <1>4, CrashIs
<1>5. TRUE \in BOOLEAN
  OBVIOUS
<1> QED
  BY <1>1, <1>2, <1>3, <1>4, <1>5, StepsAre

LEMMA GesturesTyped ==
    ASSUME Typed, Fits, [ServersNext]_avars
    PROVE  gesture' \in [Gestures -> Gesturing]
<1>1. CASE \E h \in Gestures, s \in ServerId : Begins(h, s)
  BY <1>1, BeginIs DEF Begins
<1>2. ASSUME NEW h \in Gestures, NEW fails \in BOOLEAN, Outcomes(h, fails) \/ Certain(h)
      PROVE  gesture' \in [Gestures -> Gesturing]
  BY <1>2, StepIs
<1>3. CASE Aside
  BY <1>3 DEF Aside, RetryBegins, RetryDeletes, RetryEnds, LookupBegins, LookupLists, LookupSettles,
     RequestBegins, RequestSent, RequestAnswered, avars, Typed
<1>4. CASE ServersCrash
  BY <1>4, CrashIs
<1>5. TRUE \in BOOLEAN
  OBVIOUS
<1> QED
  BY <1>1, <1>2, <1>3, <1>4, <1>5, StepsAre

\* The steps that may need an excuse of one kind.
Excuses1(g, fails) ==
    \/ RowDeleted(g, fails) \/ ProfileSaved(g, fails) \/ LibrariesSaved(g, fails)
    \/ NoteCleared(g, fails) \/ Unpicked(g, fails) \/ MirrorDeleted(g, fails)

\* Who moves what.
LEMMA Movers ==
    ASSUME [ServersNext]_avars
    PROVE  /\ \/ profile' = profile
              \/ \E g \in Gestures, fails \in BOOLEAN : RowDeleted(g, fails) \/ ProfileSaved(g, fails)
           /\ \/ vault' = vault
              \/ \E fails \in BOOLEAN :
                   \/ RetryDeletes(fails)
                   \/ \E g \in Gestures :
                        SecretSaved(g, fails) \/ SecretUndone(g, fails) \/ CleanedUp(g, fails)
           /\ \/ cleanups' = cleanups
              \/ \E fails \in BOOLEAN :
                   RetryEnds(fails) \/ \E g \in Gestures : CleanupAppended(g, fails)
           /\ \/ note' = note
              \/ \E g \in Gestures, fails \in BOOLEAN : NoteCleared(g, fails)
              \/ \E r \in Asker, verdict \in {"valid", "expired", "nothing"} : RequestAnswered(r, verdict)
           /\ \/ pool' = pool
              \/ (\E g \in Gestures, fails \in BOOLEAN : RowDeleted(g, fails))
              \/ (\E r \in Asker : RequestSent(r)) \/ ServersCrash
           /\ \/ activePick' = activePick /\ chosen' = chosen
              \/ \E g \in Gestures, fails \in BOOLEAN : Unpicked(g, fails) \/ Picked(g, fails)
           /\ \/ memo' = memo
              \/ (\E g \in Gestures : Told(g)) \/ LookupBegins \/ LookupLists \/ LookupSettles \/ ServersCrash
           /\ \/ retry' = retry
              \/ RetryBegins \/ (\E fails \in BOOLEAN : RetryDeletes(fails) \/ RetryEnds(fails)) \/ ServersCrash
           /\ \/ asking' = asking
              \/ \E r \in Asker :
                   \/ RequestSent(r) \/ \E s \in ServerId : RequestBegins(r, s)
                   \/ \E verdict \in {"valid", "expired", "nothing"} : RequestAnswered(r, verdict)
              \/ ServersCrash
           /\ \/ excuse' = excuse
              \/ \E g \in Gestures, fails \in BOOLEAN : Excuses1(g, fails) \/ Picked(g, fails)
              \/ ServersCrash
<1>1. CASE \E g \in Gestures, s \in ServerId : Begins(g, s)
  BY <1>1 DEF Begins, AddBegins, UpdateBegins, SwitchBegins, DeleteBegins
<1>2. CASE \E g \in Gestures, fails \in BOOLEAN : Outcomes(g, fails)
  BY <1>2 DEF Outcomes, SecretSaved, SecretRead, SecretUndone, ProfileSaved, LibrariesSaved, CleanedUp,
     CleanupAppended, Picked, MirrorDeleted, NoteCleared, RowDeleted, Unpicked, Excuses1
<1>3. CASE \E g \in Gestures : Certain(g)
  BY <1>3 DEF Certain, CleanupListed, Told, Weighed
<1>4. CASE Aside
  BY <1>4 DEF Aside, RetryBegins, RetryDeletes, RetryEnds, LookupBegins, LookupLists, LookupSettles,
     RequestBegins, RequestSent, RequestAnswered, avars
<1>5. CASE ServersCrash
  BY <1>5 DEF ServersCrash
<1> QED
  BY <1>1, <1>2, <1>3, <1>4, <1>5, StepsAre

\* What becomes of an excuse, a row, a secret.
LEMMA ExcuseMoves ==
    ASSUME Typed, Fits, [ServersNext]_avars
    PROVE  /\ excuse' \in [ServerId -> SUBSET Excuses]
           /\ \A s \in ServerId : excuse[s] \subseteq excuse'[s]
<1>1. ASSUME NEW s \in ServerId, NEW what \in Excuses, NEW really,
             excuse' = Excused(s, what, really)
      PROVE  /\ excuse' \in [ServerId -> SUBSET Excuses]
             /\ \A t \in ServerId : excuse[t] \subseteq excuse'[t]
  <2>1. PICK x : x = IF really THEN excuse[s] \cup {what} ELSE excuse[s]
    OBVIOUS
  <2>2. excuse' = [excuse EXCEPT ![s] = x] /\ x \in SUBSET Excuses /\ excuse[s] \subseteq x
    BY <1>1, <2>1 DEF Excused, Typed
  <2> QED
    BY <2>2 DEF Typed
<1>2. \A g \in Gestures : gesture[g].at # "over" => gesture[g].id \in ServerId
  BY DEF Fits, DeedFits
<1>3. ASSUME NEW g \in Gestures, NEW fails \in BOOLEAN, Excuses1(g, fails)
      PROVE  excuse' = excuse
             \/ \E s \in ServerId, what \in Excuses : \E really : excuse' = Excused(s, what, really)
  <2>1. gesture[g].id \in ServerId
    BY <1>2, <1>3 DEF Excuses1, RowDeleted, ProfileSaved, LibrariesSaved, NoteCleared, Unpicked, MirrorDeleted, Stands
  <2>2. "key" \in Excuses /\ "note" \in Excuses /\ "pick" \in Excuses
    BY DEF Excuses
  <2> QED
    BY <1>3, <2>1, <2>2 DEF Excuses1, RowDeleted, ProfileSaved, LibrariesSaved, NoteCleared, Unpicked, MirrorDeleted
<1>4. ASSUME NEW g \in Gestures, NEW fails \in BOOLEAN, Picked(g, fails)
      PROVE  /\ excuse' \in [ServerId -> SUBSET Excuses]
             /\ \A s \in ServerId : excuse[s] \subseteq excuse'[s]
  <2>1. PICK more \in SUBSET Excuses :
          excuse' = [excuse EXCEPT ![gesture[g].id] = excuse[gesture[g].id] \cup more]
    BY <1>4 DEF Picked, Excuses
  <2> QED
    BY <2>1 DEF Typed
<1>5. CASE ServersCrash
  <2>1. \A s \in ServerId : excuse'[s] = excuse[s] \/ excuse'[s] = excuse[s] \cup {"note", "pick"}
    BY <1>5 DEF ServersCrash
  <2> QED
    BY <1>5, <2>1 DEF ServersCrash, Typed, Excuses
<1>6. CASE excuse' = excuse
  BY <1>6 DEF Typed
<1> QED
  BY <1>1, <1>3, <1>4, <1>5, <1>6, Movers

LEMMA ProfileMoves ==
    ASSUME Typed, Fits, [ServersNext]_avars
    PROVE  /\ profile' \in [ServerId -> Keys]
           /\ \/ profile' = profile
              \/ \E g \in Gestures :
                   /\ Leads(g, "profile", "unnote") /\ profile' = [profile EXCEPT ![gesture[g].id] = gesture[g].key]
                   /\ Outstanding(gesture[g].id) => "note" \in excuse'[gesture[g].id]
                   /\ UNCHANGED <<vault, note, cleanups, activePick, memo, retry, asking>>
              \/ \E g \in Gestures :
                   /\ Leads(g, "row", "unpick") /\ profile' = [profile EXCEPT ![gesture[g].id] = NoKey]
                   /\ Outstanding(gesture[g].id) => "note" \in excuse'[gesture[g].id]
                   /\ UNCHANGED <<vault, note, cleanups, activePick, memo, retry, asking>>
<1>1. ASSUME NEW g \in Gestures, NEW fails \in BOOLEAN, ProfileSaved(g, fails), profile' # profile
      PROVE  /\ profile' \in [ServerId -> Keys]
             /\ Leads(g, "profile", "unnote") /\ profile' = [profile EXCEPT ![gesture[g].id] = gesture[g].key]
             /\ Outstanding(gesture[g].id) => "note" \in excuse'[gesture[g].id]
             /\ UNCHANGED <<vault, note, cleanups, activePick, memo, retry, asking>>
  <2>1. ~fails /\ profile' = [profile EXCEPT ![gesture[g].id] = gesture[g].key] /\ gesture[g].at = "profile"
        /\ GoesTo(g, "unnote") /\ excuse' = Excused(gesture[g].id, "note", ~fails /\ Outstanding(gesture[g].id))
        /\ UNCHANGED <<vault, note, cleanups, activePick, memo, retry, asking>>
    BY <1>1 DEF ProfileSaved, Stands
  <2>2. gesture[g].id \in ServerId /\ gesture[g].key \in Keys /\ gesture[g] \in Gesturing
    BY <2>1 DEF Fits, DeedFits, Typed, Gesturing
  <2>3. gesture'[g] = [gesture[g] EXCEPT !.at = "unnote"]
    BY <2>1, GoesToIs DEF Points
  <2>4. Leads(g, "profile", "unnote")
    BY <2>1, <2>2, <2>3 DEF Leads, Same, Gesturing
  <2>5. Outstanding(gesture[g].id) => "note" \in excuse'[gesture[g].id]
    BY <2>1, <2>2 DEF Excused, Typed
  <2> QED
    BY <2>1, <2>2, <2>4, <2>5 DEF Typed
<1>2. ASSUME NEW g \in Gestures, NEW fails \in BOOLEAN, RowDeleted(g, fails), profile' # profile
      PROVE  /\ profile' \in [ServerId -> Keys]
             /\ Leads(g, "row", "unpick") /\ profile' = [profile EXCEPT ![gesture[g].id] = NoKey]
             /\ Outstanding(gesture[g].id) => "note" \in excuse'[gesture[g].id]
             /\ UNCHANGED <<vault, note, cleanups, activePick, memo, retry, asking>>
  <2>1. profile' = [profile EXCEPT ![gesture[g].id] = NoKey] /\ gesture[g].at = "row"
        /\ GoesTo(g, "unpick") /\ excuse' = Excused(gesture[g].id, "note", Outstanding(gesture[g].id))
        /\ UNCHANGED <<vault, note, cleanups, activePick, memo, retry, asking>>
    BY <1>2 DEF RowDeleted, Stands
  <2>2. gesture[g].id \in ServerId /\ NoKey \in Keys /\ gesture[g] \in Gesturing
    BY <2>1, KeysAre DEF Fits, DeedFits, Typed, Gesturing
  <2>3. gesture'[g] = [gesture[g] EXCEPT !.at = "unpick"]
    BY <2>1, GoesToIs DEF Points
  <2>4. Leads(g, "row", "unpick")
    BY <2>1, <2>2, <2>3 DEF Leads, Same, Gesturing
  <2>5. Outstanding(gesture[g].id) => "note" \in excuse'[gesture[g].id]
    BY <2>1, <2>2 DEF Excused, Typed
  <2> QED
    BY <2>1, <2>2, <2>4, <2>5 DEF Typed
<1>3. CASE profile' = profile
  BY <1>3 DEF Typed
<1>4. CASE profile' # profile
  BY <1>1, <1>2, <1>4, Movers
<1> QED
  BY <1>3, <1>4

LEMMA VaultMoves ==
    ASSUME Typed, Fits, [ServersNext]_avars
    PROVE  /\ vault' \subseteq Keys
           /\ \A k \in vault \ vault' :
                \/ \E g \in Gestures : gesture[g].at = "undo" /\ gesture[g].key = k
                \/ \E g \in Gestures : gesture[g].at = "cleanup" /\ gesture[g].old = k
                \/ k \in retry.todo
<1>1. ASSUME NEW g \in Gestures, NEW fails \in BOOLEAN, SecretSaved(g, fails)
      PROVE  vault' \subseteq vault \cup {gesture[g].key} /\ vault \subseteq vault' /\ gesture[g].key \in Keys
  BY <1>1 DEF SecretSaved, Typed, Gesturing
<1>2. ASSUME NEW g \in Gestures, NEW fails \in BOOLEAN, SecretUndone(g, fails)
      PROVE  vault' \subseteq vault /\ gesture[g].at = "undo" /\ vault \ vault' \subseteq {gesture[g].key}
  BY <1>2 DEF SecretUndone, Stands
<1>3. ASSUME NEW g \in Gestures, NEW fails \in BOOLEAN, CleanedUp(g, fails)
      PROVE  vault' \subseteq vault /\ gesture[g].at = "cleanup" /\ vault \ vault' \subseteq {gesture[g].old}
  BY <1>3 DEF CleanedUp, Stands, Spent
<1>4. ASSUME NEW fails \in BOOLEAN, RetryDeletes(fails)
      PROVE  vault' \subseteq vault /\ vault \ vault' \subseteq retry.todo
  BY <1>4 DEF RetryDeletes
<1>5. vault \subseteq Keys
  BY DEF Typed
<1> QED
  BY <1>1, <1>2, <1>3, <1>4, <1>5, Movers

LEMMA ListsMove ==
    ASSUME Typed, Fits, [ServersNext]_avars
    PROVE  /\ cleanups' \subseteq Keys /\ retry' \in Retrying
           /\ \A k \in cleanups' \cup retry'.todo \cup retry'.left :
                \/ k \in cleanups \cup retry.todo \cup retry.left
                \/ \E g \in Gestures : gesture[g].at = "append" /\ k \in gesture[g].list \cup {gesture[g].old}
<1>1. cleanups \subseteq Keys /\ retry \in Retrying
  BY DEF Typed
<1>2. NoRetry \in Retrying /\ NoRetry.todo = {} /\ NoRetry.left = {}
  BY DEF NoRetry, Retrying
<1>3. ASSUME NEW g \in Gestures, NEW fails \in BOOLEAN, CleanupAppended(g, fails)
      PROVE  /\ cleanups' \subseteq cleanups \cup gesture[g].list \cup {gesture[g].old}
             /\ gesture[g].at = "append" /\ retry' = retry
             /\ gesture[g].list \subseteq Keys /\ gesture[g].old \in Keys
  BY <1>3 DEF CleanupAppended, Stands, Spent, Typed, Gesturing
<1>4. ASSUME RetryBegins
      PROVE  cleanups' = cleanups /\ retry' \in Retrying /\ retry'.todo = cleanups /\ retry'.left = {}
  BY <1>1, <1>4 DEF RetryBegins, Retrying
<1>5. ASSUME NEW fails \in BOOLEAN, RetryDeletes(fails)
      PROVE  /\ cleanups' = cleanups /\ retry' \in Retrying
             /\ retry'.todo \subseteq retry.todo /\ retry'.left \subseteq retry.left \cup retry.todo
  <2>1. PICK k \in retry.todo :
          retry' = [retry EXCEPT !.todo = @ \ {k}, !.left = IF fails THEN @ \cup {k} ELSE @, !.some = @ \/ ~fails]
    BY <1>5 DEF RetryDeletes
  <2>2. PICK left : left = IF fails THEN retry.left \cup {k} ELSE retry.left
    OBVIOUS
  <2>3. PICK some \in BOOLEAN : some = (retry.some \/ ~fails)
    OBVIOUS
  <2>4. retry' = [retry EXCEPT !.todo = retry.todo \ {k}, !.left = left, !.some = some]
    BY <2>1, <2>2, <2>3
  <2>5. left \in SUBSET Keys /\ left \subseteq retry.left \cup retry.todo
    BY <1>1, <2>1, <2>2 DEF Retrying
  <2>6. retry' \in Retrying /\ retry'.todo = retry.todo \ {k} /\ retry'.left = left
    BY <1>1, <2>4, <2>5 DEF Retrying
  <2> QED
    BY <1>5, <2>5, <2>6 DEF RetryDeletes
<1>6. ASSUME NEW fails \in BOOLEAN, RetryEnds(fails)
      PROVE  cleanups' \subseteq cleanups \cup retry.left /\ retry' = NoRetry /\ retry.left \subseteq Keys
  BY <1>1, <1>6 DEF RetryEnds, Retrying
<1>7. ServersCrash => retry' = NoRetry
  BY DEF ServersCrash
<1>8. /\ \/ cleanups' = cleanups
         \/ \E fails \in BOOLEAN :
              RetryEnds(fails) \/ \E g \in Gestures : CleanupAppended(g, fails)
      /\ \/ retry' = retry
         \/ RetryBegins \/ (\E fails \in BOOLEAN : RetryDeletes(fails) \/ RetryEnds(fails)) \/ ServersCrash
  BY Movers
<1>9. cleanups' \subseteq Keys /\ retry' \in Retrying
  BY <1>1, <1>2, <1>3, <1>4, <1>5, <1>6, <1>7, <1>8
<1>10. \A k \in cleanups' : \/ k \in cleanups \cup retry.left
                            \/ \E g \in Gestures : gesture[g].at = "append" /\ k \in gesture[g].list \cup {gesture[g].old}
  BY <1>3, <1>6, <1>8
<1>11. retry'.todo \subseteq cleanups \cup retry.todo /\ retry'.left \subseteq retry.left \cup retry.todo
  BY <1>2, <1>4, <1>5, <1>6, <1>7, <1>8
<1> QED
  BY <1>9, <1>10, <1>11

LEMMA NoteMoves ==
    ASSUME Typed, Fits, [ServersNext]_avars
    PROVE  /\ note' \in [ServerId -> [is : {"unknown", "valid", "expired"}, of : Keys]]
           /\ \/ note' = note
              \/ \E g \in Gestures : /\ gesture[g].at = "unnote" /\ note' = [note EXCEPT ![gesture[g].id] = Unsaid]
                                     /\ profile' = profile
              \/ \E r \in Asker : /\ Waiting(r) /\ UNCHANGED <<profile, excuse, gesture>>
                                  /\ \A s \in ServerId : s # asking[r].id => note'[s] = note[s]
                                  /\ note'[asking[r].id].of = asking[r].key
<1>1. CASE note' = note
  BY <1>1 DEF Typed
<1>2. ASSUME NEW g \in Gestures, NEW fails \in BOOLEAN, NoteCleared(g, fails), note' # note
      PROVE  /\ gesture[g].at = "unnote" /\ note' = [note EXCEPT ![gesture[g].id] = Unsaid]
             /\ profile' = profile
             /\ note' \in [ServerId -> [is : {"unknown", "valid", "expired"}, of : Keys]]
  <2>1. /\ gesture[g].at = "unnote" /\ note' = [note EXCEPT ![gesture[g].id] = Unsaid]
        /\ profile' = profile
    BY <1>2 DEF NoteCleared, Stands
  <2>2. Unsaid \in [is : {"unknown", "valid", "expired"}, of : Keys]
    BY KeysAre DEF Unsaid
  <2> QED
    BY <2>1, <2>2 DEF Typed
<1>3. ASSUME NEW r \in Asker, NEW verdict \in {"valid", "expired", "nothing"}, RequestAnswered(r, verdict),
             note' # note
      PROVE  /\ Waiting(r) /\ UNCHANGED <<profile, excuse, gesture>>
             /\ \A s \in ServerId : s # asking[r].id => note'[s] = note[s]
             /\ note'[asking[r].id].of = asking[r].key
             /\ note' \in [ServerId -> [is : {"unknown", "valid", "expired"}, of : Keys]]
  <2>1. PICK x : x = [is |-> verdict, of |-> asking[r].key]
    OBVIOUS
  <2>2. Waiting(r) /\ UNCHANGED <<profile, excuse, gesture>> /\ verdict \in {"valid", "expired"}
        /\ note' = [note EXCEPT ![asking[r].id] = x]
    BY <1>3, <2>1 DEF RequestAnswered, Waiting
  <2>3. asking[r].id \in ServerId /\ asking[r].key \in Keys
    BY <2>2 DEF Typed, Fits, Requesting
  <2>4. x \in [is : {"unknown", "valid", "expired"}, of : Keys] /\ x.of = asking[r].key
    BY <2>1, <2>2, <2>3
  <2> QED
    BY <2>2, <2>3, <2>4 DEF Typed
<1> QED
  BY <1>1, <1>2, <1>3, Movers

LEMMA AskingMoves ==
    ASSUME Typed, Fits, [ServersNext]_avars
    PROVE  /\ asking' \in [Asker -> Requesting] /\ pool' \in [ServerId -> Keys]
           /\ \A r \in Asker : asking'[r].at \in {"key", "sent"} =>
                \/ Waiting(r) /\ asking'[r].id = asking[r].id /\ asking'[r].key = asking[r].key
                \/ /\ asking'[r].id \in ServerId /\ asking'[r].key = profile[asking'[r].id]
                   /\ profile' = profile
<1>1. asking \in [Asker -> Requesting] /\ profile \in [ServerId -> Keys] /\ pool \in [ServerId -> Keys]
  BY DEF Typed
<1>2. NoRequest \in Requesting /\ RequestOver \in Requesting /\ RequestOver.at = "over" /\ NoKey \in Keys
  BY KeysAre DEF NoRequest, RequestOver, Requesting
<1>3. ASSUME NEW r \in Asker, NEW x \in Requesting, asking' = [asking EXCEPT ![r] = x]
      PROVE  /\ asking' \in [Asker -> Requesting] /\ asking'[r] = x
             /\ \A q \in Asker : q # r => asking'[q] = asking[q]
  BY <1>1, <1>3
<1>4. ASSUME NEW r \in Asker, NEW s \in ServerId, RequestBegins(r, s)
      PROVE  /\ asking' \in [Asker -> Requesting] /\ asking'[r].id = s /\ asking'[r].key = profile[s]
             /\ profile' = profile /\ \A q \in Asker : q # r => asking'[q] = asking[q]
  <2>1. PICK x : x = [at |-> "key", id |-> s, key |-> profile[s]]
    OBVIOUS
  <2>2. x \in Requesting /\ x.id = s /\ x.key = profile[s]
    BY <1>1, <2>1 DEF Requesting
  <2> QED
    BY <1>3, <1>4, <2>1, <2>2 DEF RequestBegins
<1>5. ASSUME NEW r \in Asker, RequestSent(r)
      PROVE  /\ asking' \in [Asker -> Requesting] /\ pool' \in [ServerId -> Keys]
             /\ asking'[r].at = "over"
                \/ (Waiting(r) /\ asking'[r].id = asking[r].id /\ asking'[r].key = asking[r].key)
             /\ \A q \in Asker : q # r => asking'[q] = asking[q]
  <2>1. Waiting(r) /\ asking[r] \in Requesting
    BY <1>1, <1>5 DEF RequestSent, Waiting
  <2>2. CASE asking[r].key \in vault
    <3>1. PICK x : x = [asking[r] EXCEPT !.at = "sent"]
      OBVIOUS
    <3>2. x \in Requesting /\ x.id = asking[r].id /\ x.key = asking[r].key
      BY <2>1, <3>1 DEF Requesting
    <3>3. asking' = [asking EXCEPT ![r] = x] /\ pool' = [pool EXCEPT ![asking[r].id] = asking[r].key]
      BY <1>1, <1>5, <2>2, <3>1 DEF RequestSent
    <3>4. pool' \in [ServerId -> Keys]
      BY <1>1, <2>1, <3>3 DEF Requesting
    <3> QED
      BY <1>3, <2>1, <3>2, <3>3, <3>4
  <2>3. CASE asking[r].key \notin vault
    BY <1>1, <1>2, <1>3, <1>5, <2>3 DEF RequestSent
  <2> QED
    BY <2>2, <2>3
<1>6. ASSUME NEW r \in Asker, NEW verdict \in {"valid", "expired", "nothing"}, RequestAnswered(r, verdict)
      PROVE  /\ asking' \in [Asker -> Requesting] /\ asking'[r].at = "over"
             /\ \A q \in Asker : q # r => asking'[q] = asking[q]
  BY <1>2, <1>3, <1>6 DEF RequestAnswered
<1>7. ASSUME ServersCrash
      PROVE  /\ asking' \in [Asker -> Requesting] /\ pool' \in [ServerId -> Keys]
             /\ \A q \in Asker : asking'[q].at = "over" \/ (asking'[q] = asking[q] /\ ~Waiting(q))
  BY <1>1, <1>2, <1>7 DEF ServersCrash
<1>8. ASSUME NEW g \in Gestures, NEW fails \in BOOLEAN, RowDeleted(g, fails)
      PROVE  pool' \in [ServerId -> Keys]
  BY <1>1, <1>2, <1>8 DEF RowDeleted
<1>9. pool' \in [ServerId -> Keys]
  BY <1>1, <1>5, <1>7, <1>8, Movers
<1>10. CASE asking' = asking
  BY <1>1, <1>9, <1>10 DEF Waiting
<1>11. CASE \E r \in Asker, s \in ServerId : RequestBegins(r, s)
  <2>1. PICK r \in Asker, s \in ServerId : RequestBegins(r, s)
    BY <1>11
  <2> QED
    BY <1>4, <1>9, <2>1 DEF Waiting
<1>12. CASE \E r \in Asker : RequestSent(r) \/ \E verdict \in {"valid", "expired", "nothing"} : RequestAnswered(r, verdict)
  <2>1. PICK r \in Asker : RequestSent(r) \/ \E verdict \in {"valid", "expired", "nothing"} : RequestAnswered(r, verdict)
    BY <1>12
  <2> QED
    BY <1>5, <1>6, <1>9, <2>1 DEF Waiting
<1>13. CASE ServersCrash
  BY <1>7, <1>9, <1>13 DEF Waiting
<1> QED
  BY <1>10, <1>11, <1>12, <1>13, Movers

LEMMA PickMoves ==
    ASSUME Typed, Fits, [ServersNext]_avars
    PROVE  /\ activePick' \in ServerId \cup {NoId} /\ chosen' \in ServerId \cup {NoId}
           /\ \/ activePick' = activePick
              \/ \E g \in Gestures :
                   /\ Leads(g, "pick", "tell") /\ activePick' = gesture[g].id
                   /\ Deleting(gesture[g].id) => "pick" \in excuse'[gesture[g].id]
                   /\ UNCHANGED <<profile, memo>>
              \/ \E g \in Gestures :
                   /\ Leads(g, "unpick", "unnote") /\ gesture[g].wasActive /\ activePick' = NoId
                   /\ UNCHANGED <<profile, memo>>
<1>1. ASSUME NEW g \in Gestures, NEW fails \in BOOLEAN, Picked(g, fails), activePick' # activePick
      PROVE  /\ Leads(g, "pick", "tell") /\ activePick' = gesture[g].id /\ gesture[g].id \in ServerId
             /\ Deleting(gesture[g].id) => "pick" \in excuse'[gesture[g].id]
             /\ UNCHANGED <<profile, memo>>
  <2>1. ~fails /\ activePick' = gesture[g].id /\ gesture[g].at = "pick" /\ GoesTo(g, "tell")
        /\ UNCHANGED <<profile, memo>>
        /\ excuse' = [excuse EXCEPT ![gesture[g].id] = excuse[gesture[g].id] \cup
              {what \in {"pick", "lost"} : ~fails /\ IF what = "pick" THEN Deleting(gesture[g].id)
                                                    ELSE Overtakes(gesture[g].id)}]
    BY <1>1 DEF Picked, Stands
  <2>2. gesture[g].id \in ServerId /\ gesture[g] \in Gesturing
    BY <2>1 DEF Fits, DeedFits, Typed
  <2>3. gesture'[g] = [gesture[g] EXCEPT !.at = "tell"]
    BY <2>1, GoesToIs DEF Points
  <2>4. Leads(g, "pick", "tell")
    BY <2>1, <2>2, <2>3 DEF Leads, Same, Gesturing
  <2>5. Deleting(gesture[g].id) => "pick" \in excuse'[gesture[g].id]
    BY <2>1, <2>2 DEF Typed
  <2> QED
    BY <2>1, <2>2, <2>4, <2>5
<1>2. ASSUME NEW g \in Gestures, NEW fails \in BOOLEAN, Unpicked(g, fails), activePick' # activePick
      PROVE  /\ Leads(g, "unpick", "unnote") /\ gesture[g].wasActive /\ activePick' = NoId
             /\ UNCHANGED <<profile, memo>>
  <2>1. gesture[g].wasActive /\ activePick' = NoId /\ gesture[g].at = "unpick" /\ GoesTo(g, "unnote")
        /\ UNCHANGED <<profile, memo>>
    BY <1>2 DEF Unpicked, Stands
  <2>2. gesture[g] \in Gesturing
    BY DEF Typed
  <2>3. gesture'[g] = [gesture[g] EXCEPT !.at = "unnote"]
    BY <2>1, GoesToIs DEF Points
  <2> QED
    BY <2>1, <2>2, <2>3 DEF Leads, Same, Gesturing
<1>3. activePick \in ServerId \cup {NoId}
  BY DEF Typed
<1>4. chosen' \in ServerId \cup {NoId}
  <2>1. chosen \in ServerId \cup {NoId} /\ \A g \in Gestures : gesture[g].at # "over" => gesture[g].id \in ServerId
    BY DEF Typed, Fits, DeedFits
  <2>2. ASSUME NEW g \in Gestures, NEW fails \in BOOLEAN, Unpicked(g, fails) \/ Picked(g, fails)
        PROVE  chosen' \in {chosen, NoId, gesture[g].id} /\ gesture[g].at # "over"
    BY <2>2 DEF Unpicked, Picked, Stands
  <2> QED
    BY <2>1, <2>2, Movers
<1> QED
  BY <1>1, <1>2, <1>3, <1>4, Movers

LEMMA MemoMoves ==
    ASSUME Typed, Fits, [ServersNext]_avars
    PROVE  /\ memo' \in Memory
           /\ \/ memo' = memo \/ memo'.at \notin {"active", "settled"}
              \/ /\ memo'.at = "active" /\ memo'.id \in Saved
                 /\ UNCHANGED <<profile, gesture, activePick, excuse>>
              \/ /\ memo.at = "active" /\ memo'.at = "settled"
                 /\ memo'.id = IF activePick = NoId THEN memo.id ELSE activePick
                 /\ UNCHANGED <<profile, gesture, activePick, excuse>>
<1>1. memo \in Memory /\ activePick \in ServerId \cup {NoId} /\ NoMemo \in Memory /\ NoMemo.at = "none"
  BY DEF Typed, NoMemo, Memory
<1>2. (\E g \in Gestures : Told(g)) \/ ServersCrash => memo' = NoMemo
  BY DEF Told, MemoAfter, ServersCrash
<1>3. LookupBegins => memo' \in Memory /\ memo'.at = "list"
  BY DEF LookupBegins, Memory
<1>4. ASSUME LookupLists
      PROVE  \/ memo' = NoMemo
             \/ /\ memo' \in Memory /\ memo'.at = "active" /\ memo'.id \in Saved
                /\ UNCHANGED <<profile, gesture, activePick, excuse>>
  <2>1. memo' = NoMemo \/ \E s \in Saved : memo' = [at |-> "active", id |-> s]
    BY <1>4 DEF LookupLists
  <2>2. Saved \subseteq ServerId
    BY DEF Saved
  <2> QED
    BY <1>4, <2>1, <2>2 DEF LookupLists, Memory
<1>5. ASSUME LookupSettles
      PROVE  /\ memo' \in Memory /\ memo.at = "active" /\ memo'.at = "settled"
             /\ memo'.id = IF activePick = NoId THEN memo.id ELSE activePick
             /\ UNCHANGED <<profile, gesture, activePick, excuse>>
  <2>1. PICK id : id = IF activePick = NoId THEN memo.id ELSE activePick
    OBVIOUS
  <2>2. memo' = [at |-> "settled", id |-> id] /\ memo.at = "active"
        /\ UNCHANGED <<profile, gesture, activePick, excuse>>
    BY <1>5, <2>1 DEF LookupSettles
  <2>3. id \in ServerId \cup {NoId}
    BY <1>1, <2>1 DEF Memory
  <2> QED
    BY <2>1, <2>2, <2>3 DEF Memory
<1> QED
  BY <1>1, <1>2, <1>3, <1>4, <1>5, Movers

LEMMA TypedInductive ==
    ASSUME Typed, Fits, [ServersNext]_avars
    PROVE  Typed' /\ Fits'
<1>1. Typed'
  BY GesturesTyped, ExcuseMoves, ProfileMoves, VaultMoves, ListsMove, NoteMoves, AskingMoves,
     PickMoves, MemoMoves DEF Typed
<1>2. ASSUME NEW g \in Gestures
      PROVE  DeedFits(g)'
  <2>1. DeedFits(g)
    BY DEF Fits
  <2>2. ASSUME Leads(g, gesture[g].at, gesture'[g].at), Onward(g)
        PROVE  DeedFits(g)'
    BY <2>1, <2>2 DEF Onward, Leads, Same, DeedFits, AfterCleanup
  <2>3. Onward(g) => Leads(g, gesture[g].at, gesture'[g].at)
    BY DEF Onward, Leads
  <2>4. CASE \E s \in ServerId : Begins(g, s)
    BY <2>4, BeginIs DEF Begins, DeedFits
  <2>5. CASE gesture'[g] = Past(g)
    BY <2>1, <2>5, PastIs DEF DeedFits
  <2>6. CASE gesture'[g] = gesture[g]
    BY <2>1, <2>6 DEF DeedFits
  <2> QED
    BY <2>2, <2>3, <2>4, <2>5, <2>6, GestureMoves DEF Ends
<1>3. \A r \in Asker : Waiting(r)' => asking'[r].id \in ServerId
  BY AskingMoves DEF Fits, Waiting
<1>4. memo'.at \in {"active", "settled"} => memo'.id \in ServerId
  BY MemoMoves DEF Fits, Saved, Typed
<1> QED
  BY <1>1, <1>2, <1>3, <1>4 DEF Fits

-------------------------------------------------------------------------------
(* Keys                                                                      *)

LEMMA DeedStays ==
    ASSUME Typed, Fits, [ServersNext]_avars, NEW g \in Gestures, gesture[g].does # "none"
    PROVE  gesture'[g].does # "none" /\ gesture'[g].id = gesture[g].id
<1>1. CASE \E s \in ServerId : Begins(g, s)
  BY <1>1, BeginIs DEF Begins
<1>2. CASE Onward(g)
  BY <1>2 DEF Onward, Leads, Same
<1>3. CASE gesture'[g] = Past(g)
  BY <1>3, PastIs
<1> QED
  BY <1>1, <1>2, <1>3, GestureMoves DEF Ends

\* A key that a gesture makes is new.
LEMMA NewKeyIs ==
    ASSUME Typed, Fits, NEW g \in Gestures, NEW s \in ServerId, AddBegins(g, s) \/ UpdateBegins(g, s)
    PROVE  \A k \in Keys \ {NoKey} : Begun(k) => gesture'[g].key # k
<1>1. CASE AddBegins(g, s)
  <2>1. gesture'[g].key = <<s, 0>> /\ s \notin SavedAtFirst /\ \A h \in Gestures : gesture[h].id # s
    BY <1>1, BeginIs DEF AddBegins
  <2> QED
    BY <2>1 DEF Begun
<1>2. CASE UpdateBegins(g, s)
  <2>1. gesture'[g].key = <<s, g>> /\ gesture[g].does = "none" /\ g # 0
    BY <1>2, BeginIs, KeysAre
  <2> QED
    BY <2>1 DEF Begun
<1> QED
  BY <1>1, <1>2

LEMMA FreshMoves ==
    ASSUME Typed, Fits, [ServersNext]_avars, NEW g \in Gestures,
           gesture'[g].at \in {"secret", "readback", "profile"}
    PROVE  \/ /\ Fresh(g) /\ gesture'[g].key = gesture[g].key /\ gesture'[g].id = gesture[g].id
              /\ gesture'[g].does = gesture[g].does
           \/ \E s \in ServerId : AddBegins(g, s) \/ UpdateBegins(g, s)
<1>1. CASE \E s \in ServerId : Begins(g, s)
  BY <1>1, BeginIs DEF Begins
<1>2. CASE Onward(g)
  BY <1>2 DEF Onward, Leads, Same, Fresh, AfterCleanup
<1>3. CASE gesture'[g] = Past(g)
  BY <1>3, PastIs
<1>4. CASE gesture'[g] = gesture[g]
  BY <1>4 DEF Fresh
<1> QED
  BY <1>1, <1>2, <1>3, <1>4, GestureMoves DEF Ends

\* What is out of the gestures' reach stays out of it.
LEMMA OutStays ==
    ASSUME Typed, Fits, [ServersNext]_avars, NEW k \in Keys, Out(k)
    PROVE  Out(k)'
<1>1. k # NoKey /\ k[1] \in ServerId /\ k[2] \in Gestures \cup {0}
  BY KeysAre DEF Out
<1>2. Begun(k)'
  <2>1. CASE k[2] = 0
    <3>1. CASE k[1] \in SavedAtFirst
      BY <2>1, <3>1 DEF Begun
    <3>2. CASE k[1] \notin SavedAtFirst
      <4>1. PICK g \in Gestures : gesture[g].id = k[1]
        BY <2>1, <3>2 DEF Out, Begun
      <4>2. gesture[g].does # "none"
        BY <1>1, <4>1, KeysAre DEF Fits, DeedFits, NoId
      <4> QED
        BY <2>1, <4>1, <4>2, DeedStays DEF Begun
    <3> QED
      BY <3>1, <3>2
  <2>2. CASE k[2] # 0
    BY <1>1, <2>2, DeedStays DEF Out, Begun
  <2> QED
    BY <2>1, <2>2
<1>3. ASSUME NEW g \in Gestures, gesture'[g].at \in {"secret", "readback", "profile"}
      PROVE  gesture'[g].key # k
  <2>1. CASE Fresh(g) /\ gesture'[g].key = gesture[g].key
    BY <2>1 DEF Out
  <2>2. CASE \E s \in ServerId : AddBegins(g, s) \/ UpdateBegins(g, s)
    BY <1>1, <2>2, NewKeyIs DEF Out
  <2> QED
    BY <1>3, <2>1, <2>2, FreshMoves
<1> QED
  BY <1>1, <1>2, <1>3 DEF Out, Fresh

LEMMA DeadStays ==
    ASSUME Typed, Fits, [ServersNext]_avars, NEW k \in Keys, Dead(k)
    PROVE  Dead(k)'
<1>1. Out(k) /\ Out(k)' /\ k # NoKey
  BY OutStays DEF Dead, Out
<1>2. ASSUME NEW s \in ServerId
      PROVE  profile'[s] # k
  <2>1. profile[s] # k /\ \A g \in Gestures : gesture[g].at = "profile" => gesture[g].key # k
    BY <1>1 DEF Dead, Out, Fresh
  <2> QED
    BY <1>1, <2>1, ProfileMoves DEF Leads, Typed
<1> QED
  BY <1>1, <1>2 DEF Dead

LEMMA OwnKeysInductive ==
    ASSUME Typed, Fits, OwnKeys, [ServersNext]_avars
    PROVE  OwnKeys'
<1>1. ASSUME NEW g \in Gestures, Makes(g)'
      PROVE  gesture'[g].key = <<gesture'[g].id, IF gesture'[g].does = "add" THEN 0 ELSE g>>
  <2>1. CASE \E s \in ServerId : Begins(g, s)
    BY <1>1, <2>1, BeginIs DEF Begins, Makes
  <2>2. CASE Onward(g)
    <3>1. Same(g) /\ Makes(g)
      BY <1>1, <2>2 DEF Onward, Leads, AfterCleanup, Same, Makes, Fits, DeedFits
    <3> QED
      BY <3>1 DEF OwnKeys, Same
  <2>3. CASE gesture'[g] = Past(g)
    BY <1>1, <2>3, PastIs DEF Makes
  <2>4. CASE gesture'[g] = gesture[g]
    BY <1>1, <2>4 DEF OwnKeys, Makes
  <2> QED
    BY <2>1, <2>2, <2>3, <2>4, GestureMoves DEF Ends
<1>2. ASSUME NEW g \in Gestures, gesture'[g].does = "add"
      PROVE  \/ gesture[g].does = "add" /\ gesture'[g].id = gesture[g].id
             \/ \E s \in ServerId : AddBegins(g, s)
  <2>1. CASE \E s \in ServerId : Begins(g, s)
    BY <1>2, <2>1, BeginIs DEF Begins
  <2>2. CASE Onward(g)
    BY <1>2, <2>2 DEF Onward, Leads, Same
  <2>3. CASE gesture'[g] = Past(g)
    BY <1>2, <2>3, PastIs
  <2>4. CASE gesture'[g] = gesture[g]
    BY <1>2, <2>4
  <2> QED
    BY <2>1, <2>2, <2>3, <2>4, GestureMoves DEF Ends
<1>3. ASSUME NEW g \in Gestures, gesture'[g].does = "add"
      PROVE  gesture'[g].id \notin SavedAtFirst
  <2>1. CASE gesture[g].does = "add" /\ gesture'[g].id = gesture[g].id
    BY <2>1 DEF OwnKeys
  <2>2. CASE \E s \in ServerId : AddBegins(g, s)
    <3>1. PICK s \in ServerId : AddBegins(g, s)
      BY <2>2
    <3> QED
      BY <3>1, BeginIs DEF AddBegins
  <2> QED
    BY <1>2, <1>3, <2>1, <2>2
<1>4. ASSUME NEW g \in Gestures, gesture'[g].does = "add",
             NEW h \in Gestures, gesture'[h].does = "add", gesture'[h].id = gesture'[g].id
      PROVE  h = g
  <2>1. CASE gesture[g].does = "add" /\ gesture[h].does = "add"
    BY <1>4, <2>1, DeedStays DEF OwnKeys
  <2>2. ASSUME NEW s \in ServerId, NEW i \in Gestures, NEW j \in Gestures, AddBegins(i, s),
               gesture'[j].does = "add", gesture'[j].id = s, i # j
        PROVE  FALSE
    <3>1. gesture'[j] = gesture[j] /\ gesture[j].id # s
      BY <2>2, BeginIs DEF AddBegins
    <3> QED
      BY <2>2, <3>1
  <2>3. \A i \in Gestures, s \in ServerId : AddBegins(i, s) => gesture'[i].id = s
    BY BeginIs
  <2> QED
    BY <1>2, <1>4, <2>1, <2>2, <2>3
<1> QED
  BY <1>1, <1>3, <1>4 DEF OwnKeys

\* No two gestures make the same key.
LEMMA KeysDiffer ==
    ASSUME Typed, Fits, OwnKeys, NEW g \in Gestures, NEW h \in Gestures, g # h,
           Makes(g), Makes(h)
    PROVE  gesture[g].key # gesture[h].key
<1>1. gesture[g].key = <<gesture[g].id, IF gesture[g].does = "add" THEN 0 ELSE g>>
      /\ gesture[h].key = <<gesture[h].id, IF gesture[h].does = "add" THEN 0 ELSE h>>
  BY DEF OwnKeys
<1>2. g # 0 /\ h # 0
  BY KeysAre
<1>3. gesture[g].does = "add" /\ gesture[h].does = "add" => gesture[g].id # gesture[h].id
  BY DEF OwnKeys
<1> QED
  BY <1>1, <1>2, <1>3


LEMMA MakesIs ==
    ASSUME Typed, Fits, OwnKeys, NEW g \in Gestures, Makes(g)
    PROVE  /\ gesture[g].id \in ServerId /\ gesture[g].key # NoKey /\ gesture[g].key[1] = gesture[g].id
           /\ gesture[g].key = <<gesture[g].id, IF gesture[g].does = "add" THEN 0 ELSE g>>
<1>1. gesture[g].key = <<gesture[g].id, IF gesture[g].does = "add" THEN 0 ELSE g>>
  BY DEF OwnKeys
<1>2. gesture[g].id \in ServerId
  BY DEF Makes, Fits, DeedFits
<1> QED
  BY <1>1, <1>2, KeysAre DEF NoKey, NoId

\* A row changes to the key of the gesture that has just made it, or goes.
LEMMA RowMoves ==
    ASSUME Typed, Fits, [ServersNext]_avars, NEW s \in ServerId, profile'[s] # profile[s]
    PROVE  \E g \in Gestures :
             /\ gesture[g].id = s /\ gesture'[g].id = s /\ \A t \in ServerId \ {s} : profile'[t] = profile[t]
             /\ Outstanding(s) => "note" \in excuse'[s]
             /\ \/ Leads(g, "profile", "unnote") /\ profile'[s] = gesture[g].key /\ vault' = vault
                \/ Leads(g, "row", "unpick") /\ profile'[s] = NoKey
<1>1. PICK g \in Gestures :
        /\ \/ Leads(g, "profile", "unnote") /\ profile' = [profile EXCEPT ![gesture[g].id] = gesture[g].key] /\ vault' = vault
           \/ Leads(g, "row", "unpick") /\ profile' = [profile EXCEPT ![gesture[g].id] = NoKey]
        /\ Outstanding(gesture[g].id) => "note" \in excuse'[gesture[g].id]
  BY ProfileMoves
<1>2. gesture[g].id = s
  BY <1>1 DEF Typed
<1> QED
  BY <1>1, <1>2 DEF Typed, Leads, Same

LEMMA NewKeysInductive ==
    ASSUME Typed, Fits, KeyInv, [ServersNext]_avars
    PROVE  NewKeys'
<1>1. Typed' /\ Fits' /\ OwnKeys /\ OwnKeys'
  BY TypedInductive, OwnKeysInductive DEF KeyInv
\* A key that is in no row, and that no other gesture has, stays in none.
<1>2. ASSUME NEW g \in Gestures, Makes(g), gesture'[g].at # "unnote",
             \A s \in ServerId : profile[s] # gesture[g].key, NEW s \in ServerId
      PROVE  profile'[s] # gesture[g].key
  <2>1. CASE profile'[s] = profile[s]
    BY <1>2, <2>1
  <2>2. CASE profile'[s] # profile[s]
    <3>1. PICK h \in Gestures :
            \/ Leads(h, "profile", "unnote") /\ profile'[s] = gesture[h].key
            \/ Leads(h, "row", "unpick") /\ profile'[s] = NoKey
      BY <2>2, RowMoves
    <3>2. CASE Leads(h, "profile", "unnote") /\ profile'[s] = gesture[h].key
      <4>1. h # g /\ Makes(h)
        BY <1>2, <3>2 DEF Leads, Makes, Fits, DeedFits
      <4> QED
        BY <1>1, <1>2, <3>2, <4>1, KeysDiffer
    <3>3. CASE profile'[s] = NoKey
      BY <1>1, <1>2, <3>3, MakesIs
    <3> QED
      BY <3>1, <3>2, <3>3
  <2> QED
    BY <2>1, <2>2
<1>3. ASSUME NEW g \in Gestures, gesture'[g].at \in {"secret", "readback", "profile"}, NEW s \in ServerId
      PROVE  profile'[s] # gesture'[g].key
  <2>1. CASE Fresh(g) /\ gesture'[g].key = gesture[g].key
    <3>1. Makes(g) /\ \A t \in ServerId : profile[t] # gesture[g].key
      BY <2>1 DEF Fresh, Makes, Fits, DeedFits, KeyInv, NewKeys
    <3> QED
      BY <1>2, <1>3, <2>1, <3>1
  <2>2. CASE \E t \in ServerId : AddBegins(g, t) \/ UpdateBegins(g, t)
    <3>1. PICK t \in ServerId : AddBegins(g, t) \/ UpdateBegins(g, t)
      BY <2>2
    <3>2. profile' = profile
      BY <3>1 DEF AddBegins, UpdateBegins
    <3>3. CASE profile[s] = NoKey
      BY <3>1, <3>2, <3>3, BeginIs, KeysAre
    <3>4. CASE profile[s] # NoKey
      <4>1. Begun(profile[s]) /\ profile[s] \in Keys
        BY <3>4 DEF KeyInv, RowKeys, Out, Saved, Typed
      <4> QED
        BY <3>1, <3>2, <3>4, <4>1, NewKeyIs
    <3> QED
      BY <3>3, <3>4
  <2> QED
    BY <1>3, <2>1, <2>2, FreshMoves
<1>4. ASSUME NEW g \in Gestures, gesture'[g].at \in {"readback", "profile"}
      PROVE  gesture'[g].key \in vault'
  <2>1. CASE \E s \in ServerId : Begins(g, s)
    BY <1>4, <2>1, BeginIs DEF Begins
  <2>2. CASE Onward(g)
    BY <1>4, <2>2 DEF Onward, Leads, Same, AfterCleanup, KeyInv, NewKeys
  <2>3. CASE gesture'[g] = Past(g)
    BY <1>4, <2>3, PastIs
  <2>4. CASE gesture'[g] = gesture[g]
    <3>1. gesture[g].key \in vault /\ Makes(g) /\ Fresh(g)
      BY <1>4, <2>4 DEF KeyInv, NewKeys, Makes, Fits, DeedFits, Fresh
    <3>2. ASSUME NEW h \in Gestures, gesture[h].at = "undo" PROVE gesture[h].key # gesture[g].key
      <4>1. h # g /\ Makes(h)
        BY <1>4, <2>4, <3>2 DEF Makes, Fits, DeedFits
      <4> QED
        BY <1>1, <3>1, <4>1, KeysDiffer
    <3>3. ASSUME NEW h \in Gestures, gesture[h].at = "cleanup" PROVE gesture[h].old # gesture[g].key
      BY <3>1, <3>3 DEF KeyInv, OldKeys, Fits, DeedFits, Dead, Out
    <3>4. gesture[g].key \notin retry.todo
      BY <3>1 DEF KeyInv, ListedKeys, Dead, Out
    <3> QED
      BY <2>4, <3>1, <3>2, <3>3, <3>4, VaultMoves
  <2> QED
    BY <2>1, <2>2, <2>3, <2>4, GestureMoves DEF Ends
<1>5. ASSUME NEW g \in Gestures, gesture'[g].at = "undo"
      PROVE  (\A s \in ServerId : profile'[s] # gesture'[g].key) \/ "key" \in excuse'[gesture'[g].id]
  <2>1. CASE \E s \in ServerId : Begins(g, s)
    BY <1>5, <2>1, BeginIs DEF Begins
  <2>2. CASE Onward(g)
    <3>1. CASE gesture[g].at \in {"readback", "profile"}
      <4>1. Same(g) /\ profile' = profile /\ Fresh(g)
        BY <1>5, <2>2, <3>1 DEF Onward, Leads, AfterCleanup, Fresh
      <4> QED
        BY <4>1 DEF KeyInv, NewKeys, Same
    <3>2. CASE gesture[g].at \notin {"readback", "profile"}
      <4>1. Same(g) /\ excuse' = Excused(gesture[g].id, "key", TRUE) /\ gesture[g].id \in ServerId
        BY <1>5, <2>2, <3>2 DEF Onward, Leads, AfterCleanup, Fits, DeedFits
      <4> QED
        BY <4>1 DEF Excused, Same, Typed
    <3> QED
      BY <3>1, <3>2
  <2>3. CASE gesture'[g] = Past(g)
    BY <1>5, <2>3, PastIs
  <2>4. CASE gesture'[g] = gesture[g]
    <3>1. Makes(g) /\ gesture[g].at = "undo" /\ gesture[g].id \in ServerId
      BY <1>5, <2>4 DEF Makes, Fits, DeedFits
    <3>2. CASE "key" \in excuse[gesture[g].id]
      BY <2>4, <3>1, <3>2, ExcuseMoves
    <3>3. CASE \A s \in ServerId : profile[s] # gesture[g].key
      BY <1>2, <1>5, <2>4, <3>1, <3>3
    <3> QED
      BY <3>1, <3>2, <3>3 DEF KeyInv, NewKeys
  <2> QED
    BY <2>1, <2>2, <2>3, <2>4, GestureMoves DEF Ends
<1> QED
  BY <1>3, <1>4, <1>5 DEF NewKeys, Fresh

LEMMA RowKeysInductive ==
    ASSUME Typed, Fits, KeyInv, [ServersNext]_avars
    PROVE  RowKeys'
<1>1. Typed' /\ Fits' /\ OwnKeys
  BY TypedInductive DEF KeyInv
<1>2. ASSUME NEW s \in ServerId, profile'[s] # NoKey, profile'[s] = profile[s]
      PROVE  /\ Out(profile[s])' /\ profile'[s][1] = s
             /\ profile'[s] \in vault' \/ "key" \in excuse'[s]
  <2>1. Out(profile[s]) /\ profile[s][1] = s /\ profile[s] \in Keys
        /\ (profile[s] \in vault \/ "key" \in excuse[s])
    BY <1>2 DEF KeyInv, RowKeys, Saved, Typed
  <2>2. PICK k \in Keys : k = profile[s]
    BY <2>1
  <2>3. Out(k)'
    BY <2>1, <2>2, OutStays
  <2>4. Out(profile[s])'
    BY <1>2, <2>2, <2>3 DEF Out, Begun
  <2>5. CASE k \in vault \ vault'
    <3>1. ASSUME NEW g \in Gestures, gesture[g].at = "undo", gesture[g].key = k
          PROVE  "key" \in excuse[s]
      <4>1. Makes(g)
        BY <3>1 DEF Makes, Fits, DeedFits
      <4>2. gesture[g].id = s
        BY <1>1, <2>1, <2>2, <3>1, <4>1, MakesIs
      <4> QED
        BY <2>2, <3>1, <4>2 DEF KeyInv, NewKeys
    <3>2. ASSUME NEW g \in Gestures, gesture[g].at = "cleanup", gesture[g].old = k
          PROVE  FALSE
      BY <2>2, <3>2 DEF KeyInv, OldKeys, Fits, DeedFits, Dead
    <3>3. k \notin retry.todo
      BY <2>2 DEF KeyInv, ListedKeys, Dead
    <3>4. "key" \in excuse[s]
      BY <2>5, <3>1, <3>2, <3>3, VaultMoves
    <3> QED
      BY <1>2, <2>1, <2>4, <3>4, ExcuseMoves
  <2>6. CASE k \notin vault \ vault'
    BY <1>2, <2>1, <2>2, <2>4, <2>6, ExcuseMoves
  <2> QED
    BY <2>5, <2>6
<1>3. ASSUME NEW s \in ServerId, profile'[s] # NoKey, profile'[s] # profile[s]
      PROVE  /\ Out(profile[s])' /\ profile'[s][1] = s /\ profile'[s] \in vault'
  <2>1. PICK g \in Gestures : gesture[g].id = s /\ Leads(g, "profile", "unnote")
                              /\ profile'[s] = gesture[g].key /\ vault' = vault
    BY <1>3, RowMoves
  <2>2. PICK k \in Keys : k = gesture[g].key
    BY DEF Typed, Gesturing
  <2>3. Makes(g) /\ Fresh(g) /\ k \in vault
    BY <2>1, <2>2 DEF Leads, Makes, Fits, DeedFits, Fresh, KeyInv, NewKeys
  <2>4. k # NoKey /\ k = <<s, IF gesture[g].does = "add" THEN 0 ELSE g>> /\ g # 0
    BY <1>1, <2>1, <2>2, <2>3, MakesIs, KeysAre
  <2>5. gesture'[g].does = gesture[g].does /\ gesture'[g].id = s /\ gesture'[g].at = "unnote"
        /\ gesture[g].does # "none"
    BY <2>1, <2>3 DEF Leads, Same, Makes
  <2>6. Begun(k)'
    BY <2>4, <2>5 DEF Begun
  <2>7. ASSUME NEW h \in Gestures, gesture'[h].at \in {"secret", "readback", "profile"}
        PROVE  gesture'[h].key # k
    <3>1. h # g
      BY <2>5, <2>7
    <3>2. CASE Fresh(h) /\ gesture'[h].key = gesture[h].key
      <4>1. Makes(h)
        BY <3>2 DEF Fresh, Makes, Fits, DeedFits
      <4> QED
        BY <1>1, <2>2, <2>3, <3>1, <3>2, <4>1, KeysDiffer
    <3>3. CASE \E t \in ServerId : AddBegins(h, t) \/ UpdateBegins(h, t)
      <4>1. gesture'[g] = gesture[g]
        BY <3>1, <3>3, BeginIs
      <4> QED
        BY <2>1, <4>1 DEF Leads
    <3> QED
      BY <2>7, <3>2, <3>3, FreshMoves
  <2>8. Out(k)'
    BY <2>4, <2>6, <2>7 DEF Out, Fresh
  <2>9. Out(profile[s])'
    BY <2>1, <2>2, <2>8 DEF Out, Begun
  <2> QED
    BY <2>1, <2>2, <2>3, <2>4, <2>9
<1> QED
  BY <1>2, <1>3 DEF RowKeys, Saved

LEMMA OldKeysInductive ==
    ASSUME Typed, Fits, KeyInv, [ServersNext]_avars
    PROVE  OldKeys'
<1>1. ASSUME NEW g \in Gestures, gesture'[g].does \in {"update", "delete"}
      PROVE  \/ /\ gesture'[g].old = gesture[g].old /\ gesture'[g].id = gesture[g].id
                /\ gesture[g].does \in {"update", "delete"}
             \/ \E s \in Saved : /\ gesture'[g].old = profile[s] /\ gesture'[g].id = s
                                  /\ gesture'[g].at \in {"secret", "weigh"}
  <2>1. CASE \E s \in ServerId : Begins(g, s)
    <3>1. PICK s \in ServerId : Begins(g, s)
      BY <2>1
    <3>2. CASE UpdateBegins(g, s) \/ DeleteBegins(g, s)
      <4>1. s \in Saved
        BY <3>2 DEF UpdateBegins, DeleteBegins
      <4> QED
        BY <3>2, <4>1, BeginIs
    <3> QED
      BY <1>1, <3>1, <3>2, BeginIs DEF Begins
  <2>2. CASE Onward(g)
    BY <1>1, <2>2 DEF Onward, Leads, Same
  <2>3. CASE gesture'[g] = Past(g)
    BY <1>1, <2>3, PastIs
  <2>4. CASE gesture'[g] = gesture[g]
    BY <1>1, <2>4
  <2> QED
    BY <2>1, <2>2, <2>3, <2>4, GestureMoves DEF Ends
<1>2. ASSUME NEW g \in Gestures, gesture'[g].does \in {"update", "delete"}
      PROVE  Out(gesture[g].old)' /\ gesture'[g].old[1] = gesture'[g].id
  <2>1. PICK k \in Keys : k = gesture'[g].old
    BY TypedInductive DEF Typed, Gesturing
  <2>2. Out(k) /\ k[1] = gesture'[g].id
    BY <1>1, <1>2, <2>1 DEF KeyInv, OldKeys, RowKeys
  <2>3. Out(k)'
    BY <2>2, OutStays
  <2> QED
    BY <2>1, <2>2, <2>3 DEF Out, Begun
<1>3. ASSUME NEW g \in Gestures, gesture'[g].does \in {"update", "delete"},
             gesture'[g].at \in {"unpick", "unnote", "libraries", "mirror", "cleanup", "enqueue", "append"}
      PROVE  Dead(gesture[g].old)'
  <2>1. PICK k \in Keys : k = gesture'[g].old
    BY TypedInductive DEF Typed, Gesturing
  <2>2. gesture[g].old = k /\ gesture'[g].id = gesture[g].id /\ gesture[g].does \in {"update", "delete"}
        /\ Out(k) /\ k[1] = gesture[g].id
    BY <1>1, <1>3, <2>1 DEF KeyInv, OldKeys
  <2>3. CASE Dead(k)
    <3>1. Dead(k)'
      BY <2>3, DeadStays
    <3> QED
      BY <2>1, <3>1 DEF Dead, Out, Begun
  <2>4. CASE ~Dead(k)
    <3>1. gesture[g].at \notin {"unpick", "unnote", "libraries", "mirror", "cleanup", "enqueue", "append"}
      BY <2>2, <2>4 DEF KeyInv, OldKeys
    <3>2. CASE \E s \in ServerId : Begins(g, s)
      BY <2>2, <3>2, BeginIs DEF Begins
    <3>3. CASE gesture'[g] = Past(g)
      BY <1>3, <3>3, PastIs
    <3>4. CASE gesture'[g] = gesture[g]
      BY <1>3, <3>1, <3>4
    <3>5. CASE Onward(g)
      <4>1. \/ Leads(g, "profile", "unnote") /\ profile' = [profile EXCEPT ![gesture[g].id] = gesture[g].key]
            \/ Leads(g, "row", "unpick") /\ profile' = [profile EXCEPT ![gesture[g].id] = NoKey]
        BY <1>3, <3>1, <3>5 DEF Onward, Leads, AfterCleanup
      <4>2. gesture[g].id \in ServerId /\ k # NoKey
        BY <2>2 DEF Fits, DeedFits, Out
      <4>3. gesture[g].at = "profile" => gesture[g].key # k
        BY <2>2 DEF Out, Fresh
      <4>4. ASSUME NEW s \in ServerId PROVE profile'[s] # k
        <5>1. CASE s = gesture[g].id
          BY <4>1, <4>2, <4>3, <5>1 DEF Leads, Typed
        <5>2. CASE s # gesture[g].id
          <6>1. profile'[s] = profile[s]
            BY <4>1, <5>2 DEF Typed
          <6>2. profile[s] # NoKey => profile[s][1] = s
            BY DEF KeyInv, RowKeys, Saved
          <6> QED
            BY <2>2, <4>2, <5>2, <6>1, <6>2
        <5> QED
          BY <5>1, <5>2
      <4>5. Out(k)'
        BY <2>2, OutStays
      <4> QED
        BY <2>1, <4>4, <4>5 DEF Dead, Out, Begun
    <3> QED
      BY <3>2, <3>3, <3>4, <3>5, GestureMoves DEF Ends
  <2> QED
    BY <2>3, <2>4
<1>4. ASSUME NEW g \in Gestures, NEW k \in gesture'[g].list
      PROVE  Dead(k)'
  <2>1. k \in gesture[g].list \/ k \in cleanups
    <3>1. CASE \E s \in ServerId : Begins(g, s)
      BY <1>4, <3>1, BeginIs DEF Begins
    <3>2. CASE Onward(g)
      BY <1>4, <3>2 DEF Onward, Leads
    <3>3. CASE gesture'[g] = Past(g)
      BY <1>4, <3>3, PastIs
    <3>4. CASE gesture'[g] = gesture[g]
      BY <1>4, <3>4
    <3> QED
      BY <3>1, <3>2, <3>3, <3>4, GestureMoves DEF Ends
  <2>2. Dead(k) /\ k \in Keys
    BY <2>1 DEF KeyInv, OldKeys, ListedKeys, Typed, Gesturing
  <2> QED
    BY <2>2, DeadStays
<1> QED
  BY <1>2, <1>3, <1>4 DEF OldKeys

LEMMA ListedKeysInductive ==
    ASSUME Typed, Fits, KeyInv, [ServersNext]_avars
    PROVE  ListedKeys'
<1>1. ASSUME NEW k \in cleanups' \cup retry'.todo \cup retry'.left
      PROVE  Dead(k)'
  <2>1. \/ k \in cleanups \cup retry.todo \cup retry.left
        \/ \E g \in Gestures : gesture[g].at = "append" /\ k \in gesture[g].list \cup {gesture[g].old}
    BY ListsMove
  <2>2. Dead(k) /\ k \in Keys
    BY <2>1 DEF KeyInv, ListedKeys, OldKeys, Fits, DeedFits, Typed, Gesturing, Retrying
  <2> QED
    BY <2>2, DeadStays
<1> QED
  BY <1>1 DEF ListedKeys

LEMMA KeyInvInductive ==
    ASSUME Typed, Fits, KeyInv, [ServersNext]_avars
    PROVE  KeyInv'
  BY OwnKeysInductive, NewKeysInductive, RowKeysInductive, OldKeysInductive, ListedKeysInductive DEF KeyInv

-------------------------------------------------------------------------------
(* Verdicts, picks and the memo                                              *)

LEMMA NoteInvInductive ==
    ASSUME Typed, Fits, NoteInv, [ServersNext]_avars
    PROVE  NoteInv'
<1>1. excuse' \in [ServerId -> SUBSET Excuses] /\ \A s \in ServerId : excuse[s] \subseteq excuse'[s]
  BY ExcuseMoves
<1>2. ASSUME NEW r \in Asker, asking'[r].at \in {"key", "sent"}
      PROVE  asking'[r].key = profile'[asking'[r].id] \/ "note" \in excuse'[asking'[r].id]
  <2>1. CASE asking'[r].key = profile[asking'[r].id] /\ profile' = profile
    BY <2>1
  <2>2. CASE Waiting(r) /\ asking'[r].id = asking[r].id /\ asking'[r].key = asking[r].key
    <3>1. asking[r].id \in ServerId
      BY <2>2 DEF Fits
    <3>2. CASE profile'[asking[r].id] # profile[asking[r].id]
      <4>1. Outstanding(asking[r].id)
        BY <2>2 DEF Outstanding
      <4> QED
        BY <2>2, <3>1, <3>2, <4>1, RowMoves
    <3>3. CASE profile'[asking[r].id] = profile[asking[r].id]
      BY <1>1, <2>2, <3>1, <3>3 DEF NoteInv
    <3> QED
      BY <3>2, <3>3
  <2> QED
    BY <1>2, <2>1, <2>2, AskingMoves
<1>3. ASSUME NEW s \in ServerId, note'[s] # Unsaid, note'[s] = note[s]
      PROVE  \/ note'[s].of = profile'[s] \/ "note" \in excuse'[s]
             \/ \E g \in Gestures : gesture'[g].id = s /\ gesture'[g].at \in {"unpick", "unnote"}
  <2>1. CASE note[s].of = profile[s]
    <3>1. CASE profile'[s] = profile[s]
      BY <1>3, <2>1, <3>1
    <3>2. CASE profile'[s] # profile[s]
      BY <3>2, RowMoves DEF Leads
    <3> QED
      BY <3>1, <3>2
  <2>2. CASE "note" \in excuse[s]
    BY <1>1, <2>2
  <2>3. ASSUME NEW g \in Gestures, gesture[g].id = s, gesture[g].at \in {"unpick", "unnote"}
        PROVE  \/ gesture'[g].id = s /\ gesture'[g].at \in {"unpick", "unnote"}
               \/ "note" \in excuse'[s]
    <3>1. CASE gesture'[g] = gesture[g]
      BY <2>3, <3>1
    <3>2. CASE \E t \in ServerId : Begins(g, t)
      BY <2>3, <3>2, BeginIs DEF Begins, Fits, DeedFits
    <3>3. CASE Onward(g)
      <4>1. CASE gesture[g].at = "unpick"
        BY <2>3, <3>3, <4>1 DEF Onward, Leads, AfterCleanup, Same
      <4>2. CASE gesture[g].at = "unnote"
        <5>1. \/ note' = [note EXCEPT ![gesture[g].id] = Unsaid]
              \/ excuse' = Excused(gesture[g].id, "note", TRUE)
          BY <3>3, <4>2 DEF Onward, Leads
        <5>2. CASE excuse' = Excused(gesture[g].id, "note", TRUE)
          BY <2>3, <5>2 DEF Excused, Typed
        <5> QED
          BY <1>3, <2>3, <5>1, <5>2 DEF Typed
      <4> QED
        BY <2>3, <4>1, <4>2
    <3>4. CASE Ends(g)
      BY <2>3, <3>4 DEF Ends
    <3>5. CASE ServersCrash
      BY <2>3, <3>5 DEF ServersCrash
    <3> QED
      BY <3>1, <3>2, <3>3, <3>4, <3>5, GestureMoves
  <2> QED
    BY <1>3, <2>1, <2>2, <2>3 DEF NoteInv
<1>4. ASSUME NEW s \in ServerId, note'[s] # Unsaid, note'[s] # note[s]
      PROVE  note'[s].of = profile'[s] \/ "note" \in excuse'[s]
  <2>1. CASE \E g \in Gestures : note' = [note EXCEPT ![gesture[g].id] = Unsaid]
    BY <1>4, <2>1 DEF Typed
  <2>2. ASSUME NEW r \in Asker, Waiting(r), UNCHANGED <<profile, excuse, gesture>>,
               \A t \in ServerId : t # asking[r].id => note'[t] = note[t],
               note'[asking[r].id].of = asking[r].key
        PROVE  note'[s].of = profile'[s] \/ "note" \in excuse'[s]
    BY <1>4, <2>2 DEF NoteInv
  <2> QED
    BY <1>4, <2>1, <2>2, NoteMoves
<1> QED
  BY <1>2, <1>3, <1>4 DEF NoteInv, Waiting

\* A deletion that has not cleared its pick yet moves on like this.
LEMMA LateMoves ==
    ASSUME Typed, Fits, [ServersNext]_avars, NEW g \in Gestures, Late(g), ~ServersCrash
    PROVE  \/ Late(g)' /\ gesture'[g].id = gesture[g].id
           \/ gesture'[g].at = "tell"
           \/ gesture[g].at = "mirror" /\ "pick" \in excuse'[gesture[g].id]
<1>1. CASE gesture'[g] = gesture[g]
  BY <1>1 DEF Late
<1>2. CASE \E s \in ServerId : Begins(g, s)
  BY <1>2, BeginIs DEF Begins, Late
<1>3. CASE Onward(g)
  BY <1>3 DEF Onward, Leads, AfterCleanup, Same, Late
<1>4. CASE Ends(g)
  <2>1. excuse' = Excused(gesture[g].id, "pick", TRUE) /\ gesture[g].at = "mirror" /\ gesture[g].id \in ServerId
    BY <1>4 DEF Ends, Late, Fits, DeedFits
  <2> QED
    BY <2>1 DEF Excused, Typed
<1> QED
  BY <1>1, <1>2, <1>3, <1>4, GestureMoves

LEMMA PickInvInductive ==
    ASSUME Typed, Fits, KeyInv, PickInv, [ServersNext]_avars
    PROVE  PickInv'
<1>1. excuse' \in [ServerId -> SUBSET Excuses] /\ \A s \in ServerId : excuse[s] \subseteq excuse'[s]
  BY ExcuseMoves
<1>2. Fits' /\ activePick' \in ServerId \cup {NoId} /\ activePick \in ServerId \cup {NoId} /\ NoId \notin ServerId
  BY TypedInductive, KeysAre DEF Typed, NoId
<1>3. ASSUME NEW g \in Gestures, gesture'[g].at \in {"row", "unpick"}, activePick' = gesture'[g].id
      PROVE  gesture'[g].wasActive \/ "pick" \in excuse'[gesture'[g].id]
  <2>1. gesture'[g].id \in ServerId
    BY <1>2, <1>3 DEF Fits, DeedFits
  <2>2. \/ gesture'[g].id = gesture[g].id /\ gesture[g].at \in {"row", "unpick"}
           /\ gesture'[g].wasActive = gesture[g].wasActive
        \/ gesture'[g].id = gesture[g].id /\ gesture[g].at = "weigh"
           /\ gesture'[g].wasActive = (activePick = gesture[g].id) /\ activePick' = activePick
    <3>1. CASE gesture'[g] = gesture[g]
      BY <1>3, <3>1
    <3>2. CASE \E s \in ServerId : Begins(g, s)
      BY <1>3, <3>2, BeginIs DEF Begins
    <3>3. CASE Onward(g)
      BY <1>3, <3>3 DEF Onward, Leads, Same, AfterCleanup
    <3>4. CASE gesture'[g] = Past(g)
      BY <1>3, <3>4, PastIs
    <3> QED
      BY <3>1, <3>2, <3>3, <3>4, GestureMoves DEF Ends
  <2>3. CASE activePick' = activePick
    BY <1>1, <1>3, <2>1, <2>2, <2>3 DEF PickInv
  <2>4. CASE activePick' # activePick
    <3>1. PICK h \in Gestures : activePick' = gesture[h].id
                                /\ (Deleting(gesture[h].id) => "pick" \in excuse'[gesture[h].id])
      BY <1>2, <1>3, <2>1, <2>4, PickMoves
    <3>2. gesture[g].does = "delete" /\ gesture[g].at # "over"
      BY <2>2 DEF Fits, DeedFits
    <3>3. Deleting(gesture[g].id)
      BY <3>2 DEF Deleting, Stands
    <3> QED
      BY <1>3, <2>2, <3>1, <3>3
  <2> QED
    BY <2>3, <2>4
<1>4. \/ activePick' \in {s \in ServerId : profile'[s] # NoKey} \cup {NoId} \/ "pick" \in excuse'[activePick']
      \/ \E g \in Gestures : gesture'[g].at = "unpick" /\ gesture'[g].id = activePick'
  <2>1. CASE activePick' = activePick /\ activePick \in Saved
    <3>1. CASE profile'[activePick] = profile[activePick]
      BY <2>1, <3>1 DEF Saved
    <3>2. CASE profile'[activePick] # profile[activePick]
      <4>1. PICK g \in Gestures :
              /\ gesture[g].id = activePick /\ gesture'[g].id = activePick
              /\ \/ Leads(g, "profile", "unnote") /\ profile'[activePick] = gesture[g].key
                 \/ Leads(g, "row", "unpick")
        BY <2>1, <3>2, RowMoves DEF Saved
      <4>2. CASE Leads(g, "row", "unpick")
        BY <2>1, <4>1, <4>2 DEF Leads
      <4>3. CASE Leads(g, "profile", "unnote") /\ profile'[activePick] = gesture[g].key
        <5>1. Makes(g)
          BY <4>3 DEF Leads, Makes, Fits, DeedFits
        <5> QED
          BY <2>1, <4>1, <4>3, <5>1, MakesIs DEF KeyInv, Saved
      <4> QED
        BY <4>1, <4>2, <4>3
    <3> QED
      BY <3>1, <3>2
  <2>2. CASE activePick' = NoId
    BY <2>2
  <2>3. CASE activePick' = activePick /\ activePick # NoId /\ "pick" \in excuse[activePick]
    BY <1>1, <1>2, <2>3
  <2>4. ASSUME activePick' = activePick, activePick # NoId,
               NEW g \in Gestures, gesture[g].at = "unpick", gesture[g].id = activePick
        PROVE  \/ gesture'[g].at = "unpick" /\ gesture'[g].id = activePick
               \/ "pick" \in excuse'[activePick]
    <3>1. CASE gesture'[g] = gesture[g]
      BY <2>4, <3>1
    <3>2. CASE \E s \in ServerId : Begins(g, s)
      BY <2>4, <3>2, BeginIs DEF Begins, Fits, DeedFits
    <3>3. CASE Onward(g)
      <4>1. \/ activePick' = IF gesture[g].wasActive THEN NoId ELSE activePick
            \/ excuse' = Excused(gesture[g].id, "pick", TRUE)
        BY <2>4, <3>3 DEF Onward, Leads, AfterCleanup
      <4>2. CASE excuse' = Excused(gesture[g].id, "pick", TRUE)
        BY <1>2, <2>4, <4>2 DEF Excused, Typed
      <4>3. CASE activePick' = IF gesture[g].wasActive THEN NoId ELSE activePick
        <5>1. "pick" \in excuse[activePick]
          BY <1>2, <2>4, <4>3 DEF PickInv
        <5> QED
          BY <1>1, <1>2, <2>4, <5>1
      <4> QED
        BY <4>1, <4>2, <4>3
    <3>4. CASE Ends(g)
      BY <2>4, <3>4 DEF Ends
    <3>5. CASE ServersCrash
      BY <1>2, <2>4, <3>5 DEF ServersCrash
    <3> QED
      BY <3>1, <3>2, <3>3, <3>4, <3>5, GestureMoves
  <2>5. CASE activePick' # activePick /\ activePick' # NoId
    <3>1. PICK h \in Gestures : /\ activePick' = gesture[h].id /\ profile' = profile
                                /\ Deleting(gesture[h].id) => "pick" \in excuse'[gesture[h].id]
      BY <2>5, PickMoves
    <3> QED
      BY <1>2, <2>5, <3>1 DEF Deleting
  <2> QED
    BY <1>2, <2>1, <2>2, <2>3, <2>4, <2>5 DEF PickInv
<1> QED
  BY <1>3, <1>4 DEF PickInv, Saved

LEMMA ChosenInvInductive ==
    ASSUME Typed, Fits, ChosenInv, [ServersNext]_avars
    PROVE  ChosenInv'
<1>1. (\A s \in ServerId : excuse[s] \subseteq excuse'[s]) /\ chosen \in ServerId \cup {NoId} /\ NoId \notin ServerId
      /\ activePick \in ServerId \cup {NoId}
  BY ExcuseMoves, KeysAre DEF Typed, NoId
<1>2. \A g \in Gestures : gesture[g].at # "over" => gesture[g].id \in ServerId
  BY DEF Fits, DeedFits
\* A deletion between its check and its clear was there before, or checks now.
<1>3. ASSUME NEW g \in Gestures, gesture'[g].at \in {"row", "unpick"}, gesture'[g].wasActive
      PROVE  /\ gesture'[g].id = gesture[g].id
             /\ \/ gesture[g].at \in {"row", "unpick"} /\ gesture[g].wasActive
                \/ gesture[g].at = "weigh" /\ activePick = gesture[g].id /\ activePick' = activePick
  <2>1. CASE gesture'[g] = gesture[g]
    BY <1>3, <2>1
  <2>2. CASE \E s \in ServerId : Begins(g, s)
    BY <1>3, <2>2, BeginIs DEF Begins
  <2>3. CASE Onward(g)
    BY <1>3, <2>3 DEF Onward, Leads, Same, AfterCleanup
  <2>4. CASE gesture'[g] = Past(g)
    BY <1>3, <2>4, PastIs
  <2> QED
    BY <2>1, <2>2, <2>3, <2>4, GestureMoves DEF Ends
<1>4. CASE activePick' = activePick /\ chosen' = chosen
  <2>1. activePick' = chosen' \/ (activePick' = NoId /\ "lost" \in excuse'[chosen'])
    <3>1. CASE activePick = chosen
      BY <1>4, <3>1
    <3>2. CASE activePick = NoId /\ chosen # NoId /\ "lost" \in excuse[chosen]
      BY <1>1, <1>4, <3>2
    <3> QED
      BY <3>1, <3>2 DEF ChosenInv
  <2>2. ASSUME NEW g \in Gestures, gesture'[g].at \in {"row", "unpick"}, gesture'[g].wasActive
        PROVE  chosen' \in {gesture'[g].id, NoId} \/ "lost" \in excuse'[chosen']
    <3>1. CASE gesture[g].at \in {"row", "unpick"} /\ gesture[g].wasActive
      BY <1>1, <1>3, <1>4, <2>2, <3>1 DEF ChosenInv
    <3>2. CASE gesture[g].at = "weigh" /\ activePick = gesture[g].id
      <4>1. gesture[g].id # NoId
        BY <1>1, <1>2, <3>2
      <4>2. chosen = gesture[g].id
        BY <3>2, <4>1 DEF ChosenInv
      <4> QED
        BY <1>3, <1>4, <2>2, <4>2
    <3> QED
      BY <1>3, <2>2, <3>1, <3>2
  <2> QED
    BY <2>1, <2>2 DEF ChosenInv
<1>5. ASSUME NEW h \in Gestures, NEW fails \in BOOLEAN, Picked(h, fails), ~fails
      PROVE  ChosenInv'
  <2>1. /\ activePick' = gesture[h].id /\ chosen' = gesture[h].id /\ gesture[h].at = "pick"
        /\ gesture[h].id \in ServerId /\ GoesTo(h, "tell")
    BY <1>2, <1>5 DEF Picked, Stands
  <2>2. Overtakes(gesture[h].id) => "lost" \in excuse'[gesture[h].id]
    <3>1. excuse' = [excuse EXCEPT ![gesture[h].id] = excuse[gesture[h].id] \cup
              {what \in {"pick", "lost"} : ~fails /\ IF what = "pick" THEN Deleting(gesture[h].id)
                                                    ELSE Overtakes(gesture[h].id)}]
      BY <1>5 DEF Picked
    <3> QED
      BY <1>5, <2>1, <3>1 DEF Typed
  <2>3. ASSUME NEW g \in Gestures, gesture'[g].at \in {"row", "unpick"}, gesture'[g].wasActive
        PROVE  chosen' = gesture'[g].id \/ "lost" \in excuse'[chosen']
    <3>1. gesture'[h].at = "tell" /\ \A k \in Gestures : k # h => gesture'[k] = gesture[k]
      <4>1. "tell" \in Points /\ "tell" # "over"
        BY DEF Points
      <4>2. gesture'[h] = [gesture[h] EXCEPT !.at = "tell"] /\ gesture[h] \in Gesturing
        BY <2>1, <4>1, GoesToIs DEF Typed
      <4> QED
        BY <2>1, <4>1, <4>2, GoesToIs DEF Gesturing
    <3>2. gesture'[g] = gesture[g] /\ gesture[g].at \in {"row", "unpick"} /\ gesture[g].wasActive
      BY <2>3, <3>1
    <3>3. CASE gesture[g].id = gesture[h].id
      BY <2>1, <3>2, <3>3
    <3>4. CASE gesture[g].id # gesture[h].id
      BY <2>1, <2>2, <3>2, <3>4 DEF Overtakes
    <3> QED
      BY <3>3, <3>4
  <2> QED
    BY <2>1, <2>3 DEF ChosenInv
<1>6. ASSUME NEW h \in Gestures, NEW fails \in BOOLEAN, Unpicked(h, fails), gesture[h].wasActive, ~fails
      PROVE  ChosenInv'
  <2>1. /\ activePick' = NoId /\ chosen' = IF chosen = gesture[h].id THEN NoId ELSE chosen
        /\ gesture[h].at = "unpick"
    BY <1>6 DEF Unpicked, Stands
  <2>2. chosen' = NoId \/ (chosen' = chosen /\ "lost" \in excuse[chosen])
    BY <1>6, <2>1 DEF ChosenInv
  <2>3. chosen' = NoId \/ "lost" \in excuse'[chosen']
    BY <1>1, <2>2
  <2> QED
    BY <2>1, <2>3 DEF ChosenInv
<1>7. ASSUME NEW h \in Gestures, NEW fails \in BOOLEAN, Unpicked(h, fails) \/ Picked(h, fails)
      PROVE  \/ activePick' = activePick /\ chosen' = chosen
             \/ Picked(h, fails) /\ ~fails
             \/ Unpicked(h, fails) /\ gesture[h].wasActive /\ ~fails
  BY <1>7 DEF Unpicked, Picked
<1> QED
  BY <1>4, <1>5, <1>6, <1>7, Movers

LEMMA MemoInvInductive ==
    ASSUME Typed, Fits, KeyInv, PickInv, MemoInv, [ServersNext]_avars
    PROVE  MemoInv'
<1> SUFFICES ASSUME memo'.at \in {"active", "settled"}
             PROVE  \/ memo'.at = "settled" /\ memo'.id = activePick'
                    \/ /\ memo'.at = "settled" => activePick' = NoId
                       /\ \/ memo'.id \in {s \in ServerId : profile'[s] # NoKey} \/ "pick" \in excuse'[memo'.id]
                          \/ \E g \in Gestures : Late(g)' /\ gesture'[g].id = memo'.id
                    \/ \E g \in Gestures : gesture'[g].at = "tell"
  BY DEF MemoInv, Saved, Late
<1>1. excuse' \in [ServerId -> SUBSET Excuses] /\ \A s \in ServerId : excuse[s] \subseteq excuse'[s]
  BY ExcuseMoves
<1>2. Fits' /\ memo'.id \in ServerId /\ activePick \in ServerId \cup {NoId} /\ NoId \notin ServerId
  BY TypedInductive, KeysAre DEF Fits, Typed, NoId
\* What stands behind a memo of a server goes on doing so.
<1>3. ASSUME memo' = memo,
             \/ memo.id \in Saved \/ "pick" \in excuse[memo.id]
             \/ \E g \in Gestures : Late(g) /\ gesture[g].id = memo.id
      PROVE  \/ memo'.id \in {s \in ServerId : profile'[s] # NoKey} \/ "pick" \in excuse'[memo'.id]
             \/ \E g \in Gestures : Late(g)' /\ gesture'[g].id = memo'.id
             \/ \E g \in Gestures : gesture'[g].at = "tell"
  <2>1. CASE "pick" \in excuse[memo.id]
    BY <1>1, <1>2, <1>3, <2>1
  <2>2. CASE memo.id \in Saved
    <3>1. CASE profile'[memo.id] = profile[memo.id]
      BY <1>2, <1>3, <2>2, <3>1 DEF Saved
    <3>2. CASE profile'[memo.id] # profile[memo.id]
      <4>1. PICK g \in Gestures :
              /\ gesture[g].id = memo.id /\ gesture'[g].id = memo.id
              /\ \/ Leads(g, "profile", "unnote") /\ profile'[memo.id] = gesture[g].key
                 \/ Leads(g, "row", "unpick")
        BY <1>2, <1>3, <3>2, RowMoves
      <4>2. CASE Leads(g, "row", "unpick")
        BY <1>3, <4>1, <4>2 DEF Leads, Late, Same, Fits, DeedFits
      <4>3. CASE Leads(g, "profile", "unnote") /\ profile'[memo.id] = gesture[g].key
        <5>1. Makes(g)
          BY <4>3 DEF Leads, Makes, Fits, DeedFits
        <5> QED
          BY <1>2, <1>3, <4>3, <5>1, MakesIs DEF KeyInv
      <4> QED
        BY <4>1, <4>2, <4>3
    <3> QED
      BY <3>1, <3>2
  <2>3. ASSUME NEW g \in Gestures, Late(g), gesture[g].id = memo.id
        PROVE  \/ Late(g)' /\ gesture'[g].id = memo.id
               \/ gesture'[g].at = "tell" \/ "pick" \in excuse'[memo.id]
    <3>1. ~ServersCrash
      BY <1>3 DEF ServersCrash, NoMemo
    <3> QED
      BY <2>3, <3>1, LateMoves
  <2> QED
    BY <1>3, <2>1, <2>2, <2>3
<1>4. CASE memo'.at = "active" /\ memo'.id \in Saved /\ UNCHANGED <<profile, gesture, activePick, excuse>>
  BY <1>2, <1>4 DEF Saved
<1>5. CASE /\ memo.at = "active" /\ memo'.at = "settled"
           /\ memo'.id = IF activePick = NoId THEN memo.id ELSE activePick
           /\ UNCHANGED <<profile, gesture, activePick, excuse>>
  <2>1. CASE activePick # NoId
    BY <1>5, <2>1
  <2>2. CASE activePick = NoId
    BY <1>5, <2>2 DEF MemoInv, Late, Saved
  <2> QED
    BY <2>1, <2>2
<1>6. CASE memo' = memo
  <2>1. CASE memo.at = "settled" /\ memo.id = activePick
    <3>1. CASE activePick' = activePick
      BY <1>6, <2>1, <3>1
    <3>2. CASE activePick' = NoId
      BY <1>2, <1>3, <1>6, <2>1, <3>2 DEF PickInv, Late, Fits, DeedFits
    <3>3. CASE activePick' # activePick /\ activePick' # NoId
      BY <3>3, PickMoves DEF Leads
    <3> QED
      BY <3>1, <3>2, <3>3
  <2>2. CASE /\ memo.at = "settled" => activePick = NoId
             /\ \/ memo.id \in Saved \/ "pick" \in excuse[memo.id]
                \/ \E g \in Gestures : Late(g) /\ gesture[g].id = memo.id
    <3>1. CASE activePick' = activePick \/ activePick' = NoId
      BY <1>3, <1>6, <2>2, <3>1
    <3>2. CASE activePick' # activePick /\ activePick' # NoId
      BY <3>2, PickMoves DEF Leads
    <3> QED
      BY <3>1, <3>2
  <2>3. ASSUME NEW g \in Gestures, gesture[g].at = "tell"
        PROVE  gesture'[g].at = "tell"
    <3>1. memo' # NoMemo
      BY DEF NoMemo
    <3>2. CASE gesture'[g] = gesture[g]
      BY <2>3, <3>2
    <3>3. CASE \E s \in ServerId : Begins(g, s)
      BY <2>3, <3>3, BeginIs DEF Begins, Fits, DeedFits
    <3>4. CASE Onward(g)
      BY <2>3, <3>4 DEF Onward, Leads
    <3>5. CASE Ends(g)
      BY <2>3, <3>1, <3>5 DEF Ends
    <3>6. CASE ServersCrash
      BY <3>1, <3>6 DEF ServersCrash
    <3> QED
      BY <3>2, <3>3, <3>4, <3>5, <3>6, GestureMoves
  <2> QED
    BY <1>6, <2>1, <2>2, <2>3 DEF MemoInv
<1> QED
  BY <1>4, <1>5, <1>6, MemoMoves

-------------------------------------------------------------------------------
(* The theorems                                                              *)

LEMMA InitTyped ==
    ASSUME ServersInit
    PROVE  Typed /\ Fits
<1>1. NoGesture \in Gesturing /\ NoRequest \in Requesting /\ NoRetry \in Retrying /\ NoMemo \in Memory
      /\ Unsaid \in [is : {"unknown", "valid", "expired"}, of : Keys] /\ SavedAtFirst \subseteq ServerId
  BY KeysAre DEF NoGesture, Gesturing, NoRequest, Requesting, NoRetry, Retrying, NoMemo, Memory, Unsaid,
                 Points, NoId
<1>2. Typed
  BY <1>1, KeysAre DEF ServersInit, Typed
<1>3. \A g \in Gestures : DeedFits(g)
  BY DEF ServersInit, DeedFits, NoGesture
<1>4. (\A r \in Asker : ~Waiting(r)) /\ memo.at = "none"
  BY DEF ServersInit, Waiting, NoRequest, NoMemo
<1> QED
  BY <1>2, <1>3, <1>4 DEF Fits

LEMMA InitKeys ==
    ASSUME ServersInit
    PROVE  KeyInv /\ NoteInv /\ PickInv /\ ChosenInv /\ MemoInv
<1>1. \A g \in Gestures : gesture[g] = NoGesture
  BY DEF ServersInit
<1>2. \A g \in Gestures : /\ gesture[g].does = "none" /\ gesture[g].at = "over" /\ gesture[g].list = {}
  BY <1>1 DEF NoGesture
<1>3. OwnKeys /\ NewKeys /\ OldKeys
  BY <1>2 DEF OwnKeys, Makes, NewKeys, Fresh, OldKeys
<1>4. ListedKeys
  BY DEF ServersInit, NoRetry, ListedKeys
<1>5. RowKeys
  <2>1. ASSUME NEW s \in Saved
        PROVE  /\ s \in SavedAtFirst /\ profile[s] # NoKey /\ profile[s] \in vault
               /\ profile[s][1] = s /\ profile[s][2] = 0
    BY KeysAre DEF ServersInit, Saved, FirstKey
  <2>2. ASSUME NEW s \in Saved
        PROVE  Out(profile[s])
    BY <1>2, <2>1 DEF Out, Begun, Fresh
  <2> QED
    BY <2>1, <2>2 DEF RowKeys
<1>6. NoteInv
  BY DEF ServersInit, NoteInv, Waiting, NoRequest
<1>7. PickInv
  BY <1>2, KeysAre DEF ServersInit, PickInv, Saved, FirstKey
<1>8. MemoInv
  BY DEF ServersInit, MemoInv, NoMemo
<1>9. ChosenInv
  BY <1>2 DEF ServersInit, ChosenInv
<1> QED
  BY <1>3, <1>4, <1>5, <1>6, <1>7, <1>8, <1>9 DEF KeyInv

\* Every variable keeps to its type.
THEOREM TypeCorrect == ServersSpec => []ServersTypeOK
<1>1. ServersInit => Typed /\ Fits
  BY InitTyped
<1>2. Typed /\ Fits /\ [ServersNext]_avars => Typed' /\ Fits'
  BY TypedInductive
<1>3. Typed => ServersTypeOK
  BY DEF Typed, ServersTypeOK, Memory
<1> QED
  BY <1>1, <1>2, <1>3, PTL DEF ServersSpec

\* Only keys that no row has, and that no save under way will write into one, are
\* deleted or listed for deletion; each row's key is its own.
THEOREM KeyInvariant == ServersSpec => [](Typed /\ Fits /\ KeyInv)
<1>1. ServersInit => Typed /\ Fits /\ KeyInv
  BY InitTyped, InitKeys
<1>2. Typed /\ Fits /\ KeyInv /\ [ServersNext]_avars => (Typed /\ Fits /\ KeyInv)'
  BY TypedInductive, KeyInvInductive
<1> QED
  BY <1>1, <1>2, PTL DEF ServersSpec

\* A saved server has its key, and the verdict shown is about it, whatever gestures
\* and requests overlap, fail or are cut off: CredentialsAgree, with its exceptions.
THEOREM CredentialsHold == ServersSpec => []CredentialsAgree
<1>1. ServersInit => NoteInv
  BY InitKeys
<1>2. Typed /\ Fits /\ KeyInv /\ NoteInv /\ [ServersNext]_avars => NoteInv'
  BY NoteInvInductive
<1>3. Typed /\ KeyInv /\ NoteInv => CredentialsAgree
  <2> SUFFICES ASSUME Typed, KeyInv, NoteInv, NEW s \in ServerId
               PROVE  /\ s \in Saved => profile[s] \in vault \/ "key" \in excuse[s]
                      /\ note[s] # Unsaid /\ ~Under(s) =>
                             note[s].of = profile[s] \/ "note" \in excuse[s]
    BY DEF CredentialsAgree
  <2> QED
    BY DEF KeyInv, RowKeys, NoteInv, Under, Stands
<1> QED
  BY <1>1, <1>2, <1>3, KeyInvariant, PTL DEF ServersSpec

\* With no gesture under way what is picked is what the user picked last, unless its
\* server was deleted; it is there, and the shelf shows it, or a server that is there
\* when nothing is picked: ShelfFollowsTheUser, with its exceptions.
THEOREM ShelfIsTheUsers == ServersSpec => []ShelfFollowsTheUser
<1>1. ServersInit => PickInv /\ ChosenInv /\ MemoInv
  BY InitKeys
<1>2. Typed /\ Fits /\ KeyInv /\ PickInv /\ ChosenInv /\ MemoInv /\ [ServersNext]_avars
        => PickInv' /\ ChosenInv' /\ MemoInv'
  BY PickInvInductive, ChosenInvInductive, MemoInvInductive
<1>3. Typed /\ PickInv /\ ChosenInv /\ MemoInv => ShelfFollowsTheUser
  <2> SUFFICES ASSUME Typed, PickInv, ChosenInv, MemoInv, \A g \in Gestures : gesture[g].at = "over"
               PROVE  /\ activePick = chosen \/ (activePick = NoId /\ "lost" \in excuse[chosen])
                      /\ activePick \in Saved \cup {NoId} \/ "pick" \in excuse[activePick]
                      /\ memo.at = "settled" =>
                            \/ memo.id = activePick
                            \/ activePick = NoId /\ (memo.id \in Saved \/ "pick" \in excuse[memo.id])
    BY DEF ShelfFollowsTheUser, Stands
  <2> QED
    BY DEF PickInv, ChosenInv, MemoInv, Late
<1> QED
  BY <1>1, <1>2, <1>3, KeyInvariant, PTL DEF ServersSpec
===============================================================================

------------------------------- MODULE Servers -------------------------------
(* Servers and their credentials: the gestures of the servers screen           *)
(* (server_manager.dart) over three stores that share no transaction: the      *)
(* profile rows and the active pick in SQLite (save_server, delete_server,     *)
(* set_active_server in ffi/application.rs), the secrets in the keystore, and  *)
(* the memo of the active server in the repository (library_repository.dart).  *)
(* Beside them the requests in flight, with the key they read before they were *)
(* sent and the verdict about it they leave behind (store/auth_state.rs).      *)
(*                                                                             *)
(* A key is known by the reference it is stored under: every save makes a new  *)
(* one.  A server keeps its address.  FAULT marks a plausible slip of the      *)
(* operator after it.                                                          *)
EXTENDS Naturals, FiniteSets

CONSTANTS
    ServerId,       \* ids; one that was deleted is not given again
    SavedAtFirst,   \* servers saved before the behaviour begins
    Asker,          \* bound: requests, which may overlap
    MaxGestures,    \* bound: gestures, which may overlap
    MaxTroubles     \* bound: kinds of trouble, each once

ASSUME ServersAssumption ==
    /\ SavedAtFirst \subseteq ServerId /\ {MaxGestures, MaxTroubles} \subseteq Nat
    /\ 0 \notin ServerId   \* NoId is no server's

VARIABLES
    profile,    \* the servers table: the reference of each row's key
    vault,      \* references the keystore has a secret under
    cleanups,   \* comic_pending_cleanups: references still to be deleted
    note,       \* app_state: the verdict about a server's key, and (history) which
    pool,       \* the pooled clients: the key of each
    activePick, \* app_state: the active server
    memo,       \* the repository's lookup of the active server
    gesture,    \* gestures, by number
    retry,      \* retryPendingCleanups
    asking,     \* requests in flight
    troubles,   \* kinds of trouble so far: "keystore", "core", "crash"
    chosen,     \* history: the server the user picked last, if it was not deleted
    excuse      \* history, per server: what went wrong with its "key", its "note", a
                \* "pick" of it that stayed, and a pick of it that was "lost"

avars == <<profile, vault, cleanups, note, pool, activePick, memo, gesture, retry,
           asking, troubles, chosen, excuse>>

Gestures == 1 .. MaxGestures
NoId == 0
NoKey == <<NoId, 0>>
FirstKey(s) == <<s, 0>>
Keys == {NoKey} \cup (ServerId \X (0 .. MaxGestures))
Unsaid == [is |-> "unknown", of |-> NoKey]
NoMemo == [at |-> "none", id |-> NoId]
NoGesture == [does |-> "none", at |-> "over", id |-> NoId, key |-> NoKey, old |-> NoKey,
              wasActive |-> FALSE, list |-> {}]
NoRetry == [at |-> "idle", todo |-> {}, left |-> {}, some |-> FALSE]
NoRequest == [at |-> "unsent", id |-> NoId, key |-> NoKey]
RequestOver == [NoRequest EXCEPT !.at = "over"]
Waiting(r) == asking[r].at \in {"key", "sent"}
Saved == {s \in ServerId : profile[s] # NoKey}

ServersInit ==
    /\ profile = [s \in ServerId |-> IF s \in SavedAtFirst THEN FirstKey(s) ELSE NoKey]
    /\ vault = {FirstKey(s) : s \in SavedAtFirst}
    /\ cleanups = {}
    /\ note = [s \in ServerId |-> Unsaid]
    /\ pool = [s \in ServerId |-> NoKey]
    /\ activePick \in SavedAtFirst \cup {NoId}
    /\ chosen = activePick
    /\ memo = NoMemo
    /\ gesture = [g \in Gestures |-> NoGesture]
    /\ retry = NoRetry
    /\ asking = [r \in Asker |-> NoRequest]
    /\ troubles = {}
    /\ excuse = [s \in ServerId |-> {}]

Mishappens(what) ==
    /\ what \notin troubles /\ Cardinality(troubles) < MaxTroubles
    /\ troubles' = troubles \cup {what}

\* An outcome that may be a failure of the kind.
Outcome(fails, kind) == IF fails THEN Mishappens(kind) ELSE UNCHANGED troubles

Stands(g, place) == gesture[g].at = place

\* A gesture that is over holds nothing any more.
Past(g) ==
    IF gesture[g].does = "none" THEN NoGesture
    ELSE [NoGesture EXCEPT !.does = "done", !.id = gesture[g].id]

GoesTo(g, place) ==
    gesture' = [gesture EXCEPT ![g] =
                   IF place = "over" THEN Past(g) ELSE [gesture[g] EXCEPT !.at = place]]

(* ------------------------------------------------------------------------- *)
(* add and update.                                                           *)

\* The gestures are numbered as they begin.
IsNext(g) == gesture[g].does = "none" /\ \A h \in 1 .. g - 1 : gesture[h].does # "none"

\* The connection test has passed; a test that fails leaves nothing.
AddBegins(g, s) ==
    /\ IsNext(g) /\ s \notin SavedAtFirst /\ \A h \in Gestures : gesture[h].id # s
    /\ gesture' = [gesture EXCEPT ![g] =
          [NoGesture EXCEPT !.does = "add", !.at = "secret", !.id = s, !.key = FirstKey(s)]]
    /\ UNCHANGED <<profile, vault, cleanups, note, pool, activePick, chosen, memo, retry, asking,
                   troubles, excuse>>

\* old: the reference the form was opened with.
UpdateBegins(g, s) ==
    /\ IsNext(g) /\ s \in Saved
    /\ gesture' = [gesture EXCEPT ![g] =
          [NoGesture EXCEPT !.does = "update", !.at = "secret", !.id = s, !.key = <<s, g>>,
                            !.old = profile[s]]]
    /\ UNCHANGED <<profile, vault, cleanups, note, pool, activePick, chosen, memo, retry, asking,
                   troubles, excuse>>

SecretSaved(g, fails) ==
    /\ Stands(g, "secret") /\ Outcome(fails, "keystore")
    /\ vault' = IF fails THEN vault ELSE vault \cup {gesture[g].key}
    /\ GoesTo(g, IF fails THEN "over" ELSE "readback")
    /\ UNCHANGED <<profile, cleanups, note, pool, activePick, chosen, memo, retry, asking, excuse>>

\* Another value than was written undoes the save; a read that throws does not.
SecretRead(g, fails) ==
    /\ Stands(g, "readback") /\ Outcome(fails, "keystore")
    /\ IF fails THEN \E place \in {"undo", "over"} : GoesTo(g, place) ELSE GoesTo(g, "profile")
    /\ UNCHANGED <<profile, vault, cleanups, note, pool, activePick, chosen, memo, retry, asking, excuse>>

\* What an error path does with the secret it wrote; its own failure is swallowed.
SecretUndone(g, fails) ==
    /\ Stands(g, "undo") /\ Outcome(fails, "keystore")
    /\ vault' = IF fails THEN vault ELSE vault \ {gesture[g].key}
    /\ GoesTo(g, "over")
    /\ UNCHANGED <<profile, cleanups, note, pool, activePick, chosen, memo, retry, asking, excuse>>

Outstanding(s) == \E r \in Asker : Waiting(r) /\ asking[r].id = s

Excused(s, what, really) == [excuse EXCEPT ![s] = IF really THEN @ \cup {what} ELSE @]

\* save_server, the row: inserted or replaced, so that a row deleted meanwhile is
\* there again.
ProfileSaved(g, fails) ==
    /\ Stands(g, "profile") /\ Outcome(fails, "core")
    /\ LET s == gesture[g].id
       IN  /\ profile' = IF fails THEN profile ELSE [profile EXCEPT ![s] = gesture[g].key]
           /\ excuse' = Excused(s, "note", ~fails /\ Outstanding(s))
    /\ GoesTo(g, IF fails THEN "undo" ELSE "unnote")
    /\ UNCHANGED <<vault, cleanups, note, pool, activePick, chosen, memo, retry, asking>>

\* save_server, the note, and delete_server's: a statement of its own after the row
\* was written, whose error is swallowed.
NoteCleared(g, fails) ==
    /\ Stands(g, "unnote") /\ Outcome(fails, "core")
    /\ note' = IF fails THEN note ELSE [note EXCEPT ![gesture[g].id] = Unsaid]
    /\ excuse' = Excused(gesture[g].id, "note", fails)
    /\ GoesTo(g, IF gesture[g].does = "delete" THEN "mirror" ELSE "libraries")
    /\ UNCHANGED <<profile, vault, cleanups, pool, activePick, chosen, memo, retry, asking>>

\* A failure here takes the secret of an add back, and leaves its profile; that of
\* an update leaves the old secret, which nothing names any more.
LibrariesSaved(g, fails) ==
    /\ Stands(g, "libraries") /\ Outcome(fails, "core")
    /\ LET adds == gesture[g].does = "add"
       IN  /\ GoesTo(g, IF fails THEN IF adds THEN "undo" ELSE "over"
                        ELSE IF adds THEN "pick" ELSE "cleanup")
           /\ excuse' = Excused(gesture[g].id, "key", fails /\ adds)
    /\ UNCHANGED <<profile, vault, cleanups, note, pool, activePick, chosen, memo, retry, asking>>

(* ------------------------------------------------------------------------- *)
(* Deleting the secret a gesture has made useless, now or later.             *)

\* FAULT: the reference of the row as it is now, not as it was.
SpentByRow(g) == profile[gesture[g].id]

Spent(g) == gesture[g].old

AfterCleanup(g) == IF gesture[g].does = "delete" THEN "tell" ELSE "pick"

\* _scheduleCleanup.
CleanedUp(g, fails) ==
    /\ Stands(g, "cleanup") /\ Outcome(fails, "keystore")
    /\ vault' = IF fails THEN vault ELSE vault \ {Spent(g)}
    /\ GoesTo(g, IF fails THEN "enqueue" ELSE AfterCleanup(g))
    /\ UNCHANGED <<profile, cleanups, note, pool, activePick, chosen, memo, retry, asking, excuse>>

\* _enqueuePendingCleanup reads the list, and writes it with one more.
CleanupListed(g) ==
    /\ Stands(g, "enqueue")
    /\ gesture' = [gesture EXCEPT ![g].list = cleanups, ![g].at = "append"]
    /\ UNCHANGED <<profile, vault, cleanups, note, pool, activePick, chosen, memo, retry, asking,
                   troubles, excuse>>

CleanupAppended(g, fails) ==
    /\ Stands(g, "append") /\ Outcome(fails, "keystore")
    /\ cleanups' = IF fails THEN cleanups ELSE gesture[g].list \cup {Spent(g)}
    /\ GoesTo(g, AfterCleanup(g))
    /\ UNCHANGED <<profile, vault, note, pool, activePick, chosen, memo, retry, asking, excuse>>

\* retryPendingCleanups, whenever the servers are listed.
RetryBegins ==
    /\ retry.at = "idle" /\ cleanups # {}
    /\ retry' = [at |-> "going", todo |-> cleanups, left |-> {}, some |-> FALSE]
    /\ UNCHANGED <<profile, vault, cleanups, note, pool, activePick, chosen, memo, gesture, asking,
                   troubles, excuse>>

RetryDeletes(fails) ==
    /\ retry.at = "going" /\ Outcome(fails, "keystore")
    /\ \E k \in retry.todo :
          /\ vault' = IF fails THEN vault ELSE vault \ {k}
          /\ retry' = [retry EXCEPT !.todo = @ \ {k}, !.left = IF fails THEN @ \cup {k} ELSE @,
                                       !.some = @ \/ ~fails]
    /\ UNCHANGED <<profile, cleanups, note, pool, activePick, chosen, memo, gesture, asking, excuse>>

\* Nothing is written when nothing was deleted; an error ends it quietly.
RetryEnds(fails) ==
    /\ retry.at = "going" /\ retry.todo = {}
    /\ fails => retry.some
    /\ Outcome(fails, "keystore")
    /\ cleanups' = IF retry.some /\ ~fails THEN retry.left ELSE cleanups
    /\ retry' = NoRetry
    /\ UNCHANGED <<profile, vault, note, pool, activePick, chosen, memo, gesture, asking, excuse>>

(* ------------------------------------------------------------------------- *)
(* switchTo, by itself and at the end of the form.                           *)

SwitchBegins(g, s) ==
    /\ IsNext(g) /\ s \in Saved
    /\ gesture' = [gesture EXCEPT ![g] =
          [NoGesture EXCEPT !.does = "switch", !.at = "pick", !.id = s]]
    /\ UNCHANGED <<profile, vault, cleanups, note, pool, activePick, chosen, memo, retry, asking,
                   troubles, excuse>>

Deleting(s) ==
    profile[s] = NoKey
        \/ \E g \in Gestures : gesture[g].does = "delete" /\ gesture[g].id = s /\ ~Stands(g, "over")

\* The deletion of another server that has found its pick in place, and has not
\* cleared it yet.
Overtakes(s) ==
    \E g \in Gestures :
        gesture[g].at \in {"row", "unpick"} /\ gesture[g].wasActive /\ gesture[g].id # s

\* set_active_server does not ask whether the server is there.
Picked(g, fails) ==
    /\ Stands(g, "pick") /\ Outcome(fails, "core")
    /\ LET s == gesture[g].id
       IN  /\ activePick' = IF fails THEN activePick ELSE s
           /\ chosen' = IF fails THEN chosen ELSE s
           /\ excuse' = [excuse EXCEPT ![s] = @ \cup
                  {what \in {"pick", "lost"} :
                      ~fails /\ IF what = "pick" THEN Deleting(s) ELSE Overtakes(s)}]
    /\ GoesTo(g, IF fails THEN "over" ELSE "tell")
    /\ UNCHANGED <<profile, vault, cleanups, note, pool, memo, retry, asking>>

\* FAULT: a deletion is told only when it took the active server.
MemoAfterActive(g) ==
    IF gesture[g].does = "delete" /\ ~gesture[g].wasActive THEN memo ELSE NoMemo

MemoAfter(g) == NoMemo

\* onActiveServerChanged: the lookup is forgotten, one under way included.
Told(g) ==
    /\ Stands(g, "tell")
    /\ memo' = MemoAfter(g)
    /\ GoesTo(g, "over")
    /\ UNCHANGED <<profile, vault, cleanups, note, pool, activePick, chosen, retry, asking,
                   troubles, excuse>>

(* ------------------------------------------------------------------------- *)
(* delete.                                                                   *)

\* get_server: the reference to delete later.
DeleteBegins(g, s) ==
    /\ IsNext(g) /\ s \in Saved
    /\ gesture' = [gesture EXCEPT ![g] =
          [NoGesture EXCEPT !.does = "delete", !.at = "weigh", !.id = s, !.old = profile[s]]]
    /\ UNCHANGED <<profile, vault, cleanups, note, pool, activePick, chosen, memo, retry, asking,
                   troubles, excuse>>

\* FAULT: whatever is picked goes with the server.
WasActiveAlways(g) == TRUE

WasActive(g) == activePick = gesture[g].id

\* is_active_server, before the row goes.
Weighed(g) ==
    /\ Stands(g, "weigh")
    /\ gesture' = [gesture EXCEPT ![g].wasActive = WasActive(g), ![g].at = "row"]
    /\ UNCHANGED <<profile, vault, cleanups, note, pool, activePick, chosen, memo, retry, asking,
                   troubles, excuse>>

\* The row, and the pooled client with it; a row that is gone ends the gesture, and
\* so does an error.
RowDeleted(g, fails) ==
    /\ Stands(g, "row") /\ Outcome(fails, "core")
    /\ LET s == gesture[g].id
       IN  IF s \in Saved /\ ~fails
           THEN /\ profile' = [profile EXCEPT ![s] = NoKey]
                /\ pool' = [pool EXCEPT ![s] = NoKey]
                /\ excuse' = Excused(s, "note", Outstanding(s))
                /\ GoesTo(g, "unpick")
           ELSE /\ GoesTo(g, "over")
                /\ UNCHANGED <<profile, pool, excuse>>
    /\ UNCHANGED <<vault, cleanups, note, activePick, chosen, memo, retry, asking>>

\* clear_active_server clears whatever pick there is by now, also one made since
\* the check; its error is swallowed.
Unpicked(g, fails) ==
    /\ Stands(g, "unpick") /\ Outcome(fails, "core")
    /\ LET clears == gesture[g].wasActive /\ ~fails
       IN  /\ activePick' = IF clears THEN NoId ELSE activePick
           /\ chosen' = IF clears /\ chosen = gesture[g].id THEN NoId ELSE chosen
    /\ excuse' = Excused(gesture[g].id, "pick", fails)
    /\ GoesTo(g, "unnote")
    /\ UNCHANGED <<profile, vault, cleanups, note, pool, memo, retry, asking>>

\* delete_server_mirror and the cover files (module Covers).  Its error keeps the
\* secret, and the memo of a server that is gone.
MirrorDeleted(g, fails) ==
    /\ Stands(g, "mirror") /\ Outcome(fails, "core")
    /\ GoesTo(g, IF fails THEN "over" ELSE "cleanup")
    /\ excuse' = Excused(gesture[g].id, "pick", fails)
    /\ UNCHANGED <<profile, vault, cleanups, note, pool, activePick, chosen, memo, retry, asking>>

(* ------------------------------------------------------------------------- *)
(* The memo, and requests.                                                   *)

\* _activeServerId: the lookup itself is kept, and shared by all who ask.
LookupBegins ==
    /\ memo = NoMemo
    /\ memo' = [at |-> "list", id |-> NoId]
    /\ UNCHANGED <<profile, vault, cleanups, note, pool, activePick, chosen, gesture, retry, asking,
                   troubles, excuse>>

\* list_servers: its first row stands in for a pick; no servers is not remembered.
LookupLists ==
    /\ memo.at = "list"
    /\ memo' \in IF Saved = {} THEN {NoMemo} ELSE {[at |-> "active", id |-> s] : s \in Saved}
    /\ UNCHANGED <<profile, vault, cleanups, note, pool, activePick, chosen, gesture, retry, asking,
                   troubles, excuse>>

LookupSettles ==
    /\ memo.at = "active"
    /\ memo' = [at |-> "settled", id |-> IF activePick = NoId THEN memo.id ELSE activePick]
    /\ UNCHANGED <<profile, vault, cleanups, note, pool, activePick, chosen, gesture, retry, asking,
                   troubles, excuse>>

\* _activeCredential: the row, then the keystore.  Every asker asks once.
RequestBegins(r, s) ==
    /\ asking[r] = NoRequest /\ s \in Saved
    /\ asking' = [asking EXCEPT ![r] = [at |-> "key", id |-> s, key |-> profile[s]]]
    /\ UNCHANGED <<profile, vault, cleanups, note, pool, activePick, chosen, memo, gesture, retry,
                   troubles, excuse>>

\* KomgaClient::shared: the key of the last request is the pooled one.
RequestSent(r) ==
    /\ asking[r].at = "key"
    /\ IF asking[r].key \in vault
       THEN /\ pool' = [pool EXCEPT ![asking[r].id] = asking[r].key]
            /\ asking' = [asking EXCEPT ![r].at = "sent"]
       ELSE asking' = [asking EXCEPT ![r] = RequestOver] /\ UNCHANGED pool
    /\ UNCHANGED <<profile, vault, cleanups, note, activePick, chosen, memo, gesture, retry,
                   troubles, excuse>>

\* note_credential: the answer's verdict, whatever key the row has by now; any
\* other failure says nothing.
RequestAnswered(r, verdict) ==
    /\ asking[r].at = "sent"
    /\ note' = IF verdict = "nothing" THEN note
               ELSE [note EXCEPT ![asking[r].id] = [is |-> verdict, of |-> asking[r].key]]
    /\ asking' = [asking EXCEPT ![r] = RequestOver]
    /\ UNCHANGED <<profile, vault, cleanups, pool, activePick, chosen, memo, gesture, retry,
                   troubles, excuse>>

\* The process ends.  What was between two stores stays there.
ServersCrash ==
    /\ Mishappens("crash")
    /\ gesture' = [g \in Gestures |-> Past(g)]
    /\ excuse' = [s \in ServerId |-> excuse[s] \cup
          (IF \E g \in Gestures : gesture[g].id = s /\ gesture[g].at \in {"unpick", "unnote"}
           THEN {"note", "pick"} ELSE {})]
    /\ retry' = NoRetry /\ memo' = NoMemo
    /\ asking' = [r \in Asker |-> IF Waiting(r) THEN RequestOver ELSE asking[r]]
    /\ pool' = [s \in ServerId |-> NoKey]
    /\ UNCHANGED <<profile, vault, cleanups, note, activePick, chosen>>

ServersNext ==
    \/ \E g \in Gestures, s \in ServerId :
          AddBegins(g, s) \/ UpdateBegins(g, s) \/ SwitchBegins(g, s) \/ DeleteBegins(g, s)
    \/ \E g \in Gestures, fails \in BOOLEAN :
          \/ SecretSaved(g, fails) \/ SecretRead(g, fails) \/ SecretUndone(g, fails)
          \/ ProfileSaved(g, fails) \/ LibrariesSaved(g, fails)
          \/ CleanedUp(g, fails) \/ CleanupAppended(g, fails)
          \/ RowDeleted(g, fails) \/ Unpicked(g, fails) \/ NoteCleared(g, fails)
          \/ Picked(g, fails) \/ MirrorDeleted(g, fails)
    \/ \E g \in Gestures : CleanupListed(g) \/ Told(g) \/ Weighed(g)
    \/ RetryBegins \/ \E fails \in BOOLEAN : RetryDeletes(fails) \/ RetryEnds(fails)
    \/ LookupBegins \/ LookupLists \/ LookupSettles
    \/ \E r \in Asker :
          \/ \E s \in ServerId : RequestBegins(r, s)
          \/ RequestSent(r)
          \/ \E verdict \in {"valid", "expired", "nothing"} : RequestAnswered(r, verdict)
    \/ ServersCrash

ServersSpec == ServersInit /\ [][ServersNext]_avars

(* ------------------------------------------------------------------------- *)
(* Properties                                                                *)

ServersTypeOK ==
    /\ profile \in [ServerId -> Keys] /\ pool \in [ServerId -> Keys]
    /\ vault \subseteq Keys /\ cleanups \subseteq Keys
    /\ note \in [ServerId -> [is : {"unknown", "valid", "expired"}, of : Keys]]
    /\ {activePick, chosen, memo.id} \subseteq ServerId \cup {NoId}

Under(s) == \E g \in Gestures : gesture[g].id = s /\ ~Stands(g, "over")

\* Whatever gestures overlap, fail half-way or are cut off: a saved server has its
\* key, except one whose add failed at its last step; and once the gestures on it
\* are over, the verdict it shows is about that key, or there is none when it is
\* gone.  That the verdict goes with the key is best effort, and the exceptions are
\* what this leaves: a request sent with the older key that was still out when the
\* row changed, a clear that failed after it, a process that ended between the two.
CredentialsAgree ==
    \A s \in ServerId :
        /\ s \in Saved => profile[s] \in vault \/ "key" \in excuse[s]
        /\ note[s] # Unsaid /\ ~Under(s) =>
               note[s].of = profile[s] \/ "note" \in excuse[s]

\* With no gesture under way, what is picked is what the user picked last, unless
\* that server was deleted: a deletion takes no pick but that of its own server,
\* except one made after it found its own in place.  What is picked is there, unless
\* its deletion failed half-way, could not clear the pick, was cut off or was
\* overtaken by a switch to it; and the shelf shows it, or a server that is there
\* when none is picked.
ShelfFollowsTheUser ==
    (\A g \in Gestures : Stands(g, "over")) =>
        /\ activePick = chosen \/ (activePick = NoId /\ "lost" \in excuse[chosen])
        /\ activePick \in Saved \cup {NoId} \/ "pick" \in excuse[activePick]
        /\ memo.at = "settled" =>
              \/ memo.id = activePick
              \/ activePick = NoId /\ (memo.id \in Saved \/ "pick" \in excuse[memo.id])

\* A verdict about a key that was replaced does not outlive the gesture.
VerdictIsOfTheKey ==
    \A s \in ServerId : note[s] # Unsaid /\ ~Under(s) => note[s].of = profile[s]

\* The active pick belongs to the user: only the deletion of that server takes it.
PickIsTheUsers == activePick = chosen

\* What is picked is a server that is there.
PickIsThere == (\A g \in Gestures : Stands(g, "over")) => activePick \in Saved \cup {NoId}

ServersAtRest ==
    (\A s \in ServerId : ~Under(s)) /\ retry = NoRetry /\ \A r \in Asker : ~Waiting(r)

\* Every secret has an owner, or is on the list of those still to be deleted.
SecretsAreOwned == ServersAtRest => \A k \in vault : k \in cleanups \/ \E s \in Saved : profile[s] = k

\* A server that is gone keeps no client, and with it no key.
PoolForgets == ServersAtRest => \A s \in ServerId : pool[s] # NoKey => s \in Saved
==============================================================================

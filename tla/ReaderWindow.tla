------------------------------ MODULE ReaderWindow ------------------------------
(***************************************************************************)
(* How far ahead an open reader downloads: the window derived from the      *)
(* device and the link (reader/window.rs), the pages a pass asks for        *)
(* (reader/prefetch.rs, reader_prefetch and reader_configure_device in      *)
(* ffi/application.rs) and the controller that guesses the link from what   *)
(* requests did and reports it (reader_controller.dart).                    *)
(*                                                                         *)
(* A report to the core is asynchronous and may land in any order; a turn,  *)
(* a change of layout and the fetch of a page on screen are one step        *)
(* (Reading and PageCache take them apart), and a page on disk stays there. *)
(* Sizes are in MiB and spreads are numbered from 1.                        *)
(***************************************************************************)
EXTENDS Paging, FiniteSets, SequencesExt, Sift

CONSTANTS
    PageCount,      \* pages of the open book
    Machines,       \* what a device may be, see Machine
    Layouts,        \* modes the reader may choose, a subset of ReadMode
    Radios,         \* states of the link: "up", "slow", "down"
    MaxReports,     \* bound: device reports under way together
    MaxTurns        \* bound: gestures of the user

\* memory is 0 when the platform does not say, page, the average size of the
\* book's pages, 0 when the manifest does not; no screen sends a pool size, and
\* the core then takes 512.
Machine == [memory : Nat, page : Nat]

ASSUME ReaderWindowAssumption ==
    /\ PageCount \in Nat \ {0}
    /\ Machines # {} /\ Machines \subseteq Machine
    /\ Layouts # {} /\ Layouts \subseteq ReadMode
    /\ Radios \subseteq {"up", "slow", "down"} /\ "up" \in Radios
    /\ MaxReports \in Nat \ {0}
    /\ MaxTurns \in Nat

VARIABLES
    machine,    \* the device, fixed for a behaviour
    radio,      \* what the link really is
    layout,     \* the session's mode
    spread,     \* the spread on screen
    moving,     \* a turn landed within the settle window
    failures,   \* _recentFailures, as far as infer tells them apart
    slows,      \* _recentSlowResponses, likewise
    words,      \* the link the controller believes in
    reports,    \* device reports sent to the core and not answered
    described,  \* the controller has had an answer to a report
    window,     \* the live session's plan
    warming,    \* the prefetch pass
    warm,       \* pages on disk
    turns,
    wasted      \* history: failed requests of passes since the core knew of the outage

wvars == <<machine, radio, layout, spread, moving, failures, slows, words, reports,
           described, window, warming, warm, turns, wasted>>

-------------------------------------------------------------------------------
(* The plan                                                                  *)

Least(a, b) == IF a < b THEN a ELSE b
Most(a, b) == IF a > b THEN a ELSE b
Clamped(n, low, high) == Least(Most(n, low), high)

Link == {"wifi", "cellular", "weak", "offline", "unknown"}

Pool == 512

\* memory_budget
MemoryTier(m) == IF m.memory = 0 THEN 32 ELSE Clamped(m.memory \div 8, 16, 256)

\* page_cost
PageCost(m) == IF m.page > 0 THEN m.page ELSE 2

\* Neither twice the memory tier nor half the disk pool is exceeded, but a
\* whole spread is always allowed.
Ceiling(m, width) ==
    Least(Most(width, (2 * MemoryTier(m)) \div PageCost(m)),
          Most(width, (Pool \div 2) \div PageCost(m)))

\* What fits, shaped by the mode: a strip looks twice as far ahead.
Shaped(m, mode, width) ==
    LET fit     == Most(1, MemoryTier(m) \div PageCost(m))
        ahead   == Clamped(Most(1, fit \div 4) \div width, 1, 8)
        behind  == Clamped(ahead \div 2, 1, 4)
        forward == IF mode = "webtoon" THEN Clamped(2 * ahead, 1, 8) ELSE ahead
        back    == IF mode = "webtoon" THEN Least(behind, 1) ELSE behind
        cap     == Least((1 + forward + back) * width, Ceiling(m, width))
    IN  [forward |-> forward, back |-> back, cap |-> cap, inFlight |-> Least(cap, 4)]

\* The network has its say.
Linked(w, network, width) ==
    LET near == [w EXCEPT !.forward = Least(@, 2), !.back = Least(@, 1)]
    IN  CASE network = "wifi" -> w
          [] network = "offline" ->
                [forward |-> 0, back |-> 0, cap |-> 0, inFlight |-> 0]
          [] network = "weak" -> [near EXCEPT !.cap = Least(@, 3), !.inFlight = 1]
          [] network = "cellular" ->
                [w EXCEPT !.cap = Most(@ \div 2, Least(width, 2)),
                          !.inFlight = Least(@, 2)]
          [] OTHER ->
                [near EXCEPT !.cap = Least(@, (1 + near.forward + near.back) * width),
                             !.inFlight = Least(@, 2)]

\* Mid-flip only the spread being landed on is worth asking for.
Steadied(w, stable, width) ==
    IF stable THEN w
    ELSE [forward |-> Least(w.forward, 1), back |-> 0, cap |-> Least(w.cap, width),
          inFlight |-> Least(w.inFlight, width)]

WindowPlan(m, mode, width, network, stable) ==
    Steadied(Linked(Shaped(m, mode, width), network, width), stable, width)

\* Without a plan the stored settings apply, here their defaults.
DefaultWindow == [forward |-> 2, back |-> 1, cap |-> 12, inFlight |-> 4]

\* windowed: the spread on screen, then ahead, then behind.
Windowed(count, center, forward, back) ==
    Sift(<<center>> \o [i \in 1 .. forward |-> center + i]
                    \o [i \in 1 .. back |-> center - i],
         1 .. count)

\* Vec::truncate
Truncated(s, n) == [i \in DOMAIN s \cap 1 .. n |-> s[i]]

\* plan: a page on disk keeps its place in the window and leaves the queue;
\* the least useful pages are cut off the end.
PrefetchQueue(spreads, center, w, cached) ==
    LET near  == Windowed(Len(spreads), Least(center, Len(spreads)), w.forward, w.back)
        pages == FlattenSeq([i \in DOMAIN near |-> spreads[near[i]]])
        cold  == Sift(pages, Nat \ cached)
    IN  Truncated(cold, w.cap)

-------------------------------------------------------------------------------
(* Types                                                                     *)

Window == [on : BOOLEAN, forward : Nat, back : Nat, cap : Nat, inFlight : Nat,
           network : Link, width : {1, 2}]

NoWindow ==
    [on |-> FALSE, network |-> "unknown", width |-> 1, forward |-> DefaultWindow.forward,
     back |-> DefaultWindow.back, cap |-> DefaultWindow.cap,
     inFlight |-> DefaultWindow.inFlight]

Report == [network : Link, stable : BOOLEAN, thenWarm : BOOLEAN]

Warming == [on : BOOLEAN, queue : Seq(1 .. PageCount), got : SUBSET (1 .. PageCount)]

NotWarming == [on |-> FALSE, queue |-> <<>>, got |-> {}]

Spreads(mode) == Pair(PageCount, mode, FALSE, {})
Width(mode) == IF \E i \in DOMAIN Spreads(mode) : Len(Spreads(mode)[i]) = 2 THEN 2 ELSE 1
OnScreen == PagesOf(Spreads(layout)[spread])

WindowTypeOK ==
    /\ machine \in Machines
    /\ radio \in Radios
    /\ layout \in Layouts
    /\ spread \in DOMAIN Spreads(layout)
    /\ moving \in BOOLEAN
    /\ failures \in 0 .. 2
    /\ slows \in 0 .. 3
    /\ words \in Link
    /\ reports \subseteq Report
    /\ described \in BOOLEAN
    /\ window \in Window
    /\ warming \in Warming
    /\ warm \subseteq 1 .. PageCount
    /\ turns \in 0 .. MaxTurns
    /\ wasted \in 0 .. 2

\* A reader just opened: its first report is on its way and its first pass waits
\* for the answer.
WindowInit ==
    /\ machine \in Machines
    /\ radio = "up"
    /\ layout \in Layouts
    /\ spread = 1
    /\ moving = FALSE
    /\ failures = 0
    /\ slows = 0
    /\ words = "wifi"
    /\ reports = {[network |-> "wifi", stable |-> TRUE, thenWarm |-> TRUE]}
    /\ described = FALSE
    /\ window = NoWindow
    /\ warming = NotWarming
    /\ warm = {}
    /\ turns = 0
    /\ wasted = 0

-------------------------------------------------------------------------------
(* What the controller's callbacks do                                        *)

\* NetworkWords.infer
Infer(failed, slow) ==
    IF failed >= 2 THEN "offline" ELSE IF slow >= 3 THEN "weak" ELSE "wifi"

Reporting(network, stable, thenWarm) ==
    reports' = reports \cup
        {[network |-> network, stable |-> stable, thenWarm |-> thenWarm]}

\* _reReportIfLinkChanged, on the tallies as they now are.
Rejudge ==
    /\ words' = Infer(failures', slows')
    /\ IF words' = words THEN UNCHANGED reports
       ELSE Reporting(words', ~moving, TRUE)

\* _warmWindow with reader_prefetch's plan: one pass at a time, over at most as
\* many pages as the plan lets be in flight.
Warm(mode, center, w) ==
    IF warming.on THEN UNCHANGED warming
    ELSE LET queue  == PrefetchQueue(Spreads(mode), center, w, warm)
             budget == Most(1, w.inFlight)
         IN  warming' = [on |-> TRUE, got |-> {},
                         queue |-> Truncated(queue, budget)]

-------------------------------------------------------------------------------
(* Reports                                                                   *)

\* reader_configure_device, with the layout the session has when it runs.
Plan(r) ==
    LET w == WindowPlan(machine, layout, Width(layout), r.network, r.stable)
    IN  [on |-> TRUE, network |-> r.network, width |-> Width(layout),
         forward |-> w.forward, back |-> w.back, cap |-> w.cap, inFlight |-> w.inFlight]

\* An answer, or an error before or after the plan took effect: either way the
\* caller goes on to what it meant to do next.
ReportLands(r) ==
    /\ r \in reports
    /\ reports' = reports \ {r}
    /\ \E set, answered \in BOOLEAN :
          /\ answered => set
          /\ window' = IF set THEN Plan(r) ELSE window
          /\ described' = (described \/ answered)
    /\ wasted' = IF window'.network = "offline" THEN wasted ELSE 0
    /\ IF r.thenWarm THEN Warm(layout, spread, window') ELSE UNCHANGED warming
    /\ UNCHANGED <<machine, radio, layout, spread, moving, failures, slows, words,
                   warm, turns>>

-------------------------------------------------------------------------------
(* The prefetch pass                                                         *)

\* FAULT: a failed page is skipped and the pass goes on.
FetchPastFailure ==
    /\ warming.on /\ warming.queue # <<>>
    /\ warming' = [warming EXCEPT !.queue = Tail(@)]
    /\ wasted' = IF radio = "down" /\ window.network = "offline"
                   THEN Least(2, wasted + 1) ELSE wasted
    /\ UNCHANGED <<machine, radio, layout, spread, moving, failures, slows, words,
                   reports, described, window, warm, turns>>

\* A page arrives; the first failure ends the pass, and is not an error.
WarmFetch ==
    /\ warming.on /\ warming.queue # <<>>
    /\ IF radio = "down"
         THEN /\ warming' = [warming EXCEPT !.queue = <<>>]
              /\ wasted' = IF window.network = "offline" THEN Least(2, wasted + 1) ELSE 0
         ELSE /\ warming' = [warming EXCEPT !.queue = Tail(@),
                                            !.got = @ \cup {Head(warming.queue)}]
              /\ UNCHANGED wasted
    /\ UNCHANGED <<machine, radio, layout, spread, moving, failures, slows, words,
                   reports, described, window, warm, turns>>

\* The pass stores what it got.  Only pages that landed are evidence of a link.
WarmEnd ==
    /\ warming.on /\ warming.queue = <<>>
    /\ failures' = IF warming.got \ warm # {} THEN 0 ELSE failures
    /\ slows' = slows
    /\ Rejudge
    /\ warm' = warm \cup warming.got
    /\ warming' = NotWarming
    /\ UNCHANGED <<machine, radio, layout, spread, moving, described, window,
                   turns, wasted>>

\* The ledger transaction fails: nothing is stored and the pass counts against
\* the link.
WarmAborts ==
    /\ warming.on /\ warming.queue = <<>> /\ warming.got # {}
    /\ failures' = Least(2, failures + 1)
    /\ slows' = slows
    /\ Rejudge
    /\ warming' = NotWarming
    /\ UNCHANGED <<machine, radio, layout, spread, moving, described, window,
                   warm, turns, wasted>>

-------------------------------------------------------------------------------
(* Pages on screen                                                           *)

\* imageFor of a page not on disk.  It arrives and clears the tally, but the
\* verdict stays until something asks again.
Show(p) ==
    /\ p \in OnScreen \ warm /\ radio # "down"
    /\ warm' = warm \cup {p}
    /\ slows' = IF radio = "slow" THEN Least(3, slows + 1) ELSE slows
    /\ failures' = 0
    /\ UNCHANGED <<machine, radio, layout, spread, moving, words, reports, described,
                   window, warming, turns, wasted>>

ShowFails(p) ==
    /\ p \in OnScreen \ warm /\ radio = "down"
    /\ failures' = Least(2, failures + 1)
    /\ slows' = slows
    /\ Rejudge
    /\ UNCHANGED <<machine, radio, layout, spread, moving, described, window, warming,
                   warm, turns, wasted>>

-------------------------------------------------------------------------------
(* The user and the platform                                                 *)

Gesture == turns < MaxTurns /\ turns' = turns + 1

\* turnTo and _step: _noteMove reports an unsettled reader, once it has had an
\* answer; when the turn is done the window is warmed around the new spread.
Turn(to) ==
    /\ Gesture
    /\ to \in DOMAIN Spreads(layout) \ {spread}
    /\ IF moving /\ described THEN Reporting(words, FALSE, FALSE) ELSE UNCHANGED reports
    /\ moving' = TRUE
    /\ spread' = to
    /\ Warm(layout, to, window)
    /\ UNCHANGED <<machine, radio, layout, failures, slows, words, described, window,
                   warm, wasted>>

\* The settle window passes.  Nothing is reported.
Settle ==
    /\ moving
    /\ moving' = FALSE
    /\ UNCHANGED <<machine, radio, layout, spread, failures, slows, words, reports,
                   described, window, warming, warm, turns, wasted>>

\* _setLayout: the plan stays the one made for the old layout.
Relayout(mode) ==
    /\ Gesture
    /\ mode # layout
    /\ layout' = mode
    /\ spread' = IndexForPage(Spreads(mode), EntryPage(Spreads(layout), spread, 1))
    /\ Warm(mode, spread', window)
    /\ UNCHANGED <<machine, radio, moving, failures, slows, words, reports, described,
                   window, warm, wasted>>

\* resumed: everything learnt about the link is forgotten.
Resume ==
    /\ Gesture
    /\ failures' = 0
    /\ slows' = 0
    /\ words' = "wifi"
    /\ moving' = FALSE
    /\ Reporting("wifi", TRUE, TRUE)
    /\ UNCHANGED <<machine, radio, layout, spread, described, window, warming,
                   warm, wasted>>

\* onMemoryPressure
Pressure ==
    /\ Gesture
    /\ slows' = 0
    /\ Reporting(words, TRUE, FALSE)
    /\ UNCHANGED <<machine, radio, layout, spread, moving, failures, words, described,
                   window, warming, warm, wasted>>

RadioChanges(to) ==
    /\ radio # to
    /\ radio' = to
    /\ UNCHANGED <<machine, layout, spread, moving, failures, slows, words, reports,
                   described, window, warming, warm, turns, wasted>>

WindowNext ==
    /\ \/ \E r \in reports : ReportLands(r)
       \/ WarmFetch
       \/ WarmEnd
       \/ WarmAborts
       \/ \E p \in 1 .. PageCount : Show(p) \/ ShowFails(p)
       \/ \E to \in 1 .. PageCount : Turn(to)
       \/ Settle
       \/ \E mode \in Layouts : Relayout(mode)
       \/ Resume
       \/ Pressure
       \/ \E to \in Radios : RadioChanges(to)
    /\ Cardinality(reports') <= MaxReports

WindowSpec == WindowInit /\ [][WindowNext]_wvars

-------------------------------------------------------------------------------
(* Properties                                                                *)

\* Once the core has been told that the link is gone, at most the pass already
\* under way sends one more request into the outage: passes are one at a time,
\* end at their first failure and plan nothing for an offline reader.
OutageCostsOneRequest == wasted <= 1

\* The plan in force, whichever report made it and whatever was laid out since,
\* keeps to what its device may hold and, while there is a link, leaves room for
\* the spread it was made for.
PlansFit ==
    window.on =>
        /\ window.cap <= Ceiling(machine, window.width)
        /\ window.inFlight <= 4
        /\ window.network # "offline" => window.cap >= window.width /\ window.inFlight >= 1

\* A pass pulls at most four pages, none of them twice, also when the plan it was
\* begun under has been replaced.
PassesStaySmall ==
    /\ Len(warming.queue) + Cardinality(warming.got) <= 4
    /\ \A i, j \in DOMAIN warming.queue :
          /\ warming.queue[i] \notin warming.got
          /\ warming.queue[i] = warming.queue[j] => i = j

\* A reader at rest keeps pages behind it warm, whatever it did before.
SettledLooksBack ==
    (described /\ reports = {} /\ ~moving /\ words = "wifi") => window.back > 0

\* When no report is under way the plan is the one for the link believed in.
PlanFollowsTheLink == (described /\ reports = {}) => window.network = words
=============================================================================

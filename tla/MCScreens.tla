------------------------------- MODULE MCScreens -------------------------------
(* The page cache, the reader's window, the frame parser, the series wall, the *)
(* series page and the list of servers side by side: a behaviour is one of the *)
(* six, chosen at the start, and the others rest.  The page cache is there     *)
(* three times: display calls beside passes over all pages, the same over all  *)
(* but one page with errors, and display calls beside sweeps with errors.      *)
EXTENDS MCPageCache, ReaderWindow, Frames, Shelf, SeriesPage, Servers

VARIABLE part

AnyMachine == {[memory |-> 2048, page |-> 2]}
ShortFields ==
    {[name |-> "data", value |-> "a"], [name |-> "event", value |-> "x"],
     [name |-> "id", value |-> "1"], [name |-> "retry", value |-> "5"]}
AllFields ==
    ShortFields \cup {[name |-> "data", value |-> "b"], [name |-> "comment", value |-> ""]}
TwoQueries ==
    [q \in {"byName", "newestOnly"} |->
       IF q = "byName" THEN <<"a", "b", "c">> ELSE <<"c", "a">>]
Volumes == <<"v1", "v2", "x1">>

Rests(aPart, restsSo) == part # aPart => restsSo

ScreensInit ==
    /\ part \in {"passes", "sweeps", "window", "frames", "shelf", "series", "servers"}
                \cup (Page \ Large)
    /\ CacheInit
    /\ WindowInit
    /\ FramesInit
    /\ ShelfInit
    /\ SeriesPageInit
    /\ ServersInit
    /\ Rests("window", radio = "up" /\ layout = "single")
    /\ Rests("shelf", mirror = {} /\ wall.query = "byName")
    /\ Rests("series", server = {})
    /\ Rests("servers", activePick = NoId)

\* Nobody asks for this page or fetches it ahead.
LeavesOut(aPage) ==
    /\ \A v \in Viewer : viewer[v].bytes.page # aPage
    /\ \A bytes \in pass.todo : bytes.page # aPage

ScreensNext ==
    /\ UNCHANGED part
    /\ \/ part = "passes" /\ CacheNext /\ UNCHANGED <<sweep, mishaps>>
          /\ UNCHANGED <<wvars, fvars, svars, pvars, avars>>
       \/ part \in Page /\ CacheNext /\ UNCHANGED sweep /\ LeavesOut(part)'
          /\ UNCHANGED <<wvars, fvars, svars, pvars, avars>>
       \/ part = "sweeps" /\ CacheNext /\ UNCHANGED pass
          /\ UNCHANGED <<wvars, fvars, svars, pvars, avars>>
       \/ part = "window" /\ WindowNext
          /\ UNCHANGED <<cvars, fvars, svars, pvars, avars>>
       \/ part = "frames" /\ FramesNext
          /\ UNCHANGED <<cvars, wvars, svars, pvars, avars>>
       \/ part = "shelf" /\ ShelfNext
          /\ UNCHANGED <<cvars, wvars, fvars, pvars, avars>>
       \/ part = "series" /\ SeriesPageNext
          /\ UNCHANGED <<cvars, wvars, fvars, svars, avars>>
       \/ part = "servers" /\ ServersNext
          /\ UNCHANGED <<cvars, wvars, fvars, svars, pvars>>

screensVars == <<part, cvars, wvars, fvars, svars, pvars, avars>>

ScreensSpec == ScreensInit /\ [][ScreensNext]_screensVars
=============================================================================

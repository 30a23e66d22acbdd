------------------------------ MODULE MCPages ------------------------------
(***************************************************************************)
(* One page of the extension on a small instance: the panel from the       *)
(* moment it pops up, the dashboard from the moment it is opened, with one *)
(* click or one arrival less, or the app at rest on the dashboard's first  *)
(* tab, with one click, arrival or loss less.                              *)
(***************************************************************************)
EXTENDS Dashboard, TLC

CONSTANTS Offers, MaxPresses

VARIABLES body, seen, menu, presses, open

P == INSTANCE Panel

MCSuggested == ("d1" :> <<"tag", "move">>) @@ ("d2" :> <<>>)

panelVars == <<body, seen, menu, presses>>
pageVars  == <<page, world, spent>>
allVars   == <<vars, panelVars, open>>

Resting ==
  /\ phase = "ready" /\ wedged = FALSE /\ calls = <<>> /\ inbox = <<>>
  /\ World /\ paused = FALSE
  /\ screen = "app" /\ activeTab = "review"
  /\ pane = [of |-> "review", bar |-> None, events |-> {}]
  /\ cards = {[item |-> d, tab |-> "review", busy |-> {}, shown |-> TRUE, n |-> 1,
               rows |-> ToSet(Suggested[d])] : d \in queue}
  /\ counts = [t \in Badges |-> Cardinality(Truth(t))]
  /\ header = [last |-> "ready", banner |-> FALSE, pause |-> FALSE]
  /\ stash = None

Closed ==
  /\ World /\ paused = FALSE /\ screen = "boot" /\ activeTab = "review"
  /\ pane = [of |-> "empty", bar |-> None, events |-> {}]
  /\ cards = {} /\ counts = [t \in Badges |-> None]
  /\ header = [last |-> None, banner |-> FALSE, pause |-> FALSE] /\ stash = None
  /\ clicks = 0 /\ arrivals = 0

NoPanel == body = None /\ seen = None /\ menu = None /\ presses = 0

MCInit ==
  \/ /\ open = "dashboard" /\ NoPanel /\ Opened
     /\ \/ clicks = MaxClicks - 1 /\ arrivals = MaxArrivals
        \/ clicks = MaxClicks /\ arrivals = 0
  \/ /\ open = "app" /\ NoPanel /\ Resting
     /\ \/ clicks = 1 /\ arrivals = 0 /\ drops = 0
        \/ clicks = 0 /\ arrivals = MaxArrivals /\ drops = 0
        \/ clicks = 0 /\ arrivals = 0 /\ drops = MaxDrops
  \/ open = "panel" /\ Closed /\ P!Init

MCNext ==
  /\ \/ open # "panel" /\ Next /\ UNCHANGED panelVars
     \/ open = "panel" /\ P!Next /\ UNCHANGED pageVars
  /\ UNCHANGED open

\* Handlers run, a connected host answers, the timer comes round.
MCFairness ==
  /\ WF_allVars(open # "panel" /\ PageHandles /\ UNCHANGED <<panelVars, open>>)
  /\ WF_allVars(open # "panel" /\ HostAnswers /\ UNCHANGED <<panelVars, open>>)
  /\ WF_allVars(open # "panel" /\ TimerFires /\ UNCHANGED <<panelVars, open>>)

MCSpec == MCInit /\ [][MCNext]_allVars /\ MCFairness

-----------------------------------------------------------------------------
\* What the code does not keep, see README (Panel).
LateVerdictNeedsHost == open = "panel" => P!LateVerdictNeedsHost

\* At rest each page shows what there is; the review badge too, on whatever
\* tab, once the app is open and not behind a walkthrough.
PagesSettle ==
  CASE open = "panel"     -> P!PanelSettles
    [] open = "dashboard" -> DashboardSettles
    [] open = "app"       -> DashboardSettles /\ ReviewBadgeSettles
=============================================================================

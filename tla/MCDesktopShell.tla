---------------------------- MODULE MCDesktopShell ----------------------------
(***************************************************************************)
(* The desktop shell for TLC: the chat page over the local runtime         *)
(* (DesktopChat), the window (DesktopWindow) and the geometry it is        *)
(* clamped to.  They share no state; a behaviour explores one of them,     *)
(* chosen at the start, and leaves the others in their initial state.      *)
(***************************************************************************)
EXTENDS DesktopChat, DesktopWindow, TLC

VARIABLES part, proposal

Area(x, y, w, h) == [x |-> x, y |-> y, w |-> w, h |-> h]

Screens(areas) == [areas |-> areas, primary |-> 1]

Both == Screens(<<Area(0, 0, 6, 4), Area(6, 0, 5, 4)>>)

MCLayouts == {Both, Screens(<<Area(0, 0, 6, 4)>>)}

MCWindowSize == [w |-> 5, h |-> 4]

MCPresenceSize == [w |-> 2, h |-> 2]

MCMinSize == [w |-> 1, h |-> 1]

\* Screens apart, overlapping, left of the origin and unknown; rectangles inside,
\* across, outside, too large, too small and without a position.
MCProposals ==
  [rect : {[x |-> x, y |-> y, w |-> w, h |-> h] :
             x \in {Unset, -6, -3, 0, 2, 4, 9}, y \in {-3, 0, 1, 6}, w \in {0, 2, 7}, h \in {1, 5}},
   screens : MCLayouts \cup
             {Screens(<<>>), [areas |-> <<Area(0, 0, 4, 3), Area(-4, 1, 4, 2)>>, primary |-> 2],
              Screens(<<Area(0, 0, 4, 3), Area(2, 1, 4, 3), Area(8, 4, 2, 2)>>)}]

NoProposal == [rect |-> Area(0, 0, 1, 1), screens |-> Both]

\* Three calls on a page that may be loaded twice, or two calls while the user
\* drags the window and a monitor goes away.
ShellInit ==
  /\ part \in {"chat", "window", "clamp"}
  /\ proposal \in IF part = "clamp" THEN MCProposals ELSE {NoProposal}
  /\ PageInit
  /\ layout = Both
  /\ \/ WindowInit(Calls, 1)
     \/ part = "window" /\ WindowInit({1, 2, Screen} \cup Movers, 0)

\* Of two events on the page one is a deletion of the history, and the other one
\* is not a restart; a release fails before the first of them.
ShellNext ==
  \/ /\ part = "chat" /\ PageNext
     /\ events' <= 1 + privacies' /\ starts' + privacies' <= 2
     /\ events > 0 => unreleased' \subseteq unreleased
     /\ UNCHANGED <<part, proposal, windowVars>>
  \/ part = "window" /\ WindowNext /\ UNCHANGED <<part, proposal, allVars>>

ShellSpec == ShellInit /\ [][ShellNext]_<<part, proposal, allVars, windowVars>>

MCSymmetry == Permutations(Threads) \cup Permutations(RequestIds)

-----------------------------------------------------------------------------

Within(r, area) ==
  /\ r.x >= area.x /\ r.x + r.w <= area.x + area.w
  /\ r.y >= area.y /\ r.y + r.h <= area.y + area.h

\* What clamp_window_geometry returns lies wholly in one work area whatever the
\* monitors are, it is what was asked for if that was already so, and clamping it
\* again changes nothing, so that the moved events a correction causes do not
\* correct again.
ClampSettles == part = "clamp" =>
  LET r == proposal.rect
      areas == IF proposal.screens.areas = <<>>
               THEN <<Area(0, 0, WindowSize.w, WindowSize.h)>> ELSE proposal.screens.areas
      g == clamp_window_geometry(r, proposal.screens)
      Inside(q) == \E i \in DOMAIN areas : Within(q, areas[i])
  IN /\ Inside(g)
     /\ clamp_window_geometry(g, proposal.screens) = g
     /\ r.x # Unset /\ r.w >= MinSize.w /\ r.h >= MinSize.h => (Inside(r) => g = r)
=============================================================================

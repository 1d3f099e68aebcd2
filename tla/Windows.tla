------------------------------- MODULE Windows -------------------------------
(***************************************************************************)
(* The windows of the console manager: the compositor's lists              *)
(* (console/manager/compositor/mod.rs), the keys and clicks that change    *)
(* them and what a render leaves for the next turn of the manager's loop   *)
(* (console/mod.rs).  A window is known by its place in `windows`, and the *)
(* other lists, the hit map and a drag hold such places.  Pixels are left  *)
(* out, and of positions all but the grid's: two windows overlap whenever  *)
(* one floats.                                                             *)
(***************************************************************************)
EXTENDS Naturals, FiniteSets, Sequences, SequencesExt

CONSTANTS
    MaxTiled,     \* windows in the grid at most: 4
    MaxConsoles,  \* bound on the consoles created
    MaxKeys,      \* bound on the keys in one turn
    WindowFlaws   \* what may happen: "drag", "turn", "under"

VARIABLES
    comp,            \* the compositor: windows, focused_window, float_order, force_redraw
    hit_map,         \* what the last render registered: consoles by place, scroll arrows
    drag_state,      \* the place of the window being dragged, 0 for none
    drag_render,     \* the place render_drag looks at, 0 for none
    conman_current,  \* ConsoleManager::current_console
    nconsoles,       \* consoles created
    ended,           \* consoles whose tasks were terminated
    dirty,           \* consoles with something to draw
    left_was_down,
    turn,            \* [at, keys]: how far the loop is, and the keys of this turn
    grabbed,         \* the console whose window the drag began on
    acted,           \* this turn's click: the console seen there, the console it acted on
    painted          \* consoles by when they were last painted, the last one last

windowVars == <<comp, hit_map, drag_state, drag_render, conman_current, nconsoles, ended, dirty,
                left_was_down, turn, grabbed, acted, painted>>

-----------------------------------------------------------------------------
(* The compositor's operations: from a compositor to the next. *)

Places(c) == DOMAIN c.windows
OfMode(c, mode) == {i \in Places(c) : c.windows[i].mode = mode}
IsFloating(c, i) == i \in OfMode(c, "floating")
Without(order, i) == SelectSeq(order, LAMBDA j : j # i)

\* The first console stands in for no window.
WindowConsole(c, i) == IF i \in Places(c) THEN c.windows[i].console ELSE 1
FocusedConsole(c) == WindowConsole(c, c.focused_window)

AddWindow(c, console) ==
    LET mode == IF Cardinality(OfMode(c, "tiled")) >= MaxTiled THEN "floating" ELSE "tiled"
        new == Len(c.windows) + 1
    IN  [c EXCEPT !.windows = Append(@, [console |-> console, mode |-> mode]),
                  !.float_order = IF mode = "floating" THEN Append(@, new) ELSE @,
                  !.force_redraw = TRUE]

TryToggleWindowMode(c, i) ==
    IF i \notin Places(c) THEN c
    ELSE IF ~IsFloating(c, i)
    THEN [c EXCEPT !.windows[i].mode = "floating", !.float_order = Append(@, i), !.force_redraw = TRUE]
    ELSE IF Cardinality(OfMode(c, "tiled")) >= MaxTiled THEN c
    ELSE [c EXCEPT !.windows[i].mode = "tiled", !.float_order = Without(@, i), !.force_redraw = TRUE]

FocusAfterRemoval(c, i) ==
    IF Len(c.windows) = 1 \/ c.focused_window = i
    THEN (IF i > 1 THEN i - 1 ELSE 1)
    ELSE IF c.focused_window > i THEN c.focused_window - 1 ELSE c.focused_window

\* Slip: the places behind the removed one are not moved up.
RemoveWindow_NoShift(c, i) ==
    IF i \notin Places(c) THEN c
    ELSE [windows |-> RemoveAt(c.windows, i), focused_window |-> FocusAfterRemoval(c, i),
          float_order |-> Without(c.float_order, i), force_redraw |-> TRUE]

RemoveWindow(c, i) ==
    IF i \notin Places(c) THEN c
    ELSE LET rest == Without(c.float_order, i)
         IN  [windows |-> RemoveAt(c.windows, i),
              focused_window |-> FocusAfterRemoval(c, i),
              float_order |-> [k \in DOMAIN rest |-> IF rest[k] > i THEN rest[k] - 1 ELSE rest[k]],
              force_redraw |-> TRUE]

RaiseWindow(c, i) ==
    IF IsFloating(c, i)
    THEN [c EXCEPT !.float_order = Append(Without(@, i), i), !.force_redraw = TRUE]
    ELSE c

\* draw_windows: the grid first, then the floating windows from the bottom up.
DrawOrder(c) == SetToSortSeq(OfMode(c, "tiled"), <) \o c.float_order

\* Its place in the grid, decorations included: rows of one or two, on 800 by
\* 600 pixels below the top bar.
TileOf(n, k) ==
    LET top == 28
        height == 600 - top
        At(col, row, cols, rows) == [x |-> col * (800 \div cols), y |-> top + row * (height \div rows),
                                     w |-> 800 \div cols, h |-> height \div rows]
    IN  CASE n <= 1 -> At(0, 0, 1, 1)
          [] n = 2 -> At(0, k, 1, 2)
          [] n = 3 -> IF k = 0 THEN At(0, 0, 1, 2) ELSE At(k - 1, 1, 2, 2)
          [] OTHER -> At(k % 2, k \div 2, 2, 2)

\* A window is drawn when everything is, or when its console has changed.
Drawn(c) == SelectSeq(DrawOrder(c), LAMBDA i : c.force_redraw \/ c.windows[i].console \in dirty)

\* What a click finds after these windows were drawn: every window, and the
\* arrows of those that were drawn.
Zones(c, drawn) ==
    [seen |-> [i \in Places(c) |-> c.windows[i].console], arrows |-> ToSet(drawn)]

\* Their pixels are now the last ones painted; those of closed windows are gone.
Paint(c, drawn) ==
    LET consoles == [k \in DOMAIN drawn |-> c.windows[drawn[k]].console]
        open == {c.windows[i].console : i \in Places(c)}
    IN  SelectSeq(painted, LAMBDA d : d \in open \ ToSet(consoles)) \o consoles

StackedAt(c, i) == CHOOSE k \in DOMAIN c.float_order : c.float_order[k] = i

Above(c, i) == {j \in OfMode(c, "floating") :
                  ~IsFloating(c, i) \/ StackedAt(c, j) > StackedAt(c, i)}

-----------------------------------------------------------------------------

WindowsInit ==
    LET none == [windows |-> <<>>, focused_window |-> 1, float_order |-> <<>>, force_redraw |-> TRUE]
    IN  /\ comp = AddWindow(AddWindow(none, 1), 2)
        /\ hit_map = [seen |-> <<>>, arrows |-> {}]
        /\ drag_state = 0 /\ drag_render = 0
        /\ conman_current = 1 /\ nconsoles = 2 /\ ended = {} /\ dirty = {1, 2}
        /\ left_was_down = FALSE
        /\ turn = [at |-> "keys", keys |-> 0]
        /\ grabbed = 0 /\ acted = <<0, 0>> /\ painted = <<>>

Reached(phase) == turn.at = phase
GoOn(phase) == turn' = [turn EXCEPT !.at = phase]

-----------------------------------------------------------------------------
(* Keys. *)

Key ==
    /\ Reached("keys") /\ turn.keys < MaxKeys
    /\ turn' = [turn EXCEPT !.keys = @ + 1]
    /\ UNCHANGED <<hit_map, drag_state, drag_render, left_was_down, grabbed, acted, painted>>

\* The consoles that change while no window covers theirs.
Uncovered(console) ==
    \A i \in Places(comp) : comp.windows[i].console = console => Above(comp, i) = {}

\* Input for the current console, which shows it.
Type ==
    /\ Key
    /\ "under" \in WindowFlaws \/ Uncovered(conman_current)
    /\ dirty' = dirty \union {conman_current}
    /\ UNCHANGED <<comp, conman_current, nconsoles, ended>>

\* Alt+Q, when nothing is dragged.
CloseWindow ==
    /\ Key
    /\ "drag" \in WindowFlaws \/ drag_state = 0
    /\ comp.focused_window \in Places(comp)
    /\ comp' = RemoveWindow(comp, comp.focused_window)
    /\ ended' = ended \union {FocusedConsole(comp)}
    /\ conman_current' = FocusedConsole(comp')
    /\ UNCHANGED <<nconsoles, dirty>>

\* Alt+Enter.
NewTerminal ==
    /\ Key
    /\ nconsoles < MaxConsoles
    /\ nconsoles' = nconsoles + 1
    /\ comp' = [AddWindow(comp, nconsoles') EXCEPT !.focused_window = Len(comp.windows) + 1]
    /\ conman_current' = FocusedConsole(comp')
    /\ dirty' = dirty \union {nconsoles'}
    /\ UNCHANGED ended

\* Alt+Tab.
CycleFocus ==
    /\ Key
    /\ comp.windows # <<>>
    /\ comp' = [comp EXCEPT !.focused_window = (@ % Len(comp.windows)) + 1, !.force_redraw = TRUE]
    /\ conman_current' = FocusedConsole(comp')
    /\ UNCHANGED <<nconsoles, ended, dirty>>

\* Alt+Space.
ToggleFloat ==
    /\ Key
    /\ comp' = TryToggleWindowMode(comp, comp.focused_window)
    /\ UNCHANGED <<conman_current, nconsoles, ended, dirty>>

KeysDone ==
    /\ Reached("keys")
    /\ GoOn("mouse")
    /\ UNCHANGED <<comp, hit_map, drag_state, drag_render, conman_current, nconsoles, ended, dirty,
                   left_was_down, grabbed, acted, painted>>

-----------------------------------------------------------------------------
(* The mouse, once its packets are read: the button, and what the hit map   *)
(* of the last render has where the pointer is.                            *)

Hovered == {[place |-> i, part |-> p] : i \in DOMAIN hit_map.seen, p \in {"content", "title", "float", "close"}}
           \union {[place |-> i, part |-> "arrow"] : i \in hit_map.arrows}

\* Onto or off a button or an arrow: everything is redrawn.
Hover(c) == {c, [c EXCEPT !.force_redraw = TRUE]}

\* A click into a window focuses and raises it.
FocusAndRaise(c, i) ==
    [RaiseWindow([c EXCEPT !.focused_window = i], i) EXCEPT !.force_redraw = TRUE]

\* Button held: a drag goes on.  move_window redraws by itself only if
\* begin_drag could not map its snapshot.
MouseHeld ==
    /\ Reached("mouse") /\ left_was_down
    /\ \E c \in Hover(comp) :
          comp' = IF drag_state \in Places(c) /\ drag_render = 0
                  THEN [c EXCEPT !.force_redraw = TRUE] ELSE c
    /\ GoOn("message")
    /\ UNCHANGED <<hit_map, drag_state, drag_render, conman_current, nconsoles, ended, dirty,
                   left_was_down, grabbed, acted, painted>>

\* Button up: a drag ends.
MouseUp ==
    /\ Reached("mouse")
    /\ \E c \in Hover(comp) :
          comp' = IF drag_render # 0 THEN [c EXCEPT !.force_redraw = TRUE] ELSE c
    /\ drag_state' = 0 /\ drag_render' = 0 /\ grabbed' = 0
    /\ left_was_down' = FALSE
    /\ GoOn("message")
    /\ UNCHANGED <<hit_map, conman_current, nconsoles, ended, dirty, acted, painted>>

Click ==
    /\ Reached("mouse") /\ ~left_was_down
    /\ left_was_down' = TRUE
    /\ "turn" \in WindowFlaws \/ turn.keys = 0
    /\ GoOn("message")

ClickNothing ==
    /\ Click
    /\ \E c \in Hover(comp) : comp' = c
    /\ UNCHANGED <<hit_map, drag_state, drag_render, conman_current, nconsoles, ended, dirty,
                   grabbed, acted, painted>>

Acted(i) == acted' = <<hit_map.seen[i], WindowConsole(comp, i)>>

ClickContent ==
    \E h \in Hovered :
        /\ Click /\ h.part \in {"content", "arrow"}
        /\ comp' = FocusAndRaise(comp, h.place)
        /\ conman_current' = FocusedConsole(comp')
        /\ dirty' = IF h.part = "arrow" THEN dirty \union {WindowConsole(comp, h.place)} ELSE dirty
        /\ Acted(h.place)
        /\ UNCHANGED <<hit_map, drag_state, drag_render, nconsoles, ended, grabbed, painted>>

ClickFloat ==
    \E h \in Hovered :
        /\ Click /\ h.part = "float"
        /\ comp' = TryToggleWindowMode(FocusAndRaise(comp, h.place), h.place)
        /\ conman_current' = FocusedConsole(comp')
        /\ Acted(h.place)
        /\ UNCHANGED <<hit_map, drag_state, drag_render, nconsoles, ended, dirty, grabbed, painted>>

ClickClose ==
    \E h \in Hovered :
        /\ Click /\ h.part = "close"
        /\ comp' = RemoveWindow(FocusAndRaise(comp, h.place), h.place)
        /\ ended' = IF h.place \in Places(comp) THEN ended \union {WindowConsole(comp, h.place)} ELSE ended
        /\ conman_current' = FocusedConsole(comp')
        /\ Acted(h.place)
        /\ UNCHANGED <<hit_map, drag_state, drag_render, nconsoles, dirty, grabbed, painted>>

\* begin_drag draws the scene, which registers the zones again; it leaves
\* force_redraw set, and no snapshot if there is no memory for one.
ClickTitle ==
    \E h \in Hovered, fails \in BOOLEAN :
        LET begins == IsFloating(comp, h.place) IN
        /\ Click /\ h.part = "title"
        /\ comp' = FocusAndRaise(comp, h.place)
        /\ conman_current' = FocusedConsole(comp')
        /\ drag_state' = IF begins THEN h.place ELSE 0
        /\ drag_render' = IF begins /\ ~fails THEN h.place ELSE 0
        /\ grabbed' = IF begins THEN hit_map.seen[h.place] ELSE 0
        /\ hit_map' = IF begins /\ ~fails THEN Zones(comp, DrawOrder(comp)) ELSE hit_map
        /\ Acted(h.place)
        /\ UNCHANGED <<nconsoles, ended, dirty, painted>>

-----------------------------------------------------------------------------
(* Messages and drawing. *)

\* At most one request of a program: output for its console, or nothing drawn.
Message ==
    /\ Reached("message")
    /\ \/ UNCHANGED dirty
       \/ \E console \in 1 .. nconsoles \ ended :
             /\ "under" \in WindowFlaws \/ Uncovered(console)
             /\ dirty' = dirty \union {console}
    /\ acted' = <<0, 0>>
    /\ GoOn("render")
    /\ UNCHANGED <<comp, hit_map, drag_state, drag_render, conman_current, nconsoles, ended,
                   left_was_down, grabbed, painted>>

NextTurn == turn' = [at |-> "keys", keys |-> 0]

\* render_drag, if the mouse moved: it indexes `windows` with its place.
RenderDrag ==
    /\ Reached("render") /\ drag_render # 0
    /\ IF drag_render \in Places(comp) THEN NextTurn ELSE GoOn("panic")
    /\ UNCHANGED <<comp, hit_map, drag_state, drag_render, conman_current, nconsoles, ended, dirty,
                   left_was_down, grabbed, acted, painted>>

\* Arrows are registered for the windows that were drawn.
Render ==
    /\ Reached("render") /\ drag_render = 0
    /\ hit_map' = Zones(comp, Drawn(comp))
    /\ painted' = Paint(comp, Drawn(comp))
    /\ comp' = [comp EXCEPT !.force_redraw = FALSE]
    /\ dirty' = {}
    /\ NextTurn
    /\ UNCHANGED <<drag_state, drag_render, conman_current, nconsoles, ended, left_was_down, grabbed, acted>>

\* Nothing has changed.
SkipRender ==
    /\ Reached("render")
    /\ IF drag_render = 0 THEN ~comp.force_redraw /\ dirty = {} ELSE TRUE
    /\ NextTurn
    /\ UNCHANGED <<comp, hit_map, drag_state, drag_render, conman_current, nconsoles, ended, dirty,
                   left_was_down, grabbed, acted, painted>>

WindowsNext ==
    \/ Type \/ CloseWindow \/ NewTerminal \/ CycleFocus \/ ToggleFloat \/ KeysDone
    \/ MouseHeld \/ MouseUp
    \/ ClickNothing \/ ClickContent \/ ClickFloat \/ ClickClose \/ ClickTitle
    \/ Message \/ RenderDrag \/ Render \/ SkipRender

WindowsSpec == WindowsInit /\ [][WindowsNext]_windowVars

-----------------------------------------------------------------------------
\* The lists of the compositor agree: the floating windows are stacked once
\* each, the grid is not overfull, every console has one window until it is
\* closed, and the keyboard goes to the console of the focused window.
ListsAgree ==
    /\ ToSet(comp.float_order) = OfMode(comp, "floating") /\ IsInjective(comp.float_order)
    /\ Cardinality(OfMode(comp, "tiled")) <= MaxTiled
    /\ {comp.windows[i].console : i \in Places(comp)} = 1 .. nconsoles \ ended
    /\ Len(comp.windows) = nconsoles - Cardinality(ended)
    /\ comp.windows # <<>> => comp.focused_window \in Places(comp)
    /\ conman_current = FocusedConsole(comp)

\* A click or a drag acts on the window the user saw under the pointer, however
\* the places of windows have shifted since it was drawn.
ActsOnWhatWasSeen ==
    /\ acted[1] = acted[2]
    /\ drag_state # 0 => drag_state \in Places(comp) /\ comp.windows[drag_state].console = grabbed
    /\ ~Reached("panic")

\* When the loop comes round, a floating window is on top of those under it.
TopmostShown ==
    (Reached("keys") /\ turn.keys = 0 /\ drag_render = 0) =>
        \A i, k \in DOMAIN painted : \A p, q \in Places(comp) :
            (/\ comp.windows[p].console = painted[i] /\ comp.windows[q].console = painted[k]
             /\ q \in Above(comp, p))
            => i < k

\* Two tiles of a grid have no pixel in common, and all are on the screen.
GridFits ==
    \A n \in 1 .. 4 : \A k \in 0 .. n - 1 :
        LET t == TileOf(n, k) IN
        /\ t.x + t.w <= 800 /\ t.y + t.h <= 600
        /\ \A j \in 0 .. k - 1 :
              LET u == TileOf(n, j) IN t.x >= u.x + u.w \/ u.x >= t.x + t.w \/ t.y >= u.y + u.h

\* What the manager of windows owes the user.
WindowsAreRight == ListsAgree /\ ActsOnWhatWasSeen /\ TopmostShown /\ GridFits
=============================================================================

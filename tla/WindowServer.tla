----------------------------- MODULE WindowServer -----------------------------
(***************************************************************************)
(* windowd (user/programs/windowd_c.c with window_state.c,                 *)
(* window_compositor.c, window_interaction.c, window_input_router.c): one  *)
(* thread that takes a message, runs its handler to the end and then looks *)
(* at its deadlines.                                                       *)
(*                                                                         *)
(* The screen is one row of cells; x and w are the position and the extent *)
(* of a window there, and a decorated window has a border on both sides.   *)
(* A cell of the composite frame shows the console, the cursor, the border *)
(* of a window or a column of its surface, scaled from the width of the    *)
(* surface to that of the window.                                          *)
(*                                                                         *)
(* The record fr holds both sides of the display: what windowd keeps       *)
(* (damage, pending, comp, session, seen) and what the display service and *)
(* the kernel keep (display, lease, lent, screen).  A present is           *)
(* acknowledged, lost, or shown with its answer lost.  The steps of one    *)
(* handler that share nothing with another process are one action; what    *)
(* the display may answer is a set of outcomes.  Replies and events to the *)
(* clients are left out, and so is the sequence number of input events,    *)
(* which arrive in order.                                                  *)
(***************************************************************************)
EXTENDS Integers, SequencesExt, TLC

CONSTANTS
  MaxWindows,      \* OS_WINDOW_MAX_WINDOWS
  Border,          \* OS_WINDOW_DECORATION_BORDER
  WClient,         \* the processes that talk to the window service
  Shell,           \* the registered owner of the service "session"
  Screen,          \* the number of cells of the display
  KeepOn,          \* the cells of a dragged window that stay on the screen
  MinWidth,        \* OS_WINDOW_MIN_WIDTH
  PresentResults,  \* what a present may end with, of {"ack", "lost", "late"}
  ReleaseResults,  \* what a release may end with, of {"ok", "io"}
  Forms,           \* the requests to create a window: [x, w, layer, deco]
  Places,          \* the positions of MOVE and of the pointer
  Widths,          \* the widths of SET_SURFACE and RESIZE
  MaxWinGen,       \* bound: windows made in one slot
  MaxContent,      \* bound: content generations of one window
  MaxLease,        \* bound: sessions the kernel hands out
  MaxDisplay,      \* bound: instances of the display service
  MaxServed        \* bound: requests, input events and exits

VARIABLES
  table,      \* window_table
  surfaces,   \* window_surfaces and compositor_sources
  handles,    \* the surface handles windowd holds
  endpoint,   \* the focused endpoint of input_router
  pointer,    \* interaction.pointer_x
  capture,    \* interaction.capture_*
  txn,        \* damage_transaction
  fr,         \* the frame and the display it is shown on
  phase,      \* "wait", or how the request ended whose deadlines are still to be served
  clients,    \* the clients that have not exited
  served      \* their number so far

winVars == <<table, surfaces, handles, endpoint, pointer, capture, txn, fr, phase, clients, served>>

WSlot == 1 .. MaxWindows
NoOwner == "no_owner"
Cell == 0 .. (Screen - 1)
ConsoleCell == <<0, 0, 0>>
Cursor == <<0, 0, 1>>
Background == <<0, 0, 2>>

\* The layers, from back to front.
Desktop == 0
Normal == 1
Panel == 2

\* An inactive slot keeps nothing but its generation.
Vacant(gen) ==
  [active |-> FALSE, gen |-> gen, content |-> 0, visible |-> FALSE, layer |-> Normal,
   deco |-> FALSE, maxi |-> FALSE, x |-> 0, w |-> 0, rx |-> 0, rw |-> 0, owner |-> NoOwner]

\* window_state_init
NoWindows == [win |-> [s \in WSlot |-> Vacant(0)], z |-> <<>>]

\* window_state_can_create
CanCreate(t) == Len(t.z) < MaxWindows

\* mutant: a new window goes in front of all
InFrontBlind(t, layer) == Len(t.z) + 1

\* The place of a new window: in front of every window of its layer or below
\* it, found from the front.
InFront(t, layer) ==
  1 + Max({0} \cup {k \in 1 .. Len(t.z) : t.win[t.z[k]].layer <= layer})

FirstVacant(t) == Min({s \in WSlot : ~t.win[s].active})

\* window_state_commit_create_layer
CommitCreate(t, o, content, x, w, layer, deco) ==
  LET s == FirstVacant(t)
      e == [Vacant(t.win[s].gen + 1) EXCEPT
              !.active = TRUE, !.content = content, !.visible = TRUE, !.layer = layer,
              !.deco = deco, !.x = x, !.w = w, !.rx = x, !.rw = w, !.owner = o]
  IN  [win |-> [t.win EXCEPT ![s] = e], z |-> InsertAt(t.z, InFront(t, layer), s)]

\* window_state_find: the slot a token names, 0 if there is none
Find(t, s, gen) == IF s \in WSlot /\ t.win[s].active /\ t.win[s].gen = gen THEN s ELSE 0

\* window_state_validate_target
Owns(t, who, s, gen) == Find(t, s, gen) # 0 /\ t.win[s].owner = who

\* window_state_validate_content: the new generation is later than the accepted one
ContentLater(t, who, s, gen, content) ==
  Owns(t, who, s, gen) /\ content > t.win[s].content

\* window_state_raise: to the end of the run of its own layer
Raise(t, s) ==
  LET at == CHOOSE k \in 1 .. Len(t.z) : t.z[k] = s
      same == {k \in at .. Len(t.z) :
                 \A j \in at .. k : t.win[t.z[j]].layer = t.win[s].layer}
  IN  [t EXCEPT !.z = InsertAt(Remove(t.z, s), Max(same), s)]

\* window_state_set_visible
SetVisible(t, s, visible) ==
  LET u == [t EXCEPT !.win[s].visible = visible]
  IN  IF visible THEN Raise(u, s) ELSE u

\* window_state_destroy
DestroyWindow(t, s) ==
  [win |-> [t.win EXCEPT ![s] = Vacant(t.win[s].gen)], z |-> Remove(t.z, s)]

\* window_state_accepts_focus
AcceptsFocus(t, s) ==
  t.win[s].active /\ t.win[s].visible /\ t.win[s].layer # Desktop

\* window_state_frame_rect and window_state_screen_rect, on the axis
FrameOf(e) == IF e.deco THEN (e.x - Border) .. (e.x + e.w - 1 + Border)
                        ELSE e.x .. (e.x + e.w - 1)
ContentOf(e) == e.x .. (e.x + e.w - 1)

\* The slots of the table from front to back that satisfy a test; 0 if none.
Frontmost(t, S) ==
  LET at == {k \in 1 .. Len(t.z) : t.z[k] \in S}
  IN  IF at = {} THEN 0 ELSE t.z[Max(at)]

NoSurface == [h |-> 0, w |-> 0]
NoFocus == [slot |-> 0, gen |-> 0, owner |-> NoOwner]
NoCapture == [mode |-> "none", region |-> "none", slot |-> 0, gen |-> 0,
              at |-> 0, x |-> 0, w |-> 0]
NoTxn == [from |-> NoOwner, slot |-> 0, gen |-> 0, content |-> 0, total |-> 0, got |-> <<>>]

NoFrame ==
  [damage |-> {}, pending |-> FALSE, comp |-> [c \in Cell |-> Background], session |-> 0,
   seen |-> 1, display |-> 1, displays |-> 1, lease |-> 0, lent |-> 0, leases |-> 0,
   screen |-> [c \in Cell |-> ConsoleCell]]

WindowInit ==
  /\ table = NoWindows
  /\ surfaces = [s \in WSlot |-> NoSurface]
  /\ handles = {}
  /\ endpoint = NoFocus
  /\ pointer = Screen \div 2
  /\ capture = NoCapture
  /\ txn = NoTxn
  /\ fr = NoFrame
  /\ phase = "wait"
  /\ clients = WClient
  /\ served = 0

-------------------------------------------------------------------------------
(***************************************************************************)
(* The compositor.                                                         *)
(***************************************************************************)

\* draw_window_stack at one cell: the frontmost visible window over it, its
\* border or the pixel of its surface at the scaled place.
DrawnAt(t, sf, c) ==
  LET over == {s \in WSlot : /\ t.win[s].active /\ t.win[s].visible
                             /\ sf[s].h # 0 /\ c \in FrameOf(t.win[s])}
      s == Frontmost(t, over)
      e == t.win[s]
  IN  IF s = 0 THEN ConsoleCell
      ELSE IF c \in ContentOf(e)
           THEN <<s, e.gen, 1 + (((c - e.x) * sf[s].w) \div e.w)>>
           ELSE <<s, e.gen, 0>>

\* window_damage_add_screen, on the cells of the screen
Damaged(f, cells) == [f EXCEPT !.damage = @ \cup (cells \cap Cell)]

\* compose_pending: over the snapshot of the console, then draw_cursor
Composed(f, t, sf, at) ==
  [f EXCEPT !.comp = [c \in Cell |->
     IF c \notin f.damage THEN @[c]
     ELSE IF c = at THEN Cursor ELSE DrawnAt(t, sf, c)]]
ComposePending(f, t, sf, at) ==
  IF f.damage = {} THEN [f |-> f, ok |-> TRUE]
  ELSE IF f.session = 0 THEN [f |-> f, ok |-> FALSE]
  ELSE [f |-> Composed(f, t, sf, at), ok |-> TRUE]

\* refresh_display_owner (and query_display)
Refresh(f) ==
  IF f.display = 0 THEN [f |-> [f EXCEPT !.seen = 0, !.pending = TRUE], ok |-> FALSE]
  ELSE IF f.seen = f.display THEN [f |-> f, ok |-> TRUE]
  ELSE [f |-> [f EXCEPT !.seen = f.display, !.pending = TRUE], ok |-> TRUE]

\* acquire_gui_session: it may fail for want of memory; when it succeeds the
\* composite frame starts as a copy of the console
AcquireSession(f) ==
  LET n == f.leases + 1
  IN  {[f |-> f, ok |-> FALSE]} \cup
      (IF f.lease = 0 /\ f.leases < MaxLease
       THEN {[f |-> [f EXCEPT !.session = n, !.lease = n, !.leases = n,
                              !.lent = f.display, !.comp = [c \in Cell |-> ConsoleCell],
                              !.damage = Cell, !.pending = TRUE],
              ok |-> TRUE]}
       ELSE {})

\* ensure_gui_session, with drop_local_gui_session when the session is stale
EnsureSession(f) ==
  LET r == Refresh(f)
      held == r.f.session # 0 /\ r.f.lease = r.f.session /\ r.f.lent = r.f.seen
  IN  IF ~r.ok THEN {r}
      ELSE IF held THEN {r}
      ELSE AcquireSession([r.f EXCEPT !.session = 0])

\* release_gui_session and drop_local_gui_session; the kernel redraws the console
ReleaseSession(f) ==
  LET g == [f EXCEPT !.session = 0, !.damage = {}, !.pending = FALSE]
      freed == [g EXCEPT !.lease = 0, !.lent = 0, !.screen = [c \in Cell |-> ConsoleCell]]
  IN  IF f.session = 0 THEN {[f |-> g, res |-> "ok"]}
      ELSE IF f.lease # f.session THEN {[f |-> g, res |-> "not_ready"]}
      ELSE {[f |-> freed, res |-> r] : r \in ReleaseResults}

\* present_composite: the whole frame, or the damage alone when nothing is pending
PresentComposite(f) ==
  LET r == Refresh(f)
      g == r.f
      cells == IF g.pending \/ g.damage = {} THEN Cell ELSE g.damage
      shown == [g EXCEPT !.screen = [c \in Cell |-> IF c \in cells THEN g.comp[c] ELSE @[c]]]
  IN  IF ~r.ok THEN {r}
      ELSE {[f |-> IF p = "ack" THEN [shown EXCEPT !.pending = FALSE, !.damage = {}]
                   ELSE IF p = "late" THEN [shown EXCEPT !.pending = TRUE]
                   ELSE [g EXCEPT !.pending = TRUE],
             ok |-> p = "ack"] : p \in PresentResults}

\* compose_and_present
ComposeAndPresent(f, t, sf, at) ==
  UNION {IF ~r.ok THEN {r}
         ELSE LET d == ComposePending(r.f, t, sf, at)
              IN  IF d.ok THEN PresentComposite(d.f) ELSE {d} : r \in EnsureSession(f)}

\* a handler that has no rollback only remembers that the frame is owed
Owed(f, t, sf, at) ==
  {IF r.ok THEN r.f ELSE [r.f EXCEPT !.pending = TRUE] : r \in ComposeAndPresent(f, t, sf, at)}

\* rebuild_composite
Rebuild(f, t, sf, at) ==
  LET d == ComposePending([f EXCEPT !.damage = Cell], t, sf, at)
  IN  IF d.ok THEN [d.f EXCEPT !.pending = TRUE] ELSE d.f

-------------------------------------------------------------------------------
(***************************************************************************)
(* The input router and the capture of the pointer.                        *)
(***************************************************************************)

\* focus_entry: a window, or 0 for none
FocusEntry(t, s) ==
  IF s = 0 THEN NoFocus
  ELSE [slot |-> s, gen |-> t.win[s].gen, owner |-> t.win[s].owner]

\* topmost_visible_window
TopmostVisible(t) == Frontmost(t, {s \in WSlot : AcceptsFocus(t, s)})

\* reconcile_invalid_focus
Reconcile(fo, t) ==
  LET s == Find(t, fo.slot, fo.gen)
  IN  IF fo.slot = 0 \/ (s # 0 /\ t.win[s].visible /\ t.win[s].owner = fo.owner)
      THEN fo
      ELSE FocusEntry(t, TopmostVisible(t))

\* window_interaction_cancel_target
CancelTarget(cap, s, gen) == IF cap.slot = s /\ cap.gen = gen THEN NoCapture ELSE cap

\* window_interaction_capture_target: the captured window, or none any more
CaptureTarget(cap, t) ==
  LET s == Find(t, cap.slot, cap.gen)
  IN  IF s # 0 /\ t.win[s].visible THEN cap ELSE NoCapture

\* window_interaction_hit_test: the window under the pointer, and the regions
\* the row of cells cannot tell apart
HitWindow(t, c) ==
  Frontmost(t, {s \in WSlot : t.win[s].active /\ t.win[s].visible /\ c \in FrameOf(t.win[s])})
HitRegions(t, s, c) ==
  IF s = 0 THEN {"none"}
  ELSE IF ~t.win[s].deco THEN {"content"}
  ELSE IF c < t.win[s].x THEN {"left"}
  ELSE IF c > t.win[s].x + t.win[s].w - 1 THEN {"right"}
  ELSE {"content", "title", "minimize", "maximize", "close"}

CaptureMode(region) ==
  CASE region = "title" -> "move"
    [] region \in {"left", "right"} -> "resize"
    [] region \in {"minimize", "maximize", "close"} -> "control"
    [] OTHER -> "client"

Clamp(v, lo, hi) == IF v < lo THEN lo ELSE IF v > hi THEN hi ELSE v

\* window_interaction_update_geometry along the row: the place and the width
DraggedTo(cap, e, at) ==
  LET d == at - cap.at
      right == cap.x + cap.w
  IN  CASE cap.mode = "move" ->
             [x |-> Clamp(cap.x + d, KeepOn - e.w, Screen - KeepOn), w |-> e.w]
        [] cap.region = "left" ->
             LET left == Max({Min({cap.x + d, right - MinWidth}), -Screen})
             IN  [x |-> left, w |-> right - left]
        [] OTHER ->
             LET edge == Min({Max({right + d, cap.x + MinWidth}), 2 * Screen})
             IN  [x |-> cap.x, w |-> edge - cap.x]

\* toggle_maximize_entry
ToggleMaximize(t, s) ==
  LET e == t.win[s]
  IN  [t EXCEPT !.win[s] =
         IF ~e.deco THEN e
         ELSE IF ~e.maxi
         THEN [e EXCEPT !.rx = e.x, !.rw = e.w, !.x = Border,
                        !.w = IF Screen > 2 * Border THEN Screen - 2 * Border ELSE 1,
                        !.maxi = TRUE]
         ELSE [e EXCEPT !.x = e.rx, !.w = e.rw, !.maxi = FALSE]]

-------------------------------------------------------------------------------
(***************************************************************************)
(* The handlers.  A message m comes from m.from; good says that it passes  *)
(* the checks of its format and, where it carries a surface, that the      *)
(* surface has the announced size and can be mapped.  The handle of a      *)
(* carried surface is closed on every path that does not install it.       *)
(***************************************************************************)

\* window_protocol.c, request_matches, validate_surface
WellFormed(m) == m.good

Token == [slot : WSlot, gen : 1 .. MaxWinGen]

\* main and handle_message: the next message is taken when the last one and
\* its deadlines have been served
Takes(who) == phase = "wait" /\ who \in clients
RefuseRequest == phase' = "failed" /\ UNCHANGED <<table, surfaces, handles, endpoint, pointer,
                                           capture, txn, fr, clients>>

NewHandle == Min((1 .. MaxWindows + 1) \ handles)

\* authorize_layer
LayerAllowed(who, layer) == layer = Normal \/ who = Shell

\* release_gui_session where only its effect on the frame matters
FrameReleased(f) == IF f.session = 0 THEN {f} ELSE {r.f : r \in ReleaseSession(f)}

\* handle_create
Create(m) ==
  LET h == NewHandle
      s == FirstVacant(table)
      t2 == CommitCreate(table, m.from, 1, m.x, m.w, m.layer, m.deco /\ m.layer = Normal)
      sf2 == [surfaces EXCEPT ![s] = [h |-> h, w |-> m.w]]
      first == table.z = <<>>
      Undone(f) == IF first THEN FrameReleased(f) ELSE {f}
  IN  /\ UNCHANGED <<endpoint, pointer, capture, txn, clients>>
      /\ \E r \in (IF first THEN EnsureSession(fr) ELSE {[f |-> fr, ok |-> TRUE]}) :
           \/ ~r.ok /\ phase' = "failed" /\ fr' \in Undone(r.f) /\ UNCHANGED <<table, surfaces, handles>>
           \/ /\ r.ok
              /\ \E p \in ComposeAndPresent(Damaged(r.f, FrameOf(t2.win[s])), t2, sf2, pointer) :
                   \/ /\ p.ok /\ phase' = "done"
                      /\ table' = t2 /\ surfaces' = sf2 /\ handles' = handles \cup {h} /\ fr' = p.f
                   \/ /\ ~p.ok /\ phase' = "failed"
                      /\ table' = DestroyWindow(t2, s) /\ UNCHANGED <<surfaces, handles>>
                      /\ fr' \in Undone(Rebuild(p.f, table', surfaces, pointer))
HandleCreate(m) ==
  /\ Takes(m.from)
  /\ IF WellFormed(m) /\ LayerAllowed(m.from, m.layer) /\ CanCreate(table)
     THEN table.win[FirstVacant(table)].gen < MaxWinGen /\ Create(m)
     ELSE RefuseRequest

\* mutant: the window keeps its new size and surface
RestoredNot(t, sf) == [t |-> t, sf |-> sf]

\* a new table and a new surface are shown, or everything is put back
Restored(t, sf) == [t |-> table, sf |-> surfaces]
ShowOrUndo(t, sf, cells, opened, closed) ==
  /\ UNCHANGED <<pointer, capture, txn, clients>>
  /\ \E p \in ComposeAndPresent(Damaged(fr, cells), t, sf, pointer) :
       \/ /\ p.ok /\ phase' = "done"
          /\ table' = t /\ surfaces' = sf /\ fr' = p.f
          /\ handles' = (handles \cup opened) \ closed
       \/ /\ ~p.ok /\ phase' = "failed" /\ UNCHANGED handles
          /\ table' = Restored(t, sf).t /\ surfaces' = Restored(t, sf).sf
          /\ fr' = Rebuild(p.f, table', surfaces', pointer)

\* handle_set_surface and handle_resize, from the checks to the reply
ReplaceSurface(m) ==
  LET e == table.win[m.slot]
      e2 == [e EXCEPT !.w = m.w, !.content = m.content]
      sf2 == [surfaces EXCEPT ![m.slot] = [h |-> NewHandle, w |-> m.w]]
  IN  /\ ShowOrUndo([table EXCEPT !.win[m.slot] = e2], sf2, FrameOf(e) \cup FrameOf(e2),
                    {NewHandle}, {surfaces[m.slot].h})
      /\ UNCHANGED endpoint
HandleSetSurface(m) ==
  /\ Takes(m.from)
  /\ IF /\ WellFormed(m) /\ ContentLater(table, m.from, m.slot, m.gen, m.content)
        /\ m.w = table.win[m.slot].w
     THEN ReplaceSurface(m) ELSE RefuseRequest
HandleResize(m) ==
  /\ Takes(m.from)
  /\ IF WellFormed(m) /\ ContentLater(table, m.from, m.slot, m.gen, m.content)
     THEN ReplaceSurface(m) ELSE RefuseRequest

\* handle_move
HandleMove(m) ==
  /\ Takes(m.from)
  /\ IF WellFormed(m) /\ Owns(table, m.from, m.slot, m.gen)
     THEN LET e == table.win[m.slot]
              e2 == [e EXCEPT !.x = m.x]
          IN  /\ ShowOrUndo([table EXCEPT !.win[m.slot] = e2], surfaces,
                            FrameOf(e) \cup FrameOf(e2), {}, {})
              /\ UNCHANGED endpoint
     ELSE RefuseRequest

\* handle_visibility
HandleVisibility(m) ==
  /\ Takes(m.from)
  /\ IF WellFormed(m) /\ Owns(table, m.from, m.slot, m.gen)
     THEN /\ ShowOrUndo(SetVisible(table, m.slot, m.show), surfaces, FrameOf(table.win[m.slot]), {}, {})
          /\ endpoint' = IF phase' = "done" /\ ~m.show THEN Reconcile(endpoint, table') ELSE endpoint
     ELSE RefuseRequest

\* handle_focus
HandleFocus(m) ==
  /\ Takes(m.from)
  /\ IF WellFormed(m) /\ Owns(table, m.from, m.slot, m.gen) /\ AcceptsFocus(table, m.slot)
     THEN /\ endpoint' = FocusEntry(table, m.slot) /\ phase' = "done"
          /\ UNCHANGED <<table, surfaces, handles, pointer, capture, txn, fr, clients>>
     ELSE RefuseRequest

\* window_damage_add_window for each of the rectangles, each given by its
\* first and its last column
DamageOf(e, rects) ==
  UNION {{c \in ContentOf(e) : rects[k][1] <= c - e.x /\ c - e.x <= rects[k][2]} :
           k \in DOMAIN rects}

\* the end of handle_full_damage and of handle_damage_commit
AcceptContent(s, content, rects) ==
  /\ UNCHANGED <<surfaces, handles, endpoint, pointer, capture, clients>>
  /\ \E p \in ComposeAndPresent(Damaged(fr, DamageOf(table.win[s], rects)), table, surfaces, pointer) :
       /\ fr' = p.f
       /\ \/ p.ok /\ phase' = "done" /\ table' = [table EXCEPT !.win[s].content = content]
          \/ ~p.ok /\ phase' = "failed" /\ UNCHANGED table

\* handle_full_damage
HandleFullDamage(m) ==
  /\ Takes(m.from)
  /\ IF WellFormed(m) /\ ContentLater(table, m.from, m.slot, m.gen, m.content)
     THEN AcceptContent(m.slot, m.content, <<<<0, table.win[m.slot].w - 1>>>>) /\ UNCHANGED txn
     ELSE RefuseRequest

\* handle_damage_begin
HandleDamageBegin(m) ==
  /\ Takes(m.from)
  /\ IF /\ WellFormed(m) /\ ContentLater(table, m.from, m.slot, m.gen, m.content)
        /\ txn = NoTxn
     THEN /\ txn' = [from |-> m.from, slot |-> m.slot, gen |-> m.gen,
                     content |-> m.content, total |-> m.total, got |-> <<>>]
          /\ phase' = "done"
          /\ UNCHANGED <<table, surfaces, handles, endpoint, pointer, capture, fr, clients>>
     ELSE RefuseRequest

\* reject_active_damage, when its sender is the one at fault
RejectTxn(who) ==
  /\ txn' = IF txn.from = who THEN NoTxn ELSE txn
  /\ phase' = "failed"
  /\ UNCHANGED <<table, surfaces, handles, endpoint, pointer, capture, fr, clients>>

\* handle_damage_rects: one rectangle, number m.index of the transaction
HandleDamageRects(m) ==
  /\ Takes(m.from)
  /\ IF /\ WellFormed(m) /\ txn.from = m.from
        /\ m.index = Len(txn.got) /\ m.index < txn.total
     THEN /\ txn' = [txn EXCEPT !.got = Append(@, m.rect)] /\ phase' = "done"
          /\ UNCHANGED <<table, surfaces, handles, endpoint, pointer, capture, fr, clients>>
     ELSE RejectTxn(m.from)

\* handle_damage_commit: past the check of its length the transaction is
\* cleared whoever sent the message
HandleDamageCommit(m) ==
  /\ Takes(m.from)
  /\ \/ ~WellFormed(m) /\ RejectTxn(m.from)
     \/ /\ txn' = NoTxn
        /\ IF /\ WellFormed(m) /\ txn.from = m.from /\ Len(txn.got) = txn.total
              /\ ContentLater(table, m.from, txn.slot, txn.gen, txn.content)
           THEN AcceptContent(txn.slot, txn.content, txn.got)
           ELSE /\ phase' = "failed"
                /\ UNCHANGED <<table, surfaces, handles, endpoint, pointer, capture, fr, clients>>

\* destroy_entry for each slot of a set: the table, the surfaces, the handles,
\* the capture and the cells left
Destroyed(S) ==
  [table |-> FoldSet(LAMBDA s, t : DestroyWindow(t, s), table, S),
   surfaces |-> [s \in WSlot |-> IF s \in S THEN NoSurface ELSE surfaces[s]],
   handles |-> handles \ {surfaces[s].h : s \in S},
   capture |-> IF \E s \in S : capture.slot = s /\ capture.gen = table.win[s].gen
               THEN NoCapture ELSE capture,
   cells |-> UNION {FrameOf(table.win[s]) : s \in S}]

\* handle_destroy: when the session cannot be released the window is gone, the
\* reply is an error and the focus is left as it is
HandleDestroy(m) ==
  /\ Takes(m.from)
  /\ IF WellFormed(m) /\ Owns(table, m.from, m.slot, m.gen)
     THEN LET d == Destroyed({m.slot})
              f == Damaged(fr, d.cells)
          IN  /\ table' = d.table /\ surfaces' = d.surfaces /\ handles' = d.handles
              /\ capture' = d.capture /\ phase' = "done"
              /\ UNCHANGED <<pointer, txn, clients>>
              /\ IF d.table.z = <<>>
                 THEN \E r \in ReleaseSession(f) :
                        /\ fr' = r.f
                        /\ endpoint' = IF r.res = "io" THEN endpoint ELSE Reconcile(endpoint, table')
                 ELSE /\ fr' \in Owed(f, d.table, d.surfaces, pointer)
                      /\ endpoint' = Reconcile(endpoint, table')
     ELSE RefuseRequest

-------------------------------------------------------------------------------
(***************************************************************************)
(* Input events.                                                           *)
(***************************************************************************)

\* activate_control, with minimize_entry and toggle_maximize_entry
Activated(t, fo, s, region) ==
  CASE region = "minimize" ->
         LET u == [t EXCEPT !.win[s].visible = FALSE]
         IN  [t |-> u, fo |-> FocusEntry(u, TopmostVisible(u)), cells |-> FrameOf(t.win[s])]
    [] region = "maximize" ->
         LET u == ToggleMaximize(t, s)
         IN  [t |-> u, fo |-> fo, cells |-> FrameOf(t.win[s]) \cup FrameOf(u.win[s])]
    [] OTHER -> [t |-> t, fo |-> fo, cells |-> {}]

\* focus_and_raise
Pressed(t, fo, s) ==
  IF AcceptsFocus(t, s)
  THEN [t |-> Raise(t, s), fo |-> FocusEntry(t, s), cells |-> FrameOf(t.win[s])]
  ELSE [t |-> t, fo |-> fo, cells |-> {}]

\* the three branches of handle_pointer_event that change something
PointerDown(s, region, at) ==
  LET p == Pressed(table, endpoint, s)
      mode == CaptureMode(region)
      e == p.t.win[s]
  IN  [t |-> [p.t EXCEPT !.win[s].maxi = e.maxi /\ mode \notin {"move", "resize"}],
       fo |-> p.fo, cells |-> p.cells,
       cap |-> [mode |-> mode, region |-> region, slot |-> s, gen |-> e.gen,
                at |-> at, x |-> e.x, w |-> e.w]]
PointerDrag(cap, at) ==
  LET e == table.win[cap.slot]
      d == DraggedTo(cap, e, at)
      e2 == [e EXCEPT !.x = d.x, !.w = d.w]
  IN  [t |-> [table EXCEPT !.win[cap.slot] = e2], fo |-> endpoint, cap |-> cap,
       cells |-> IF e2 = e THEN {} ELSE FrameOf(e) \cup FrameOf(e2)]
PointerUp(st, over, region) ==
  LET hit == st.cap.mode = "control" /\ over = st.cap.slot /\ region = st.cap.region
      a == Activated(st.t, st.fo, st.cap.slot, region)
  IN  IF hit THEN [t |-> a.t, fo |-> a.fo, cap |-> NoCapture, cells |-> st.cells \cup a.cells]
      ELSE [st EXCEPT !.cap = NoCapture]

\* handle_pointer_event: the pointer is now at a cell, over a region of the
\* frontmost window there, with its button pressed, released or as it was
HandlePointer(kind, at) ==
  LET cap == CaptureTarget(capture, table)
      over == HitWindow(table, at)
  IN  /\ phase = "wait"
      /\ \E region \in HitRegions(table, over, at) :
           LET still == [t |-> table, fo |-> endpoint, cap |-> cap, cells |-> {}]
               moved == IF kind = "down" /\ cap = NoCapture /\ over # 0
                        THEN PointerDown(over, region, at)
                        ELSE IF cap.mode \in {"move", "resize"} /\ kind \in {"move", "up"}
                        THEN PointerDrag(cap, at)
                        ELSE still
               st == IF kind = "up" THEN PointerUp(moved, over, region) ELSE moved
           IN  /\ table' = st.t /\ endpoint' = st.fo /\ capture' = st.cap /\ pointer' = at
               /\ fr' \in Owed(Damaged(fr, st.cells \cup {pointer, at}), st.t, surfaces, at)
      /\ phase' = "done"
      /\ UNCHANGED <<surfaces, handles, txn, clients>>

\* handle_service_query and handle_info: only a reply
HandleInfo(m) ==
  /\ Takes(m.from) /\ phase' = "done"
  /\ UNCHANGED <<table, surfaces, handles, endpoint, pointer, capture, txn, fr, clients>>

\* handle_input_event for a key
HandleKey ==
  /\ phase = "wait" /\ phase' = "done"
  /\ endpoint' = Reconcile(endpoint, table)
  /\ UNCHANGED <<table, surfaces, handles, pointer, capture, txn, fr, clients>>

-------------------------------------------------------------------------------
(***************************************************************************)
(* service_deadlines, after every message and when none arrives.           *)
(***************************************************************************)

\* the end of service_deadlines: the frame that is owed
PresentOwed(f, t, sf) ==
  LET q == Refresh(f)
      full == ComposePending([q.f EXCEPT !.damage = Cell], t, sf, pointer).f
  IN  IF q.ok /\ (q.f.seen # f.seen \/ q.f.pending)
      THEN {p.f : p \in PresentComposite(IF q.f.damage = {} THEN full ELSE q.f)}
      ELSE {q.f}
ServeFrame(f, t, sf) ==
  IF t.z = <<>> THEN PresentOwed(f, t, sf)
  ELSE UNION {IF r.ok THEN PresentOwed(r.f, t, sf) ELSE {[r.f EXCEPT !.pending = TRUE]} :
                r \in EnsureSession(f)}

\* with cleanup_dead_owners; a transaction may have reached its deadline
Deadlines ==
  LET dead == {s \in WSlot : table.win[s].active /\ table.win[s].owner \notin clients}
      d == Destroyed(dead)
      f == Damaged(fr, d.cells)
      cleaned == IF dead = {} THEN {fr}
                 ELSE IF d.table.z = <<>> THEN {r.f : r \in ReleaseSession(f)}
                 ELSE Owed(f, d.table, d.surfaces, pointer)
      orphan == \E s \in dead : table.win[s].owner = txn.from
  IN  /\ table' = d.table /\ surfaces' = d.surfaces /\ handles' = d.handles /\ capture' = d.capture
      /\ endpoint' = IF dead = {} THEN endpoint ELSE Reconcile(endpoint, d.table)
      /\ txn' \in {IF orphan THEN NoTxn ELSE txn, NoTxn}
      /\ \E g \in cleaned : fr' \in ServeFrame(g, d.table, d.surfaces)
      /\ phase' = "wait"
      /\ UNCHANGED <<pointer, clients>>

-------------------------------------------------------------------------------
(***************************************************************************)
(* The rest of the system: clients exit, the display service ends and is   *)
(* started again.                                                          *)
(***************************************************************************)
ClientExits(c) ==
  /\ c \in clients /\ clients' = clients \ {c}
  /\ UNCHANGED <<table, surfaces, handles, endpoint, pointer, capture, txn, fr, phase>>

\* the kernel takes the session back and draws the console
DisplayEnds ==
  /\ fr.display # 0
  /\ fr' = LET f == [fr EXCEPT !.display = 0]
           IN  IF fr.lent # fr.display THEN f
               ELSE [f EXCEPT !.lease = 0, !.lent = 0, !.screen = [c \in Cell |-> ConsoleCell]]
  /\ UNCHANGED <<table, surfaces, handles, endpoint, pointer, capture, txn, phase, clients>>

DisplayStarts ==
  /\ fr.display = 0 /\ fr.displays < MaxDisplay
  /\ fr' = [fr EXCEPT !.displays = @ + 1, !.display = fr.displays + 1]
  /\ UNCHANGED <<table, surfaces, handles, endpoint, pointer, capture, txn, phase, clients>>

Request(c, extra) == [from |-> c, good |-> TRUE] @@ extra
Target(tk) == [slot |-> tk.slot, gen |-> tk.gen]
DamageRect == {<<0, 0>>, <<1, 1>>}

ClientRequest(c) ==
  \/ \E form \in Forms : HandleCreate(Request(c, form))
  \/ \E tk \in Token, g \in 1 .. MaxContent, w \in Widths :
       LET m == Request(c, Target(tk) @@ [content |-> g, w |-> w])
       IN  HandleSetSurface(m) \/ HandleResize(m)
  \/ \E tk \in Token, x \in Places : HandleMove(Request(c, Target(tk) @@ [x |-> x]))
  \/ \E tk \in Token, show \in BOOLEAN : HandleVisibility(Request(c, Target(tk) @@ [show |-> show]))
  \/ \E tk \in Token : \/ HandleFocus(Request(c, Target(tk)))
                       \/ HandleDestroy(Request(c, Target(tk)))
  \/ \E tk \in Token, g \in 1 .. MaxContent :
       \/ HandleFullDamage(Request(c, Target(tk) @@ [content |-> g]))
       \/ \E n \in 1 .. 2 : HandleDamageBegin(Request(c, Target(tk) @@ [content |-> g, total |-> n]))
  \/ \E k \in 0 .. 1, r \in DamageRect : HandleDamageRects(Request(c, [index |-> k, rect |-> r]))
  \/ \E good \in BOOLEAN : HandleDamageCommit([from |-> c, good |-> good])
  \/ HandleInfo([from |-> c])

Message ==
  \/ \E c \in WClient : ClientRequest(c)
  \/ \E kind \in {"move", "down", "up"}, at \in Places : HandlePointer(kind, at)
  \/ HandleKey

Outside == DisplayEnds \/ DisplayStarts \/ \E c \in WClient : ClientExits(c)

WindowNext ==
  \/ (Message \/ Outside) /\ served < MaxServed /\ served' = served + 1
  \/ Deadlines /\ UNCHANGED served

-------------------------------------------------------------------------------
(***************************************************************************)
(* Properties.                                                             *)
(***************************************************************************)
LiveSlots(t) == {s \in WSlot : t.win[s].active}

\* The stack lists every window once, back layers below front layers, whatever
\* raises, shows, undone creations and dead owners came before.
ZOrderExact ==
  /\ {table.z[k] : k \in DOMAIN table.z} = LiveSlots(table)
  /\ Len(table.z) = Cardinality(LiveSlots(table))
  /\ \A j, k \in DOMAIN table.z :
       j < k => table.win[table.z[j]].layer <= table.win[table.z[k]].layer

\* Keys go to a window that can be seen: a focus that names a window names a
\* visible one that takes the focus, of the owner it was given to.
FocusVisible ==
  Find(table, endpoint.slot, endpoint.gen) # 0 =>
    AcceptsFocus(table, endpoint.slot) /\ table.win[endpoint.slot].owner = endpoint.owner

\* windowd holds exactly the handles of the surfaces it shows, one per window,
\* on every path of its handlers.
HandlesExact ==
  /\ handles = {surfaces[s].h : s \in LiveSlots(table)}
  /\ \A s \in WSlot : (surfaces[s].h # 0) = table.win[s].active
  /\ \A r, s \in LiveSlots(table) : surfaces[r].h = surfaces[s].h => r = s

\* When windowd waits and owes no frame, the screen shows what the table says:
\* every handler damaged every cell it changed, and lost presents were made up
\* for.  It speaks of the first display service; after a restart the frame is
\* presented before it is composed.
ScreenCurrent ==
  (phase = "wait" /\ fr.display = 1 /\ fr.lent = 1 /\ ~fr.pending /\ fr.damage = {}) =>
     \A c \in Cell : fr.screen[c] = IF c = pointer THEN Cursor ELSE DrawnAt(table, surfaces, c)

\* A request that is refused or cannot be shown leaves every window, its
\* surface, its place in the stack and the focus as they were.
FailureUndone ==
  [][(phase = "wait" /\ phase' = "failed") =>
       /\ table'.z = table.z /\ surfaces' = surfaces /\ handles' = handles /\ endpoint' = endpoint
       /\ \A s \in LiveSlots(table) : table'.win[s] = table.win[s]]_winVars

\* A window never goes back to an earlier content, and a token once destroyed
\* never names a window again.
TokensNotReused ==
  [][\A s \in WSlot :
       /\ table'.win[s].gen >= table.win[s].gen
       /\ (table'.win[s].gen = table.win[s].gen /\ table'.win[s].active) =>
            table.win[s].active /\ table'.win[s].content >= table.win[s].content]_winVars

WindowHistory == FailureUndone /\ TokensNotReused
===============================================================================

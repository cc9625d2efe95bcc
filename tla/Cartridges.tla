----------------------------- MODULE Cartridges -----------------------------
(***************************************************************************)
(* GGFE, the Game Gear frontend (src/frontend/plumos_ggfe.c and            *)
(* plumos_ggfe_launch.h): the cartridge carousel and its two motions, the  *)
(* held D-pad, the label cache, the menu with its core row, the files it   *)
(* writes, and the launch sequence that hands the panel to a game.         *)
(*                                                                         *)
(* One iteration of the main loop reads the input queue, fires a due key   *)
(* repeat and draws a frame; each of these is an action, since any number  *)
(* of events may be queued.  Positions of the carousel are counted in half *)
(* slots; the clock is abstracted to "a motion may be over or not".        *)
(***************************************************************************)
EXTENDS Integers, FiniteSets, SequencesExt

CONSTANTS
  N,               \* entry_count: the cartridges are 0..N-1
  LabelCache,      \* GGFE_LABEL_CACHE
  WarmRadius,      \* labels decoded around a new target
  Span,            \* slots on each side whose cartridge is not transparent
  PageJump,        \* GGFE_PAGE_JUMP
  Listed,          \* the profiles systems.json lists, in order
  Available,       \* the ones whose core is on this device
  PlumosRom,       \* plumOS's own override per ROM, read once at start
  SystemChoices,   \* ggfe.json profile, plumOS system override, catalogue default
  Prefer,          \* launch.prefer of ggfe.json
  MaxOverrides,    \* GGFE_MAX_ROM_OVERRIDES
  FirstMotions,    \* motion models the state file may name at first
  Faults,          \* what may fail: "save", "reload", "reopen" (panel or joypad)
  MaxTo            \* bound: how far a held D-pad may run ahead of the ring

ASSUME CartridgesAssumption ==
  /\ N \in Nat \ {0} /\ LabelCache \in Nat \ {0} /\ WarmRadius \in Nat /\ Span \in Nat
  /\ PageJump \in Nat /\ MaxOverrides \in Nat /\ MaxTo \in Nat
  /\ Faults \subseteq {"save", "reload", "reopen"}
  /\ FirstMotions \subseteq {"snap", "gallery"}

Entries == 0..N - 1
None == "none"
Rows == <<"core", "motion", "cases", "exit">>

VARIABLES
  phase,      \* "off", "browse", "insert" (launch_t >= 0) or "game"
  scroll,     \* struct ggfe_scroll_state
  held,       \* struct ggfe_repeat_state: the delta being repeated, or 0
  menu,       \* 0 when closed, else the row of the cursor
  state,      \* the motion model in ggfe-state.json
  own,        \* the ROM overrides in memory
  file,       \* ggfe-overrides.json
  labels,     \* the label cache, least recently used first
  input,      \* is the input device open?
  panel,      \* does GGFE hold the display?
  launch      \* the cartridge A was pressed on and the one being run

vars == <<phase, scroll, held, menu, state, own, file, labels, input, panel, launch>>

\* What an override set says of a ROM.
For(set, rom) == IF rom \in DOMAIN set THEN set[rom] ELSE None

-----------------------------------------------------------------------------
(* Launch resolution: plumos_ggfe_launch.h                                  *)

\* ggfe_profile_find and the probe's verdict on it.
Runnable(p) == p \in ToSet(Listed) /\ p \in Available

(* ggfe_choose_profile: scope beats origin, then the preference list, then  *)
(* whatever runs.                                                           *)
ggfe_choose_profile(set, rom) ==
  LET chain == <<For(set, rom), For(PlumosRom, rom)>> \o SystemChoices \o Prefer \o Listed
      runs == SelectSeq(chain, Runnable)
  IN  IF runs = <<>> THEN None ELSE Head(runs)

(* ggfe_override_set_rom: NULL removes the entry; a full table refuses.     *)
ggfe_override_set_rom(set, rom, p) ==
  IF p = None THEN [r \in DOMAIN set \ {rom} |-> set[r]]
  ELSE IF (rom \notin DOMAIN set) /\ Cardinality(DOMAIN set) >= MaxOverrides THEN set
  ELSE [r \in DOMAIN set \cup {rom} |-> IF r = rom THEN p ELSE set[r]]

\* The ring the core row steps through: no override, then each runnable core.
NextCore(set, rom, dir) ==
  LET avail == SelectSeq(Listed, Runnable)
      ring == <<None>> \o avail
      at == IF \E i \in DOMAIN ring : ring[i] = For(set, rom)
            THEN CHOOSE i \in DOMAIN ring : ring[i] = For(set, rom) ELSE 1
  IN  ring[((at - 1 + (IF dir < 0 THEN Len(avail) ELSE 1)) % Len(ring)) + 1]

(* ggfe_overrides_save: the file is replaced through a temporary; it may    *)
(* fail before the rename or be reported failed after it (directory sync).  *)
ggfe_overrides_save(set) ==
  {[file |-> set, ok |-> TRUE]}
    \cup (IF "save" \in Faults THEN {[file |-> file, ok |-> FALSE], [file |-> set, ok |-> FALSE]} ELSE {})

\* ggfe_overrides_load: what the file says, or nothing if it cannot be read.
ggfe_overrides_load(f) == {f} \cup (IF "reload" \in Faults THEN {<<>>} ELSE {})

\* Mutant of ggfe_menu_cycle_core: the choice stays in memory when its save failed.
KeepUnsavedCore(sel, dir) ==
  LET new == ggfe_override_set_rom(own, sel, NextCore(own, sel, dir))
  IN  \E saved \in ggfe_overrides_save(new) : file' = saved.file /\ own' = new

(* ggfe_menu_cycle_core: step the ring, save, and fall back on what is      *)
(* durable when the save failed.                                            *)
ggfe_menu_cycle_core(sel, dir) ==
  LET new == ggfe_override_set_rom(own, sel, NextCore(own, sel, dir))
  IN  IF SelectSeq(Listed, Runnable) = <<>> THEN UNCHANGED <<own, file>>
      ELSE \E saved \in ggfe_overrides_save(new) :
             /\ file' = saved.file
             /\ own' \in IF saved.ok THEN {new} ELSE ggfe_overrides_load(saved.file)

-----------------------------------------------------------------------------
(* The label cache and the frame                                            *)

\* ggfe_wrap_index
Wrap(i) == i % N

(* ggfe_label_tex: a hit becomes the most recent; a miss decodes into a     *)
(* free slot or into the least recently used one.                           *)
ggfe_label_tex(cache, e) ==
  IF Contains(cache, e) THEN Append(SelectSeq(cache, LAMBDA x : x # e), e)
  ELSE Append(IF Len(cache) < LabelCache THEN cache ELSE Tail(cache), e)

(* ggfe_warm_labels: everything around the new centre, left to right.       *)
ggfe_warm_labels(cache, center) ==
  FoldLeft(ggfe_label_tex, cache,
           [k \in 1..2 * WarmRadius + 1 |-> Wrap(center - WarmRadius - 1 + k)])

(* ggfe_cyclic_distance, in half slots and without its sign.                *)
Distance(e, at) == LET d == (2 * e - at) % (2 * N) IN IF d > N THEN 2 * N - d ELSE d

(* ggfe_compose: the cartridges within the span that are not transparent,   *)
(* far ones first, each asking for its label.                               *)
Drawn(at) ==
  FlattenSeq([k \in 1..2 * Span + 1 |->
               SetToSortSeq({e \in Entries : Distance(e, at) = 2 * Span + 1 - k}, <)])

ggfe_compose(at) ==
  labels' = FoldLeft(ggfe_label_tex, labels, Drawn(at))

-----------------------------------------------------------------------------
(* The carousel                                                             *)

Between(a, b) == IF a <= b THEN a..b ELSE b..a

\* Mutant of AfterMotion: a queued press is promoted whatever the motion model.
PromoteAlways ==
  IF scroll.pending
  THEN [scroll EXCEPT !.from = 2 * scroll.to, !.target = scroll.ptarget, !.to = scroll.pto,
                      !.pending = FALSE, !.ptarget = 0, !.pto = 0]
  ELSE [scroll EXCEPT !.active = FALSE, !.from = 2 * scroll.target, !.to = scroll.target]

(* ggfe_scroll_position when the duration has passed: gallery promotes the  *)
(* queued press, otherwise completed turns collapse to the physical index.  *)
AfterMotion ==
  IF scroll.model = "gallery" /\ scroll.pending
  THEN [scroll EXCEPT !.from = 2 * scroll.to, !.target = scroll.ptarget, !.to = scroll.pto,
                      !.pending = FALSE, !.ptarget = 0, !.pto = 0]
  ELSE [scroll EXCEPT !.active = FALSE, !.from = 2 * scroll.target, !.to = scroll.target]

\* ggfe_scroll_position: the states and positions a look at the clock can give.
ggfe_scroll_position ==
  IF ~scroll.active THEN {[at |-> 2 * scroll.target, scroll |-> scroll]}
  ELSE {[at |-> p, scroll |-> scroll] : p \in Between(scroll.from, 2 * scroll.to)}
         \cup {[at |-> AfterMotion.from, scroll |-> AfterMotion]}

\* C's delta %= entry_count keeps the sign of delta.
Step(delta) == IF delta < 0 THEN - ((- delta) % N) ELSE delta % N

\* Mutant of Aim: a target past the end of the ring is clamped instead of wrapped.
ClampedAim(s, delta) ==
  [target |-> IF s.target + delta \in Entries THEN s.target + delta ELSE s.target, to |-> s.to + delta]

\* The destination delta slots on from a scroll state, physical and logical.
Aim(s, delta) == [target |-> Wrap(s.target + delta), to |-> s.to + delta]

(* ggfe_scroll_request_at: snap re-aims from where the carousel is; gallery *)
(* starts a motion or queues one press behind the one that runs.            *)
ggfe_scroll_request(jump) ==
  LET delta == Step(jump)
  IN IF N <= 1 \/ delta = 0 THEN UNCHANGED <<scroll, labels>>
     ELSE IF scroll.model = "snap"
     THEN \E now \in ggfe_scroll_position :
            LET aim == Aim(now.scroll, delta)
            IN  /\ aim.to \in -MaxTo..MaxTo
                /\ scroll' = [now.scroll EXCEPT !.from = now.at, !.target = aim.target,
                                                !.to = aim.to, !.active = TRUE]
                /\ labels' = ggfe_warm_labels(labels, aim.target)
     ELSE LET aim == Aim(scroll, delta)
          IN  /\ aim.to \in -MaxTo..MaxTo
              /\ scroll' = IF scroll.active
                           THEN [scroll EXCEPT !.pending = TRUE, !.ptarget = aim.target, !.pto = aim.to]
                           ELSE [scroll EXCEPT !.from = 2 * scroll.to, !.target = aim.target,
                                               !.to = aim.to, !.active = TRUE]
              /\ labels' = ggfe_warm_labels(labels, aim.target)

-----------------------------------------------------------------------------
(* The program                                                              *)

Resting(model) == [model |-> model, from |-> 0, to |-> 0, target |-> 0, active |-> FALSE,
                   pending |-> FALSE, ptarget |-> 0, pto |-> 0]

NoLaunch == [aimed |-> 0, ran |-> 0, model |-> "snap"]

Init ==
  /\ phase = "off" /\ held = 0 /\ menu = 0 /\ labels = <<>>
  /\ state \in FirstMotions
  /\ scroll = Resting(state)
  /\ own = <<>> /\ file = <<>> /\ input = FALSE /\ panel = FALSE
  /\ launch = NoLaunch

(* ggfe_app_init: a fresh application with the overrides of the last session. *)
ggfe_app_init == labels' = <<>> /\ own' \in ggfe_overrides_load(file)

(* ggfe_state_load: the motion the file names.                              *)
ggfe_state_load == Resting(state)

(* main up to its loop: the remembered view, the panel and the joypad.      *)
Start ==
  /\ phase = "off"
  /\ phase' = "browse" /\ panel' = TRUE /\ input' = TRUE
  /\ ggfe_app_init
  /\ scroll' = ggfe_state_load
  /\ held' = 0 /\ menu' = 0
  /\ UNCHANGED <<state, file, launch>>

\* ggfe_state_save: replaced whole, or not at all.
ggfe_state_save(new) == state' \in {new} \cup (IF "save" \in Faults THEN {state} ELSE {})

Browsing == phase = "browse" /\ input /\ menu = 0
InMenu == phase = "browse" /\ input /\ menu # 0

(* BTN_DPAD_*: left and right repeat while held, up and down jump a page.   *)
PressPad(delta) ==
  /\ Browsing
  /\ held' = IF delta \in {-1, 1} THEN delta ELSE 0
  /\ ggfe_scroll_request(delta)
  /\ UNCHANGED <<phase, menu, state, own, file, input, panel, launch>>

\* ggfe_repeat_release: the key of the running repeat is let go.
Release ==
  /\ phase # "off" /\ input /\ held # 0 /\ held' = 0
  /\ UNCHANGED <<phase, scroll, menu, state, own, file, labels, input, panel, launch>>

(* ggfe_repeat_due: outside a launch only.                                  *)
RepeatDue ==
  /\ phase = "browse" /\ held # 0
  /\ ggfe_scroll_request(held)
  /\ UNCHANGED <<phase, held, menu, state, own, file, input, panel, launch>>

(* BTN_EAST: start the insert animation if the cartridge has a runnable core. *)
PressA ==
  /\ Browsing
  /\ held' = 0
  /\ phase' = IF ggfe_choose_profile(own, scroll.target) # None THEN "insert" ELSE phase
  /\ launch' = IF phase' = "insert" THEN [launch EXCEPT !.aimed = scroll.target] ELSE launch
  /\ UNCHANGED <<scroll, menu, state, own, file, labels, input, panel>>

(* BTN_NORTH shows or hides the cases, a matter of drawing, and saves the   *)
(* view with it.                                                            *)
PressX ==
  /\ Browsing
  /\ ggfe_state_save(scroll.model)
  /\ UNCHANGED <<phase, scroll, held, menu, own, file, labels, input, panel, launch>>

(* BTN_SELECT opens the menu on its first row; B or SELECT closes it.       *)
OpenMenu ==
  /\ Browsing /\ menu' = 1 /\ held' = 0
  /\ UNCHANGED <<phase, scroll, state, own, file, labels, input, panel, launch>>

CloseMenu ==
  /\ InMenu /\ menu' = 0
  /\ UNCHANGED <<phase, scroll, held, state, own, file, labels, input, panel, launch>>

MoveMenu(d) ==
  /\ InMenu /\ menu' = ((menu - 1 + d) % Len(Rows)) + 1
  /\ UNCHANGED <<phase, scroll, held, state, own, file, labels, input, panel, launch>>

Toggled(model) == IF model = "snap" THEN "gallery" ELSE "snap"

(* Left, right and A in the menu change the value of the row; A on the last *)
(* row leaves GGFE.                                                         *)
Adjust(dir) ==
  /\ InMenu /\ Rows[menu] # "exit"
  /\ IF Rows[menu] = "core" THEN ggfe_menu_cycle_core(scroll.target, dir) ELSE UNCHANGED <<own, file>>
  /\ scroll' = IF Rows[menu] = "motion" THEN [scroll EXCEPT !.model = Toggled(@)] ELSE scroll
  /\ IF Rows[menu] = "core" THEN state' = state ELSE ggfe_state_save(scroll'.model)
  /\ UNCHANGED <<phase, held, menu, labels, input, panel, launch>>

Exit ==
  /\ InMenu /\ Rows[menu] = "exit"
  /\ phase' = "off" /\ input' = FALSE /\ panel' = FALSE
  /\ UNCHANGED <<scroll, held, menu, state, own, file, labels, launch>>

(* The end of an iteration: the clock, the frame and its presentation.  The *)
(* insert animation draws the target itself, but its clock runs too.        *)
Frame ==
  /\ phase \in {"browse", "insert"}
  /\ \E now \in ggfe_scroll_position :
       /\ scroll' = now.scroll
       /\ ggfe_compose(IF phase = "insert" THEN 2 * now.scroll.target ELSE now.at)
  /\ UNCHANGED <<phase, held, menu, state, own, file, input, panel, launch>>

(* launch_t > GGFE_LAUNCH_END and ggfe_launch_rom up to the wait: the panel *)
(* and the joypad are given up.                                             *)
RunGame ==
  /\ phase = "insert"
  /\ phase' = "game" /\ input' = FALSE /\ panel' = FALSE /\ held' = 0
  /\ launch' = [launch EXCEPT !.ran = scroll.target, !.model = scroll.model]
  /\ UNCHANGED <<scroll, menu, state, own, file, labels>>

(* ggfe_launch_rom after the wait, and the reopening of the joypad; either  *)
(* may fail, and the loop goes on without it.                               *)
GameReturns ==
  /\ phase = "game" /\ phase' = "browse"
  /\ input' \in IF "reopen" \in Faults THEN BOOLEAN ELSE {TRUE}
  /\ panel' \in IF "reopen" \in Faults THEN BOOLEAN ELSE {TRUE}
  /\ launch' = NoLaunch
  /\ UNCHANGED <<scroll, held, menu, state, own, file, labels>>

Deltas == {-1, 1, -PageJump, PageJump}

Next ==
  \/ Start \/ Release \/ RepeatDue \/ PressA \/ PressX \/ OpenMenu \/ CloseMenu \/ Exit
  \/ Frame \/ RunGame \/ GameReturns
  \/ \E delta \in Deltas : PressPad(delta)
  \/ \E d \in {-1, 1} : MoveMenu(d) \/ Adjust(d)

Spec == Init /\ [][Next]_vars

-----------------------------------------------------------------------------
(* Properties                                                               *)

\* The menu never claims a choice that did not reach durable storage: what GGFE
\* believes of a ROM's core is what ggfe-overrides.json says, through failed
\* saves, saves reported failed after the rename, failed reloads and restarts.
ClaimsOnlyDurable == \A r \in DOMAIN own : r \in DOMAIN file /\ file[r] = own[r]

\* The logical destination of a motion, and of the press queued behind it, is
\* the physical target on some turn of the ring, so no motion ends with a jump.
MotionEndsOnTarget ==
  /\ Wrap(scroll.to) = scroll.target
  /\ scroll.pending => Wrap(scroll.pto) = scroll.ptarget

\* A launches the cartridge it was pressed on, when the motion is snap.
SnapLaunchesAimed == phase = "game" /\ launch.model = "snap" => launch.ran = launch.aimed
=============================================================================

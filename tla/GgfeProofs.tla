----------------------------- MODULE GgfeProofs -----------------------------
(***************************************************************************)
(* Proofs for the two parts of GGFE: Cartridges, for every library,        *)
(* catalogue and cache size, and StripePool, for any number of workers and  *)
(* stripes.                                                                *)
(***************************************************************************)
EXTENDS Cartridges, StripePool, FiniteSetTheorems, TLAPS

-----------------------------------------------------------------------------
(* Cartridges                                                              *)

Models == {"snap", "gallery"}

Scrolls == [model : Models, from : Int, to : Int, target : Int, active : BOOLEAN,
            pending : BOOLEAN, ptarget : Int, pto : Int]

ScrollOK == state \in Models /\ scroll \in Scrolls /\ held \in Int

\* During the insert animation nothing but a promoted press moves the target,
\* and snap never promotes one; the menu, which changes the model, is out of reach.
Aimed ==
  /\ launch \in [aimed : Int, ran : Int, model : Models]
  /\ phase = "insert" /\ scroll.model = "snap" => scroll.target = launch.aimed
  /\ SnapLaunchesAimed

-----------------------------------------------------------------------------
\* An override set in memory says nothing the file does not say, whatever save
\* and reload do.
LEMMA CoreStep ==
  ASSUME NEW sel, NEW dir, ggfe_menu_cycle_core(sel, dir), ClaimsOnlyDurable
  PROVE  ClaimsOnlyDurable'
<1> DEFINE new == ggfe_override_set_rom(own, sel, NextCore(own, sel, dir))
<1>1. CASE UNCHANGED <<own, file>> BY <1>1 DEF ClaimsOnlyDurable
<1>2. CASE \E saved \in ggfe_overrides_save(new) :
             /\ file' = saved.file
             /\ own' \in IF saved.ok THEN {new} ELSE ggfe_overrides_load(saved.file)
  <2>1. PICK saved \in ggfe_overrides_save(new) :
             /\ file' = saved.file
             /\ own' \in IF saved.ok THEN {new} ELSE ggfe_overrides_load(saved.file)
    BY <1>2
  <2>2. CASE saved.ok
    <3>1. saved = [file |-> new, ok |-> TRUE] BY <2>2 DEF ggfe_overrides_save
    <3>2. own' = new /\ file' = new BY <2>1, <2>2, <3>1
    <3> QED BY <3>2 DEF ClaimsOnlyDurable
  <2>3. CASE ~saved.ok
    <3>1. own' = file' \/ own' = <<>> BY <2>1, <2>3 DEF ggfe_overrides_load
    <3>2. CASE own' = file' BY <3>2 DEF ClaimsOnlyDurable
    <3>3. CASE own' = <<>>
      <4>1. DOMAIN own' = {} BY <3>3
      <4> QED BY <4>1 DEF ClaimsOnlyDurable
    <3> QED BY <3>1, <3>2, <3>3
  <2> QED BY <2>2, <2>3
<1> QED BY <1>1, <1>2 DEF ggfe_menu_cycle_core

\* The menu never claims a core that ggfe-overrides.json does not hold, for any
\* catalogue, any number of overrides and any failure of a save or a reload.
THEOREM DurableTheorem == Spec => []ClaimsOnlyDurable
<1>1. Init => ClaimsOnlyDurable
  <2> SUFFICES ASSUME Init PROVE ClaimsOnlyDurable
    OBVIOUS
  <2>1. DOMAIN own = {} BY DEF Init
  <2> QED BY <2>1 DEF ClaimsOnlyDurable
<1>2. ClaimsOnlyDurable /\ [Next]_vars => ClaimsOnlyDurable'
  <2> SUFFICES ASSUME ClaimsOnlyDurable, [Next]_vars PROVE ClaimsOnlyDurable'
    OBVIOUS
  <2>1. UNCHANGED <<own, file>> => ClaimsOnlyDurable' BY DEF ClaimsOnlyDurable
  <2>2. CASE Start
    <3>1. file' = file /\ (own' = file \/ own' = <<>>) BY <2>2 DEF Start, ggfe_app_init, ggfe_overrides_load
    <3>2. CASE own' = file BY <3>1, <3>2 DEF ClaimsOnlyDurable
    <3>3. CASE own' = <<>>
      <4>1. DOMAIN own' = {} BY <3>3
      <4> QED BY <4>1 DEF ClaimsOnlyDurable
    <3> QED BY <3>1, <3>2, <3>3
  <2>3. ASSUME NEW d \in {-1, 1}, Adjust(d) PROVE ClaimsOnlyDurable'
    BY <2>1, <2>3, CoreStep DEF Adjust
  <2>4. CASE Release \/ RepeatDue \/ PressA \/ PressX \/ OpenMenu \/ CloseMenu \/ Exit
    BY <2>1, <2>4 DEF Release, RepeatDue, PressA, PressX, OpenMenu, CloseMenu, Exit
  <2>5. CASE Frame \/ RunGame \/ GameReturns BY <2>1, <2>5 DEF Frame, RunGame, GameReturns
  <2>6. ASSUME NEW delta \in Deltas, PressPad(delta) PROVE ClaimsOnlyDurable'
    BY <2>1, <2>6 DEF PressPad
  <2>7. ASSUME NEW d \in {-1, 1}, MoveMenu(d) PROVE ClaimsOnlyDurable'
    BY <2>1, <2>7 DEF MoveMenu
  <2>8. CASE UNCHANGED vars BY <2>1, <2>8 DEF vars
  <2> QED BY <2>2, <2>3, <2>4, <2>5, <2>6, <2>7, <2>8 DEF Next
<1> QED BY <1>1, <1>2, PTL DEF Spec

-----------------------------------------------------------------------------
\* The ways the code rewrites its scroll state keep it well formed: promoting a
\* queued press, ending, starting and queueing a motion.
LEMMA ScrollPromote ==
  ASSUME NEW s \in Scrolls, NEW a \in Int, NEW b \in Int, NEW c \in Int, NEW z \in Int,
         NEW p \in BOOLEAN
  PROVE  [s EXCEPT !.from = a, !.target = b, !.to = c, !.pending = p, !.ptarget = z, !.pto = z]
           \in Scrolls
  BY Zenon DEF Scrolls

LEMMA ScrollUpdates ==
  ASSUME NEW s \in Scrolls, NEW a \in Int, NEW b \in Int, NEW c \in Int
  PROVE  /\ [s EXCEPT !.active = FALSE, !.from = a, !.to = b] \in Scrolls
         /\ [s EXCEPT !.from = a, !.target = b, !.to = c, !.active = TRUE] \in Scrolls
         /\ [s EXCEPT !.pending = TRUE, !.ptarget = a, !.pto = b] \in Scrolls
  BY DEF Scrolls

LEMMA ScrollFields ==
  ASSUME NEW s \in Scrolls
  PROVE  /\ s.from \in Int /\ s.to \in Int /\ s.target \in Int /\ s.ptarget \in Int /\ s.pto \in Int
         /\ s.model \in Models
  BY DEF Scrolls

\* A look at the clock keeps the model and, under snap, the target.
LEMMA PositionKeeps ==
  ASSUME scroll \in Scrolls, NEW now \in ggfe_scroll_position
  PROVE  /\ now.scroll \in Scrolls
         /\ now.at \in Int
         /\ now.scroll.model = scroll.model
         /\ scroll.model = "snap" => now.scroll.target = scroll.target
<1>0. 2 * scroll.to \in Int /\ 2 * scroll.target \in Int BY ScrollFields
<1>1. AfterMotion \in Scrolls
  <2>1. [scroll EXCEPT !.from = 2 * scroll.to, !.target = scroll.ptarget, !.to = scroll.pto,
                       !.pending = FALSE, !.ptarget = 0, !.pto = 0] \in Scrolls
    <3>1. scroll.ptarget \in Int /\ scroll.pto \in Int /\ 0 \in Int /\ FALSE \in BOOLEAN BY ScrollFields
    <3> QED BY <1>0, <3>1, ScrollPromote, Zenon
  <2>2. [scroll EXCEPT !.active = FALSE, !.from = 2 * scroll.target, !.to = scroll.target] \in Scrolls
    BY <1>0, ScrollUpdates, ScrollFields
  <2> QED BY <2>1, <2>2 DEF AfterMotion
<1>2. AfterMotion.model = scroll.model /\ AfterMotion.from \in Int
  BY <1>1 DEF AfterMotion, Scrolls
<1>3. scroll.model = "snap" => AfterMotion.target = scroll.target BY DEF AfterMotion, Scrolls
<1>4. CASE now = [at |-> AfterMotion.from, scroll |-> AfterMotion] BY <1>1, <1>2, <1>3, <1>4
<1>5. CASE now = [at |-> 2 * scroll.target, scroll |-> scroll] BY <1>5 DEF Scrolls
<1>6. CASE \E p \in Between(scroll.from, 2 * scroll.to) : now = [at |-> p, scroll |-> scroll]
  <2>1. PICK p \in Between(scroll.from, 2 * scroll.to) : now = [at |-> p, scroll |-> scroll] BY <1>6
  <2>2. p \in Int BY DEF Between, Scrolls
  <2> QED BY <2>1, <2>2
<1> QED BY <1>4, <1>5, <1>6 DEF ggfe_scroll_position

\* A request for another cartridge keeps the scroll state well formed and its model.
LEMMA RequestKeeps ==
  ASSUME scroll \in Scrolls, NEW jump \in Int, ggfe_scroll_request(jump)
  PROVE  scroll' \in Scrolls
<1> USE CartridgesAssumption
<1>1. Step(jump) \in Int BY DEF Step
<1>2. \A s \in Scrolls : Aim(s, Step(jump)).target \in Int /\ Aim(s, Step(jump)).to \in Int
  BY <1>1 DEF Aim, Wrap, Scrolls
<1> HIDE DEF Step, Aim
<1>3. CASE UNCHANGED <<scroll, labels>> BY <1>3
<1>4. ASSUME NEW now \in ggfe_scroll_position,
             scroll' = [now.scroll EXCEPT !.from = now.at, !.target = Aim(now.scroll, Step(jump)).target,
                                          !.to = Aim(now.scroll, Step(jump)).to, !.active = TRUE]
      PROVE  scroll' \in Scrolls
  <2>1. now.scroll \in Scrolls /\ now.at \in Int BY PositionKeeps
  <2> QED BY <1>2, <1>4, <2>1, ScrollUpdates
<1>5. CASE scroll' = [scroll EXCEPT !.pending = TRUE, !.ptarget = Aim(scroll, Step(jump)).target,
                                    !.pto = Aim(scroll, Step(jump)).to]
  BY <1>2, <1>5, ScrollUpdates
<1>6. CASE scroll' = [scroll EXCEPT !.from = 2 * scroll.to, !.target = Aim(scroll, Step(jump)).target,
                                    !.to = Aim(scroll, Step(jump)).to, !.active = TRUE]
  <2>1. 2 * scroll.to \in Int BY ScrollFields
  <2> QED BY <1>2, <1>6, <2>1, ScrollUpdates
<1>7. CASE N <= 1 \/ Step(jump) = 0 BY <1>3, <1>7 DEF ggfe_scroll_request
<1>8. CASE ~(N <= 1 \/ Step(jump) = 0) /\ scroll.model = "snap"
  BY <1>4, <1>8 DEF ggfe_scroll_request
<1>9. CASE ~(N <= 1 \/ Step(jump) = 0) /\ scroll.model # "snap"
  BY <1>5, <1>6, <1>9 DEF ggfe_scroll_request
<1> QED BY <1>7, <1>8, <1>9

\* Under the snap motion the game that runs is the cartridge A was pressed on.
THEOREM SnapTheorem == Spec => []SnapLaunchesAimed
<1> DEFINE Inv == ScrollOK /\ Aimed
<1>1. Init => Inv
  <2> SUFFICES ASSUME Init PROVE Inv
    OBVIOUS
  <2>1. state \in Models BY CartridgesAssumption DEF Init, Models
  <2>2. scroll \in Scrolls BY <2>1 DEF Init, Resting, Scrolls
  <2>3. launch \in [aimed : Int, ran : Int, model : Models] /\ phase = "off"
    BY DEF Init, NoLaunch, Models
  <2>4. held \in Int BY DEF Init
  <2> QED BY <2>1, <2>2, <2>3, <2>4 DEF ScrollOK, Aimed, SnapLaunchesAimed
<1>2. Inv /\ [Next]_vars => Inv'
  <2> SUFFICES ASSUME Inv, [Next]_vars PROVE Inv'
    OBVIOUS
  <2> USE DEF ScrollOK, Aimed, SnapLaunchesAimed
  <2>1. CASE Start BY <2>1 DEF Start, ggfe_app_init, ggfe_state_load, Resting, Scrolls
  <2>2. ASSUME NEW delta \in Int, ggfe_scroll_request(delta), phase = "browse",
               UNCHANGED <<phase, state, launch>>, held' \in Int
        PROVE  Inv'
    BY <2>2, RequestKeeps
  <2>3. CASE RepeatDue \/ \E delta \in Deltas : PressPad(delta)
    <3>1. CASE RepeatDue BY <2>2, <3>1 DEF RepeatDue
    <3>2. ASSUME NEW delta \in Deltas, PressPad(delta) PROVE Inv'
      <4>1. delta \in Int BY CartridgesAssumption DEF Deltas
      <4> QED BY <2>2, <3>2, <4>1 DEF PressPad, Browsing
    <3> QED BY <2>3, <3>1, <3>2
  <2>4. CASE PressA BY <2>4 DEF PressA, Browsing, Scrolls
  <2>5. CASE PressX BY <2>5 DEF PressX, Browsing, ggfe_state_save, Scrolls
  <2>6. ASSUME NEW d \in {-1, 1}, Adjust(d) PROVE Inv'
    <3>1. scroll' \in Scrolls BY <2>6 DEF Adjust, Toggled, Scrolls, Models
    <3>2. state' \in Models BY <2>6, <3>1 DEF Adjust, ggfe_state_save, Scrolls
    <3> QED BY <2>6, <3>1, <3>2 DEF Adjust, InMenu
  <2>7. CASE Frame
    <3>1. PICK now \in ggfe_scroll_position : scroll' = now.scroll BY <2>7 DEF Frame
    <3>2. /\ now.scroll \in Scrolls /\ now.scroll.model = scroll.model
          /\ scroll.model = "snap" => now.scroll.target = scroll.target
      BY PositionKeeps
    <3> QED BY <2>7, <3>1, <3>2 DEF Frame
  <2>8. CASE RunGame
    <3>1. scroll.target \in Int /\ scroll.model \in Models BY ScrollFields
    <3>2. launch' \in [aimed : Int, ran : Int, model : Models] BY <2>8, <3>1 DEF RunGame
    <3>3. launch'.ran = scroll.target /\ launch'.model = scroll.model /\ launch'.aimed = launch.aimed
      BY <2>8 DEF RunGame
    <3> QED BY <2>8, <3>2, <3>3 DEF RunGame
  <2>9. CASE GameReturns BY <2>9 DEF GameReturns, NoLaunch, Models
  <2>10. CASE Release \/ OpenMenu \/ CloseMenu \/ \E d \in {-1, 1} : MoveMenu(d)
    BY <2>10 DEF Release, OpenMenu, CloseMenu, MoveMenu
  <2>11. CASE Exit BY <2>11 DEF Exit
  <2>12. CASE UNCHANGED vars BY <2>12 DEF vars
  <2> QED BY <2>1, <2>3, <2>4, <2>5, <2>6, <2>7, <2>8, <2>9, <2>10, <2>11, <2>12 DEF Next
<1>3. Inv => SnapLaunchesAimed BY DEF Aimed
<1> QED BY <1>1, <1>2, <1>3, PTL DEF Spec

-----------------------------------------------------------------------------
(* The ring.  The logical destination counts turns, the physical target    *)
(* does not; that they stay the same cartridge is arithmetic modulo the    *)
(* number of entries.                                                      *)

LEMMA DivMod ==
  ASSUME NEW n \in Nat \ {0}, NEW a \in Int
  PROVE  a = n * (a \div n) + (a % n) /\ a % n \in 0..n - 1 /\ a \div n \in Int
  OBVIOUS

LEMMA MoreTurns ==
  ASSUME NEW n \in Nat \ {0}, NEW q \in Int, NEW p \in Int, q >= p + 1
  PROVE  n * q >= n * p + n
  OBVIOUS

\* A remainder is the only one: n * q + r leaves r.
LEMMA ModUnique ==
  ASSUME NEW n \in Nat \ {0}, NEW a \in Int, NEW q \in Int, NEW r \in 0..n - 1, a = n * q + r
  PROVE  a % n = r
<1> DEFINE d == a \div n
           m == a % n
<1>1. n * d + m = n * q + r /\ d \in Int /\ m \in 0..n - 1 BY DivMod
<1> HIDE DEF d, m
<1>2. ~(q >= d + 1) BY <1>1, MoreTurns
<1>3. ~(d >= q + 1) BY <1>1, MoreTurns
<1>4. q = d BY <1>1, <1>2, <1>3
<1>5. m = r BY <1>1, <1>4
<1> QED BY <1>5 DEF m

\* ggfe_wrap_index leaves a cartridge alone and forgets turns already made.
LEMMA WrapEntry ==
  ASSUME NEW e \in Entries
  PROVE  Wrap(e) = e
<1>1. e = N * 0 + e /\ e \in 0..N - 1 /\ e \in Int BY CartridgesAssumption DEF Entries
<1> QED BY <1>1, ModUnique, CartridgesAssumption DEF Wrap

LEMMA WrapTurns ==
  ASSUME NEW a \in Int, NEW d \in Int
  PROVE  Wrap(a) \in Entries /\ Wrap(Wrap(a) + d) = Wrap(a + d)
<1> USE CartridgesAssumption
<1> DEFINE q == a \div N
           r == a % N
           b == r + d
           p == b \div N
           t == b % N
<1>1. a = N * q + r /\ r \in 0..N - 1 /\ q \in Int BY DivMod
<1>2. b \in Int BY <1>1
<1> HIDE DEF q, r, b
<1>3. b = N * p + t /\ t \in 0..N - 1 /\ p \in Int BY <1>2, DivMod
<1> HIDE DEF p, t
<1>4. a + d = N * q + b BY <1>1 DEF b
<1>5. N * (q + p) = N * q + N * p BY <1>1, <1>3
<1>6. a + d = N * (q + p) + t /\ q + p \in Int /\ a + d \in Int BY <1>1, <1>3, <1>4, <1>5
<1>7. (a + d) % N = t BY <1>3, <1>6, ModUnique
<1> QED BY <1>1, <1>7 DEF Wrap, Entries, r, b, t

\* A scroll state whose destination, and whose queued press, are on target.
OnTarget(s) ==
  /\ Wrap(s.to) = s.target
  /\ s.pending => Wrap(s.pto) = s.ptarget

\* Aiming delta slots on, from a state on target, stays on target.
LEMMA AimOnTarget ==
  ASSUME NEW s \in Scrolls, OnTarget(s), NEW delta \in Int
  PROVE  Wrap(Aim(s, delta).to) = Aim(s, delta).target /\ Aim(s, delta).to \in Int
<1>1. s.to \in Int /\ s.to + delta \in Int BY ScrollFields
<1>2. Wrap(s.to) = s.target BY DEF OnTarget
<1>3. Wrap(s.target + delta) = Wrap(s.to + delta) BY <1>1, <1>2, WrapTurns
<1>4. Aim(s, delta).to = s.to + delta /\ Aim(s, delta).target = Wrap(s.target + delta) BY DEF Aim
<1> QED BY <1>1, <1>3, <1>4

\* A look at the clock, which may promote the queued press or collapse the
\* turns made, stays on target.
LEMMA PositionOnTarget ==
  ASSUME scroll \in Scrolls, OnTarget(scroll), NEW now \in ggfe_scroll_position
  PROVE  OnTarget(now.scroll)
<1>1. OnTarget(AfterMotion)
  <2>1. CASE scroll.model = "gallery" /\ scroll.pending
    BY <2>1 DEF AfterMotion, OnTarget, Scrolls
  <2>2. CASE ~(scroll.model = "gallery" /\ scroll.pending)
    <3>1. scroll.target \in Entries
      BY ScrollFields, WrapTurns DEF OnTarget
    <3>2. Wrap(scroll.target) = scroll.target BY <3>1, WrapEntry
    <3> QED BY <2>2, <3>2 DEF AfterMotion, OnTarget, Scrolls
  <2> QED BY <2>1, <2>2
<1>2. now.scroll = scroll \/ now.scroll = AfterMotion BY DEF ggfe_scroll_position
<1> QED BY <1>1, <1>2

\* A request, re-aimed, started or queued, stays on target.
LEMMA RequestOnTarget ==
  ASSUME scroll \in Scrolls, OnTarget(scroll), NEW jump \in Int, ggfe_scroll_request(jump)
  PROVE  OnTarget(scroll')
<1> USE CartridgesAssumption
<1>1. Step(jump) \in Int BY DEF Step
<1> HIDE DEF Step, Aim
<1>2. CASE UNCHANGED <<scroll, labels>> BY <1>2 DEF OnTarget
<1>3. ASSUME NEW now \in ggfe_scroll_position,
             scroll' = [now.scroll EXCEPT !.from = now.at, !.target = Aim(now.scroll, Step(jump)).target,
                                          !.to = Aim(now.scroll, Step(jump)).to, !.active = TRUE]
      PROVE  OnTarget(scroll')
  <2>1. now.scroll \in Scrolls /\ OnTarget(now.scroll) BY PositionKeeps, PositionOnTarget
  <2>2. Wrap(Aim(now.scroll, Step(jump)).to) = Aim(now.scroll, Step(jump)).target
    BY <1>1, <2>1, AimOnTarget
  <2> QED BY <1>3, <2>1, <2>2 DEF OnTarget, Scrolls
<1>4. Wrap(Aim(scroll, Step(jump)).to) = Aim(scroll, Step(jump)).target BY <1>1, AimOnTarget
<1>5. CASE scroll' = [scroll EXCEPT !.pending = TRUE, !.ptarget = Aim(scroll, Step(jump)).target,
                                    !.pto = Aim(scroll, Step(jump)).to]
  BY <1>4, <1>5 DEF OnTarget, Scrolls
<1>6. CASE scroll' = [scroll EXCEPT !.from = 2 * scroll.to, !.target = Aim(scroll, Step(jump)).target,
                                    !.to = Aim(scroll, Step(jump)).to, !.active = TRUE]
  BY <1>4, <1>6 DEF OnTarget, Scrolls
<1>7. CASE N <= 1 \/ Step(jump) = 0 BY <1>2, <1>7 DEF ggfe_scroll_request
<1>8. CASE ~(N <= 1 \/ Step(jump) = 0) /\ scroll.model = "snap"
  BY <1>3, <1>8 DEF ggfe_scroll_request
<1>9. CASE ~(N <= 1 \/ Step(jump) = 0) /\ scroll.model # "snap"
  BY <1>5, <1>6, <1>9 DEF ggfe_scroll_request
<1> QED BY <1>7, <1>8, <1>9

\* No motion ends with a jump: the place it runs to is the cartridge it was
\* aimed at, for every number of cartridges and any run of held or queued
\* presses, changes of the motion model included.
THEOREM MotionTheorem == Spec => []MotionEndsOnTarget
<1> DEFINE Inv == ScrollOK /\ OnTarget(scroll)
<1>0. OnTarget(Resting("snap")) /\ OnTarget(Resting("gallery"))
  <2>1. 0 \in Entries BY CartridgesAssumption DEF Entries
  <2>2. Wrap(0) = 0 BY <2>1, WrapEntry
  <2> QED BY <2>2 DEF OnTarget, Resting
<1>1. Init => Inv
  <2> SUFFICES ASSUME Init PROVE Inv
    OBVIOUS
  <2>1. state \in Models BY CartridgesAssumption DEF Init, Models
  <2>2. scroll \in Scrolls BY <2>1 DEF Init, Resting, Scrolls
  <2>3. OnTarget(scroll) BY <1>0, <2>1 DEF Init, Models
  <2> QED BY <2>1, <2>2, <2>3 DEF ScrollOK, Init
<1>2. Inv /\ [Next]_vars => Inv'
  <2> SUFFICES ASSUME Inv, [Next]_vars PROVE Inv'
    OBVIOUS
  <2> USE DEF ScrollOK
  <2>1. CASE Start
    <3>1. scroll' \in Scrolls BY <2>1 DEF Start, ggfe_state_load, Resting, Scrolls
    <3>2. OnTarget(scroll') BY <1>0, <2>1 DEF Start, ggfe_state_load, Models
    <3> QED BY <2>1, <3>1, <3>2 DEF Start
  <2>2. ASSUME NEW delta \in Int, ggfe_scroll_request(delta), state' = state, held' \in Int
        PROVE  Inv'
    BY <2>2, RequestKeeps, RequestOnTarget
  <2>3. CASE RepeatDue BY <2>2, <2>3 DEF RepeatDue
  <2>4. ASSUME NEW delta \in Deltas, PressPad(delta) PROVE Inv'
    <3>1. delta \in Int BY CartridgesAssumption DEF Deltas
    <3> QED BY <2>2, <2>4, <3>1 DEF PressPad
  <2>5. CASE PressX BY <2>5 DEF PressX, ggfe_state_save, Scrolls
  <2>6. ASSUME NEW d \in {-1, 1}, Adjust(d) PROVE Inv'
    <3>1. scroll' \in Scrolls BY <2>6 DEF Adjust, Toggled, Scrolls, Models
    <3>2. state' \in Models BY <2>6, <3>1 DEF Adjust, ggfe_state_save, Scrolls
    <3>3. OnTarget(scroll') BY <2>6 DEF Adjust, OnTarget, Scrolls
    <3> QED BY <2>6, <3>1, <3>2, <3>3 DEF Adjust
  <2>7. CASE Frame
    <3>1. PICK now \in ggfe_scroll_position : scroll' = now.scroll BY <2>7 DEF Frame
    <3> QED BY <2>7, <3>1, PositionKeeps, PositionOnTarget DEF Frame
  <2>8. CASE PressA \/ RunGame \/ GameReturns \/ Release \/ OpenMenu \/ CloseMenu \/ Exit
    <3>1. scroll' = scroll /\ state' = state /\ (held' = held \/ held' = 0)
      BY <2>8 DEF PressA, RunGame, GameReturns, Release, OpenMenu, CloseMenu, Exit
    <3> QED BY <3>1
  <2>9. ASSUME NEW d \in {-1, 1}, MoveMenu(d) PROVE Inv'
    BY <2>9 DEF MoveMenu
  <2>10. CASE UNCHANGED vars BY <2>10 DEF vars
  <2> QED BY <2>1, <2>3, <2>4, <2>5, <2>6, <2>7, <2>8, <2>9, <2>10 DEF Next
<1>3. Inv => MotionEndsOnTarget BY DEF OnTarget, MotionEndsOnTarget
<1> QED BY <1>1, <1>2, <1>3, PTL DEF Spec

-----------------------------------------------------------------------------
(***************************************************************************)
(* StripePool                                                              *)
(*                                                                         *)
(* The barrier works because pending counts exactly the workers that still *)
(* owe something to the current generation (Account): the ones that have   *)
(* not yet noticed it as well as the ones still drawing.  When it reaches  *)
(* zero no worker can hold a claim, and since the counter next_stripe has  *)
(* run past the last stripe, every stripe below it is drawn or held by     *)
(* somebody (Progress), hence drawn.                                       *)
(***************************************************************************)

\* The workers that have not finished the current generation.
Busy == {w \in started : pc[w] \in {"stripes", "finish"} \/ seen[w] # generation}

MainPlaces == {"idle", "stripes", "barrier", "asleep"}
WorkerPlaces == {"check", "stripes", "finish", "asleep", "gone"}

Where ==
  /\ pc["main"] \in MainPlaces
  /\ \A w \in Threads : pc[w] \in WorkerPlaces
  /\ \A w \in Threads : w \notin started => pc[w] = "gone"
  /\ \A w \in started : pc[w] = "gone" => shutdown
  /\ shutdown => pc["main"] = "idle"

Claims == \A t \in Everyone : claim[t] # NoStripe =>
            /\ pc[t] = "stripes"
            /\ claim[t] \in 0..Stripes - 1
            /\ claim[t] < next_stripe
            /\ drawn[claim[t]] = 0

Distinct == \A t, u \in Everyone : claim[t] # NoStripe /\ t # u => claim[t] # claim[u]

Drawing(s) == drawn[s] = 0 /\ \E t \in Everyone : claim[t] = s

Progress == pc["main"] # "idle" =>
              \A s \in 0..Stripes - 1 : IF s >= next_stripe THEN drawn[s] = 0
                                        ELSE drawn[s] = 1 \/ Drawing(s)

Exhausted ==
  /\ pc["main"] \in {"barrier", "asleep"} => next_stripe >= Stripes
  /\ \A w \in Threads : pc[w] = "finish" => next_stripe >= Stripes

Account ==
  /\ pending = Cardinality(Busy)
  /\ \A w \in Threads : pc[w] \in {"stripes", "finish"} => seen[w] = generation

Rested == pc["main"] = "idle" => Busy = {} /\ \A s \in 0..Stripes - 1 : drawn[s] = 1

PoolInv == TypeOK /\ Where /\ Claims /\ Distinct /\ Progress /\ Exhausted /\ Account /\ Rested

-----------------------------------------------------------------------------
\* Busy is a finite set, so its cardinality is a number that is zero only for
\* the empty set.
LEMMA BusyFinite ==
  ASSUME TypeOK
  PROVE  /\ IsFiniteSet(Busy)
         /\ Cardinality(Busy) \in Nat
         /\ Cardinality(Busy) = 0 <=> Busy = {}
<1>1. Busy \subseteq Threads BY DEF Busy, TypeOK
<1>2. IsFiniteSet(Threads) BY PoolAssumption
<1>3. IsFiniteSet(Busy) BY <1>1, <1>2, FS_Subset
<1>4. Cardinality(Busy) \in Nat BY <1>3, FS_CardinalityType
<1>5. Cardinality(Busy) = 0 <=> Busy = {} BY <1>3, FS_EmptySet
<1> QED BY <1>3, <1>4, <1>5

\* A pool that has just been started satisfies the invariant.
LEMMA InitPoolInv == PoolInit => PoolInv
<1> SUFFICES ASSUME NEW created \in SUBSET Threads, ggfe_pool_start(created)
             PROVE  PoolInv
  BY DEF PoolInit
<1> USE PoolAssumption DEF ggfe_pool_start, Everyone
<1>1. TypeOK
  <2>1. \A t \in Everyone : pc[t] \in Places BY DEF Places
  <2>2. pc \in [Everyone -> Places] BY <2>1
  <2>3. seen \in [Threads -> 0..MaxRuns] OBVIOUS
  <2>4. claim \in [Everyone -> Int] BY DEF NoStripe
  <2>5. drawn \in [0..Stripes - 1 -> Nat] OBVIOUS
  <2>6. generation \in 0..MaxRuns /\ pending \in Int /\ next_stripe \in Nat OBVIOUS
  <2>7. shutdown \in BOOLEAN /\ started \in SUBSET Threads OBVIOUS
  <2> QED BY <2>2, <2>3, <2>4, <2>5, <2>6, <2>7 DEF TypeOK
<1>2. Where
  <2>1. pc["main"] = "idle" OBVIOUS
  <2>2. \A w \in Threads : pc[w] = IF w \in created THEN "check" ELSE "gone" OBVIOUS
  <2> QED BY <2>1, <2>2 DEF Where, MainPlaces, WorkerPlaces
<1>3. Busy = {} BY <1>1 DEF Busy, TypeOK
<1>4. Claims /\ Distinct BY DEF Claims, Distinct, NoStripe
<1>5. Progress /\ Exhausted BY DEF Progress, Exhausted
<1>6. Account BY <1>3, FS_EmptySet DEF Account
<1>7. Rested BY <1>3 DEF Rested
<1> QED BY <1>1, <1>2, <1>4, <1>5, <1>6, <1>7 DEF PoolInv

\* The type invariant is preserved by every step.
LEMMA TypeStep == PoolInv /\ [PoolNext]_poolVars => TypeOK'
<1> SUFFICES ASSUME PoolInv, [PoolNext]_poolVars PROVE TypeOK'
  OBVIOUS
<1> USE PoolAssumption DEF TypeOK, Places, Everyone, NoStripe, PoolInv
<1>1. CASE ggfe_pool_run
  <2>1. pending' \in Int
    <3>1. IsFiniteSet(started) BY FS_Subset
    <3>2. Cardinality(started) \in Nat BY <3>1, FS_CardinalityType
    <3> QED BY <1>1, <3>2 DEF ggfe_pool_run
  <2>2. WorkReady(pc) \in [Everyone -> Places] BY DEF WorkReady
  <2>3. pc' \in [Everyone -> Places] BY <1>1, <2>2 DEF ggfe_pool_run
  <2> QED BY <1>1, <2>1, <2>3 DEF ggfe_pool_run
<1>2. CASE ggfe_pool_stop
  <2>1. WorkReady(pc) \in [Everyone -> Places] BY DEF WorkReady
  <2> QED BY <1>2, <2>1 DEF ggfe_pool_stop
<1>3. ASSUME NEW t \in Everyone, OnStripes(t) PROVE TypeOK'
  <2>1. CASE ggfe_run_stripes(t) BY <2>1 DEF ggfe_run_stripes, AfterStripes
  <2>2. CASE DrawStripe(t)
    <3>1. claim[t] \in 0..Stripes - 1 BY <2>2 DEF DrawStripe, Claims
    <3> QED BY <2>2, <3>1 DEF DrawStripe
  <2> QED BY <1>3, <2>1, <2>2 DEF OnStripes
<1>4. CASE PoolBarrier BY <1>4 DEF PoolBarrier
<1>5. CASE PoolJoin BY <1>5 DEF PoolJoin
<1>6. ASSUME NEW w \in Threads, ggfe_worker_main(w) PROVE TypeOK'
  BY <1>6 DEF ggfe_worker_main
<1>7. ASSUME NEW w \in Threads, WorkerDone(w) PROVE TypeOK'
  BY <1>7 DEF WorkerDone
<1>8. ASSUME NEW t \in Everyone, Spurious(t) PROVE TypeOK'
  BY <1>8 DEF Spurious
<1>9. CASE UNCHANGED poolVars BY <1>9 DEF poolVars
<1> QED BY <1>1, <1>2, <1>3, <1>4, <1>5, <1>6, <1>7, <1>8, <1>9 DEF PoolNext, MainStep, WorkerStep

-----------------------------------------------------------------------------
\* Where every thread may be, which workers exist and what a stop implies.
LEMMA WhereStep == PoolInv /\ [PoolNext]_poolVars => Where'
<1> SUFFICES ASSUME PoolInv, [PoolNext]_poolVars PROVE Where'
  OBVIOUS
<1> USE PoolAssumption DEF TypeOK, Where, Everyone, MainPlaces, WorkerPlaces, PoolInv
<1>1. CASE ggfe_pool_run BY <1>1 DEF ggfe_pool_run, WorkReady
<1>2. CASE ggfe_pool_stop BY <1>2 DEF ggfe_pool_stop, WorkReady
<1>3. ASSUME NEW t \in Everyone, OnStripes(t) PROVE Where'
  BY <1>3 DEF OnStripes, ggfe_run_stripes, DrawStripe, AfterStripes
<1>4. CASE PoolBarrier BY <1>4 DEF PoolBarrier
<1>5. CASE PoolJoin BY <1>5 DEF PoolJoin
<1>6. ASSUME NEW w \in Threads, ggfe_worker_main(w) PROVE Where'
  BY <1>6 DEF ggfe_worker_main
<1>7. ASSUME NEW w \in Threads, WorkerDone(w) PROVE Where'
  BY <1>7 DEF WorkerDone
<1>8. ASSUME NEW t \in Everyone, Spurious(t) PROVE Where'
  BY <1>8 DEF Spurious
<1>9. CASE UNCHANGED poolVars BY <1>9 DEF poolVars
<1> QED BY <1>1, <1>2, <1>3, <1>4, <1>5, <1>6, <1>7, <1>8, <1>9 DEF PoolNext, MainStep, WorkerStep

\* When no worker is busy and the main thread is past its stripes, nobody holds
\* a claim and every stripe is drawn.
LEMMA AllDrawn ==
  ASSUME PoolInv, Busy = {}, pc["main"] # "idle", claim["main"] = NoStripe, next_stripe >= Stripes
  PROVE  \A s \in 0..Stripes - 1 : drawn[s] = 1
<1> USE PoolAssumption DEF PoolInv, TypeOK, Everyone
<1>1. \A w \in Threads : pc[w] # "stripes" BY DEF Busy, Where
<1>2. \A t \in Everyone : claim[t] = NoStripe BY <1>1 DEF Claims
<1>3. SUFFICES ASSUME NEW s \in 0..Stripes - 1 PROVE drawn[s] = 1
  OBVIOUS
<1>4. ~ (s >= next_stripe) OBVIOUS
<1>5. ~ Drawing(s) BY <1>2 DEF Drawing, NoStripe
<1> QED BY <1>4, <1>5 DEF Progress

\* What a thread holds is a stripe nobody else holds and nobody has drawn, and
\* every stripe below the counter is drawn or held.
LEMMA StripeStep == PoolInv /\ [PoolNext]_poolVars => (Claims /\ Distinct /\ Progress /\ Exhausted)'
<1> SUFFICES ASSUME PoolInv, [PoolNext]_poolVars PROVE (Claims /\ Distinct /\ Progress /\ Exhausted)'
  OBVIOUS
<1> DEFINE Parts == Claims /\ Distinct /\ Progress /\ Exhausted
<1> USE PoolAssumption DEF TypeOK, Everyone, PoolInv, NoStripe
<1>0. UNCHANGED <<claim, drawn, next_stripe>> /\ (\A t \in Everyone : claim[t] # NoStripe => pc'[t] = "stripes")
        => Claims' /\ Distinct'
  BY DEF Claims, Distinct
<1>1. CASE ggfe_pool_run
  <2>1. \A t \in Everyone : claim[t] = NoStripe
    BY <1>1 DEF ggfe_pool_run, Rested, Busy, Claims, Where
  <2>2. Claims' /\ Distinct' BY <1>1, <2>1 DEF ggfe_pool_run, Claims, Distinct
  <2>3. Progress' BY <1>1 DEF ggfe_pool_run, Progress
  <2>4. Exhausted'
    <3>1. \A w \in Threads : pc[w] # "finish" BY <1>1 DEF ggfe_pool_run, Rested, Busy, Where
    <3>2. pc'["main"] = "stripes" BY <1>1 DEF ggfe_pool_run, WorkReady
    <3>3. \A w \in Threads : pc'[w] # "finish" BY <1>1, <3>1 DEF ggfe_pool_run, WorkReady
    <3> QED BY <3>2, <3>3 DEF Exhausted
  <2> QED BY <2>2, <2>3, <2>4
<1>2. CASE ggfe_pool_stop
  <2>1. pc'["main"] = "idle" BY <1>2 DEF ggfe_pool_stop, WorkReady
  <2>2. \A w \in Threads : pc[w] \in {"finish", "stripes"} <=> pc'[w] \in {"finish", "stripes"}
    BY <1>2 DEF ggfe_pool_stop, WorkReady
  <2>3. \A w \in Threads : pc'[w] = pc[w] \/ pc'[w] = "check"
    BY <1>2 DEF ggfe_pool_stop, WorkReady
  <2>4. \A t \in Everyone : claim[t] # NoStripe => pc'[t] = "stripes"
    BY <1>2, <2>2, <2>3 DEF Claims, ggfe_pool_stop
  <2>5. Claims' /\ Distinct' BY <1>0, <1>2, <2>4 DEF ggfe_pool_stop
  <2> QED BY <1>2, <2>1, <2>3, <2>5 DEF ggfe_pool_stop, Progress, Exhausted
<1>3. ASSUME NEW t \in Everyone, ggfe_run_stripes(t), next_stripe < Stripes PROVE Parts'
  <2> USE <1>3 DEF ggfe_run_stripes
  <2>0. pc["main"] # "idle"
    <3>1. CASE t = "main" BY <3>1
    <3>2. CASE t \in Threads
      <4>1. t \in started BY <3>2 DEF Where
      <4>2. t \in Busy BY <4>1 DEF Busy
      <4> QED BY <4>2 DEF Rested
    <3> QED BY <3>1, <3>2
  <2>1. Claims'
    <3>1. drawn[next_stripe] = 0 BY <2>0 DEF Progress
    <3>2. claim'[t] = next_stripe OBVIOUS
    <3>3. \A u \in Everyone : u # t => claim'[u] = claim[u] OBVIOUS
    <3> SUFFICES ASSUME NEW u \in Everyone, claim'[u] # NoStripe
                 PROVE  /\ pc'[u] = "stripes" /\ claim'[u] \in 0..Stripes - 1
                        /\ claim'[u] < next_stripe' /\ drawn'[claim'[u]] = 0
      BY DEF Claims
    <3>4. CASE u = t BY <3>1, <3>2, <3>4
    <3>5. CASE u # t BY <3>3, <3>5 DEF Claims
    <3> QED BY <3>4, <3>5
  <2>2. Distinct'
    <3>1. \A u \in Everyone : claim[u] # NoStripe => claim[u] < next_stripe BY DEF Claims
    <3>2. claim'[t] = next_stripe OBVIOUS
    <3>3. \A u \in Everyone : u # t => claim'[u] = claim[u] OBVIOUS
    <3>4. \A u \in Everyone : claim[u] # next_stripe BY <3>1
    <3> SUFFICES ASSUME NEW u \in Everyone, NEW v \in Everyone, claim'[u] # NoStripe, u # v
                 PROVE  claim'[u] # claim'[v]
      BY DEF Distinct
    <3>5. CASE u = t BY <3>2, <3>3, <3>4, <3>5
    <3>6. CASE v = t BY <3>2, <3>3, <3>4, <3>6
    <3>7. CASE u # t /\ v # t BY <3>3, <3>7 DEF Distinct
    <3> QED BY <3>5, <3>6, <3>7
  <2>3. Progress'
    <3> SUFFICES ASSUME pc["main"] # "idle", NEW s \in 0..Stripes - 1
                 PROVE  (IF s >= next_stripe THEN drawn[s] = 0 ELSE drawn[s] = 1 \/ Drawing(s))'
      BY DEF Progress
    <3>1. CASE s = next_stripe
      <4>1. claim'[t] = s BY <3>1
      <4>2. drawn'[s] = 0 BY <3>1 DEF Progress
      <4> QED BY <4>1, <4>2 DEF Drawing
    <3>2. CASE s > next_stripe BY <3>2 DEF Progress
    <3>3. CASE s < next_stripe /\ drawn[s] = 1 BY <3>3
    <3>4. CASE s < next_stripe /\ Drawing(s)
      <4>1. PICK u \in Everyone : claim[u] = s BY <3>4 DEF Drawing
      <4>2. u # t BY <4>1
      <4>3. claim'[u] = s BY <4>1, <4>2
      <4> QED BY <3>4, <4>3 DEF Drawing
    <3> QED BY <3>1, <3>2, <3>3, <3>4 DEF Progress
  <2>4. Exhausted' BY DEF Exhausted
  <2> QED BY <2>1, <2>2, <2>3, <2>4
<1>4. ASSUME NEW t \in Everyone, ggfe_run_stripes(t), ~ (next_stripe < Stripes) PROVE Parts'
  <2> USE <1>4 DEF ggfe_run_stripes
  <2>1. Claims' /\ Distinct' BY DEF Claims, Distinct
  <2>2. Progress'
    <3> SUFFICES ASSUME pc'["main"] # "idle", NEW s \in 0..Stripes - 1
                 PROVE  (IF s >= next_stripe THEN drawn[s] = 0 ELSE drawn[s] = 1 \/ Drawing(s))'
      BY DEF Progress
    <3>1. pc["main"] # "idle" BY DEF AfterStripes
    <3> QED BY <3>1 DEF Progress, Drawing
  <2>3. Exhausted' BY DEF Exhausted
  <2> QED BY <2>1, <2>2, <2>3
<1>5. ASSUME NEW t \in Everyone, DrawStripe(t) PROVE Parts'
  <2> USE <1>5 DEF DrawStripe
  <2>0. claim[t] \in 0..Stripes - 1 /\ claim[t] < next_stripe /\ drawn[claim[t]] = 0 BY DEF Claims
  <2>1. Claims' BY <2>0 DEF Claims, Distinct
  <2>2. Distinct' BY DEF Distinct
  <2>3. Progress'
    <3> SUFFICES ASSUME pc["main"] # "idle", NEW s \in 0..Stripes - 1
                 PROVE  (IF s >= next_stripe THEN drawn[s] = 0 ELSE drawn[s] = 1 \/ Drawing(s))'
      BY DEF Progress
    <3>1. CASE s = claim[t] BY <2>0, <3>1 DEF Progress
    <3>2. CASE s # claim[t]
      <4>1. drawn'[s] = drawn[s] BY <2>0, <3>2
      <4>2. Drawing(s) => Drawing(s)'
        <5> SUFFICES ASSUME Drawing(s) PROVE Drawing(s)'
          OBVIOUS
        <5>1. PICK u \in Everyone : claim[u] = s BY DEF Drawing
        <5>2. claim'[u] = s BY <3>2, <5>1
        <5> QED BY <4>1, <5>2 DEF Drawing
      <4> QED BY <4>1, <4>2 DEF Progress
    <3> QED BY <3>1, <3>2
  <2>4. Exhausted' BY DEF Exhausted
  <2> QED BY <2>1, <2>2, <2>3, <2>4
<1>6. CASE PoolBarrier
  <2>1. Claims' /\ Distinct' BY <1>6 DEF PoolBarrier, Claims, Distinct
  <2>2. Progress' /\ Exhausted' BY <1>6 DEF PoolBarrier, Progress, Exhausted, Drawing
  <2> QED BY <2>1, <2>2
<1>7. CASE PoolJoin BY <1>7 DEF PoolJoin, Claims, Distinct, Progress, Exhausted, Drawing
<1>8. ASSUME NEW w \in Threads, ggfe_worker_main(w) PROVE Parts'
  BY <1>8 DEF ggfe_worker_main, Claims, Distinct, Progress, Exhausted, Drawing
<1>9. ASSUME NEW w \in Threads, WorkerDone(w) PROVE Parts'
  BY <1>9 DEF WorkerDone, Claims, Distinct, Progress, Exhausted, Drawing
<1>10. ASSUME NEW t \in Everyone, Spurious(t) PROVE Parts'
  BY <1>10 DEF Spurious, Claims, Distinct, Progress, Exhausted, Drawing
<1>11. CASE UNCHANGED poolVars
  BY <1>11 DEF poolVars, Claims, Distinct, Progress, Exhausted, Drawing
<1>12. ASSUME NEW t \in Everyone, OnStripes(t) PROVE Parts' BY <1>3, <1>4, <1>5, <1>12 DEF OnStripes
<1> QED BY <1>1, <1>2, <1>6, <1>7, <1>8, <1>9, <1>10, <1>11, <1>12 DEF PoolNext, MainStep, WorkerStep

\* pending counts the workers that still owe work, and an idle pool owes none.
LEMMA AccountStep == PoolInv /\ [PoolNext]_poolVars => (Account /\ Rested)'
<1> SUFFICES ASSUME PoolInv, [PoolNext]_poolVars PROVE (Account /\ Rested)'
  OBVIOUS
<1> USE PoolAssumption DEF TypeOK, Everyone, PoolInv
<1>a. IsFiniteSet(Busy) /\ Cardinality(Busy) \in Nat /\ (Cardinality(Busy) = 0 <=> Busy = {})
  BY BusyFinite
<1>b. ASSUME Busy' = Busy, pending' = pending,
             \A w \in Threads : pc'[w] \in {"stripes", "finish"} => seen'[w] = generation',
             pc'["main"] # "idle" \/ (pc["main"] = "idle" /\ drawn' = drawn)
      PROVE  (Account /\ Rested)'
  BY <1>b DEF Account, Rested
<1>1. CASE ggfe_pool_run
  <2> USE <1>1 DEF ggfe_pool_run
  <2>1. Busy = {} /\ pc["main"] = "idle" BY DEF Rested
  <2>2. \A w \in started : seen[w] = generation /\ pc[w] \notin {"stripes", "finish"} BY <2>1 DEF Busy
  <2>3. pc'["main"] = "stripes" BY DEF WorkReady
  <2>4. \A w \in Threads : pc'[w] \in {"stripes", "finish"} => pc[w] \in {"stripes", "finish"}
    BY DEF WorkReady
  <2>5. \A w \in Threads : pc'[w] \notin {"stripes", "finish"} BY <2>2, <2>4 DEF Where
  <2>6. pending' = Cardinality(Busy')
    <3>1. CASE started = {}
      <4>1. Busy' = {} BY <3>1 DEF Busy
      <4> QED BY <2>1, <3>1, <4>1 DEF Account
    <3>2. CASE started # {}
      <4>1. Busy' = started BY <2>2, <2>5, <3>2 DEF Busy
      <4> QED BY <3>2, <4>1
    <3> QED BY <3>1, <3>2
  <2> QED BY <2>3, <2>5, <2>6 DEF Account, Rested
<1>2. CASE ggfe_pool_stop
  <2>1. \A w \in Threads : pc'[w] \in {"stripes", "finish"} <=> pc[w] \in {"stripes", "finish"}
    BY <1>2 DEF ggfe_pool_stop, WorkReady
  <2>2. pc'["main"] = pc["main"] BY <1>2 DEF ggfe_pool_stop, WorkReady
  <2>3. Busy' = Busy BY <1>2, <2>1 DEF ggfe_pool_stop, Busy
  <2> QED BY <1>2, <1>b, <2>1, <2>2, <2>3 DEF ggfe_pool_stop, Account
<1>3. ASSUME NEW t \in Everyone, OnStripes(t) PROVE (Account /\ Rested)'
  <2>1. ASSUME NEW w \in Threads
        PROVE  pc'[w] \in {"stripes", "finish"} <=> pc[w] \in {"stripes", "finish"}
    BY <1>3 DEF OnStripes, ggfe_run_stripes, DrawStripe, AfterStripes
  <2>2. Busy' = Busy BY <1>3, <2>1 DEF OnStripes, ggfe_run_stripes, DrawStripe, Busy
  <2>3. \A w \in Threads : pc'[w] \in {"stripes", "finish"} => seen'[w] = generation'
    BY <1>3, <2>1 DEF OnStripes, ggfe_run_stripes, DrawStripe, Account
  <2>4. pending' = pending BY <1>3 DEF OnStripes, ggfe_run_stripes, DrawStripe
  <2>5. pc["main"] # "idle"
    <3>1. pc[t] = "stripes" BY <1>3 DEF OnStripes, ggfe_run_stripes, DrawStripe
    <3>2. CASE t \in Threads
      <4>1. t \in Busy BY <3>1, <3>2 DEF Busy, Where
      <4> QED BY <4>1 DEF Rested
    <3> QED BY <3>1, <3>2
  <2>6. CASE pc'["main"] # "idle" BY <1>b, <2>2, <2>3, <2>4, <2>6
  <2>7. CASE pc'["main"] = "idle"
    <3>1. /\ started = {} /\ claim["main"] = NoStripe /\ ~ (next_stripe < Stripes)
          /\ UNCHANGED drawn
      BY <1>3, <2>5, <2>7 DEF OnStripes, ggfe_run_stripes, DrawStripe, AfterStripes
    <3>2. Busy = {} BY <3>1 DEF Busy
    <3>3. next_stripe >= Stripes BY <3>1
    <3>4. \A s \in 0..Stripes - 1 : drawn[s] = 1 BY <2>5, <3>1, <3>2, <3>3, AllDrawn
    <3> QED BY <2>2, <2>3, <2>4, <3>1, <3>2, <3>4 DEF Account, Rested
  <2> QED BY <2>6, <2>7
<1>4. CASE PoolBarrier
  <2>1. \A w \in Threads : pc'[w] = pc[w] BY <1>4 DEF PoolBarrier
  <2>2. Busy' = Busy BY <1>4, <2>1 DEF PoolBarrier, Busy
  <2>3. \A w \in Threads : pc'[w] \in {"stripes", "finish"} => seen'[w] = generation'
    BY <1>4, <2>1 DEF PoolBarrier, Account
  <2>4. CASE pending > 0
    <3>1. pc'["main"] # "idle" BY <1>4, <2>4 DEF PoolBarrier
    <3> QED BY <1>4, <1>b, <2>2, <2>3, <3>1 DEF PoolBarrier
  <2>5. CASE ~ (pending > 0)
    <3>1. pc["main"] = "barrier" /\ UNCHANGED <<drawn, pending>> BY <1>4 DEF PoolBarrier
    <3>2. Busy = {} BY <1>a, <2>5 DEF Account
    <3>3. claim["main"] = NoStripe BY <3>1 DEF Claims
    <3>4. next_stripe >= Stripes BY <3>1 DEF Exhausted
    <3>5. \A s \in 0..Stripes - 1 : drawn[s] = 1 BY <3>1, <3>2, <3>3, <3>4, AllDrawn
    <3> QED BY <2>2, <2>3, <3>1, <3>2, <3>5 DEF Account, Rested
  <2> QED BY <2>4, <2>5
<1>5. CASE PoolJoin
  <2>1. Busy' = {} BY <1>5 DEF PoolJoin, Busy
  <2>2. Busy = {} BY <1>5 DEF PoolJoin, Rested
  <2> QED BY <1>5, <1>b, <2>1, <2>2 DEF PoolJoin, Account
<1>6. ASSUME NEW w \in Threads, ggfe_worker_main(w) PROVE (Account /\ Rested)'
  <2> USE <1>6 DEF ggfe_worker_main
  <2>1. pc'["main"] = pc["main"] /\ UNCHANGED <<drawn, pending>> OBVIOUS
  <2>2. \A v \in Threads : v # w => pc'[v] = pc[v] /\ seen'[v] = seen[v] OBVIOUS
  <2>3. w \in started BY DEF Where
  <2>4. shutdown => w \notin Busy BY DEF Where, Rested
  <2>5. w \in Busy' <=> w \in Busy BY <2>3, <2>4 DEF Busy
  <2>6. Busy' = Busy BY <2>2, <2>5 DEF Busy
  <2>7. \A v \in Threads : pc'[v] \in {"stripes", "finish"} => seen'[v] = generation'
    BY <2>2 DEF Account
  <2> QED BY <1>b, <2>1, <2>6, <2>7
<1>7. ASSUME NEW w \in Threads, WorkerDone(w) PROVE (Account /\ Rested)'
  <2> USE <1>7 DEF WorkerDone
  <2>1. seen[w] = generation /\ w \in started BY DEF Account, Where
  <2>2. w \in Busy BY <2>1 DEF Busy
  <2>3. pc'["main"] # "idle" BY <2>2 DEF Rested
  <2>4. \A v \in Threads : v # w => pc'[v] = pc[v] OBVIOUS
  <2>5. pc'[w] = "check" OBVIOUS
  <2>6. Busy' = Busy \ {w} BY <2>1, <2>4, <2>5 DEF Busy
  <2>7. Cardinality(Busy \ {w}) = Cardinality(Busy) - 1 BY <1>a, <2>2, FS_RemoveElement
  <2>8. pending' = Cardinality(Busy') BY <2>6, <2>7 DEF Account
  <2>9. \A v \in Threads : pc'[v] \in {"stripes", "finish"} => seen'[v] = generation'
    BY <2>4, <2>5 DEF Account
  <2> QED BY <2>3, <2>8, <2>9 DEF Account, Rested
<1>8. ASSUME NEW t \in Everyone, Spurious(t) PROVE (Account /\ Rested)'
  <2> USE <1>8 DEF Spurious
  <2>1. \A v \in Threads : pc'[v] \in {"stripes", "finish"} <=> pc[v] \in {"stripes", "finish"} OBVIOUS
  <2>2. Busy' = Busy BY <2>1 DEF Busy
  <2>3. pc'["main"] # "idle" \/ pc'["main"] = pc["main"] OBVIOUS
  <2> QED BY <1>b, <2>1, <2>2, <2>3 DEF Account
<1>9. CASE UNCHANGED poolVars
  <2>1. Busy' = Busy BY <1>9 DEF poolVars, Busy
  <2> QED BY <1>9, <1>b, <2>1 DEF poolVars, Account
<1> QED BY <1>1, <1>2, <1>3, <1>4, <1>5, <1>6, <1>7, <1>8, <1>9 DEF PoolNext, MainStep, WorkerStep

-----------------------------------------------------------------------------
\* Every behaviour of the pool keeps the inductive invariant: for any number of
\* workers pthread_create made and any number of stripes.
THEOREM PoolInvariant == PoolSpec => []PoolInv
<1>1. PoolInit => PoolInv BY InitPoolInv
<1>2. PoolInv /\ [PoolNext]_poolVars => PoolInv'
  BY TypeStep, WhereStep, StripeStep, AccountStep DEF PoolInv
<1> QED BY <1>1, <1>2, PTL DEF PoolSpec

\* When ggfe_pool_run returns, the frame is whole and no worker is inside the
\* job: the unlocked writes of the next job's fields race with nobody.
THEOREM FrameTheorem == PoolSpec => []FrameIsWhole
<1>1. PoolInv => FrameIsWhole
  BY PoolAssumption DEF PoolInv, Rested, FrameIsWhole, Where, Busy, TypeOK
<1> QED BY <1>1, PoolInvariant, PTL

\* No two threads ever draw the same stripe for one job.
THEOREM DisjointTheorem == PoolSpec => []StripesAreDisjoint
<1>1. PoolInv => StripesAreDisjoint
  <2> SUFFICES ASSUME PoolInv, NEW s \in 0..Stripes - 1 PROVE drawn[s] <= 1
    BY DEF StripesAreDisjoint
  <2>1. CASE pc["main"] = "idle" BY <2>1 DEF PoolInv, Rested
  <2>2. CASE pc["main"] # "idle" BY <2>2 DEF PoolInv, Progress, Drawing
  <2> QED BY <2>1, <2>2
<1> QED BY <1>1, PoolInvariant, PTL

=============================================================================

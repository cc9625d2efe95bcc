-------------------------- MODULE RomBrowserProofs --------------------------
(***************************************************************************)
(* Proofs about the ROM lists of the frontend.                             *)
(*                                                                         *)
(* CursorInRange and ListMatchesScreen are not inductive: a menu opened    *)
(* over a list gives it back later, and a scan reloads it from an index    *)
(* written earlier.  BrowserInv adds that every way back leads to a screen *)
(* the present list belongs to, and that indexes hold ROMs of their system.*)
(***************************************************************************)
EXTENDS RomBrowser, FiniteSetTheorems, WellFoundedInduction, TLAPS

Notes == [key : (Contexts \cup {None}) \X (Dirs \cup {Root}),
          path : {PathOf[i] : i \in Items}]
ScanStates == [sys : Systems \cup {None}, state : {"idle", "running", "ok", "failed"}]

\* ROMs of system s; a list that shows directory d of system s.
OfSystem(R, s) == \A r \in R : SystemOf[r] = s
ListOf(q, s, d) ==
    \A i \in Members(q) : Parent[i] = d /\ (i \in Roms => SystemOf[i] = s)

\* The files; an index lists ROMs of its own system.
DiskInv ==
    /\ card \in SUBSET Roms /\ index \in [Systems -> (SUBSET Roms) \cup {Absent}]
    /\ favorites \in Seq(Roms) /\ recent \in Seq(Roms) /\ changes \in Nat
    /\ \A s \in Systems : index[s] # Absent => OfSystem(index[s], s)

\* A scanner child works for a system; when it succeeded, that system has an index.
ScanInv ==
    /\ scan \in ScanStates
    /\ scan # Idle => scan.sys \in Systems
    /\ scan # Idle /\ scan.state = "ok" => index[scan.sys] # Absent

\* A way back is kept only while its screen can be returned from.
WaysInv ==
    /\ screen \in Screens /\ back \in Screens /\ coverBack \in Screens
    /\ galleryBack \in Screens /\ romEntry \in {"roms", "gallery"} /\ menu \in {"start", "apps"}
    /\ screen # "cover" => coverBack = "top"
    /\ coverBack # "cover"
    /\ (IF screen = "cover" THEN coverBack ELSE screen) \in Shelves \cup {"top"}
          => back \notin Shelves

ListInv ==
    /\ sys \in Contexts \cup {None} /\ dir \in Dirs \cup {Root}
    /\ entries \in Seq(Items) /\ cursor \in Nat /\ stars \in SUBSET Items
    /\ memory \in Seq(Notes)
    /\ CursorInRange

MotionInv == trans \in Nat \cup {Rest} /\ pend \in Nat \cup {Rest}

\* The list belongs to the screen and to every screen a menu returns to.
Chain == \A s \in Shelves : s \in {screen, back, coverBack} => Belongs(s)

BrowserInv == DiskInv /\ ScanInv /\ WaysInv /\ ListInv /\ MotionInv /\ Chain

-----------------------------------------------------------------------------
(* Lists and positions *)

\* The members of a sequence over T are in T.
LEMMA MembersIn ==
    ASSUME NEW T, NEW q \in Seq(T) PROVE Members(q) \subseteq T
BY DEF Members

\* A sorted list (qsort in load_rom_entries) is a sequence of the sorted items.
LEMMA ArrangedType ==
    ASSUME NEW S \in SUBSET Items, NEW q \in Arranged(S)
    PROVE q \in Seq(S) /\ q \in Seq(Items) /\ Members(q) \subseteq S
<1>1. IsFiniteSet(S)
  BY LibraryAssumption, FS_Subset
<1>2. Cardinality(S) \in Nat
  BY <1>1, FS_CardinalityType
<1>3. q \in [1..Cardinality(S) -> S]
  BY DEF Arranged
<1>4. q \in Seq(S) /\ q \in Seq(Items)
  BY <1>2, <1>3
<1> QED
  BY <1>4, MembersIn

\* Looking an entry up in a list that holds it yields its position.
LEMMA PositionIn ==
    ASSUME NEW T, NEW q \in Seq(T), NEW i \in Members(q)
    PROVE /\ Position(q, i) \in 0..(Len(q) - 1)
          /\ q[Position(q, i) + 1] = i
<1>1. PICK k \in DOMAIN q : q[k] = i
  BY DEF Members
<1>2. k - 1 \in 0..(Len(q) - 1) /\ q[(k - 1) + 1] = i
  BY <1>1
<1> QED
  BY <1>2 DEF Position

\* Every non-empty set of naturals has a least element.
LEMMA LeastNat ==
    ASSUME NEW S \in SUBSET Nat, S # {}
    PROVE  \E x \in S : \A y \in S : x <= y
<1>1. PICK x \in S : \A y \in S : ~(<<y, x>> \in OpToRel(<, Nat))
  BY NatLessThanWellFounded, WFMin
<1>2. \A y \in S : ~(y < x)
  BY <1>1 DEF OpToRel
<1> QED
  BY <1>2

\* The search by path finds an entry with that path, the first one.
LEMMA FirstAtIn ==
    ASSUME NEW q \in Seq(Items), NEW p \in Paths(q)
    PROVE /\ FirstAt(q, p) \in 0..(Len(q) - 1)
          /\ PathOf[q[FirstAt(q, p) + 1]] = p
          /\ \A j \in 0..(FirstAt(q, p) - 1) : PathOf[q[j + 1]] # p
<1> DEFINE S == {n \in 0..(Len(q) - 1) : PathOf[q[n + 1]] = p}
<1>1. PICK m \in DOMAIN q : PathOf[q[m]] = p
  BY DEF Paths
<1>2. m - 1 \in S /\ S \in SUBSET Nat
  BY <1>1
<1>3. PICK x \in S : \A y \in S : x <= y
  BY <1>2, LeastNat
<1>4. \A j \in 0..(x - 1) : PathOf[q[j + 1]] # p
  BY <1>3
<1> QED
  BY <1>3, <1>4 DEF FirstAt

\* restore_current_rom_cursor stays inside the list.
LEMMA RestoredIn ==
    ASSUME NEW mem \in Seq(Notes), NEW key, NEW q \in Seq(Items)
    PROVE /\ Restored(mem, key, q) \in Nat
          /\ q # << >> => Restored(mem, key, q) < Len(q)
<1> DEFINE found == {k \in DOMAIN mem : mem[k].key = key /\ mem[k].path \in Paths(q)}
<1>1. CASE found = {}
  BY <1>1 DEF Restored
<1>2. CASE found # {}
  <2> DEFINE k == CHOOSE n \in found : TRUE
  <2>1. k \in found
    BY <1>2
  <2>2. FirstAt(q, mem[k].path) \in 0..(Len(q) - 1)
    BY <2>1, FirstAtIn
  <2>3. Restored(mem, key, q) = FirstAt(q, mem[k].path)
    BY <1>2 DEF Restored
  <2> QED
    BY <2>2, <2>3
<1> QED
  BY <1>1, <1>2

\* remember_current_rom_cursor keeps the memory a sequence of notes.
LEMMA RememberedType ==
    ASSUME NEW c \in Nat, ListInv
    PROVE Remembered(c) \in Seq(Notes)
<1> DEFINE note == [key |-> <<sys, dir>>, path |-> PathOf[entries[c + 1]]]
           known == {k \in DOMAIN memory : memory[k].key = note.key}
<1>1. memory \in Seq(Notes)
  BY DEF ListInv
<1>2. CASE sys = None \/ c >= Len(entries)
  BY <1>1, <1>2 DEF Remembered
<1>3. CASE ~(sys = None \/ c >= Len(entries))
  <2>1. entries[c + 1] \in Items
    BY <1>3 DEF ListInv
  <2>2. note \in Notes
    BY <2>1 DEF ListInv, Notes
  <2>3. CASE known # {}
    <3> HIDE DEF note, known
    <3> DEFINE after == [k \in 1..Len(memory) |-> IF k \in known THEN note ELSE memory[k]]
    <3>1. Remembered(c) = [k \in DOMAIN memory |-> IF k \in known THEN note ELSE memory[k]]
      BY <1>3, <2>3 DEF Remembered, note, known
    <3>2. Remembered(c) = after
      BY <1>1, <3>1
    <3>3. Len(memory) \in Nat /\ \A k \in 1..Len(memory) : memory[k] \in Notes
      BY <1>1
    <3>4. after \in [1..Len(memory) -> Notes]
      BY <2>2, <3>3
    <3> QED
      BY <3>2, <3>3, <3>4
  <2>4. CASE known = {} /\ Len(memory) >= MemoryMax
    <3>1. Remembered(c) = Append(Tail(memory), note)
      BY <1>3, <2>4 DEF Remembered
    <3>2. memory # << >>
      BY <1>1, <2>4, BoundsAssumption
    <3> QED
      BY <1>1, <2>2, <3>1, <3>2
  <2>5. CASE known = {} /\ ~(Len(memory) >= MemoryMax)
    <3>1. Remembered(c) = Append(memory, note)
      BY <1>3, <2>5 DEF Remembered
    <3> QED
      BY <1>1, <2>2, <3>1
  <2> QED
    BY <2>3, <2>4, <2>5
<1> QED
  BY <1>2, <1>3

\* rom_cursor_after_delta stays inside a non-empty list.
LEMMA AfterDeltaIn ==
    ASSUME NEW base \in Nat, NEW delta \in Int, entries \in Seq(Items), entries # << >>
    PROVE AfterDelta(base, delta) \in 0..(Len(entries) - 1)
<1> DEFINE n == Len(entries)
           from == IF base >= n THEN n - 1 ELSE base
           to == from + delta
<1>1. n \in Nat /\ n > 0
  OBVIOUS
<1>2. AfterDelta(base, delta) =
        IF Wrap /\ n > 1 THEN to % n
        ELSE IF to < 0 THEN 0 ELSE IF to >= n THEN n - 1 ELSE to
  BY DEF AfterDelta
<1> HIDE DEF n
<1>3. from \in 0..(n - 1)
  BY <1>1
<1> HIDE DEF from
<1>4. to \in Int
  BY <1>1, <1>3
<1> HIDE DEF to
<1>5. to % n \in 0..(n - 1)
  BY <1>1, <1>4
<1>6. AfterDelta(base, delta) \in 0..(n - 1)
  BY <1>1, <1>2, <1>4, <1>5
<1> QED
  BY <1>6 DEF n

\* Closing the gap of a removed item yields a list of the same kind.
LEMMA WithoutType ==
    ASSUME NEW q \in Seq(Roms), NEW i \in Members(q)
    PROVE Without(q, i) \in Seq(Roms)
<1>1. Position(q, i) \in 0..(Len(q) - 1)
  BY PositionIn
<1>2. SubSeq(q, 1, Position(q, i)) \in Seq(Roms)
  BY <1>1
<1>3. SubSeq(q, Position(q, i) + 2, Len(q)) \in Seq(Roms)
  BY <1>1
<1> QED
  BY <1>2, <1>3 DEF Without

\* What a directory shows are items of that directory.
LEMMA ShownItems ==
    ASSUME NEW R \in SUBSET Roms, NEW d
    PROVE /\ Shown(R, d) \in SUBSET Items
          /\ \A i \in Shown(R, d) : Parent[i] = d
          /\ \A i \in Shown(R, d) : i \in Roms => i \in R
BY LibraryAssumption DEF Shown, Items

\* The entries read from an index belong to its system and directory.
LEMMA ReadIndex ==
    ASSUME NEW R \in SUBSET Roms, NEW s \in Systems, NEW d, NEW q \in Arranged(Shown(R, d)),
           OfSystem(R, s)
    PROVE q \in Seq(Items) /\ ListOf(q, s, d)
<1>1. Shown(R, d) \in SUBSET Items
  BY ShownItems
<1>2. q \in Seq(Items) /\ Members(q) \subseteq Shown(R, d)
  BY <1>1, ArrangedType
<1> QED
  BY <1>2, ShownItems DEF OfSystem, ListOf

\* A scan writes the ROMs of its system: the files stay consistent and a scan
\* that succeeded keeps its index.
LEMMA ScanWrites ==
    ASSUME NEW s \in Systems, DiskInv, ScanInv,
           index' = [index EXCEPT ![s] = {r \in card : SystemOf[r] = s}],
           UNCHANGED <<card, favorites, recent, changes>>
    PROVE /\ DiskInv'
          /\ index'[s] \in SUBSET Roms /\ index'[s] # Absent
          /\ \A t \in Systems : index[t] # Absent => index'[t] # Absent
<1> DEFINE found == {r \in card : SystemOf[r] = s}
<1>1. found \in SUBSET Roms /\ found # Absent /\ OfSystem(found, s)
  BY NamesAssumption DEF DiskInv, OfSystem
<1> HIDE DEF found
<1>2. index' = [index EXCEPT ![s] = found]
  BY DEF found
<1>3. index' \in [Systems -> (SUBSET Roms) \cup {Absent}]
  BY <1>1, <1>2 DEF DiskInv
<1>4. \A t \in Systems : index'[t] = IF t = s THEN found ELSE index[t]
  BY <1>2 DEF DiskInv
<1> QED
  BY <1>1, <1>3, <1>4 DEF DiskInv

\* load_rom_entries: whatever scans it ran or started, the entries are those of
\* the system and directory, or none.
LEMMA LoadRomsEffect ==
    ASSUME NEW s \in Systems, NEW d, NEW suppressed, NEW ok \in BOOLEAN, DiskInv, ScanInv,
           LoadRoms(s, d, suppressed, ok),
           UNCHANGED <<card, favorites, recent, changes>>
    PROVE /\ DiskInv' /\ ScanInv'
          /\ entries' \in Seq(Items) /\ stars' \in SUBSET Items
          /\ ListOf(entries', s, d)
          /\ ~ok => entries' = << >>
<1>1. DiskInv' /\ ScanInv'
  <2>1. CASE /\ index' = [index EXCEPT ![s] = {r \in card : SystemOf[r] = s}]
             /\ UNCHANGED scan
    <3>1. DiskInv' /\ \A t \in Systems : index[t] # Absent => index'[t] # Absent
      BY <2>1, ScanWrites
    <3> QED
      BY <2>1, <3>1 DEF ScanInv
  <2>2. CASE UNCHANGED <<index, scan>>
    BY <2>2 DEF DiskInv, ScanInv
  <2>3. CASE scan' = [sys |-> s, state |-> "running"] /\ UNCHANGED index
    <3>1. DiskInv'
      BY <2>3 DEF DiskInv
    <3>2. scan' \in ScanStates /\ scan'.sys = s /\ scan'.state = "running"
      BY <2>3 DEF ScanStates
    <3> QED
      BY <3>1, <3>2 DEF ScanInv
  <2> QED
    BY <2>1, <2>2, <2>3 DEF LoadRoms
<1>2. CASE ok
  <2>1. index'[s] # Absent /\ entries' \in Arranged(Shown(index'[s], d))
        /\ stars' = Starred(entries', favorites)
    BY <1>2 DEF LoadRoms
  <2>2. index'[s] \in SUBSET Roms /\ OfSystem(index'[s], s)
    BY <1>1, <2>1 DEF DiskInv
  <2>3. entries' \in Seq(Items) /\ ListOf(entries', s, d)
    BY <2>1, <2>2, ReadIndex
  <2>4. stars' \in SUBSET Items
    BY <2>1, <2>3, MembersIn DEF Starred
  <2> QED
    BY <1>1, <1>2, <2>3, <2>4
<1>3. CASE ~ok
  <2>1. entries' = << >> /\ stars' = {}
    BY <1>3 DEF LoadRoms
  <2>2. ListOf(entries', s, d) /\ entries' \in Seq(Items)
    BY <2>1 DEF Members, ListOf
  <2> QED
    BY <1>1, <1>3, <2>1, <2>2
<1> QED
  BY <1>2, <1>3

\* load_favorite_entries and load_recent_entries show ROMs only.
LEMMA LoadFileEffect ==
    ASSUME NEW file \in Seq(Roms), LoadFile(file)
    PROVE /\ entries' \in Seq(Items) /\ stars' \in SUBSET Items
          /\ Members(entries') \subseteq Roms
<1>1. entries' \in Seq(Roms)
  <2>1. entries' = file \/ entries' = << >>
    BY DEF LoadFile
  <2>2. << >> \in Seq(Roms)
    OBVIOUS
  <2> QED
    BY <2>1, <2>2
<1>2. Members(entries') \subseteq Roms
  BY <1>1, MembersIn
<1>3. entries' \in Seq(Items)
  BY <1>1 DEF Items
<1> QED
  BY <1>2, <1>3 DEF LoadFile, Starred, Items

\* Outside a menu there is no way back to a list.
LEMMA NoWayBack ==
    ASSUME WaysInv, screen \in Shelves \cup {"top"}
    PROVE coverBack = "top" /\ back \notin Shelves
BY DEF WaysInv, Shelves, Lists

\* Menus that leave files, list and gallery alone keep the invariant if they
\* lead only to screens that were on the way before.
LEMMA MenuStep ==
    ASSUME BrowserInv, UNCHANGED <<disk, scan, list, galleryBack>>, WaysInv', MotionInv',
           {screen', back', coverBack'} \cap Shelves \subseteq {screen, back, coverBack}
    PROVE BrowserInv'
<1>1. DiskInv' /\ ScanInv' /\ ListInv'
  BY DEF BrowserInv, DiskInv, ScanInv, ListInv, CursorInRange, disk, list
<1>2. Chain'
  BY DEF BrowserInv, Chain, Belongs, list
<1> QED
  BY <1>1, <1>2 DEF BrowserInv

\* A step that ends on a list or the top screen has only that screen to care for.
LEMMA ListStep ==
    ASSUME DiskInv', ScanInv', ListInv', MotionInv', WaysInv',
           screen' \in Shelves \cup {"top"}, screen' \in Shelves => Belongs(screen)'
    PROVE BrowserInv'
<1>1. coverBack' = "top" /\ back' \notin Shelves
  BY DEF WaysInv, Shelves, Lists
<1>2. Chain'
  BY <1>1 DEF Chain, Shelves, Lists
<1> QED
  BY <1>2 DEF BrowserInv

\* Goto keeps the motion well-typed.
LEMMA GotoMotion ==
    ASSUME NEW s, MotionInv, Goto(s) PROVE MotionInv'
BY DEF MotionInv, Goto, Rest

-----------------------------------------------------------------------------
(* The initial states *)

\* A frontend that starts has no list and no way back.
LEMMA InitInv == Init => BrowserInv
<1> SUFFICES ASSUME Init PROVE BrowserInv
  OBVIOUS
<1> USE DEF Init, InitUI
<1>1. DiskInv
  BY BoundsAssumption DEF DiskInv, OfSystem
<1>2. ScanInv
  BY DEF ScanInv, ScanStates, Idle
<1>3. WaysInv
  BY DEF WaysInv, Screens, Shelves, Lists
<1>4. ListInv
  BY DEF ListInv, CursorInRange, Contexts
<1>5. MotionInv
  BY DEF MotionInv
<1>6. Chain
  BY DEF Chain, Shelves, Lists
<1> QED
  BY <1>1, <1>2, <1>3, <1>4, <1>5, <1>6 DEF BrowserInv

-----------------------------------------------------------------------------
(* Menus *)

\* Opening and closing menus changes neither the list nor what it belongs to.
LEMMA MenusKeep ==
    ASSUME BrowserInv,
           \/ OpenStart \/ CloseStart \/ ChooseInStart \/ CloseSubmenu
           \/ OpenCore \/ OpenPower \/ Uncover
    PROVE BrowserInv'
<1> USE DEF Goto, WaysInv, Screens, Shelves, Lists
<1>0. WaysInv /\ MotionInv
  BY DEF BrowserInv
<1>1. CASE OpenStart
  <2>1. WaysInv' /\ MotionInv'
    BY <1>0, <1>1, GotoMotion DEF OpenStart
  <2> QED
    BY <1>1, <2>1, MenuStep DEF OpenStart
<1>2. CASE CloseStart
  <2>1. CASE menu = "apps"
    <3>1. WaysInv' /\ MotionInv'
      BY <1>0, <1>2, <2>1 DEF CloseStart, MotionInv, motion
    <3> QED
      BY <1>2, <2>1, <3>1, MenuStep DEF CloseStart
  <2>2. CASE menu # "apps"
    <3>1. WaysInv' /\ MotionInv'
      BY <1>0, <1>2, <2>2, GotoMotion DEF CloseStart
    <3> QED
      BY <1>2, <2>2, <3>1, MenuStep DEF CloseStart
  <2> QED
    BY <2>1, <2>2
<1>3. CASE ChooseInStart
  <2>1. WaysInv'
    BY <1>0, <1>3 DEF ChooseInStart
  <2>2. MotionInv'
    BY <1>0, <1>3, GotoMotion DEF ChooseInStart, MotionInv, motion
  <2> QED
    BY <1>3, <2>1, <2>2, MenuStep DEF ChooseInStart
<1>4. CASE CloseSubmenu
  <2>1. WaysInv' /\ MotionInv'
    BY <1>0, <1>4, GotoMotion DEF CloseSubmenu
  <2> QED
    BY <1>4, <2>1, MenuStep DEF CloseSubmenu
<1>5. CASE OpenCore \/ OpenPower
  <2>1. screen # "cover" /\ Cover
    BY <1>5 DEF OpenCore, OpenPower
  <2>2. WaysInv' /\ MotionInv'
    BY <1>0, <2>1, GotoMotion DEF Cover
  <2> QED
    BY <2>1, <2>2, MenuStep DEF Cover
<1>6. CASE Uncover
  <2>1. WaysInv' /\ MotionInv'
    BY <1>0, <1>6, GotoMotion DEF Uncover
  <2> QED
    BY <1>6, <2>1, MenuStep DEF Uncover
<1> QED
  BY <1>1, <1>2, <1>3, <1>4, <1>5, <1>6

-----------------------------------------------------------------------------
(* Opening and leaving lists *)

\* open_rom_screen
LEMMA OpenRomsKeeps ==
    ASSUME NEW s \in Systems, BrowserInv, OpenRoms(s) PROVE BrowserInv'
<1> USE DEF BrowserInv
<1>1. PICK ok \in BOOLEAN : LoadRoms(s, Root, FALSE, ok)
  BY DEF OpenRoms
<1>2. UNCHANGED <<card, favorites, recent, changes, coverBack, romEntry, memory>>
  BY DEF OpenRoms
<1>3. /\ DiskInv' /\ ScanInv'
      /\ entries' \in Seq(Items) /\ stars' \in SUBSET Items /\ ListOf(entries', s, Root)
  BY <1>1, <1>2, LoadRomsEffect
<1>4. ListInv'
  <2>1. sys' = s /\ dir' = Root /\ cursor' = Restored(memory, <<s, Root>>, entries')
    BY DEF OpenRoms
  <2>2. cursor' \in Nat /\ (entries' # << >> => cursor' < Len(entries'))
    BY <1>3, <2>1, RestoredIn DEF ListInv
  <2> QED
    BY <1>2, <1>3, <2>1, <2>2 DEF ListInv, CursorInRange, Contexts
<1>5. WaysInv'
  BY <1>2 DEF OpenRoms, LeaveStart, WaysInv, Screens, Shelves, Lists
<1>6. MotionInv'
  BY DEF OpenRoms, Still, MotionInv
<1>7. screen' \in Shelves /\ Belongs(screen)'
  <2>1. sys' = s /\ dir' = Root
    BY DEF OpenRoms
  <2>2. screen' = "roms" \/ (screen' = "gallery" /\ galleryBack' = "top")
    BY DEF OpenRoms
  <2> QED
    BY <1>3, <2>1, <2>2 DEF Belongs, ListOf, Shelves, Lists
<1> QED
  BY <1>3, <1>4, <1>5, <1>6, <1>7, ListStep

\* open_favorites_screen and open_recent_screen
LEMMA OpenVirtualKeeps ==
    ASSUME NEW which \in {"favorites", "recent"}, BrowserInv, OpenVirtual(which)
    PROVE BrowserInv'
<1> USE DEF BrowserInv
<1>1. DiskInv' /\ ScanInv'
  BY DEF OpenVirtual, DiskInv, ScanInv, disk
<1>2. /\ entries' \in Seq(Items) /\ stars' \in SUBSET Items
      /\ Members(entries') \subseteq Roms
  <2>1. CASE which = "favorites"
    BY <2>1, LoadFileEffect DEF OpenVirtual, DiskInv
  <2>2. CASE which = "recent"
    BY <2>2, LoadFileEffect DEF OpenVirtual, DiskInv
  <2> QED
    BY <2>1, <2>2
<1>3. ListInv'
  <2>1. sys' = which /\ dir' = Root /\ cursor' = Restored(memory, <<which, Root>>, entries')
        /\ UNCHANGED memory
    BY DEF OpenVirtual
  <2>2. cursor' \in Nat /\ (entries' # << >> => cursor' < Len(entries'))
    BY <1>2, <2>1, RestoredIn DEF ListInv
  <2> QED
    BY <1>2, <2>1, <2>2 DEF ListInv, CursorInRange, Contexts
<1>4. WaysInv'
  BY DEF OpenVirtual, Goto, LeaveStart, WaysInv, Screens, Shelves, Lists
<1>5. MotionInv'
  BY GotoMotion DEF OpenVirtual
<1>6. screen' \in Shelves /\ Belongs(screen)'
  BY <1>2 DEF OpenVirtual, Goto, Belongs, Shelves, Lists
<1> QED
  BY <1>1, <1>3, <1>4, <1>5, <1>6, ListStep

\* A list the user sees belongs to its screen, and no menu lies over it.
LEMMA OnShelf ==
    ASSUME BrowserInv, screen \in Shelves
    PROVE Belongs(screen) /\ coverBack = "top" /\ back \notin Shelves
BY NoWayBack DEF BrowserInv, Chain

\* Reloading the list of the system on the screen, with the selected entry
\* looked up again, or emptying it when that fails.
Reloaded ==
    \/ /\ entries' \in Seq(Items) /\ ListOf(entries', sys, dir) /\ stars' \in SUBSET Items
       /\ cursor' \in Nat /\ (entries' # << >> => cursor' < Len(entries'))
    \/ entries' = << >> /\ stars' = {} /\ cursor' = 0

\* A reloaded list keeps its cursor inside and its context.
LEMMA ReloadedList ==
    ASSUME ListInv, Reloaded, UNCHANGED <<sys, dir, memory>>
    PROVE ListInv' /\ ListOf(entries', sys, dir)
<1>1. << >> \in Seq(Items) /\ ListOf(<< >>, sys, dir)
  BY DEF ListOf, Members
<1>2. /\ entries' \in Seq(Items) /\ ListOf(entries', sys, dir) /\ stars' \in SUBSET Items
      /\ cursor' \in Nat /\ (entries' # << >> => cursor' < Len(entries'))
  <2>1. CASE entries' = << >> /\ stars' = {} /\ cursor' = 0
    BY <1>1, <2>1
  <2> QED
    BY <2>1 DEF Reloaded
<1> QED
  BY <1>2 DEF ListInv, CursorInRange

\* The position of an entry that may have gone.
LEMMA LookedUp ==
    ASSUME NEW q \in Seq(Items), NEW i,
           NEW c, c = IF i \in Members(q) THEN Position(q, i) ELSE 0
    PROVE c \in Nat /\ (q # << >> => c < Len(q))
<1>1. CASE i \in Members(q)
  BY <1>1, PositionIn
<1>2. CASE i \notin Members(q)
  BY <1>2
<1> QED
  BY <1>1, <1>2

\* open_gallery_screen
LEMMA OpenGalleryKeeps ==
    ASSUME BrowserInv, OpenGallery PROVE BrowserInv'
<1> USE DEF BrowserInv
<1>1. screen \in Shelves /\ Belongs(screen) /\ screen \in Lists
      /\ coverBack = "top" /\ back \notin Shelves
  BY OnShelf DEF OpenGallery, Shelves
<1>2. UNCHANGED <<card, favorites, recent, changes, scan, back, coverBack, romEntry, menu,
                  sys, dir, memory>>
      /\ screen' = "gallery" /\ galleryBack' = screen
  BY DEF OpenGallery
<1>3. WaysInv'
  BY <1>1, <1>2 DEF WaysInv, Screens, Shelves, Lists
<1>4. MotionInv'
  BY DEF OpenGallery, Still, MotionInv
<1>5. CASE /\ screen = "roms"
           /\ index' = [index EXCEPT ![sys] = {r \in card : SystemOf[r] = sys}]
           /\ \/ /\ entries' \in Arranged(Shown(index'[sys], dir))
                 /\ stars' = Starred(entries', favorites)
                 /\ cursor' = IF Selected \in Members(entries')
                              THEN Position(entries', Selected) ELSE 0
              \/ entries' = << >> /\ stars' = {} /\ cursor' = 0
  <2>1. sys \in Systems
    BY <1>1, <1>5 DEF Belongs
  <2>2. DiskInv' /\ index'[sys] \in SUBSET Roms /\ index'[sys] # Absent
        /\ \A t \in Systems : index[t] # Absent => index'[t] # Absent
    BY <1>2, <1>5, <2>1, ScanWrites
  <2>3. ScanInv'
    BY <1>2, <2>2 DEF ScanInv
  <2>4. OfSystem(index'[sys], sys)
    BY <2>1, <2>2 DEF DiskInv
  <2>5. Reloaded
    <3>1. CASE /\ entries' \in Arranged(Shown(index'[sys], dir))
               /\ stars' = Starred(entries', favorites)
               /\ cursor' = IF Selected \in Members(entries')
                            THEN Position(entries', Selected) ELSE 0
      <4>1. entries' \in Seq(Items) /\ ListOf(entries', sys, dir)
        BY <2>1, <2>2, <2>4, <3>1, ReadIndex
      <4>2. stars' \in SUBSET Items
        BY <3>1, <4>1, MembersIn DEF Starred
      <4>3. cursor' \in Nat /\ (entries' # << >> => cursor' < Len(entries'))
        BY <3>1, <4>1, LookedUp
      <4> QED
        BY <4>1, <4>2, <4>3 DEF Reloaded
    <3> QED
      BY <1>5, <3>1 DEF Reloaded
  <2>6. ListInv' /\ ListOf(entries', sys, dir)
    BY <1>2, <2>5, ReloadedList
  <2>7. Belongs(screen)'
    BY <1>2, <1>5, <2>1, <2>6 DEF Belongs, ListOf
  <2> QED
    BY <1>2, <1>3, <1>4, <2>2, <2>3, <2>6, <2>7, ListStep DEF Shelves
<1>6. CASE UNCHANGED <<index, entries, stars, cursor>>
  <2>1. DiskInv' /\ ScanInv' /\ ListInv'
    BY <1>2, <1>6 DEF DiskInv, ScanInv, ListInv, CursorInRange
  <2>2. Belongs(screen)'
    BY <1>1, <1>2, <1>6 DEF Belongs, Lists
  <2> QED
    BY <1>2, <1>3, <1>4, <2>1, <2>2, ListStep DEF Shelves
<1> QED
  BY <1>5, <1>6 DEF OpenGallery

\* X in the gallery
LEMMA CloseGalleryKeeps ==
    ASSUME BrowserInv, CloseGallery PROVE BrowserInv'
<1> USE DEF BrowserInv
<1>1. Belongs("gallery") /\ coverBack = "top" /\ back \notin Shelves
  BY OnShelf DEF CloseGallery, Shelves
<1>2. DiskInv' /\ ScanInv' /\ ListInv'
  BY DEF CloseGallery, DiskInv, ScanInv, ListInv, CursorInRange, disk, list
<1>3. WaysInv'
  BY <1>1 DEF CloseGallery, Goto, WaysInv, Screens, Shelves, Lists
<1>4. MotionInv'
  BY GotoMotion DEF CloseGallery
<1>5. screen' \in Shelves /\ Belongs(screen)'
  BY <1>1 DEF CloseGallery, Goto, Belongs, list, Shelves, Lists
<1> QED
  BY <1>2, <1>3, <1>4, <1>5, ListStep

\* reload_rom_directory_no_scan and its callers
LEMMA EnterDirectoryEffect ==
    ASSUME NEW d \in Dirs \cup {Root}, NEW ok \in BOOLEAN,
           DiskInv, ScanInv, ListInv, sys \in Systems, EnterDirectory(d, ok)
    PROVE DiskInv' /\ ScanInv' /\ ListInv' /\ sys' = sys /\ ListOf(entries', sys', dir')
<1>1. /\ DiskInv' /\ ScanInv'
      /\ entries' \in Seq(Items) /\ stars' \in SUBSET Items /\ ListOf(entries', sys, d)
      /\ ~ok => entries' = << >>
  BY LoadRomsEffect DEF EnterDirectory
<1>2. memory' \in Seq(Notes)
  BY RememberedType DEF EnterDirectory, ListInv
<1>3. cursor' \in Nat /\ (entries' # << >> => cursor' < Len(entries'))
  BY <1>1, <1>2, RestoredIn DEF EnterDirectory
<1>4. sys' = sys /\ dir' \in Dirs \cup {Root} /\ ListOf(entries', sys', dir')
  BY <1>1 DEF EnterDirectory, ListInv, ListOf, Members
<1> QED
  BY <1>1, <1>2, <1>3, <1>4 DEF ListInv, CursorInRange, Contexts

\* Inside a directory, or on a directory, the list is a system's.
LEMMA SystemOnScreen ==
    ASSUME BrowserInv, screen \in {"roms", "gallery"},
           dir # Root \/ (HasSelection /\ Selected \in Dirs)
    PROVE sys \in Systems /\ (screen = "gallery" => galleryBack \notin {"favorites", "recent"})
<1>1. Belongs(screen)
  BY OnShelf DEF Shelves, Lists
<1>2. HasSelection => Selected \in Members(entries)
  BY DEF BrowserInv, ListInv, HasSelection, Selected, Members
<1> QED
  BY <1>1, <1>2, LibraryAssumption DEF Belongs

\* B inside a directory, A on a directory
LEMMA DirectoriesKeep ==
    ASSUME BrowserInv, OpenParent \/ OpenDirectory PROVE BrowserInv'
<1> USE DEF BrowserInv
<1>1. screen \in {"roms", "gallery"} /\ (dir # Root \/ (HasSelection /\ Selected \in Dirs))
      /\ UNCHANGED <<screen, ways, motion>>
  BY DEF OpenParent, OpenDirectory
<1>2. PICK d \in Dirs \cup {Root}, ok \in BOOLEAN : EnterDirectory(d, ok)
  <2>1. CASE OpenParent
    <3>1. dir \in Items
      BY <2>1 DEF OpenParent, ListInv, Items
    <3>2. Parent[dir] \in Dirs \cup {Root} /\ EnterDirectory(Parent[dir], TRUE)
      BY <2>1, <3>1, LibraryAssumption DEF OpenParent
    <3> QED
      BY <3>2
  <2>2. CASE OpenDirectory
    BY <2>2 DEF OpenDirectory
  <2> QED
    BY <2>1, <2>2
<1>3. sys \in Systems /\ (screen = "gallery" => galleryBack \notin {"favorites", "recent"})
  BY <1>1, SystemOnScreen
<1>4. DiskInv' /\ ScanInv' /\ ListInv' /\ sys' = sys /\ ListOf(entries', sys', dir')
  BY <1>2, <1>3, EnterDirectoryEffect
<1>5. WaysInv' /\ MotionInv'
  BY <1>1 DEF WaysInv, MotionInv, ways, motion
<1>6. screen' \in Shelves /\ Belongs(screen)'
  BY <1>1, <1>3, <1>4 DEF Belongs, ListOf, ways, Shelves, Lists
<1> QED
  BY <1>4, <1>5, <1>6, ListStep

\* B at the root
LEMMA BackToTopKeeps ==
    ASSUME BrowserInv, BackToTop PROVE BrowserInv'
<1> USE DEF BrowserInv
<1>1. screen \in Shelves /\ coverBack = "top" /\ back \notin Shelves
  BY OnShelf DEF BackToTop
<1>2. DiskInv' /\ ScanInv' /\ ListInv'
  <2>1. CASE /\ memory' = Remembered(cursor)
             /\ UNCHANGED <<disk, scan, sys, dir, entries, cursor, stars>>
    <3>1. memory' \in Seq(Notes)
      BY <2>1, RememberedType DEF ListInv
    <3> QED
      BY <2>1, <3>1 DEF DiskInv, ScanInv, ListInv, CursorInRange, disk
  <2>2. CASE /\ dir # Root /\ screen \in {"roms", "gallery"}
             /\ EnterDirectory(Parent[dir], FALSE)
    <3>1. Parent[dir] \in Dirs \cup {Root}
      BY <2>2, LibraryAssumption DEF ListInv, Items
    <3>2. sys \in Systems
      BY <2>2, SystemOnScreen
    <3> QED
      BY <2>2, <3>1, <3>2, EnterDirectoryEffect
  <2> QED
    BY <2>1, <2>2 DEF BackToTop
<1>3. WaysInv'
  BY <1>1 DEF BackToTop, Goto, WaysInv, Screens, Shelves, Lists
<1>4. MotionInv' /\ screen' = "top"
  BY GotoMotion DEF BackToTop, Goto
<1> QED
  BY <1>2, <1>3, <1>4, ListStep DEF Shelves, Lists

-----------------------------------------------------------------------------
(* Moving, marking, launching *)

\* A step on a list's screen that keeps screen, ways and context.
LEMMA SameScreen ==
    ASSUME BrowserInv, screen \in Shelves, UNCHANGED <<screen, ways, sys, dir>>,
           DiskInv', ScanInv', ListInv', MotionInv',
           entries' = entries \/ Belongs(screen)'
    PROVE BrowserInv'
<1>1. Belongs(screen)
  BY OnShelf
<1>2. WaysInv'
  BY DEF BrowserInv, WaysInv, ways
<1>3. Belongs(screen)'
  BY <1>1 DEF Belongs, ways
<1> QED
  BY <1>2, <1>3, ListStep

\* Moving the cursor to a row of the list keeps the list.
LEMMA CursorMoves ==
    ASSUME NEW to \in 0..(Len(entries) - 1), ListInv, entries # << >>, cursor' = to,
           memory' = memory \/ memory' = Remembered(to), UNCHANGED <<sys, dir, entries, stars>>
    PROVE ListInv'
<1>1. to \in Nat /\ to < Len(entries)
  BY DEF ListInv
<1>2. memory' \in Seq(Notes)
  BY <1>1, RememberedType DEF ListInv
<1> QED
  BY <1>1, <1>2 DEF ListInv, CursorInRange

\* UP, DOWN, LEFT and RIGHT of a list
LEMMA MoveInListKeeps ==
    ASSUME NEW to \in {AfterDelta(cursor, -1), AfterDelta(cursor, 1), PageDown, PageUp},
           BrowserInv, MoveInList(to)
    PROVE BrowserInv'
<1> USE DEF BrowserInv
<1>1. screen \in Shelves /\ entries # << >>
  BY DEF MoveInList, Shelves
<1>2. entries \in Seq(Items) /\ cursor \in Nat /\ cursor < Len(entries)
  BY <1>1 DEF ListInv, CursorInRange
<1>3. to \in 0..(Len(entries) - 1)
  <2>1. PageDown \in 0..(Len(entries) - 1) /\ PageUp \in 0..(Len(entries) - 1)
    BY <1>1, <1>2, BoundsAssumption DEF PageDown, PageUp
  <2>2. \A delta \in Int : AfterDelta(cursor, delta) \in 0..(Len(entries) - 1)
    BY <1>1, <1>2, AfterDeltaIn
  <2>3. -1 \in Int /\ 1 \in Int
    OBVIOUS
  <2>4. /\ AfterDelta(cursor, -1) \in 0..(Len(entries) - 1)
        /\ AfterDelta(cursor, 1) \in 0..(Len(entries) - 1)
    BY <2>2, <2>3, Zenon
  <2> QED
    BY <2>1, <2>4
<1>4. ListInv'
  BY <1>1, <1>3, CursorMoves DEF MoveInList
<1>5. DiskInv' /\ ScanInv' /\ MotionInv'
  BY DEF MoveInList, DiskInv, ScanInv, MotionInv, disk, motion
<1> QED
  BY <1>1, <1>4, <1>5, SameScreen DEF MoveInList

\* move_gallery_cursor
LEMMA MoveInGalleryKeeps ==
    ASSUME NEW delta \in {-5, -1, 1, 5}, BrowserInv, MoveInGallery(delta)
    PROVE BrowserInv'
<1> USE DEF BrowserInv
<1>1. screen \in Shelves /\ entries # << >> /\ delta \in Int
  BY DEF MoveInGallery, Shelves
<1>2. entries \in Seq(Items) /\ cursor \in Nat
  BY DEF ListInv
<1>3. AfterDelta(cursor, delta) \in 0..(Len(entries) - 1)
  BY <1>1, <1>2, AfterDeltaIn
<1>4. trans # Rest => AfterDelta(trans, delta) \in 0..(Len(entries) - 1)
  BY <1>1, <1>2, AfterDeltaIn DEF MotionInv
<1>5. ListInv'
  <2>1. UNCHANGED <<sys, dir, entries, stars>>
    BY DEF MoveInGallery
  <2>2. CASE UNCHANGED <<cursor, memory>>
    BY <2>1, <2>2 DEF ListInv, CursorInRange
  <2>3. CASE cursor' = AfterDelta(cursor, delta) /\ memory' = Remembered(cursor')
    BY <1>1, <1>3, <2>1, <2>3, CursorMoves
  <2> QED
    BY <2>2, <2>3 DEF MoveInGallery
<1>6. MotionInv'
  BY <1>2, <1>3, <1>4 DEF MoveInGallery, MotionInv, Still
<1>7. DiskInv' /\ ScanInv'
  BY DEF MoveInGallery, DiskInv, ScanInv, disk
<1> QED
  BY <1>1, <1>5, <1>6, <1>7, SameScreen DEF MoveInGallery

\* render_gallery
LEMMA RenderKeeps ==
    ASSUME BrowserInv, Render PROVE BrowserInv'
<1> USE DEF BrowserInv
<1>1. screen \in Shelves /\ UNCHANGED <<disk, scan, screen, ways, sys, dir, entries, stars>>
  BY DEF Render, Shelves
<1>2. ListInv' /\ MotionInv'
  <2>1. CASE trans' = Rest /\ UNCHANGED <<cursor, memory, pend>>
    BY <1>1, <2>1 DEF ListInv, CursorInRange, MotionInv
  <2>2. CASE StartPending
    <3> DEFINE to == IF pend >= Len(entries) THEN Len(entries) - 1 ELSE pend
    <3>1. entries # << >> /\ entries \in Seq(Items) /\ pend \in Nat
      BY <2>2 DEF StartPending, ListInv, MotionInv
    <3>2. to \in 0..(Len(entries) - 1)
      BY <3>1
    <3>3. /\ pend' = Rest /\ trans' = (IF to = cursor THEN Rest ELSE to) /\ cursor' = to
          /\ memory' = memory \/ memory' = Remembered(to)
      BY <2>2 DEF StartPending
    <3> HIDE DEF to
    <3>4. ListInv'
      BY <1>1, <3>1, <3>2, <3>3, CursorMoves
    <3> QED
      BY <3>1, <3>2, <3>3, <3>4 DEF MotionInv
  <2> QED
    BY <2>1, <2>2 DEF Render
<1>3. DiskInv' /\ ScanInv'
  BY <1>1 DEF DiskInv, ScanInv, disk
<1> QED
  BY <1>1, <1>2, <1>3, SameScreen

\* toggle_current_favorite
LEMMA ToggleFavoriteKeeps ==
    ASSUME BrowserInv, ToggleFavorite PROVE BrowserInv'
<1> USE DEF BrowserInv
<1>1. screen \in Shelves /\ Selected \in Roms /\ Selected \in Items
  BY DEF ToggleFavorite, Items
<1>2. UNCHANGED <<card, index, recent, scan, screen, ways, sys, dir, memory, motion>>
      /\ changes' = changes + 1
  BY DEF ToggleFavorite
<1>3. favorites' \in Seq(Roms)
  <2>1. CASE Selected \in Members(favorites)
    BY <2>1, WithoutType DEF ToggleFavorite, DiskInv
  <2>2. CASE Selected \notin Members(favorites)
    BY <1>1, <2>2 DEF ToggleFavorite, DiskInv
  <2> QED
    BY <2>1, <2>2
<1>4. DiskInv' /\ ScanInv' /\ MotionInv'
  BY <1>2, <1>3 DEF DiskInv, ScanInv, MotionInv, motion
<1>5. CASE Selected \in Members(favorites) /\ ShowsFavorites
  <2>1. /\ entries' \in {favorites', << >>} /\ stars' = Members(entries')
        /\ cursor' = IF entries' = << >> THEN 0
                     ELSE IF cursor >= Len(entries') THEN Len(entries') - 1 ELSE cursor
    BY <1>5 DEF ToggleFavorite
  <2>2. entries' \in Seq(Roms)
    <3>1. << >> \in Seq(Roms)
      OBVIOUS
    <3> QED
      BY <1>3, <2>1, <3>1
  <2>3. Members(entries') \subseteq Roms
    BY <2>2, MembersIn
  <2>4. entries' \in Seq(Items) /\ stars' \in SUBSET Items
    BY <2>1, <2>2, <2>3 DEF Items
  <2>5. cursor' \in Nat /\ (entries' # << >> => cursor' < Len(entries'))
    BY <2>1, <2>4 DEF ListInv
  <2>6. ListInv'
    BY <1>2, <2>4, <2>5 DEF ListInv, CursorInRange
  <2>7. Belongs(screen)'
    <3>1. Belongs(screen)
      BY <1>1, OnShelf
    <3> QED
      BY <1>2, <1>5, <2>3, <3>1 DEF Belongs, ShowsFavorites, ways
  <2> QED
    BY <1>1, <1>2, <1>4, <2>6, <2>7, SameScreen
<1>6. CASE ~(Selected \in Members(favorites) /\ ShowsFavorites)
  <2>1. UNCHANGED <<entries, cursor>> /\ stars' \in SUBSET Items
    BY <1>1, <1>6 DEF ToggleFavorite, ListInv
  <2>2. ListInv'
    BY <1>2, <2>1 DEF ListInv, CursorInRange
  <2> QED
    BY <1>1, <1>2, <1>4, <2>1, <2>2, SameScreen
<1> QED
  BY <1>5, <1>6

\* add_recent_entry keeps the history a list of ROMs.
LEMMA WithRecentType ==
    ASSUME NEW i \in Roms, recent \in Seq(Roms)
    PROVE WithRecent(i) \in Seq(Roms)
<1>1. CASE i \in Members(recent)
  BY <1>1, WithoutType DEF WithRecent
<1>2. CASE i \notin Members(recent)
  <2> DEFINE n == IF Len(recent) >= RecentMax THEN RecentMax - 1 ELSE Len(recent)
  <2>1. n \in 0..Len(recent)
    BY BoundsAssumption
  <2>2. WithRecent(i) = <<i>> \o SubSeq(recent, 1, n)
    BY <1>2 DEF WithRecent
  <2> HIDE DEF n
  <2>3. SubSeq(recent, 1, n) \in Seq(Roms)
    BY <2>1
  <2> QED
    BY <2>2, <2>3
<1> QED
  BY <1>1, <1>2

\* launch_rom_entry
LEMMA LaunchKeeps ==
    ASSUME BrowserInv, Launch PROVE BrowserInv'
<1> USE DEF BrowserInv
<1>1. screen \in Shelves /\ Selected \in Roms
  BY DEF Launch
<1>2. UNCHANGED <<card, index, favorites, scan, screen, ways, sys, dir, motion>>
      /\ changes' = changes + 1 /\ memory' = Remembered(cursor)
  BY DEF Launch
<1>3. recent' \in Seq(Roms)
  BY <1>1, WithRecentType DEF Launch, DiskInv
<1>4. DiskInv' /\ ScanInv' /\ MotionInv'
  BY <1>2, <1>3 DEF DiskInv, ScanInv, MotionInv, motion
<1>5. memory' \in Seq(Notes)
  BY <1>2, RememberedType DEF ListInv
<1>6. CASE screen = "recent"
  <2>1. /\ entries' \in Seq(Items) /\ stars' \in SUBSET Items
        /\ Members(entries') \subseteq Roms /\ cursor' = 0
    BY <1>3, <1>6, LoadFileEffect DEF Launch
  <2>2. ListInv'
    BY <1>2, <1>5, <2>1 DEF ListInv, CursorInRange
  <2>3. Belongs(screen)'
    <3>1. Belongs(screen)
      BY <1>1, OnShelf
    <3> QED
      BY <1>2, <1>6, <2>1, <3>1 DEF Belongs
  <2> QED
    BY <1>1, <1>2, <1>4, <2>2, <2>3, SameScreen
<1>7. CASE screen # "recent"
  <2>1. UNCHANGED <<entries, stars, cursor>>
    BY <1>7 DEF Launch
  <2>2. ListInv'
    BY <1>2, <1>5, <2>1 DEF ListInv, CursorInRange
  <2> QED
    BY <1>1, <1>2, <1>4, <2>1, <2>2, SameScreen
<1> QED
  BY <1>6, <1>7

-----------------------------------------------------------------------------
(* The scanner child and the surroundings *)

\* The scanner child replaces the index of its system, or fails.
LEMMA ScanEndsKeeps ==
    ASSUME BrowserInv, ScanEnds PROVE BrowserInv'
<1> USE DEF BrowserInv
<1>1. UNCHANGED <<card, favorites, recent, changes, screen, ways, list, motion>>
      /\ scan # Idle /\ scan.state = "running" /\ scan.sys \in Systems
  BY DEF ScanEnds, ScanInv
<1>2. DiskInv' /\ ScanInv'
  <2>1. CASE /\ index' = [index EXCEPT ![scan.sys] = {r \in card : SystemOf[r] = scan.sys}]
             /\ scan' = [scan EXCEPT !.state = "ok"]
    <3>1. DiskInv' /\ index'[scan.sys] # Absent
      BY <1>1, <2>1, ScanWrites
    <3>2. scan' \in ScanStates /\ scan'.sys = scan.sys
      BY <2>1 DEF ScanInv, ScanStates
    <3> QED
      BY <1>1, <3>1, <3>2 DEF ScanInv
  <2>2. CASE scan' = [scan EXCEPT !.state = "failed"] /\ UNCHANGED index
    <3>1. scan' \in ScanStates /\ scan'.sys = scan.sys /\ scan'.state = "failed"
      BY <2>2 DEF ScanInv, ScanStates
    <3> QED
      BY <1>1, <2>2, <3>1 DEF ScanInv, DiskInv
  <2> QED
    BY <2>1, <2>2 DEF ScanEnds
<1>3. WaysInv' /\ ListInv' /\ MotionInv' /\ Chain'
  BY <1>1 DEF WaysInv, ListInv, CursorInRange, MotionInv, Chain, Belongs, ways, list, motion
<1> QED
  BY <1>2, <1>3

\* poll_rom_scan_refresh
LEMMA PollScanKeeps ==
    ASSUME BrowserInv, PollScan PROVE BrowserInv'
<1> USE DEF BrowserInv
<1>1. UNCHANGED <<disk, screen, ways, sys, dir, memory, motion>> /\ scan # Idle /\ scan' = Idle
  BY DEF PollScan
<1>2. DiskInv' /\ ScanInv' /\ MotionInv' /\ WaysInv'
  BY <1>1 DEF DiskInv, ScanInv, ScanStates, MotionInv, WaysInv, Idle, disk, motion, ways
<1>3. CASE scan.state = "ok" /\ screen = "roms" /\ sys = scan.sys
  <2>1. sys \in Systems /\ index[sys] \in SUBSET Roms /\ OfSystem(index[sys], sys)
    BY <1>1, <1>3 DEF ScanInv, DiskInv
  <2>2. Reloaded
    <3>1. CASE /\ entries' \in Arranged(Shown(index[sys], dir))
               /\ stars' = Starred(entries', favorites)
               /\ cursor' = IF HasSelection /\ Selected \in Members(entries')
                            THEN Position(entries', Selected) ELSE 0
      <4>1. entries' \in Seq(Items) /\ ListOf(entries', sys, dir)
        BY <2>1, <3>1, ReadIndex
      <4>2. stars' \in SUBSET Items
        BY <3>1, <4>1, MembersIn DEF Starred
      <4>3. cursor' \in Nat /\ (entries' # << >> => cursor' < Len(entries'))
        BY <3>1, <4>1, PositionIn
      <4> QED
        BY <4>1, <4>2, <4>3 DEF Reloaded
    <3> QED
      BY <1>3, <3>1 DEF PollScan, Reloaded
  <2>3. ListInv' /\ ListOf(entries', sys, dir)
    BY <1>1, <2>2, ReloadedList
  <2>4. screen \in Shelves /\ Belongs(screen)'
    BY <1>1, <1>3, <2>1, <2>3 DEF Belongs, ListOf, Shelves, Lists
  <2> QED
    BY <1>1, <1>2, <2>3, <2>4, SameScreen
<1>4. CASE ~(scan.state = "ok" /\ screen = "roms" /\ sys = scan.sys)
  <2>1. UNCHANGED <<entries, stars, cursor>>
    BY <1>4 DEF PollScan
  <2>2. ListInv' /\ Chain'
    BY <1>1, <2>1 DEF ListInv, CursorInRange, Chain, Belongs, ways
  <2> QED
    BY <1>2, <2>2
<1> QED
  BY <1>3, <1>4

\* Another program changes the card.
LEMMA EditCardKeeps ==
    ASSUME BrowserInv, EditCard PROVE BrowserInv'
<1> USE DEF BrowserInv
<1>1. UNCHANGED <<index, favorites, recent, scan, screen, ways, list, motion>>
      /\ card' \in SUBSET Roms /\ changes' = changes + 1
  BY DEF EditCard, DiskInv
<1>2. DiskInv' /\ ScanInv'
  BY <1>1 DEF DiskInv, ScanInv
<1>3. WaysInv' /\ ListInv' /\ MotionInv' /\ Chain'
  BY <1>1 DEF WaysInv, ListInv, CursorInRange, MotionInv, Chain, Belongs, ways, list, motion
<1> QED
  BY <1>2, <1>3

\* PID 1 starts the frontend again.
LEMMA RestartKeeps ==
    ASSUME BrowserInv, Restart PROVE BrowserInv'
<1> USE DEF BrowserInv
<1>1. DiskInv'
  <2>1. CASE UNCHANGED index
    BY <2>1 DEF Restart, DiskInv
  <2>2. CASE /\ scan # Idle
             /\ index' = [index EXCEPT ![scan.sys] = {r \in card : SystemOf[r] = scan.sys}]
    <3>1. scan.sys \in Systems
      BY <2>2 DEF ScanInv
    <3> QED
      BY <2>2, <3>1, ScanWrites DEF Restart
  <2> QED
    BY <2>1, <2>2 DEF Restart
<1>2. ScanInv' /\ MotionInv'
  BY DEF Restart, ScanInv, ScanStates, Idle, MotionInv, Still
<1>3. WaysInv'
  BY DEF Restart, WaysInv, Screens, Shelves, Lists
<1>4. ListInv'
  BY DEF Restart, ListInv, CursorInRange
<1> QED
  BY <1>1, <1>2, <1>3, <1>4, ListStep DEF Restart, Shelves, Lists

-----------------------------------------------------------------------------
(* The theorems *)

\* Every step of the frontend and its surroundings keeps the invariant.
LEMMA StepInv == BrowserInv /\ [Next]_vars => BrowserInv'
<1> SUFFICES ASSUME BrowserInv, [Next]_vars PROVE BrowserInv'
  OBVIOUS
<1>1. ASSUME NEW s \in Systems, OpenRoms(s) PROVE BrowserInv'
  BY <1>1, OpenRomsKeeps
<1>2. ASSUME NEW w \in {"favorites", "recent"}, OpenVirtual(w) PROVE BrowserInv'
  BY <1>2, OpenVirtualKeeps
<1>3. CASE OpenGallery \/ CloseGallery
  BY <1>3, OpenGalleryKeeps, CloseGalleryKeeps
<1>4. CASE OpenParent \/ BackToTop \/ OpenDirectory
  BY <1>4, DirectoriesKeep, BackToTopKeeps
<1>5. ASSUME NEW c \in {AfterDelta(cursor, -1), AfterDelta(cursor, 1), PageDown, PageUp},
             MoveInList(c)
      PROVE BrowserInv'
  BY <1>5, MoveInListKeeps
<1>6. ASSUME NEW d \in {-5, -1, 1, 5}, MoveInGallery(d) PROVE BrowserInv'
  BY <1>6, MoveInGalleryKeeps
<1>7. CASE Render
  BY <1>7, RenderKeeps
<1>8. CASE ToggleFavorite \/ Launch
  BY <1>8, ToggleFavoriteKeeps, LaunchKeeps
<1>9. CASE \/ OpenStart \/ CloseStart \/ ChooseInStart \/ CloseSubmenu
           \/ OpenCore \/ OpenPower \/ Uncover
  BY <1>9, MenusKeep
<1>10. CASE ScanEnds \/ PollScan
  BY <1>10, ScanEndsKeeps, PollScanKeeps
<1>11. CASE EditCard \/ Restart
  BY <1>11, EditCardKeeps, RestartKeeps
<1>12. CASE UNCHANGED vars
  BY <1>12 DEF vars, disk, ways, list, motion, BrowserInv, DiskInv, ScanInv, WaysInv, ListInv,
     CursorInRange, MotionInv, Chain, Belongs
<1> QED
  BY <1>1, <1>2, <1>3, <1>4, <1>5, <1>6, <1>7, <1>8, <1>9, <1>10, <1>11, <1>12 DEF Next

\* The invariant is strong enough.
LEMMA InvImplies == BrowserInv => TypeOK /\ CursorInRange /\ ListMatchesScreen
BY DEF BrowserInv, DiskInv, ScanInv, ScanStates, WaysInv, ListInv, Notes, MotionInv, Chain,
   TypeOK, ListMatchesScreen

\* The invariant holds in every reachable state.
LEMMA InvHolds == Spec => []BrowserInv
BY InitInv, StepInv, PTL DEF Spec

\* The frontend's list state keeps its types for every library, every size of
\* memory, history and page, and every sequence of presses, scans and restarts.
THEOREM TypeCorrect == Spec => []TypeOK
BY InvHolds, InvImplies, PTL

\* rom_cursor never points past rom_entries, whatever reloads, removals, queued
\* presses and launches came between.
THEOREM CursorInRangeHolds == Spec => []CursorInRange
BY InvHolds, InvImplies, PTL

\* Every list screen shows the list it stands for, after any detour through
\* menus, galleries and background scans.
THEOREM ListMatchesScreenHolds == Spec => []ListMatchesScreen
BY InvHolds, InvImplies, PTL

-----------------------------------------------------------------------------
(* Marks *)

Distinct(q) == \A j, k \in DOMAIN q : q[j] = q[k] => j = k

\* No list holds an entry twice.
DistinctInv == Distinct(favorites) /\ Distinct(recent) /\ Distinct(entries)

\* The marks are true on every screen, also where none is drawn: only a list
\* screen changes the favourites.
Marked == \A i \in Members(entries) \cap Roms : i \in stars <=> i \in Members(favorites)

\* A sorted list holds nothing twice.
LEMMA ArrangedDistinct ==
    ASSUME NEW S \in SUBSET Items, NEW q \in Arranged(S) PROVE Distinct(q)
<1>1. IsFiniteSet(S)
  BY LibraryAssumption, FS_Subset
<1>2. Cardinality(S) \in Nat
  BY <1>1, FS_CardinalityType
<1>3. /\ q \in [1..Cardinality(S) -> S]
      /\ \A j, k \in 1..Cardinality(S) : j < k => Rank[q[j]] < Rank[q[k]]
  BY DEF Arranged
<1>4. \A k \in 1..Cardinality(S) : Rank[q[k]] \in Nat
  BY <1>3, LibraryAssumption
<1> QED
  BY <1>2, <1>3, <1>4 DEF Distinct

\* Closing the gap of an item removes that item and no other.
LEMMA WithoutElements ==
    ASSUME NEW q \in Seq(Roms), NEW i \in Members(q)
    PROVE /\ Len(Without(q, i)) = Len(q) - 1
          /\ \A k \in 1..(Len(q) - 1) :
                Without(q, i)[k] = q[IF k <= Position(q, i) THEN k ELSE k + 1]
<1> DEFINE p == Position(q, i)
           a == SubSeq(q, 1, p)
           b == SubSeq(q, p + 2, Len(q))
<1>1. p \in 0..(Len(q) - 1)
  BY PositionIn
<1> HIDE DEF p
<1>2. a \in Seq(Roms) /\ Len(a) = p /\ \A k \in 1..p : a[k] = q[k]
  BY <1>1
<1>3. b \in Seq(Roms) /\ Len(b) = Len(q) - 1 - p
      /\ \A k \in 1..(Len(q) - 1 - p) : b[k] = q[k + p + 1]
  BY <1>1
<1>4. Without(q, i) = a \o b
  BY DEF Without, p
<1> HIDE DEF a, b
<1>5. Len(a \o b) = Len(q) - 1
  <2>1. ASSUME NEW x \in Seq(Roms), NEW y \in Seq(Roms)
        PROVE  Len(x \o y) = Len(x) + Len(y)
    OBVIOUS
  <2>2. Len(a \o b) = Len(a) + Len(b)
    BY <1>2, <1>3, <2>1, Zenon
  <2>3. Len(a) = p /\ Len(b) = Len(q) - 1 - p /\ Len(q) \in Nat
    BY <1>2, <1>3
  <2> QED
    BY <1>1, <2>2, <2>3
<1>6. ASSUME NEW k \in 1..(Len(q) - 1) PROVE (a \o b)[k] = q[IF k <= p THEN k ELSE k + 1]
  <2>1. CASE k <= p
    BY <1>1, <1>2, <1>3, <2>1
  <2>2. CASE ~(k <= p)
    <3>1. (a \o b)[k] = b[k - p]
      BY <1>1, <1>2, <1>3, <2>2
    <3>2. k - p \in 1..(Len(q) - 1 - p) /\ (k - p) + p + 1 = k + 1
      BY <1>1, <2>2
    <3> QED
      BY <1>3, <2>2, <3>1, <3>2
  <2> QED
    BY <2>1, <2>2
<1> QED
  BY <1>4, <1>5, <1>6 DEF p

LEMMA WithoutDistinct ==
    ASSUME NEW q \in Seq(Roms), NEW i \in Members(q), Distinct(q)
    PROVE /\ Distinct(Without(q, i))
          /\ Members(Without(q, i)) = Members(q) \ {i}
<1> DEFINE p == Position(q, i)
           w == Without(q, i)
           At(k) == IF k <= p THEN k ELSE k + 1
<1>1. p \in 0..(Len(q) - 1) /\ q[p + 1] = i
  BY PositionIn
<1>2. w \in Seq(Roms) /\ Len(w) = Len(q) - 1 /\ \A k \in 1..(Len(q) - 1) : w[k] = q[At(k)]
  BY WithoutType, WithoutElements
<1> HIDE DEF p, w
<1>3. DOMAIN w = 1..(Len(q) - 1) /\ DOMAIN q = 1..Len(q) /\ Len(q) \in Nat
  BY <1>2
<1>4. \A k \in DOMAIN w : At(k) \in DOMAIN q /\ At(k) # p + 1
  BY <1>1, <1>3
<1>5. \A j, k \in DOMAIN w : At(j) = At(k) => j = k
  BY <1>1, <1>3
<1>6. \A k \in DOMAIN q : k # p + 1 => \E j \in DOMAIN w : At(j) = k
  <2> SUFFICES ASSUME NEW k \in DOMAIN q, k # p + 1 PROVE \E j \in DOMAIN w : At(j) = k
    OBVIOUS
  <2> DEFINE j == IF k <= p THEN k ELSE k - 1
  <2>1. j \in DOMAIN w /\ At(j) = k
    BY <1>1, <1>3
  <2> QED
    BY <2>1
<1> HIDE DEF At
<1>7. Distinct(w)
  BY <1>2, <1>3, <1>4, <1>5 DEF Distinct
<1>8. Members(w) = Members(q) \ {i}
  <2>1. \A k \in DOMAIN q : q[k] = i => k = p + 1
    BY <1>1, <1>3 DEF Distinct
  <2>2. \A k \in DOMAIN w : w[k] = q[At(k)]
    BY <1>2, <1>3
  <2>3. Members(w) \subseteq Members(q) \ {i}
    BY <1>4, <2>1, <2>2 DEF Members
  <2>4. Members(q) \ {i} \subseteq Members(w)
    BY <1>1, <1>6, <2>2 DEF Members
  <2> QED
    BY <2>3, <2>4
<1> QED
  BY <1>7, <1>8 DEF w

LEMMA AppendDistinct ==
    ASSUME NEW q \in Seq(Roms), NEW i \in Roms, i \notin Members(q), Distinct(q)
    PROVE Distinct(Append(q, i)) /\ Members(Append(q, i)) = Members(q) \cup {i}
<1> DEFINE w == Append(q, i)
<1>1. /\ Len(q) \in Nat /\ DOMAIN q = 1..Len(q) /\ DOMAIN w = 1..(Len(q) + 1)
      /\ w[Len(q) + 1] = i /\ \A k \in 1..Len(q) : w[k] = q[k]
  OBVIOUS
<1> HIDE DEF w
<1>2. Distinct(w)
  BY <1>1 DEF Distinct, Members
<1>3. Members(w) = Members(q) \cup {i}
  BY <1>1 DEF Members
<1> QED
  BY <1>2, <1>3 DEF w

\* add_recent_entry puts the ROM first and keeps every other once.
LEMMA WithRecentDistinct ==
    ASSUME NEW i \in Roms, recent \in Seq(Roms), Distinct(recent)
    PROVE Distinct(WithRecent(i)) /\ WithRecent(i) # << >> /\ Head(WithRecent(i)) = i
          /\ WithRecent(i)[1] = i
<1> DEFINE n == IF Len(recent) >= RecentMax THEN RecentMax - 1 ELSE Len(recent)
           rest == IF i \in Members(recent) THEN Without(recent, i) ELSE SubSeq(recent, 1, n)
<1>1. WithRecent(i) = <<i>> \o rest
  BY DEF WithRecent
<1>2. n \in 0..Len(recent)
  BY BoundsAssumption
<1> HIDE DEF n
<1>3. rest \in Seq(Roms) /\ Distinct(rest) /\ i \notin Members(rest)
  <2>1. CASE i \in Members(recent)
    BY <2>1, WithoutType, WithoutDistinct
  <2>2. CASE i \notin Members(recent)
    <3>1. /\ SubSeq(recent, 1, n) \in Seq(Roms) /\ Len(SubSeq(recent, 1, n)) = n
          /\ \A k \in 1..n : SubSeq(recent, 1, n)[k] = recent[k]
      BY <1>2
    <3> QED
      BY <1>2, <2>2, <3>1 DEF Distinct, Members
  <2> QED
    BY <2>1, <2>2
<1> HIDE DEF rest
<1>4. /\ <<i>> \o rest \in Seq(Roms) /\ Len(<<i>> \o rest) = Len(rest) + 1
      /\ (<<i>> \o rest)[1] = i
      /\ \A k \in 2..(Len(rest) + 1) : (<<i>> \o rest)[k] = rest[k - 1]
  BY <1>3
<1> DEFINE all == <<i>> \o rest
<1> HIDE DEF all
<1>5. Distinct(all)
  <2> SUFFICES ASSUME NEW j \in DOMAIN all, NEW k \in DOMAIN all, all[j] = all[k] PROVE j = k
    BY DEF Distinct
  <2>1. DOMAIN all = 1..(Len(rest) + 1) /\ DOMAIN rest = 1..Len(rest) /\ Len(rest) \in Nat
    BY <1>3, <1>4 DEF all
  <2>2. \A m \in DOMAIN all : m # 1 => m - 1 \in DOMAIN rest /\ all[m] = rest[m - 1]
    BY <1>4, <2>1 DEF all
  <2>3. \A m \in DOMAIN all : m # 1 => all[m] # i
    BY <1>3, <2>2 DEF Members
  <2> QED
    BY <1>3, <1>4, <2>1, <2>2, <2>3 DEF Distinct, all
<1> QED
  BY <1>1, <1>4, <1>5 DEF all

\* A list read from a file or an index has its marks from the favourites.
LEMMA ListRead ==
    ASSUME DistinctInv, UNCHANGED <<favorites, recent>>,
           \/ entries' = << >>
           \/ Distinct(entries') /\ stars' = Starred(entries', favorites)
    PROVE  DistinctInv' /\ Marked'
<1>1. CASE entries' = << >>
  BY <1>1 DEF DistinctInv, Distinct, Marked, Members
<1>2. CASE Distinct(entries') /\ stars' = Starred(entries', favorites)
  BY <1>2 DEF DistinctInv, Distinct, Marked, Starred
<1> QED
  BY <1>1, <1>2

\* The entries read from an index are in order, hence distinct.
LEMMA IndexDistinct ==
    ASSUME NEW R \in SUBSET Roms, NEW d, NEW q \in Arranged(Shown(R, d)) PROVE Distinct(q)
<1>1. Shown(R, d) \in SUBSET Items
  BY ShownItems
<1> QED
  BY <1>1, ArrangedDistinct

\* load_rom_entries sets the marks.
LEMMA LoadedMarked ==
    ASSUME NEW s \in Systems, NEW d, NEW suppressed, NEW ok \in BOOLEAN, DiskInv, ScanInv,
           DistinctInv, LoadRoms(s, d, suppressed, ok),
           UNCHANGED <<card, favorites, recent, changes>>
    PROVE  DistinctInv' /\ Marked'
<1>1. DiskInv'
  BY LoadRomsEffect
<1>2. CASE ok
  <2>1. /\ index'[s] # Absent /\ entries' \in Arranged(Shown(index'[s], d))
        /\ stars' = Starred(entries', favorites)
    BY <1>2 DEF LoadRoms
  <2>2. index'[s] \in SUBSET Roms
    BY <1>1, <2>1 DEF DiskInv
  <2>3. Distinct(entries')
    BY <2>1, <2>2, IndexDistinct
  <2> QED
    BY <2>1, <2>3, ListRead
<1>3. CASE ~ok
  <2>1. entries' = << >>
    BY <1>3 DEF LoadRoms
  <2> QED
    BY <2>1, ListRead
<1> QED
  BY <1>2, <1>3

\* Steps that load a list: opening one, entering or leaving a directory, the
\* gallery's rescan and the end of a background scan.
LEMMA LoadingMarks ==
    ASSUME BrowserInv, DistinctInv, Marked,
           \/ \E s \in Systems : OpenRoms(s)
           \/ \E w \in {"favorites", "recent"} : OpenVirtual(w)
           \/ OpenGallery \/ OpenParent \/ OpenDirectory \/ BackToTop \/ PollScan
    PROVE  DistinctInv' /\ Marked'
<1> USE DEF BrowserInv
<1>0. ASSUME UNCHANGED <<favorites, recent, entries, stars>> PROVE DistinctInv' /\ Marked'
  BY <1>0 DEF DistinctInv, Distinct, Marked
<1>1. ASSUME NEW s \in Systems, OpenRoms(s) PROVE DistinctInv' /\ Marked'
  BY <1>1, LoadedMarked DEF OpenRoms
<1>2. ASSUME NEW w \in {"favorites", "recent"}, OpenVirtual(w) PROVE DistinctInv' /\ Marked'
  <2>1. UNCHANGED <<favorites, recent>> /\ LoadFile(IF w = "favorites" THEN favorites ELSE recent)
    BY <1>2 DEF OpenVirtual, disk
  <2>2. stars' = Starred(entries', favorites)
        /\ (entries' = << >> \/ entries' = favorites \/ entries' = recent)
    BY <2>1 DEF LoadFile
  <2>3. entries' = << >> \/ Distinct(entries')
    BY <2>2 DEF DistinctInv
  <2> QED
    BY <2>1, <2>2, <2>3, ListRead
<1>3. CASE OpenGallery
  <2>1. UNCHANGED <<card, favorites, recent, changes>>
    BY <1>3 DEF OpenGallery
  <2>2. CASE /\ screen = "roms"
             /\ index' = [index EXCEPT ![sys] = {r \in card : SystemOf[r] = sys}]
             /\ entries' \in Arranged(Shown(index'[sys], dir))
             /\ stars' = Starred(entries', favorites)
    <3>1. sys \in Systems
      BY <2>2, OnShelf DEF Belongs, Shelves, Lists
    <3>2. index'[sys] \in SUBSET Roms
      BY <2>1, <2>2, <3>1, ScanWrites
    <3>3. Distinct(entries')
      BY <2>2, <3>2, IndexDistinct
    <3> QED
      BY <2>1, <2>2, <3>3, ListRead
  <2>3. CASE entries' = << >>
    BY <2>1, <2>3, ListRead
  <2>4. CASE UNCHANGED <<entries, stars>>
    BY <1>0, <2>1, <2>4
  <2> QED
    BY <1>3, <2>2, <2>3, <2>4 DEF OpenGallery
<1>4. ASSUME NEW d, NEW ok \in BOOLEAN, EnterDirectory(d, ok), screen \in {"roms", "gallery"},
             dir # Root \/ (HasSelection /\ Selected \in Dirs)
      PROVE  DistinctInv' /\ Marked'
  <2>1. sys \in Systems
    BY <1>4, SystemOnScreen
  <2> QED
    BY <1>4, <2>1, LoadedMarked DEF EnterDirectory
<1>5. CASE OpenParent
  BY <1>4, <1>5 DEF OpenParent
<1>6. CASE OpenDirectory
  BY <1>4, <1>6 DEF OpenDirectory
<1>7. CASE BackToTop
  <2>1. CASE UNCHANGED <<disk, scan, sys, dir, entries, cursor, stars>>
    BY <1>0, <2>1 DEF disk
  <2> QED
    BY <1>4, <1>7, <2>1 DEF BackToTop
<1>8. CASE PollScan
  <2>1. UNCHANGED <<favorites, recent>> /\ scan # Idle
    BY <1>8 DEF PollScan, disk
  <2>2. CASE scan.state = "ok" /\ screen = "roms" /\ sys = scan.sys
    <3>1. index[sys] \in SUBSET Roms
      BY <2>1, <2>2 DEF ScanInv, DiskInv
    <3>2. \/ entries' \in Arranged(Shown(index[sys], dir)) /\ stars' = Starred(entries', favorites)
          \/ entries' = << >>
      BY <1>8, <2>2 DEF PollScan
    <3>3. entries' = << >> \/ Distinct(entries')
      BY <3>1, <3>2, IndexDistinct
    <3> QED
      BY <2>1, <3>2, <3>3, ListRead
  <2>3. CASE ~(scan.state = "ok" /\ screen = "roms" /\ sys = scan.sys)
    BY <1>0, <1>8, <2>1, <2>3 DEF PollScan
  <2> QED
    BY <2>2, <2>3
<1> QED
  BY <1>1, <1>2, <1>3, <1>5, <1>6, <1>7, <1>8

\* toggle_current_favorite changes the file and the mark together.
LEMMA ToggleMarks ==
    ASSUME BrowserInv, DistinctInv, Marked, ToggleFavorite
    PROVE  DistinctInv' /\ Marked'
<1>1. Selected \in Roms /\ favorites \in Seq(Roms) /\ UNCHANGED recent
  BY DEF ToggleFavorite, BrowserInv, DiskInv
<1>2. CASE Selected \in Members(favorites)
  <2>1. favorites' = Without(favorites, Selected)
    BY <1>2 DEF ToggleFavorite
  <2>2. Distinct(favorites') /\ Members(favorites') = Members(favorites) \ {Selected}
    BY <1>1, <1>2, <2>1, WithoutDistinct DEF DistinctInv
  <2>3. CASE ShowsFavorites
    <3>1. entries' \in {favorites', << >>} /\ stars' = Members(entries')
      BY <1>2, <2>3 DEF ToggleFavorite
    <3>2. CASE entries' = favorites'
      BY <1>1, <2>2, <3>1, <3>2 DEF DistinctInv, Distinct, Marked
    <3>3. CASE entries' = << >>
      BY <1>1, <2>2, <3>3 DEF DistinctInv, Distinct, Marked, Members
    <3> QED
      BY <3>1, <3>2, <3>3
  <2>4. CASE ~ShowsFavorites
    <3>1. stars' = stars \ {Selected} /\ UNCHANGED entries
      BY <1>2, <2>4 DEF ToggleFavorite
    <3> QED
      BY <1>1, <2>2, <3>1 DEF DistinctInv, Distinct, Marked
  <2> QED
    BY <2>3, <2>4
<1>3. CASE Selected \notin Members(favorites)
  <2>1. favorites' = Append(favorites, Selected) /\ stars' = stars \cup {Selected}
        /\ UNCHANGED entries
    BY <1>3 DEF ToggleFavorite
  <2>2. Distinct(favorites') /\ Members(favorites') = Members(favorites) \cup {Selected}
    BY <1>1, <1>3, <2>1, AppendDistinct DEF DistinctInv
  <2> QED
    BY <1>1, <2>1, <2>2 DEF DistinctInv, Distinct, Marked
<1> QED
  BY <1>2, <1>3

\* A launch reorders the history; the list that shows it is read again.
LEMMA LaunchMarks ==
    ASSUME BrowserInv, DistinctInv, Marked, Launch
    PROVE  DistinctInv' /\ Marked'
<1>1. Selected \in Roms /\ recent \in Seq(Roms) /\ UNCHANGED favorites
  BY DEF Launch, BrowserInv, DiskInv
<1>2. Distinct(recent')
  <2>1. recent' = WithRecent(Selected) \/ recent' = recent
    BY DEF Launch
  <2> QED
    BY <1>1, <2>1, WithRecentDistinct DEF DistinctInv
<1>3. CASE screen = "recent"
  <2>1. entries' \in {recent', << >>} /\ stars' = Starred(entries', favorites)
    BY <1>3 DEF Launch, LoadFile
  <2>2. Distinct(entries')
    <3>1. Distinct(<< >>)
      BY DEF Distinct
    <3> QED
      BY <1>2, <2>1, <3>1
  <2> QED
    BY <1>1, <1>2, <2>1, <2>2 DEF DistinctInv, Distinct, Marked, Starred
<1>4. CASE screen # "recent"
  <2>1. UNCHANGED <<entries, stars>>
    BY <1>4 DEF Launch
  <2> QED
    BY <1>1, <1>2, <2>1 DEF DistinctInv, Distinct, Marked
<1> QED
  BY <1>3, <1>4

\* Every other step leaves files, entries and marks alone.
LEMMA MarksStep ==
    BrowserInv /\ DistinctInv /\ Marked /\ [Next]_vars => DistinctInv' /\ Marked'
<1> SUFFICES ASSUME BrowserInv, DistinctInv, Marked, [Next]_vars PROVE DistinctInv' /\ Marked'
  OBVIOUS
<1>1. CASE \/ \E s \in Systems : OpenRoms(s)
           \/ \E w \in {"favorites", "recent"} : OpenVirtual(w)
           \/ OpenGallery \/ OpenParent \/ OpenDirectory \/ BackToTop \/ PollScan
  BY <1>1, LoadingMarks
<1>2. CASE ToggleFavorite \/ Launch
  BY <1>2, ToggleMarks, LaunchMarks
<1>3. CASE Restart
  <2>1. entries' = << >> /\ UNCHANGED <<favorites, recent>>
    BY <1>3 DEF Restart
  <2> QED
    BY <2>1, ListRead
<1>4. ASSUME UNCHANGED <<favorites, recent, entries, stars>> PROVE DistinctInv' /\ Marked'
  BY <1>4 DEF DistinctInv, Distinct, Marked
<1>5. CASE CloseGallery \/ Render \/ ScanEnds \/ EditCard \/ UNCHANGED vars
  BY <1>4, <1>5 DEF CloseGallery, Render, ScanEnds, EditCard, vars, disk, list
<1>6. CASE \/ OpenStart \/ CloseStart \/ ChooseInStart \/ CloseSubmenu
           \/ OpenCore \/ OpenPower \/ Uncover
  BY <1>4, <1>6 DEF OpenStart, CloseStart, ChooseInStart, CloseSubmenu, OpenCore, OpenPower,
     Cover, Uncover, disk, list
<1>7. ASSUME NEW c, MoveInList(c) PROVE DistinctInv' /\ Marked'
  BY <1>4, <1>7 DEF MoveInList, disk
<1>8. ASSUME NEW d, MoveInGallery(d) PROVE DistinctInv' /\ Marked'
  BY <1>4, <1>8 DEF MoveInGallery, disk
<1> QED
  BY <1>1, <1>2, <1>3, <1>5, <1>6, <1>7, <1>8 DEF Next

\* A frontend that starts shows nothing and its files hold no ROM twice.
LEMMA MarksInit == Init => DistinctInv /\ Marked
BY BoundsAssumption DEF Init, InitUI, DistinctInv, Distinct, Marked, Members

\* The lists hold no entry twice and the marks are true in every reachable state.
LEMMA MarksHold == Spec => [](BrowserInv /\ DistinctInv /\ Marked)
BY InitInv, StepInv, MarksInit, MarksStep, PTL DEF Spec

\* The star beside an entry agrees with favorites.json on every list screen, after
\* any toggles, reloads, scans and detours, for every library and every history.
THEOREM MarksAreTrueHolds == Spec => []MarksAreTrue
<1>1. Marked => MarksAreTrue
  BY DEF Marked, MarksAreTrue
<1> QED
  BY <1>1, MarksHold, PTL

-----------------------------------------------------------------------------
(* Launches *)

\* Only a launch changes the history.
LEMMA HistoryKept ==
    ASSUME Next, recent' # recent PROVE Launch
<1> USE DEF disk, list
<1>1. ASSUME NEW s, OpenRoms(s) PROVE recent' = recent
  BY <1>1 DEF OpenRoms
<1>2. ASSUME NEW w, OpenVirtual(w) PROVE recent' = recent
  BY <1>2 DEF OpenVirtual
<1>3. ASSUME OpenGallery \/ CloseGallery PROVE recent' = recent
  BY <1>3 DEF OpenGallery, CloseGallery
<1>4. ASSUME OpenParent \/ OpenDirectory \/ BackToTop PROVE recent' = recent
  BY <1>4 DEF OpenParent, OpenDirectory, BackToTop, EnterDirectory
<1>5. ASSUME NEW c, MoveInList(c) PROVE recent' = recent
  BY <1>5 DEF MoveInList
<1>6. ASSUME NEW d, MoveInGallery(d) PROVE recent' = recent
  BY <1>6 DEF MoveInGallery
<1>7. ASSUME Render \/ ToggleFavorite PROVE recent' = recent
  BY <1>7 DEF Render, ToggleFavorite
<1>8. ASSUME \/ OpenStart \/ CloseStart \/ ChooseInStart \/ CloseSubmenu
             \/ OpenCore \/ OpenPower \/ Uncover
      PROVE  recent' = recent
  BY <1>8 DEF OpenStart, CloseStart, ChooseInStart, CloseSubmenu, OpenCore, OpenPower,
     Cover, Uncover
<1>9. ASSUME ScanEnds \/ PollScan \/ EditCard \/ Restart PROVE recent' = recent
  BY <1>9 DEF ScanEnds, PollScan, EditCard, Restart
<1> QED
  BY <1>1, <1>2, <1>3, <1>4, <1>5, <1>6, <1>7, <1>8, <1>9 DEF Next

\* A recorded launch leaves the cursor on the launched ROM, on the recent list
\* (which the launch reorders) as on every other, for every length of the history.
THEOREM LaunchedIsSelectedHolds == Spec => LaunchedIsSelected
<1>1. ASSUME BrowserInv, DistinctInv, Next, recent' # recent, entries' # << >>
      PROVE  entries'[cursor' + 1] = Head(recent')
  <2>1. Launch /\ recent' = WithRecent(Selected)
    BY <1>1, HistoryKept DEF Launch
  <2>2. Selected \in Roms /\ recent \in Seq(Roms)
    BY <1>1, <2>1 DEF Launch, BrowserInv, DiskInv
  <2>3. Head(recent') = Selected /\ recent'[1] = Selected
    BY <1>1, <2>1, <2>2, WithRecentDistinct DEF DistinctInv
  <2>4. CASE screen = "recent"
    <3>1. entries' = recent' /\ cursor' = 0
      BY <1>1, <2>1, <2>4 DEF Launch, LoadFile
    <3> QED
      BY <2>3, <3>1
  <2>5. CASE screen # "recent"
    <3>1. UNCHANGED <<entries, cursor>>
      BY <2>1, <2>5 DEF Launch
    <3> QED
      BY <2>3, <3>1 DEF Selected
  <2> QED
    BY <2>4, <2>5
<1>2. BrowserInv /\ DistinctInv /\ [Next]_vars
        => [recent' # recent => (entries' # << >> => entries'[cursor' + 1] = Head(recent'))]_vars
  BY <1>1
<1> QED
  BY <1>2, MarksHold, PTL DEF Spec, LaunchedIsSelected

-----------------------------------------------------------------------------
(* The way back *)

\* The screen under a core or power menu; the top screen, or a START menu over it.
Base == IF screen = "cover" THEN coverBack ELSE screen
AtTop == Base = "top" \/ (Base \in {"start", "submenu"} /\ back = "top")

\* The memory knows key, and only with path p.
Noted(mem, key, p) ==
    /\ \E k \in DOMAIN mem : mem[k].key = key
    /\ \A k \in DOMAIN mem : mem[k].key = key => mem[k].path = p

\* The ROMs of a system's list are that system's.
Own == sys \notin {"favorites", "recent"} => \A i \in Members(entries) \cap Roms : SystemOf[i] = sys

\* From the moment a list is left until another is opened, menus included, the
\* memory holds the path of the entry it was left on.
LeftInv ==
    AtTop /\ entries # << >> => Own /\ Noted(memory, <<sys, dir>>, PathOf[entries[cursor + 1]])

\* The START menu returns to a list, the top screen or one of its own screens.
NoLoop == back \notin {"start", "cover"}

\* remember_current_rom_cursor: whether it updates, evicts or appends, the
\* context's only note is the path of the entry under the cursor.
LEMMA RememberedNote ==
    ASSUME ListInv, sys # None, cursor < Len(entries)
    PROVE  Noted(Remembered(cursor), <<sys, dir>>, PathOf[entries[cursor + 1]])
<1> DEFINE key == <<sys, dir>>
           i == PathOf[entries[cursor + 1]]
           note == [key |-> key, path |-> i]
           known == {k \in DOMAIN memory : memory[k].key = note.key}
<1>1. memory \in Seq(Notes) /\ ~(sys = None \/ cursor >= Len(entries))
  BY DEF ListInv
<1>2. note.key = key /\ note.path = i
  OBVIOUS
<1>3. CASE known # {}
  <2>1. Remembered(cursor) = [k \in DOMAIN memory |-> IF k \in known THEN note ELSE memory[k]]
    BY <1>1, <1>3 DEF Remembered
  <2> DEFINE after == [k \in DOMAIN memory |-> IF k \in known THEN note ELSE memory[k]]
  <2>2. known \subseteq DOMAIN memory /\ \A k \in DOMAIN memory : k \in known <=> memory[k].key = key
    BY <1>2
  <2> HIDE DEF known, note, key, i
  <2>3. DOMAIN after = DOMAIN memory
        /\ \A k \in DOMAIN memory : after[k] = IF k \in known THEN note ELSE memory[k]
    OBVIOUS
  <2> HIDE DEF after
  <2>4. Noted(after, key, i)
    BY <1>2, <1>3, <2>2, <2>3 DEF Noted
  <2> QED
    BY <2>1, <2>4 DEF after, key, i
<1>4. ASSUME NEW mem \in Seq(Notes), \A k \in DOMAIN mem : mem[k].key # key
      PROVE  Noted(Append(mem, note), key, i)
  <2> HIDE DEF note, key, i
  <2>1. /\ DOMAIN Append(mem, note) = 1..(Len(mem) + 1) /\ DOMAIN mem = 1..Len(mem)
        /\ Append(mem, note)[Len(mem) + 1] = note /\ Len(mem) \in Nat
        /\ \A k \in 1..Len(mem) : Append(mem, note)[k] = mem[k]
    OBVIOUS
  <2> DEFINE after == Append(mem, note)
  <2> HIDE DEF after
  <2>2. Noted(after, key, i)
    BY <1>2, <1>4, <2>1 DEF Noted, after
  <2> QED
    BY <2>2 DEF after
<1>5. CASE known = {} /\ Len(memory) >= MemoryMax
  <2>1. Remembered(cursor) = Append(Tail(memory), note)
    BY <1>1, <1>5 DEF Remembered
  <2>2. memory # << >> /\ \A k \in DOMAIN memory : memory[k].key # key
    BY <1>1, <1>5, BoundsAssumption
  <2>3. Tail(memory) \in Seq(Notes) /\ \A k \in DOMAIN Tail(memory) :
            k + 1 \in DOMAIN memory /\ Tail(memory)[k] = memory[k + 1]
    BY <1>1, <2>2
  <2>4. \A k \in DOMAIN Tail(memory) : Tail(memory)[k].key # key
    BY <2>2, <2>3
  <2> HIDE DEF note
  <2> QED
    BY <1>4, <2>1, <2>3, <2>4
<1>6. CASE known = {} /\ ~(Len(memory) >= MemoryMax)
  <2>1. Remembered(cursor) = Append(memory, note)
    BY <1>1, <1>6 DEF Remembered
  <2>2. \A k \in DOMAIN memory : memory[k].key # key
    BY <1>6
  <2> HIDE DEF note
  <2> QED
    BY <1>1, <1>4, <2>1, <2>2
<1> QED
  BY <1>3, <1>5, <1>6

\* A list's screen belongs to a context.
LEMMA ContextOnShelf ==
    ASSUME BrowserInv, screen \in Shelves PROVE sys # None
<1>1. Belongs(screen)
  BY OnShelf
<1>2. sys \in Systems \cup {"favorites", "recent"}
  BY <1>1 DEF Belongs, Shelves, Lists
<1> QED
  BY <1>2, NamesAssumption DEF None

\* No step makes the START menu its own way back.
LEMMA NoLoopStep == BrowserInv /\ NoLoop /\ [Next]_vars => NoLoop'
<1> SUFFICES ASSUME BrowserInv, NoLoop, [Next]_vars PROVE NoLoop'
  OBVIOUS
<1> USE DEF NoLoop, ways
<1>1. ASSUME NEW s, OpenRoms(s) PROVE NoLoop'
  BY <1>1 DEF OpenRoms, LeaveStart
<1>2. ASSUME NEW w, OpenVirtual(w) PROVE NoLoop'
  BY <1>2 DEF OpenVirtual, LeaveStart
<1>3. CASE OpenStart \/ CloseStart \/ Restart
  BY <1>3 DEF OpenStart, CloseStart, Restart, Shelves, Lists
<1>4. ASSUME NEW c, MoveInList(c) PROVE NoLoop'
  BY <1>4 DEF MoveInList
<1>5. ASSUME NEW d, MoveInGallery(d) PROVE NoLoop'
  BY <1>5 DEF MoveInGallery
<1>6. CASE OpenGallery \/ CloseGallery \/ OpenParent \/ OpenDirectory \/ BackToTop
  BY <1>6 DEF OpenGallery, CloseGallery, OpenParent, OpenDirectory, BackToTop
<1>7. CASE Render \/ ToggleFavorite \/ Launch \/ ScanEnds \/ PollScan \/ EditCard
  BY <1>7 DEF Render, ToggleFavorite, Launch, ScanEnds, PollScan, EditCard
<1>8. CASE \/ ChooseInStart \/ CloseSubmenu \/ OpenCore \/ OpenPower \/ Uncover
           \/ UNCHANGED vars
  BY <1>8 DEF ChooseInStart, CloseSubmenu, OpenCore, OpenPower, Cover, Uncover, vars
<1> QED
  BY <1>1, <1>2, <1>3, <1>4, <1>5, <1>6, <1>7, <1>8 DEF Next

\* The steps that may end on the top screen or in a menu over it keep the list
\* and the memory, or come from a list by B, or restart the frontend.
LEMMA LeftStep == BrowserInv /\ NoLoop /\ LeftInv /\ [Next]_vars => LeftInv'
<1> SUFFICES ASSUME BrowserInv, NoLoop, LeftInv, [Next]_vars PROVE LeftInv'
  OBVIOUS
<1>0. WaysInv
  BY DEF BrowserInv
<1>1. ASSUME screen' \in Shelves PROVE LeftInv'
  BY <1>1 DEF LeftInv, AtTop, Base, Shelves, Lists
<1>2. ASSUME entries' = << >> PROVE LeftInv'
  BY <1>2 DEF LeftInv
<1>3. ASSUME UNCHANGED list, AtTop' => AtTop PROVE LeftInv'
  BY <1>3 DEF LeftInv, Own, list
<1>4. ASSUME NEW s, OpenRoms(s) PROVE LeftInv'
  BY <1>1, <1>4 DEF OpenRoms, Shelves, Lists
<1>5. ASSUME NEW w \in {"favorites", "recent"}, OpenVirtual(w) PROVE LeftInv'
  BY <1>1, <1>5 DEF OpenVirtual, Goto, Shelves, Lists
<1>6. CASE OpenGallery \/ CloseGallery \/ OpenParent \/ OpenDirectory
  BY <1>1, <1>6 DEF OpenGallery, CloseGallery, OpenParent, OpenDirectory, Goto, Shelves, Lists
<1>7. ASSUME NEW c, MoveInList(c) PROVE LeftInv'
  BY <1>1, <1>7 DEF MoveInList, Shelves
<1>8. ASSUME NEW d, MoveInGallery(d) PROVE LeftInv'
  BY <1>1, <1>8 DEF MoveInGallery, Shelves
<1>9. CASE Render \/ ToggleFavorite \/ Launch
  BY <1>1, <1>9 DEF Render, ToggleFavorite, Launch, Shelves
<1>10. CASE BackToTop
  <2>1. CASE EnterDirectory(Parent[dir], FALSE)
    BY <1>2, <2>1 DEF EnterDirectory, LoadRoms
  <2>2. CASE memory' = Remembered(cursor) /\ UNCHANGED <<sys, dir, entries, cursor>>
    <3>1. CASE entries = << >>
      BY <1>2, <2>2, <3>1
    <3>2. CASE entries # << >>
      <4>1. sys # None /\ ListInv /\ cursor < Len(entries)
        BY <1>10, <3>2, ContextOnShelf DEF BackToTop, BrowserInv, ListInv, CursorInRange
      <4>2. Noted(Remembered(cursor), <<sys, dir>>, PathOf[entries[cursor + 1]])
        BY <4>1, RememberedNote
      <4>3. Own
        BY <1>10, OnShelf DEF BackToTop, Belongs, Own, Shelves, Lists
      <4> QED
        BY <2>2, <4>2, <4>3 DEF LeftInv, Own
    <3> QED
      BY <3>1, <3>2
  <2> QED
    BY <1>10, <2>1, <2>2 DEF BackToTop
<1>11. CASE \/ OpenStart \/ CloseStart \/ ChooseInStart \/ CloseSubmenu
            \/ OpenCore \/ OpenPower \/ Uncover
  <2>1. UNCHANGED list
    BY <1>11 DEF OpenStart, CloseStart, ChooseInStart, CloseSubmenu, OpenCore, OpenPower,
       Cover, Uncover
  <2> USE DEF AtTop, Base, Goto, Shelves, Lists
  <2>2. OpenStart => (AtTop' => AtTop)
    BY <1>0 DEF OpenStart, WaysInv
  <2>3. CloseStart => (AtTop' => AtTop)
    BY <1>0 DEF CloseStart, WaysInv, NoLoop
  <2>4. ChooseInStart \/ CloseSubmenu => (AtTop' => AtTop)
    BY <1>0 DEF ChooseInStart, CloseSubmenu, WaysInv
  <2>5. OpenCore \/ OpenPower \/ Uncover => (AtTop' => AtTop)
    BY <1>0 DEF OpenCore, OpenPower, Cover, Uncover, WaysInv
  <2> QED
    BY <1>3, <1>11, <2>1, <2>2, <2>3, <2>4, <2>5
<1>12. CASE ScanEnds \/ EditCard \/ UNCHANGED vars
  BY <1>3, <1>12 DEF ScanEnds, EditCard, vars, ways, AtTop, Base
<1>13. CASE PollScan
  <2>1. CASE scan.state = "ok" /\ screen = "roms" /\ sys = scan.sys
    BY <1>1, <1>13, <2>1 DEF PollScan, Shelves, Lists
  <2>2. CASE ~(scan.state = "ok" /\ screen = "roms" /\ sys = scan.sys)
    BY <1>3, <1>13, <2>2 DEF PollScan, ways, list, AtTop, Base
  <2> QED
    BY <2>1, <2>2
<1>14. CASE Restart
  BY <1>2, <1>14 DEF Restart
<1> QED
  BY <1>4, <1>5, <1>6, <1>7, <1>8, <1>9, <1>10, <1>11, <1>12, <1>13, <1>14 DEF Next

\* Two entries of a system's list never share a path.
LEMMA OnePath ==
    ASSUME ListInv, Own, DistinctInv, sys \notin {"favorites", "recent"},
           NEW m \in 1..Len(entries), NEW n \in 1..Len(entries),
           PathOf[entries[m]] = PathOf[entries[n]]
    PROVE  m = n
<1>1. entries \in Seq(Items)
  BY DEF ListInv
<1>2. \A i \in 1..Len(entries) : entries[i] \in Items /\ entries[i] \in Members(entries)
  BY <1>1 DEF Members
<1>3. entries[m] = entries[n]
  BY <1>2, LibraryAssumption DEF Own
<1> QED
  BY <1>1, <1>3 DEF DistinctInv, Distinct

\* Restoring the cursor from the memory of the list that was left.
LEMMA LeftImplies == BrowserInv /\ DistinctInv /\ LeftInv => ReturnsWhereLeft
<1> SUFFICES ASSUME BrowserInv, DistinctInv, LeftInv, screen = "top", entries # << >>
             PROVE  LET again == Restored(memory, <<sys, dir>>, entries)
                    IN \/ again = cursor
                       \/ /\ sys \in {"favorites", "recent"} /\ again < cursor
                          /\ PathOf[entries[again + 1]] = PathOf[entries[cursor + 1]]
  BY DEF ReturnsWhereLeft
<1> DEFINE key == <<sys, dir>>
           p == PathOf[entries[cursor + 1]]
           found == {k \in DOMAIN memory : memory[k].key = key /\ memory[k].path \in Paths(entries)}
           k == CHOOSE n \in found : TRUE
           again == FirstAt(entries, p)
<1>1. Noted(memory, key, p)
  BY DEF LeftInv, AtTop, Base
<1>2. entries \in Seq(Items) /\ cursor \in Nat /\ cursor < Len(entries) /\ ListInv /\ Own
  BY DEF BrowserInv, ListInv, CursorInRange, LeftInv, AtTop, Base
<1>3. p \in Paths(entries)
  BY <1>2 DEF Paths
<1>4. Restored(memory, key, entries) = again
  <2> HIDE DEF p, key
  <2>1. found # {} /\ \A n \in found : memory[n].path = p
    BY <1>1, <1>3 DEF Noted
  <2>2. Restored(memory, key, entries) = FirstAt(entries, memory[k].path)
    BY <2>1 DEF Restored
  <2>3. memory[k].path = p
    BY <2>1
  <2> QED
    BY <2>2, <2>3
<1>5. again \in 0..(Len(entries) - 1) /\ PathOf[entries[again + 1]] = p
      /\ \A j \in 0..(again - 1) : PathOf[entries[j + 1]] # p
  BY <1>2, <1>3, FirstAtIn
<1> HIDE DEF again
<1>6. again <= cursor
  BY <1>2, <1>5
<1>7. CASE sys \in {"favorites", "recent"}
  BY <1>2, <1>4, <1>5, <1>6, <1>7
<1>8. CASE sys \notin {"favorites", "recent"}
  <2>1. again + 1 = cursor + 1
    BY <1>2, <1>5, <1>8, OnePath
  <2> QED
    BY <1>2, <1>4, <1>5, <2>1
<1> QED
  BY <1>7, <1>8

\* Opening again the list that was left with B puts the cursor on the entry it was
\* left on, or on an earlier favourite or history entry with the same path, for
\* every size of the memory, every library and every detour through the START,
\* core and power menus and background scans in between.
THEOREM ReturnsWhereLeftHolds == Spec => []ReturnsWhereLeft
<1>1. Init => NoLoop /\ LeftInv
  BY DEF Init, InitUI, NoLoop, LeftInv
<1>2. Spec => []LeftInv
  BY <1>1, NoLoopStep, LeftStep, InvHolds, PTL DEF Spec
<1> QED
  BY <1>2, MarksHold, LeftImplies, PTL

=============================================================================

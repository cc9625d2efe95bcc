------------------------------ MODULE RomBrowser ------------------------------
(***************************************************************************)
(* The ROM lists of the controller frontend (plumos_controller_ui.c): the  *)
(* list, favourites, recent and gallery screens, the menus that cover them *)
(* and return to them, the background library scan, the memory of cursor   *)
(* positions, the gallery's sliding motion, and launching an entry.        *)
(*                                                                         *)
(* The frontend is one thread: an action of this module is one button      *)
(* press with the drawing that follows it, one poll of the scanner child,  *)
(* or one redraw.  The scanner child, other writers of the card and a      *)
(* restart of the frontend run between them.                               *)
(*                                                                         *)
(* Items are ROMs, each of one system, and directories of ROMs; PathOf is  *)
(* an item's path below the ROM directories, which two systems may share   *)
(* or both may use.  Cursors count from 0.  A way                          *)
(* back is kept while its screen can be returned from; the code leaves the *)
(* old value in place and always writes it before it reads it again.       *)
(***************************************************************************)
EXTENDS Integers, Sequences, FiniteSets

CONSTANTS
    Systems,     \* systems of the top screen
    Roms,        \* every ROM file the card may hold
    Dirs,        \* directories below a system's own directory
    SystemOf,    \* [Roms -> Systems]
    PathOf,      \* relative_path of every ROM and directory
    Parent,      \* [Roms \cup Dirs -> Dirs \cup {Root}]
    Inside,      \* [Roms -> SUBSET Dirs]: every directory on the ROM's path
    Rank,        \* [Roms \cup Dirs -> Nat]: the display order
    Music,       \* the system the START menu opens
    Graphic,     \* graphic mode: a list may open as the gallery
    Thumbnails,  \* graphic list mode: entering a list scans in the foreground
    Wrap,        \* setting rom_cursor_wrap
    Page,        \* ui_list_window_size: rows of a page
    MemoryMax,   \* UI_ROM_CURSOR_MEMORY_MAX
    RecentMax,   \* MAX_RECENTS
    SavedIndexes, SavedFavorites, SavedRecents,  \* what earlier sessions may have left
    MaxChanges   \* bound: changes of the card's files, favourites and history

Root == "root"                                \* no directory
None == "none"                                \* no system yet
Absent == {"no index"}                        \* no index file
Idle == [sys |-> None, state |-> "idle"]      \* no scanner child
Rest == -1                                    \* no motion, no queued press

Items == Roms \cup Dirs
Lists == {"roms", "favorites", "recent"}
Shelves == Lists \cup {"gallery"}
Screens == Shelves \cup {"top", "start", "submenu", "cover"}
Contexts == Systems \cup {"favorites", "recent"}

ASSUME LibraryAssumption ==
    /\ SystemOf \in [Roms -> Systems]
    /\ Parent \in [Items -> Dirs \cup {Root}]
    /\ Inside \in [Roms -> SUBSET Dirs]
    /\ Rank \in [Items -> Nat]
    /\ \A i, j \in Items : Rank[i] = Rank[j] => i = j
    /\ DOMAIN PathOf = Items
    /\ \A i, j \in Items :                    \* only ROMs of two systems share a path
          PathOf[i] = PathOf[j] =>
              i = j \/ (i \in Roms /\ j \in Roms /\ SystemOf[i] # SystemOf[j])
    /\ IsFiniteSet(Items)
    /\ Roms \cap Dirs = {}

ASSUME NamesAssumption ==
    /\ Systems \cap {"favorites", "recent", None} = {}
    /\ Root \notin Dirs
    /\ Absent \notin SUBSET Roms

ASSUME BoundsAssumption ==
    /\ Music \in Systems
    /\ Graphic \in BOOLEAN /\ Thumbnails \in BOOLEAN /\ Wrap \in BOOLEAN
    /\ Page \in Nat \ {0} /\ MemoryMax \in Nat \ {0}
    /\ RecentMax \in Nat \ {0} /\ MaxChanges \in Nat
    /\ SavedIndexes \subseteq [Systems -> (SUBSET Roms) \cup {Absent}]
    /\ \A saved \in SavedIndexes, s \in Systems :
          saved[s] # Absent => \A r \in saved[s] : SystemOf[r] = s
    /\ SavedFavorites \subseteq Seq(Roms) /\ SavedRecents \subseteq Seq(Roms)
    /\ \A q \in SavedFavorites \cup SavedRecents :         \* no session adds a ROM twice
          \A j, k \in DOMAIN q : q[j] = q[k] => j = k

VARIABLES
    card,        \* the ROM files on the card
    index,       \* per system: its index file, or Absent
    favorites,   \* favorites.json
    recent,      \* recent.json, newest first
    scan,        \* the scanner child: its system and state, or Idle
    changes,     \* changes of the first, third and fourth so far
    screen,
    back,        \* back_screen of the START menu
    coverBack,   \* core_back_screen or power_back_screen while its menu is open
    galleryBack, \* gallery_back_screen
    romEntry,    \* rom_entry_screen: "roms" or "gallery"
    menu,        \* menu_id of the START menu: "start" or "apps"
    sys,         \* current_system_id, None before the first list
    dir,         \* rom_directory
    entries,     \* rom_entries
    cursor,      \* rom_cursor
    stars,       \* the entries whose is_favorite is set
    memory,      \* rom_cursor_memory
    trans,       \* the gallery's transition: its target, or Rest
    pend         \* the press queued behind it: its target, or Rest

disk == <<card, index, favorites, recent, changes>>
ways == <<back, coverBack, galleryBack, romEntry, menu>>
list == <<sys, dir, entries, cursor, stars, memory>>
motion == <<trans, pend>>
vars == <<disk, scan, screen, ways, list, motion>>

-----------------------------------------------------------------------------
(* Lists and positions *)

Members(q) == {q[k] : k \in DOMAIN q}

\* The arrangement of S in display order (qsort by title or path).
Arranged(S) ==
    {q \in [1..Cardinality(S) -> S] :
        \A j, k \in 1..Cardinality(S) : j < k => Rank[q[j]] < Rank[q[k]]}

\* What directory d of an index shows: its ROMs, and the directories below it
\* on the path of some ROM.
Shown(roms, d) ==
    {r \in roms : Parent[r] = d}
        \cup {e \in Dirs : Parent[e] = d /\ \E r \in roms : e \in Inside[r]}

Position(q, i) == CHOOSE k \in 0..(Len(q) - 1) : q[k + 1] = i

HasSelection == cursor < Len(entries)
Selected == entries[cursor + 1]

AfterDelta(base, delta) ==
    LET n == Len(entries)
        from == IF base >= n THEN n - 1 ELSE base
        to == from + delta
    IN IF Wrap /\ n > 1 THEN to % n
       ELSE IF to < 0 THEN 0
       ELSE IF to >= n THEN n - 1 ELSE to

\* ui_cursor_page_down and ui_cursor_page_up
PageDown == IF cursor + Page >= Len(entries) THEN Len(entries) - 1 ELSE cursor + Page
PageUp == IF cursor <= Page THEN 0 ELSE cursor - Page

\* Mutant of Remembered: a full memory takes no new context.
RememberedUntilFull(c) ==
    LET note == [key |-> <<sys, dir>>, path |-> PathOf[entries[c + 1]]]
        known == {k \in DOMAIN memory : memory[k].key = note.key}
    IN IF sys = None \/ c >= Len(entries) THEN memory
       ELSE IF known # {}
            THEN [k \in DOMAIN memory |-> IF k \in known THEN note ELSE memory[k]]
       ELSE IF Len(memory) >= MemoryMax THEN memory
       ELSE Append(memory, note)

\* remember_current_rom_cursor for cursor c of the current list: the entry of
\* this context is updated in place, a new one evicts the oldest when full.
Remembered(c) ==
    LET note == [key |-> <<sys, dir>>, path |-> PathOf[entries[c + 1]]]
        known == {k \in DOMAIN memory : memory[k].key = note.key}
    IN IF sys = None \/ c >= Len(entries) THEN memory
       ELSE IF known # {}
            THEN [k \in DOMAIN memory |-> IF k \in known THEN note ELSE memory[k]]
       ELSE IF Len(memory) >= MemoryMax THEN Append(Tail(memory), note)
       ELSE Append(memory, note)

Paths(q) == {PathOf[q[k]] : k \in DOMAIN q}

\* The first entry of list q with a path, whichever system it belongs to.
FirstAt(q, path) ==
    CHOOSE k \in 0..(Len(q) - 1) :
        PathOf[q[k + 1]] = path /\ \A j \in 0..(k - 1) : PathOf[q[j + 1]] # path

\* restore_current_rom_cursor for list q in context key.
Restored(mem, key, q) ==
    LET found == {k \in DOMAIN mem : mem[k].key = key /\ mem[k].path \in Paths(q)}
    IN IF found = {} THEN 0 ELSE FirstAt(q, mem[CHOOSE k \in found : TRUE].path)

\* The redraw after every press ends the motion outside the gallery.
Goto(s) ==
    /\ screen' = s
    /\ trans' = IF s = "gallery" THEN trans ELSE Rest
    /\ pend' = IF s = "gallery" THEN pend ELSE Rest

LeaveStart == back' = "top" /\ menu' = "start"

Still == trans' = Rest /\ pend' = Rest

-----------------------------------------------------------------------------
(* Loading lists *)

Starred(q, favs) == Members(q) \cap Members(favs)

\* load_rom_entries(s) for directory d: scan if there is no index, scan in the
\* foreground (with thumbnails) or start the background child (without) if the
\* policy asks for it and no refresh is suppressed, then read the index.  A
\* failing scanner is ignored when an index exists; ok is the return value.
LoadRoms(s, d, suppressed, ok) ==
    /\ \/ index' = [index EXCEPT ![s] = {r \in card : SystemOf[r] = s}]
          /\ (index[s] = Absent \/ (Thumbnails /\ ~suppressed))
          /\ UNCHANGED scan
       \/ UNCHANGED <<index, scan>>
       \/ /\ ~Thumbnails /\ ~suppressed /\ index[s] # Absent /\ scan = Idle
          /\ scan' = [sys |-> s, state |-> "running"]
          /\ UNCHANGED index
    /\ IF ok
       THEN /\ index'[s] # Absent
            /\ entries' \in Arranged(Shown(index'[s], d))
            /\ stars' = Starred(entries', favorites)
       ELSE entries' = << >> /\ stars' = {}

\* Mutant of LoadFile: the marks are not set.
LoadFileUnmarked(file) ==
    /\ entries' \in {file, << >>}
    /\ stars' = {}

\* load_favorite_entries and load_recent_entries; an unreadable file shows nothing.
LoadFile(file) ==
    /\ entries' \in {file, << >>}
    /\ stars' = Starred(entries', favorites)

-----------------------------------------------------------------------------
(* Opening and leaving lists *)

\* open_rom_screen: A on the top screen, and Music of the START menu.
OpenRoms(s) ==
    /\ screen = "top" \/ (screen = "start" /\ s = Music)
    /\ \E ok \in BOOLEAN : LoadRoms(s, Root, FALSE, ok)
    /\ sys' = s /\ dir' = Root
    /\ cursor' = Restored(memory, <<s, Root>>, entries')
    /\ IF Graphic /\ romEntry = "gallery" /\ entries' # << >>
       THEN screen' = "gallery" /\ galleryBack' = "top"
       ELSE screen' = "roms" /\ UNCHANGED galleryBack
    /\ Still /\ LeaveStart
    /\ UNCHANGED <<card, favorites, recent, changes, coverBack, romEntry, memory>>

\* open_favorites_screen and open_recent_screen, from the same two places.
OpenVirtual(which) ==
    /\ screen \in {"top", "start"}
    /\ sys' = which /\ dir' = Root
    /\ LoadFile(IF which = "favorites" THEN favorites ELSE recent)
    /\ cursor' = Restored(memory, <<which, Root>>, entries')
    /\ Goto(which) /\ LeaveStart
    /\ UNCHANGED <<disk, scan, coverBack, galleryBack, romEntry, memory>>

\* open_gallery_screen: X on a list.  A system's list is scanned and reloaded first.
OpenGallery ==
    /\ screen \in Lists /\ entries # << >>
    /\ \/ /\ screen = "roms"
          /\ index' = [index EXCEPT ![sys] = {r \in card : SystemOf[r] = sys}]
          /\ \/ /\ entries' \in Arranged(Shown(index'[sys], dir))
                /\ stars' = Starred(entries', favorites)
                /\ cursor' = IF Selected \in Members(entries')
                             THEN Position(entries', Selected) ELSE 0
             \/ entries' = << >> /\ stars' = {} /\ cursor' = 0
       \/ UNCHANGED <<index, entries, stars, cursor>>
    /\ galleryBack' = screen
    /\ screen' = "gallery" /\ Still
    /\ UNCHANGED <<card, favorites, recent, changes, scan, back, coverBack, romEntry, menu,
                   sys, dir, memory>>

\* Mutant of CloseGallery: X always leads to the system's list.
CloseGalleryToRoms ==
    /\ screen = "gallery"
    /\ romEntry' = "roms"
    /\ Goto("roms")
    /\ galleryBack' = "top"
    /\ UNCHANGED <<disk, scan, back, coverBack, menu, list>>

\* X in the gallery: back to the list it shows.
CloseGallery ==
    /\ screen = "gallery"
    /\ romEntry' = "roms"
    /\ Goto(IF galleryBack \in {"favorites", "recent"} THEN galleryBack ELSE "roms")
    /\ galleryBack' = "top"
    /\ UNCHANGED <<disk, scan, back, coverBack, menu, list>>

\* Loading directory d of the current system: reload_rom_directory_no_scan.  A
\* failed load has emptied the list and leaves the old directory in place.
EnterDirectory(d, ok) ==
    /\ memory' = Remembered(cursor)
    /\ LoadRoms(sys, d, TRUE, ok)
    /\ dir' = IF ok THEN d ELSE dir
    /\ cursor' = IF ok THEN Restored(memory', <<sys, d>>, entries') ELSE 0
    /\ UNCHANGED <<sys, card, favorites, recent, changes>>

\* B inside a directory, on the list or in the gallery.
OpenParent ==
    /\ screen \in {"roms", "gallery"} /\ dir # Root
    /\ EnterDirectory(Parent[dir], TRUE)
    /\ UNCHANGED <<screen, ways, motion>>

\* B at the root of a list, or when the parent cannot be loaded.
BackToTop ==
    /\ screen \in Shelves
    /\ \/ /\ dir = Root \/ screen \in {"favorites", "recent"}
          /\ memory' = Remembered(cursor)
          /\ UNCHANGED <<disk, scan, sys, dir, entries, cursor, stars>>
       \/ /\ dir # Root /\ screen \in {"roms", "gallery"}
          /\ EnterDirectory(Parent[dir], FALSE)
    /\ romEntry' = IF screen = "gallery" THEN "gallery" ELSE "roms"
    /\ galleryBack' = "top"
    /\ Goto("top")
    /\ UNCHANGED <<back, coverBack, menu>>

-----------------------------------------------------------------------------
(* Moving, marking and launching *)

\* UP, DOWN, LEFT and RIGHT of a list.
MoveInList(to) ==
    /\ screen \in Lists /\ entries # << >>
    /\ cursor' = to
    /\ memory' = IF to # cursor THEN Remembered(to) ELSE memory
    /\ UNCHANGED <<disk, scan, screen, ways, sys, dir, entries, stars, motion>>

\* move_gallery_cursor: a jump of five ends the motion; a step starts it, or is
\* queued behind the running one.
MoveInGallery(delta) ==
    /\ screen = "gallery" /\ entries # << >>
    /\ \/ /\ delta \in {-5, 5}
          /\ cursor' = AfterDelta(cursor, delta)
          /\ cursor' # cursor
          /\ memory' = Remembered(cursor')
          /\ Still
       \/ /\ delta \in {-1, 1} /\ trans # Rest
          /\ AfterDelta(trans, delta) # trans
          /\ pend' = AfterDelta(trans, delta)
          /\ UNCHANGED <<cursor, memory, trans>>
       \/ /\ delta \in {-1, 1} /\ trans = Rest
          /\ cursor' = AfterDelta(cursor, delta)
          /\ cursor' # cursor
          /\ memory' = Remembered(cursor')
          /\ trans' = cursor'
          /\ UNCHANGED pend
    /\ UNCHANGED <<disk, scan, screen, ways, sys, dir, entries, stars>>

\* ui_start_pending_gallery_transition: the queued press becomes a motion.
StartPending ==
    LET to == IF pend >= Len(entries) THEN Len(entries) - 1 ELSE pend
    IN /\ pend # Rest /\ entries # << >>
       /\ pend' = Rest
       /\ trans' = IF to = cursor THEN Rest ELSE to
       /\ cursor' = to
       /\ memory' = IF to = cursor THEN memory ELSE Remembered(to)

\* render_gallery once the 360 ms have passed: the motion ends if it still
\* leads to the cursor, and the queued press starts the next one.
Render ==
    /\ screen = "gallery"
    /\ (trans # Rest /\ trans = cursor) \/ (trans = Rest /\ pend # Rest)
    /\ \/ StartPending
       \/ /\ pend = Rest \/ entries = << >>
          /\ trans' = Rest
          /\ UNCHANGED <<cursor, memory, pend>>
    /\ UNCHANGED <<disk, scan, screen, ways, sys, dir, entries, stars>>

ShowsFavorites == screen = "favorites" \/ (screen = "gallery" /\ galleryBack = "favorites")

\* The memmove that closes the gap of item i.
Without(q, i) == SubSeq(q, 1, Position(q, i)) \o SubSeq(q, Position(q, i) + 2, Len(q))

\* toggle_current_favorite: Y on a ROM; the file, not the mark, decides.
ToggleFavorite ==
    /\ screen \in Shelves /\ HasSelection /\ Selected \in Roms
    /\ IF Selected \in Members(favorites)
       THEN /\ favorites' = Without(favorites, Selected)
            /\ IF ShowsFavorites
               THEN /\ entries' \in {favorites', << >>}
                    /\ stars' = Members(entries')
                    /\ cursor' = IF entries' = << >> THEN 0
                                 ELSE IF cursor >= Len(entries') THEN Len(entries') - 1
                                 ELSE cursor
               ELSE stars' = stars \ {Selected} /\ UNCHANGED <<entries, cursor>>
       ELSE /\ favorites' = Append(favorites, Selected)
            /\ stars' = stars \cup {Selected}
            /\ UNCHANGED <<entries, cursor>>
    /\ changes < MaxChanges /\ changes' = changes + 1
    /\ UNCHANGED <<card, index, recent, scan, screen, ways, sys, dir, memory, motion>>

\* add_recent_entry of the launcher process.
WithRecent(i) ==
    <<i>> \o IF i \in Members(recent) THEN Without(recent, i)
             ELSE SubSeq(recent, 1, IF Len(recent) >= RecentMax THEN RecentMax - 1 ELSE Len(recent))

\* Mutant of Launch: the cursor stays where it was in the reordered list.
LaunchKeepsCursor ==
    /\ screen \in Shelves /\ HasSelection /\ Selected \in Roms
    /\ memory' = Remembered(cursor)
    /\ recent' = WithRecent(Selected)
    /\ IF screen = "recent" THEN LoadFile(recent') ELSE UNCHANGED <<entries, stars>>
    /\ changes < MaxChanges /\ changes' = changes + 1
    /\ UNCHANGED <<card, index, favorites, scan, screen, ways, sys, dir, cursor, motion>>

\* launch_rom_entry on a ROM: the launcher records the ROM before it runs it,
\* or refuses (no profile, no file); the recent list is read again afterwards.
Launch ==
    /\ screen \in Shelves /\ HasSelection /\ Selected \in Roms
    /\ memory' = Remembered(cursor)
    /\ \/ recent' = WithRecent(Selected)
       \/ UNCHANGED recent
    /\ IF screen = "recent"
       THEN LoadFile(recent') /\ cursor' = 0
       ELSE UNCHANGED <<entries, stars, cursor>>
    /\ changes < MaxChanges /\ changes' = changes + 1
    /\ UNCHANGED <<card, index, favorites, scan, screen, ways, sys, dir, motion>>

\* launch_rom_entry on a directory: open_rom_directory_entry.
OpenDirectory ==
    /\ screen \in {"roms", "gallery"} /\ HasSelection /\ Selected \in Dirs
    /\ \E ok \in BOOLEAN : EnterDirectory(Selected, ok)
    /\ UNCHANGED <<screen, ways, motion>>

-----------------------------------------------------------------------------
(* Menus over the lists *)

\* open_start_menu: START on any screen but the START, core and power menus.
OpenStart ==
    /\ screen \in Shelves \cup {"top", "submenu"}
    /\ back' = screen /\ menu' = "start"
    /\ Goto("start")
    /\ UNCHANGED <<disk, scan, coverBack, galleryBack, romEntry, list>>

\* B in the START menu.
CloseStart ==
    /\ screen = "start"
    /\ IF menu = "apps" THEN menu' = "start" /\ UNCHANGED <<screen, back, motion>>
       ELSE /\ Goto(back) /\ UNCHANGED menu
            /\ back' = IF back = "submenu" THEN back ELSE "top"
    /\ UNCHANGED <<disk, scan, coverBack, galleryBack, romEntry, list>>

\* A in the START menu: its Apps page, or a screen of its own (settings, help,
\* scraping, results).
ChooseInStart ==
    /\ screen = "start"
    /\ \/ menu' = "apps" /\ UNCHANGED <<screen, motion>>
       \/ Goto("submenu") /\ UNCHANGED menu
    /\ UNCHANGED <<disk, scan, back, coverBack, galleryBack, romEntry, list>>

\* B there: to the START menu as it was, or to its Apps page; back_screen stays.
CloseSubmenu ==
    /\ screen = "submenu"
    /\ Goto("start")
    /\ menu' \in {menu, "apps"}
    /\ UNCHANGED <<disk, scan, back, coverBack, galleryBack, romEntry, list>>

\* The core menu and the power menu both cover a screen and give it back; the
\* power menu over the core menu changes nothing but what is drawn.
Cover ==
    /\ coverBack' = screen
    /\ Goto("cover")
    /\ UNCHANGED <<disk, scan, back, galleryBack, romEntry, menu, list>>

\* open_core_select_screen: SELECT on the top screen or on a ROM.
OpenCore ==
    /\ screen = "top" \/ (screen \in Shelves /\ HasSelection /\ Selected \in Roms)
    /\ Cover

\* open_power_menu: the power key on every other screen.
OpenPower ==
    /\ screen # "cover"
    /\ Cover

\* B in either menu, close_power_menu, and the return from sleep.
Uncover ==
    /\ screen = "cover"
    /\ Goto(coverBack)
    /\ coverBack' = "top"
    /\ UNCHANGED <<disk, scan, back, galleryBack, romEntry, menu, list>>

-----------------------------------------------------------------------------
(* The scanner child *)

ScanEnds ==
    /\ scan # Idle /\ scan.state = "running"
    /\ \/ /\ index' = [index EXCEPT ![scan.sys] = {r \in card : SystemOf[r] = scan.sys}]
          /\ scan' = [scan EXCEPT !.state = "ok"]
       \/ /\ scan' = [scan EXCEPT !.state = "failed"]
          /\ UNCHANGED index
    /\ UNCHANGED <<card, favorites, recent, changes, screen, ways, list, motion>>

\* Mutant of PollScan: the cursor keeps its number in the refreshed list.
PollScanKeepsCursor ==
    /\ scan # Idle /\ scan.state # "running"
    /\ scan' = Idle
    /\ IF scan.state = "ok" /\ screen = "roms" /\ sys = scan.sys
       THEN /\ entries' \in Arranged(Shown(index[sys], dir))
            /\ stars' = Starred(entries', favorites)
       ELSE UNCHANGED <<entries, stars>>
    /\ UNCHANGED <<disk, screen, ways, sys, dir, cursor, memory, motion>>

\* poll_rom_scan_refresh: the list is reloaded only if it is still the one on
\* the screen; the selected entry is looked up again.
PollScan ==
    /\ scan # Idle /\ scan.state # "running"
    /\ scan' = Idle
    /\ IF scan.state = "ok" /\ screen = "roms" /\ sys = scan.sys
       THEN \/ /\ entries' \in Arranged(Shown(index[sys], dir))
               /\ stars' = Starred(entries', favorites)
               /\ cursor' = IF HasSelection /\ Selected \in Members(entries')
                            THEN Position(entries', Selected) ELSE 0
            \/ entries' = << >> /\ stars' = {} /\ cursor' = 0
       ELSE UNCHANGED <<entries, stars, cursor>>
    /\ UNCHANGED <<disk, screen, ways, sys, dir, memory, motion>>

-----------------------------------------------------------------------------
(* Around the frontend *)

\* Another program (SFTP, the file manager) adds or removes a ROM.
EditCard ==
    /\ changes < MaxChanges
    /\ changes' = changes + 1
    /\ \E r \in Roms : card' = IF r \in card THEN card \ {r} ELSE card \cup {r}
    /\ UNCHANGED <<index, favorites, recent, scan, screen, ways, list, motion>>

InitUI ==
    /\ screen = "top" /\ back = "top" /\ coverBack = "top"
    /\ galleryBack = "top" /\ romEntry = "roms" /\ menu = "start"
    /\ sys = None /\ dir = Root /\ entries = << >> /\ cursor = 0 /\ stars = {}
    /\ memory = << >> /\ trans = Rest /\ pend = Rest

\* The frontend ends (a power action that was refused later, a crash) and PID 1 starts
\* it again; a scanner child it left behind may still finish.
Restart ==
    /\ screen' = "top" /\ back' = "top" /\ coverBack' = "top"
    /\ galleryBack' = "top" /\ romEntry' = "roms" /\ menu' = "start"
    /\ sys' = None /\ dir' = Root /\ entries' = << >> /\ cursor' = 0 /\ stars' = {}
    /\ memory' = << >> /\ Still
    /\ scan' = Idle
    /\ \/ UNCHANGED index
       \/ /\ scan # Idle /\ scan.state = "running"
          /\ index' = [index EXCEPT ![scan.sys] = {r \in card : SystemOf[r] = scan.sys}]
    /\ UNCHANGED <<card, favorites, recent, changes>>

Init ==
    /\ card = Roms
    /\ index \in SavedIndexes
    /\ favorites \in SavedFavorites /\ recent \in SavedRecents
    /\ scan = Idle /\ changes = 0
    /\ InitUI

Next ==
    \/ \E s \in Systems : OpenRoms(s)
    \/ \E w \in {"favorites", "recent"} : OpenVirtual(w)
    \/ OpenGallery \/ CloseGallery
    \/ OpenParent \/ BackToTop
    \/ \E c \in {AfterDelta(cursor, -1), AfterDelta(cursor, 1), PageDown, PageUp} : MoveInList(c)
    \/ \E d \in {-5, -1, 1, 5} : MoveInGallery(d)
    \/ Render
    \/ ToggleFavorite \/ Launch \/ OpenDirectory
    \/ OpenStart \/ CloseStart \/ ChooseInStart \/ CloseSubmenu
    \/ OpenCore \/ OpenPower \/ Uncover
    \/ ScanEnds \/ PollScan
    \/ EditCard \/ Restart

Spec == Init /\ [][Next]_vars

-----------------------------------------------------------------------------
(* Properties *)

\* Type correctness of the frontend's list state.
TypeOK ==
    /\ card \in SUBSET Roms /\ index \in [Systems -> (SUBSET Roms) \cup {Absent}]
    /\ favorites \in Seq(Roms) /\ recent \in Seq(Roms) /\ changes \in Nat
    /\ scan \in [sys : Systems \cup {None}, state : {"idle", "running", "ok", "failed"}]
    /\ screen \in Screens /\ back \in Screens /\ coverBack \in Screens
    /\ galleryBack \in Screens /\ romEntry \in {"roms", "gallery"} /\ menu \in {"start", "apps"}
    /\ sys \in Contexts \cup {None} /\ dir \in Dirs \cup {Root}
    /\ entries \in Seq(Items) /\ cursor \in Nat /\ stars \in SUBSET Items
    /\ memory \in Seq([key : (Contexts \cup {None}) \X (Dirs \cup {Root}), path : {PathOf[i] : i \in Items}])
    /\ trans \in Nat \cup {Rest} /\ pend \in Nat \cup {Rest}

\* The cursor never points past the list, whatever reloads, removals and queued
\* presses came between: rom_entries[rom_cursor] is read unchecked by A, SELECT
\* and the power menu.
CursorInRange == entries # << >> => cursor < Len(entries)

\* A screen shows the list it stands for: a system's screen the entries of that
\* system and directory, the virtual screens their file, and the gallery the
\* list that X returns to, after any detour through menus.
Belongs(s) ==
    LET shelf == IF s # "gallery" THEN s
                 ELSE IF galleryBack \in {"favorites", "recent"} THEN galleryBack ELSE "roms"
    IN IF shelf = "roms"
       THEN /\ sys \in Systems
            /\ \A i \in Members(entries) :
                  Parent[i] = dir /\ (i \in Roms => SystemOf[i] = sys)
       ELSE sys = shelf /\ dir = Root /\ Members(entries) \subseteq Roms
ListMatchesScreen == screen \in Shelves => Belongs(screen)

\* The star drawn beside an entry agrees with favorites.json, which the code
\* can read whenever it sets the marks.
MarksAreTrue ==
    screen \in Shelves =>
        \A i \in Members(entries) \cap Roms : i \in stars <=> i \in Members(favorites)

\* Opening again the list that was left with B puts the cursor on the entry it
\* was left on, although the memory holds few contexts and the list may have
\* been refreshed meanwhile.  Favourites and history may hold two ROMs with one
\* path, of systems that share a directory or use the same file name: there the
\* cursor may return to the earlier of the two, and to no other entry.
ReturnsWhereLeft ==
    screen = "top" /\ entries # << >> =>
        LET again == Restored(memory, <<sys, dir>>, entries)
        IN \/ again = cursor
           \/ /\ sys \in {"favorites", "recent"} /\ again < cursor
              /\ PathOf[entries[again + 1]] = PathOf[entries[cursor + 1]]

\* After a recorded launch the cursor is on the launched entry, also on the
\* recent list, which the launch reorders.
LaunchedIsSelected ==
    [][recent' # recent => (entries' # << >> => entries'[cursor' + 1] = Head(recent'))]_vars
=============================================================================

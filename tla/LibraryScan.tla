----------------------------- MODULE LibraryScan -----------------------------
(***************************************************************************)
(* The library scanner (plumos_library_scan.c) and the frontend that runs  *)
(* it (plumos_controller_ui.c).  A scan walks the directories of a system, *)
(* finds each game once however the card links its directories, and        *)
(* replaces the index of that system, or of the whole library.  The        *)
(* frontend waits for a foreground scan and goes on during a background    *)
(* one; nothing stops two of them from writing the same temporary file.    *)
(*                                                                         *)
(* Files are modelled by their inodes, contents by the blocks stdio writes *)
(* at the writer's own offset, and a power cut by what fsync has made      *)
(* durable.  Left out: artwork lookup, which only makes an index longer,   *)
(* and the cleanup process a scan starts.                                  *)
(***************************************************************************)
EXTENDS Integers, Sequences, FiniteSets, SequencesExt

CONSTANTS Cards,          \* the layouts a card can have
          SystemsFile,    \* systems.json: a sequence of system records
          Roots,          \* <<"Roms", "roms", "">>
          Archives,       \* extensions too common to tell a system by
          Depth,          \* of the directories below an alias
          MaxScannedDirs, \* MAX_SCANNED_DIRS
          Procs,          \* scanner processes alive at once
          MaxScans, MaxMishaps,   \* bounds on scans; on write errors and cuts
          Inodes,         \* bound: files of the scanner that exist at once
          None

ASSUME InodeAssumption == None \notin Inodes

VARIABLES card,           \* the layout of the card
          proc,           \* the scanner processes
          waited,         \* the foreground scanner the frontend waits for
          known,          \* rom_scan_refresh_pid
          dir,            \* directory entries: output -> [tmp, idx] inodes
          durable,        \* output -> the inode a power cut leaves as index
          data,           \* inode -> the blocks written to it
          flushed,        \* inodes whose blocks fsync has made durable
          clean,          \* history: inodes published after an undisturbed scan
          done            \* counts scans and mishaps

vars == <<card, proc, waited, known, dir, durable, data, flushed, clean, done>>

-----------------------------------------------------------------------------
(* The configuration.                                                      *)

Valid(sys) ==
  \/ Len(sys.aliases) > 0 /\ sys.exts # {}
  \/ sys.profiles /\ sys.exts = {}

\* Systems without what a scan needs are dropped, the others sorted.
load_systems ==
  SortSeq(SelectSeq(SystemsFile, Valid), LAMBDA a, b : a.order < b.order)

Ids == {load_systems[i].id : i \in DOMAIN load_systems}

scan_ext_matches(sys, ext, filter) ==
  /\ ~(filter /\ ext \in Archives)
  /\ ext \in sys.exts

-----------------------------------------------------------------------------
(* Walking the card.  ctx holds the directories and the games found.       *)

rom_already_seen(ctx, id, ino) ==
  \E i \in DOMAIN ctx.roms : ctx.roms[i].sys = id /\ ctx.roms[i].ino = ino

add_rom_entry(ctx, id, f) ==
  IF rom_already_seen(ctx, id, f.ino) THEN ctx
  ELSE [ctx EXCEPT !.roms = Append(@, [sys |-> id, ino |-> f.ino, title |-> f.title])]

\* What one directory offers to a system: files, and directories that are
\* games themselves.  Hidden, sidecar and excluded names are passed over.
Below(l) ==
  LET tree[n \in 0..Depth] ==
        [d \in DOMAIN l.content |->
           IF n = 0 THEN <<>>
           ELSE FlattenSeq([i \in DOMAIN l.content[d] |->
                  LET c == l.content[d][i]
                  IN CASE c.kind = "file" -> <<c>>
                       [] c.kind = "dir" -> tree[n - 1][c.sub]
                       [] OTHER -> <<>>])]
  IN tree[Depth]

scan_dir_recursive(ctx, l, sys, filter, d) ==
  LET found == IF sys.dirs
               THEN FlattenSeq([i \in DOMAIN l.content[d] |->
                      LET c == l.content[d][i]
                      IN IF c.kind = "dir" THEN <<c>> ELSE SelectSeq(<<c>>,
                           LAMBDA f : f.kind = "file" /\ scan_ext_matches(sys, f.ext, filter))])
               ELSE SelectSeq(Below(l)[d],
                      LAMBDA f : scan_ext_matches(sys, f.ext, filter))
  IN FoldLeft(LAMBDA c, f : add_rom_entry(c, sys.id, f), ctx, found)

scanned_dir_already_seen(ctx, id, d) == <<id, d>> \in ctx.dirs

remember_scanned_dir(ctx, id, d) ==
  IF Cardinality(ctx.dirs) >= MaxScannedDirs THEN ctx
  ELSE [ctx EXCEPT !.dirs = @ \cup {<<id, d>>}]

\* Mutant of scan_alias_dir: neither directories nor files are recognised.
ScanAliasAgain(ctx, l, sys, root, a) ==
  LET d == l.dirs[<<root, sys.aliases[a].name>>]
  IN IF d = None THEN ctx
     ELSE [ctx EXCEPT !.roms = @ \o scan_dir_recursive([ctx EXCEPT !.roms = <<>>], l, sys,
                                       a > 1 /\ sys.aliases[a].shared, d).roms]

\* The first alias is the system's own; in a shared one archives are left
\* to the systems that own it.
scan_alias_dir(ctx, l, sys, root, a) ==
  LET d == l.dirs[<<root, sys.aliases[a].name>>]
  IN IF d = None \/ scanned_dir_already_seen(ctx, sys.id, d) THEN ctx
     ELSE scan_dir_recursive(remember_scanned_dir(ctx, sys.id, d), l, sys,
                             a > 1 /\ sys.aliases[a].shared, d)

\* Every root, and in it every alias, of the systems asked for.
scan_systems(l, only) ==
  LET system(ctx, sys) ==
        IF ~sys.enabled \/ only \notin {None, sys.id} THEN ctx
        ELSE LET step(c, at) == scan_alias_dir(c, l, sys, at[1], at[2])
                 places == FlattenSeq([r \in DOMAIN Roots |->
                             [a \in DOMAIN sys.aliases |-> <<Roots[r], a>>]])
             IN FoldLeft(step, ctx, places)
  IN FoldLeft(system, [dirs |-> {}, roms |-> <<>>], load_systems).roms

cmp_rom_entries(a, b) ==
  \/ a.sys # b.sys /\ \E i, j \in DOMAIN load_systems :
       i < j /\ load_systems[i].id = a.sys /\ load_systems[j].id = b.sys
  \/ a.sys = b.sys /\ a.title < b.title

-----------------------------------------------------------------------------
(* A scanner process, from main to the new index.                          *)

Gone == [pc |-> "gone", out |-> None, index |-> None, at |-> 0, off |-> 0, ino |-> None,
         clean |-> TRUE]

Outputs == Ids \cup {"library"}

\* An index with thumbnails is a block longer.
Blocks(index) ==
  [i \in 1..(IF index.thumbs THEN 3 ELSE 2) |-> <<index, i>>]

Launch(p, only, thumbs) ==
  /\ done.scans < MaxScans /\ done' = [done EXCEPT !.scans = @ + 1]
  /\ proc' = [proc EXCEPT ![p] =
       [Gone EXCEPT !.pc = "open", !.out = IF only = None THEN "library" ELSE only,
                    !.index = [sys |-> only, thumbs |-> thumbs,
                               roms |-> SortSeq(scan_systems(card, only), cmp_rom_entries)]]]

\* Between fopen and rename the temporary file of an output is in use.
Using(p, o) == proc[p].out = o /\ proc[p].pc \in {"write", "sync", "rename"}

\* An inode without a name and without a writer is free again.
Free(i) ==
  /\ \A o \in Outputs : i \notin {dir[o].tmp, dir[o].idx, durable[o]}
  /\ \A p \in Procs : proc[p].ino # i

\* fopen(tmp, "wb"): the file another scanner is writing is cut to nothing.
Open(p) ==
  LET o == proc[p].out
      others == {q \in Procs \ {p} : Using(q, o)}
      ino == IF dir[o].tmp # None THEN dir[o].tmp
             ELSE CHOOSE i \in Inodes : Free(i)
  IN /\ proc[p].pc = "open"
     /\ dir[o].tmp # None \/ \E i \in Inodes : Free(i)
     /\ dir' = [dir EXCEPT ![o].tmp = ino]
     /\ data' = [data EXCEPT ![ino] = <<>>]
     /\ flushed' = flushed \ {ino}
     /\ proc' = [q \in Procs |->
          CASE q = p -> [proc[p] EXCEPT !.pc = "write", !.ino = ino, !.clean = others = {}]
            [] q \in others -> [proc[q] EXCEPT !.clean = FALSE]
            [] OTHER -> proc[q]]
     /\ UNCHANGED <<card, waited, known, durable, clean, done>>

\* The next block of an index, and where it leaves its writer.
Written(p, gained) ==
  LET s == proc[p]
  IN [s EXCEPT !.at = @ + 1, !.off = @ + gained,
               !.clean = @ /\ gained = 1,
               !.pc = IF s.at + 1 = Len(Blocks(s.index)) THEN "sync" ELSE "write"]

\* A block goes where this writer stands; what is skipped reads as zeros.
Write(p) ==
  LET s == proc[p]
      old == data[s.ino]
      len == IF Len(old) > s.off THEN Len(old) ELSE s.off + 1
  IN /\ s.pc = "write"
     /\ data' = [data EXCEPT ![s.ino] =
          [i \in 1..len |-> CASE i = s.off + 1 -> Blocks(s.index)[s.at + 1]
                              [] i \in DOMAIN old /\ i # s.off + 1 -> old[i]
                              [] OTHER -> <<None, 0>>]]
     /\ flushed' = flushed \ {s.ino}
     /\ proc' = [proc EXCEPT ![p] = Written(p, 1)]
     /\ UNCHANGED <<card, waited, known, dir, durable, clean, done>>

\* Nobody looks at what fprintf returns, nor at ferror: a block the card
\* refuses is dropped, and noticed only when the last one is refused too.
WriteLost(p) ==
  /\ proc[p].pc = "write" /\ proc[p].at + 1 < Len(Blocks(proc[p].index))
  /\ done.mishaps < MaxMishaps /\ done' = [done EXCEPT !.mishaps = @ + 1]
  /\ proc' = [proc EXCEPT ![p] = Written(p, 0)]
  /\ UNCHANGED <<card, waited, known, dir, durable, data, flushed, clean>>

\* Mutant of Sync: the index is published before it is on the card.
SyncNothing(p) ==
  /\ proc[p].pc = "sync"
  /\ proc' = [proc EXCEPT ![p].pc = "rename"]
  /\ UNCHANGED <<card, waited, known, dir, durable, data, flushed, clean, done>>

\* fflush, fsync and fclose.
Sync(p) ==
  /\ proc[p].pc = "sync"
  /\ flushed' = flushed \cup {proc[p].ino}
  /\ proc' = [proc EXCEPT ![p].pc = "rename"]
  /\ UNCHANGED <<card, waited, known, dir, durable, data, clean, done>>

\* fopen fails, or fflush, fsync or fclose: then the name is unlinked,
\* whoever uses it by now.
WriteFails(p) ==
  /\ proc[p].pc \in {"open", "sync"}
  /\ done.mishaps < MaxMishaps /\ done' = [done EXCEPT !.mishaps = @ + 1]
  /\ dir' = IF proc[p].pc = "open" THEN dir ELSE [dir EXCEPT ![proc[p].out].tmp = None]
  /\ proc' = [proc EXCEPT ![p].pc = "exit"]
  /\ UNCHANGED <<card, waited, known, durable, data, flushed, clean>>

\* The name is gone when another scanner has renamed or unlinked it.
Rename(p) ==
  LET o == proc[p].out
  IN /\ proc[p].pc = "rename"
     /\ IF dir[o].tmp = None
        THEN /\ proc' = [proc EXCEPT ![p].pc = "exit"]
             /\ UNCHANGED <<dir, clean>>
        ELSE /\ dir' = [dir EXCEPT ![o] = [tmp |-> None, idx |-> dir[o].tmp]]
             /\ clean' = (IF proc[p].clean THEN clean \cup {dir[o].tmp} ELSE clean \ {dir[o].tmp})
             /\ proc' = [proc EXCEPT ![p].pc = "dirsync"]
     /\ UNCHANGED <<card, waited, known, durable, data, flushed, done>>

sync_parent_dir(p) ==
  /\ proc[p].pc = "dirsync"
  /\ durable' = [durable EXCEPT ![proc[p].out] = dir[proc[p].out].idx]
  /\ proc' = [proc EXCEPT ![p].pc = "exit"]
  /\ UNCHANGED <<card, waited, known, dir, data, flushed, clean, done>>

-----------------------------------------------------------------------------
(* The frontend.                                                           *)

\* A scan of one system or of all of them; the frontend does nothing else.
run_scanner(p) ==
  /\ waited = None /\ proc[p] = Gone
  /\ \E only \in Ids \cup {None}, thumbs \in BOOLEAN :
       /\ only = None => thumbs
       /\ Launch(p, only, thumbs)
  /\ waited' = p
  /\ UNCHANGED <<card, known, dir, durable, data, flushed, clean>>

\* The list of a system is entered: its index is renewed behind it.
trigger_rom_scan_refresh(p) ==
  /\ waited = None /\ known = None /\ proc[p] = Gone
  /\ \E only \in Ids : Launch(p, only, FALSE)
  /\ known' = p
  /\ UNCHANGED <<card, waited, dir, durable, data, flushed, clean>>

\* The child is reaped: by run_scanner, by poll_rom_scan_refresh, or, when
\* its frontend is no more, by init.
Reaped(p) ==
  /\ proc[p].pc = "exit"
  /\ p = known => waited = None
  /\ proc' = [proc EXCEPT ![p] = Gone]
  /\ UNCHANGED <<card, dir, durable, done>>
  /\ waited' = (IF waited = p THEN None ELSE waited)
  /\ known' = (IF known = p THEN None ELSE known)
  /\ data' = [i \in Inodes |-> IF Free(i)' THEN <<>> ELSE data[i]]
  /\ flushed' = flushed \cup {i \in Inodes : Free(i)'}
  /\ clean' = {i \in clean : ~Free(i)'}

\* The frontend dies or is restarted: its children run on, unknown.
FrontendRestarts ==
  /\ \E p \in Procs : p \in {waited, known}
  /\ waited' = None /\ known' = None
  /\ UNCHANGED <<card, proc, dir, durable, data, flushed, clean, done>>

\* Unflushed blocks are lost or kept, from some block on; an index whose
\* directory was not synced is the old or the new one.
PowerCut ==
  /\ done.mishaps < MaxMishaps /\ done' = [done EXCEPT !.mishaps = @ + 1]
  /\ proc' = [p \in Procs |-> Gone] /\ waited' = None /\ known' = None
  /\ \E left \in SUBSET {o \in Outputs : dir[o].idx # durable[o]}, kept \in 0..2 :
       /\ dir' = [o \in Outputs |-> [tmp |-> None,
                    idx |-> IF o \in left THEN dir[o].idx ELSE durable[o]]]
       /\ durable' = [o \in Outputs |-> dir'[o].idx]
       /\ data' = [i \in Inodes |->
            CASE Free(i)' -> <<>>
              [] i \in flushed -> data[i]
              [] OTHER -> [b \in 1..(IF kept < Len(data[i]) THEN kept ELSE Len(data[i])) |-> data[i][b]]]
       /\ clean' = {i \in clean : ~Free(i)'}
  /\ flushed' = Inodes
  /\ UNCHANGED card

Init ==
  /\ card \in Cards
  /\ proc = [p \in Procs |-> Gone] /\ waited = None /\ known = None
  /\ dir = [o \in Outputs |-> [tmp |-> None, idx |-> None]]
  /\ durable = [o \in Outputs |-> None]
  /\ data = [i \in Inodes |-> <<>>]
  /\ flushed = Inodes /\ clean = {}
  /\ done = [scans |-> 0, mishaps |-> 0]

Next ==
  \/ \E p \in Procs :
       \/ run_scanner(p) \/ trigger_rom_scan_refresh(p) \/ Reaped(p)
       \/ Open(p) \/ Write(p) \/ WriteLost(p) \/ Sync(p) \/ WriteFails(p)
       \/ Rename(p) \/ sync_parent_dir(p)
  \/ FrontendRestarts \/ PowerCut

Spec == Init /\ [][Next]_vars

-----------------------------------------------------------------------------
(* Properties.                                                             *)

Indexed == {proc[p].index : p \in {q \in Procs : proc[q].pc = "open"}}

(* The games of a system are its files on the card, each exactly once,     *)
(* whatever roots and aliases are the same directory and however many      *)
(* directories there are to remember ("inode-based alias de-duplication",  *)
(* scan_systems).  Archives count only where an alias that is not shared   *)
(* reaches them, and may be missed there when a shared alias, tried        *)
(* before, is the same directory: its visit left them out, and the         *)
(* de-duplication prevents another one.                                    *)
EachGameOnce ==
  \A x \in Indexed : \A i \in DOMAIN load_systems :
    LET sys == load_systems[i]
        of == SelectSeq(x.roms, LAMBDA r : r.sys = sys.id)
        found == {of[k].ino : k \in DOMAIN of}
        at(p) == card.dirs[<<Roots[p[1]], sys.aliases[p[2]].name>>]
        places == {p \in (DOMAIN Roots) \X (DOMAIN sys.aliases) : at(p) # None}
        own(p) == p[2] = 1 \/ ~sys.aliases[p[2]].shared
        before(p, q) == p[1] < q[1] \/ (p[1] = q[1] /\ p[2] < q[2])
        hidden(p) == \E q \in places : before(q, p) /\ at(q) = at(p) /\ ~own(q)
        games(p, archives) == {f.ino : f \in {g \in ToSet(Below(card)[at(p)]) :
                                  g.ext \in sys.exts /\ (archives \/ g.ext \notin Archives)}}
    IN sys.enabled /\ ~sys.dirs /\ x.sys \in {None, sys.id} =>
         /\ found \subseteq UNION {games(p, own(p)) : p \in places}
         /\ UNION {games(p, own(p) /\ ~hidden(p)) : p \in places} \subseteq found
         /\ \A j, k \in DOMAIN of : j # k => of[j].ino # of[k].ino

Whole(o) ==
  LET blocks == data[dir[o].idx]
  IN Len(blocks) > 0 /\ blocks[1][2] # 0 /\ blocks = Blocks(blocks[1][1])

(* An index on the card is the whole result of one scan, through noticed   *)
(* write errors, restarts and power cuts, whatever scans of it went before *)
(* and after: only a scanner that used the same temporary file meanwhile,  *)
(* or a block dropped unnoticed, tears it (write_library_index).           *)
CleanScanIsWhole ==
  \A o \in Outputs : dir[o].idx \in clean => Whole(o)

=============================================================================

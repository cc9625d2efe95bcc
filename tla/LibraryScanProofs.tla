-------------------------- MODULE LibraryScanProofs --------------------------
(***************************************************************************)
(* CleanScanIsWhole for every card, every set of systems, any number of    *)
(* scanners at once, and any number of scans, write errors and power cuts. *)
(*                                                                         *)
(* Nothing locks the temporary file, so the argument is about who has it   *)
(* open.  A scanner that no other one has disturbed is the only user of    *)
(* its output's temporary name, that name still leads to the inode it      *)
(* writes, and the inode holds exactly the blocks it has written.  When it *)
(* renames the file nobody else holds a descriptor on it; no later scanner *)
(* can get one, since fopen only meets the temporary name, and an inode    *)
(* the index leads to, or would lead to after a power cut, is not free.    *)
(***************************************************************************)
EXTENDS LibraryScan, TLAPS

\* The indexes scans of the possible cards yield.
Scans ==
  {[sys |-> only, thumbs |-> thumbs, roms |-> SortSeq(scan_systems(c, only), cmp_rom_entries)]
     : only \in Ids \cup {None}, thumbs \in BOOLEAN, c \in Cards}

Places == {"gone", "open", "write", "sync", "rename", "dirsync", "exit"}

Scanners ==
  [pc : Places, out : Outputs \cup {None}, index : Scans \cup {None}, at : Nat, off : Nat,
   ino : Inodes \cup {None}, clean : BOOLEAN]

Names == [tmp : Inodes \cup {None}, idx : Inodes \cup {None}]

Types ==
  /\ card \in Cards
  /\ proc \in [Procs -> Scanners]
  /\ dir \in [Outputs -> Names]
  /\ durable \in [Outputs -> Inodes \cup {None}]
  /\ DOMAIN data = Inodes
  /\ clean \subseteq Inodes
  /\ \A p \in Procs : proc[p].pc \in {"open", "write", "sync", "rename", "dirsync", "exit"} =>
                        proc[p].out \in Outputs /\ proc[p].index \in Scans
  /\ \A p \in Procs : proc[p].pc \in {"write", "sync", "rename"} => proc[p].ino \in Inodes
  /\ \A p \in Procs : proc[p].pc = "open" => proc[p].at = 0 /\ proc[p].off = 0

\* The first n blocks of an index.
Prefix(index, n) == [i \in 1..n |-> <<index, i>>]

\* An inode that is the index of an output, or is what a cut would make it.
Published(i) == \E o \in Outputs : i = dir[o].idx \/ i = durable[o]

\* A temporary name leads to an inode of its own, open in scanners of its
\* output only.
TmpInv ==
  \A o \in Outputs : dir[o].tmp # None =>
    /\ ~Published(dir[o].tmp)
    /\ \A x \in Outputs : x # o => dir[x].tmp # dir[o].tmp
    /\ \A p \in Procs : proc[p].pc = "write" /\ proc[p].ino = dir[o].tmp => proc[p].out = o

Busy(p) == proc[p].pc \in {"write", "sync", "rename"}

\* A scanner nobody disturbed is alone, its name leads to its inode, and its
\* inode holds what it wrote.
AloneInv ==
  \A p \in Procs : Busy(p) /\ proc[p].clean =>
    /\ \A q \in Procs : q # p => ~Using(q, proc[p].out)
    /\ dir[proc[p].out].tmp = proc[p].ino
    /\ proc[p].pc = "write" =>
         /\ proc[p].off = proc[p].at /\ proc[p].at < Len(Blocks(proc[p].index))
         /\ data[proc[p].ino] = Prefix(proc[p].index, proc[p].at)
    /\ proc[p].pc \in {"sync", "rename"} => data[proc[p].ino] = Blocks(proc[p].index)
    /\ proc[p].pc = "rename" => proc[p].ino \in flushed

\* What an undisturbed scanner published stays whole, durable and closed.
CleanInv ==
  \A i \in clean : Published(i) =>
    /\ \E index \in Scans : data[i] = Blocks(index)
    /\ i \in flushed
    /\ \A p \in Procs : proc[p].pc = "write" => proc[p].ino # i

ScanInv == Types /\ TmpInv /\ AloneInv /\ CleanInv

-----------------------------------------------------------------------------
(* Blocks                                                                  *)

LEMMA PrefixLen ==
  ASSUME NEW x, NEW n \in Nat
  PROVE  Len(Prefix(x, n)) = n /\ DOMAIN Prefix(x, n) = 1..n
  BY DEF Prefix

LEMMA BlocksArePrefix ==
  ASSUME NEW x
  PROVE  /\ Len(Blocks(x)) \in {2, 3}
         /\ Blocks(x) = Prefix(x, Len(Blocks(x)))
<1> DEFINE n == IF x.thumbs THEN 3 ELSE 2
<1>1. n \in {2, 3} OBVIOUS
<1>2. Blocks(x) = Prefix(x, n) BY DEF Blocks, Prefix
<1> HIDE DEF n
<1>3. Len(Prefix(x, n)) = n BY <1>1, PrefixLen
<1> QED BY <1>1, <1>2, <1>3

\* Appending the next block at the end of a prefix gives the next prefix.
LEMMA NextPrefix ==
  ASSUME NEW x, NEW n \in Nat
  PROVE  [i \in 1..n + 1 |-> CASE i = n + 1 -> <<x, n + 1>>
                               [] i \in DOMAIN Prefix(x, n) /\ i # n + 1 -> Prefix(x, n)[i]
                               [] OTHER -> <<None, 0>>]
           = Prefix(x, n + 1)
<1> DEFINE f == [i \in 1..n + 1 |-> CASE i = n + 1 -> <<x, n + 1>>
                               [] i \in DOMAIN Prefix(x, n) /\ i # n + 1 -> Prefix(x, n)[i]
                               [] OTHER -> <<None, 0>>]
<1>1. ASSUME NEW i \in 1..n + 1 PROVE f[i] = <<x, i>>
  <2>1. CASE i = n + 1 BY <2>1
  <2>2. CASE i # n + 1
    <3>1. i \in DOMAIN Prefix(x, n) BY <2>2, PrefixLen
    <3>2. Prefix(x, n)[i] = <<x, i>> BY <2>2 DEF Prefix
    <3> QED BY <2>2, <3>1, <3>2
  <2> QED BY <2>1, <2>2
<1> HIDE DEF f
<1>2. f = [i \in 1..n + 1 |-> f[i]] BY DEF f
<1>3. f = [i \in 1..n + 1 |-> <<x, i>>] BY <1>1, <1>2
<1> QED BY <1>3 DEF f, Prefix

-----------------------------------------------------------------------------
LEMMA InitScan == Init => ScanInv
<1> SUFFICES ASSUME Init PROVE ScanInv
  OBVIOUS
<1>1. \A p \in Procs : proc[p] = Gone BY DEF Init
<1>2. Gone \in Scanners BY DEF Gone, Scanners, Places
<1>3. Types BY <1>1, <1>2 DEF Init, Types, Gone, Names
<1>4. TmpInv BY DEF Init, TmpInv
<1>5. AloneInv BY <1>1 DEF AloneInv, Busy, Gone
<1>6. CleanInv BY DEF Init, CleanInv
<1> QED BY <1>3, <1>4, <1>5, <1>6 DEF ScanInv

\* A scanner is started.
LEMMA LaunchStep ==
  ASSUME ScanInv, NEW p \in Procs, proc[p] = Gone, NEW only \in Ids \cup {None}, NEW thumbs \in BOOLEAN,
         Launch(p, only, thumbs), UNCHANGED <<card, dir, durable, data, flushed, clean>>
  PROVE  ScanInv'
<1> DEFINE index == [sys |-> only, thumbs |-> thumbs,
                     roms |-> SortSeq(scan_systems(card, only), cmp_rom_entries)]
           new == [Gone EXCEPT !.pc = "open", !.out = IF only = None THEN "library" ELSE only,
                               !.index = index]
<1>1. proc' = [proc EXCEPT ![p] = new] BY DEF Launch
<1>2. index \in Scans BY DEF Scans, ScanInv, Types
<1> HIDE DEF index
<1>3. /\ new \in Scanners /\ new.pc = "open" /\ new.out \in Outputs /\ new.index \in Scans
      /\ new.at = 0 /\ new.off = 0
  BY <1>2 DEF Gone, Scanners, Places, Outputs
<1> HIDE DEF new
<1>4. \A q \in Procs : proc'[q] = proc[q] \/ proc'[q].pc = "open" BY <1>1, <1>3 DEF ScanInv, Types
<1>5. Types' BY <1>1, <1>3 DEF ScanInv, Types
<1>6. TmpInv' BY <1>4 DEF ScanInv, TmpInv, Published
<1>7. AloneInv' BY <1>4 DEF ScanInv, AloneInv, Busy, Using
<1>8. CleanInv' BY <1>4 DEF ScanInv, CleanInv, Published
<1> QED BY <1>5, <1>6, <1>7, <1>8 DEF ScanInv

\* fopen: the scanner gets a fresh inode, or the one another scanner of its
\* output has open, and then both are marked.
LEMMA OpenStep ==
  ASSUME ScanInv, NEW p \in Procs, Open(p)
  PROVE  ScanInv'
<1> USE InodeAssumption
<1> DEFINE o == proc[p].out
           others == {q \in Procs \ {p} : Using(q, o)}
           ino == IF dir[o].tmp # None THEN dir[o].tmp ELSE CHOOSE i \in Inodes : Free(i)
           new == [proc[p] EXCEPT !.pc = "write", !.ino = ino, !.clean = others = {}]
<1>1. o \in Outputs /\ proc[p] \in Scanners /\ proc[p].pc = "open"
  BY DEF Open, ScanInv, Types
<1>2. ino \in Inodes /\ ((dir[o].tmp # None /\ ino = dir[o].tmp) \/ Free(ino))
  BY <1>1 DEF Open, ScanInv, Types, Names
<1>3. /\ dir' = [dir EXCEPT ![o].tmp = ino]
      /\ data' = [data EXCEPT ![ino] = <<>>]
      /\ flushed' = flushed \ {ino}
      /\ UNCHANGED <<card, durable, clean>>
  BY DEF Open
<1>4. proc' = [q \in Procs |->
          CASE q = p -> new
            [] q \in others -> [proc[q] EXCEPT !.clean = FALSE]
            [] OTHER -> proc[q]]
  BY DEF Open
<1>5. proc'[p] = new BY <1>4
<1> HIDE DEF ino, others
<1>6. /\ new \in Scanners /\ new.pc = "write" /\ new.ino = ino /\ new.clean = (others = {})
      /\ new.out = o /\ new.index = proc[p].index /\ new.at = 0 /\ new.off = 0
  BY <1>1, <1>2 DEF ScanInv, Types, Scanners, Places
<1> HIDE DEF new
<1>7. ASSUME NEW q \in Procs, q # p
      PROVE  /\ proc'[q] \in Scanners
             /\ proc'[q].pc = proc[q].pc /\ proc'[q].out = proc[q].out /\ proc'[q].ino = proc[q].ino
             /\ proc'[q].index = proc[q].index /\ proc'[q].at = proc[q].at /\ proc'[q].off = proc[q].off
             /\ proc'[q].clean => proc[q].clean /\ q \notin others
  <2>1. proc[q] \in Scanners BY DEF ScanInv, Types
  <2>2. CASE q \in others
    <3>1. proc'[q] = [proc[q] EXCEPT !.clean = FALSE] BY <1>4, <1>7, <2>2
    <3> QED BY <2>1, <3>1 DEF Scanners
  <2>3. CASE q \notin others
    <3>1. proc'[q] = proc[q] BY <1>4, <1>7, <2>3
    <3> QED BY <2>1, <2>3, <3>1
  <2> QED BY <2>2, <2>3
<1>8. /\ \A x \in Outputs : dir'[x].tmp = (IF x = o THEN ino ELSE dir[x].tmp) /\ dir'[x].idx = dir[x].idx
      /\ dir' \in [Outputs -> Names]
  BY <1>1, <1>2, <1>3 DEF ScanInv, Types, Names
<1>9. /\ \A i : Published(i)' <=> Published(i)
      /\ ~Published(ino)
      /\ \A x \in Outputs : x # o => dir[x].tmp # ino
      /\ \A q \in Procs : proc[q].pc = "write" /\ proc[q].ino = ino => proc[q].out = o
  <2>1. \A i : Published(i)' <=> Published(i) BY <1>3, <1>8 DEF Published
  <2>2. CASE dir[o].tmp # None /\ ino = dir[o].tmp BY <1>1, <2>1, <2>2 DEF ScanInv, TmpInv
  <2>3. CASE Free(ino) BY <2>1, <2>3 DEF Free, Published
  <2> QED BY <1>2, <2>2, <2>3
<1>10. Types'
  <2>0. proc' = [q \in Procs |-> proc'[q]] BY <1>4
  <2>1. proc' \in [Procs -> Scanners] BY <1>5, <1>6, <1>7, <2>0
  <2>2. \A q \in Procs : proc'[q].pc \in {"open", "write", "sync", "rename", "dirsync", "exit"} =>
                        proc'[q].out \in Outputs /\ proc'[q].index \in Scans
    BY <1>1, <1>5, <1>6, <1>7 DEF ScanInv, Types
  <2>3. \A q \in Procs : proc'[q].pc \in {"write", "sync", "rename"} => proc'[q].ino \in Inodes
    BY <1>2, <1>5, <1>6, <1>7 DEF ScanInv, Types
  <2>4. \A q \in Procs : proc'[q].pc = "open" => proc'[q].at = 0 /\ proc'[q].off = 0
    BY <1>5, <1>6, <1>7 DEF ScanInv, Types
  <2> QED BY <1>3, <1>8, <2>1, <2>2, <2>3, <2>4 DEF ScanInv, Types
<1>11. TmpInv'
  <2> SUFFICES ASSUME NEW x \in Outputs, dir'[x].tmp # None
               PROVE  /\ ~Published(dir'[x].tmp)
                      /\ \A y \in Outputs : y # x => dir'[y].tmp # dir'[x].tmp
                      /\ \A q \in Procs : proc'[q].pc = "write" /\ proc'[q].ino = dir'[x].tmp => proc'[q].out = x
    BY <1>3, <1>8 DEF TmpInv, Published
  <2>1. CASE x = o BY <2>1, <1>5, <1>6, <1>7, <1>8, <1>9
  <2>2. CASE x # o BY <2>2, <1>5, <1>6, <1>7, <1>8, <1>9 DEF ScanInv, TmpInv
  <2> QED BY <2>1, <2>2
<1>12. AloneInv'
  <2> SUFFICES ASSUME NEW q \in Procs, Busy(q)', proc'[q].clean
               PROVE  /\ \A r \in Procs : r # q => ~Using(r, proc[q].out)'
                      /\ proc'[q].out = proc[q].out
                      /\ dir'[proc'[q].out].tmp = proc'[q].ino
                      /\ proc'[q].pc = "write" =>
                           /\ proc'[q].off = proc'[q].at /\ proc'[q].at < Len(Blocks(proc'[q].index))
                           /\ data'[proc'[q].ino] = Prefix(proc'[q].index, proc'[q].at)
                      /\ proc'[q].pc \in {"sync", "rename"} => data'[proc'[q].ino] = Blocks(proc'[q].index)
                      /\ proc'[q].pc = "rename" => proc'[q].ino \in flushed'
    BY DEF AloneInv, Using
  <2>1. CASE q = p
    <3>1. others = {} BY <1>5, <1>6, <2>1
    <3>2. \A r \in Procs : r # p => ~Using(r, o) BY <3>1 DEF others
    <3>3. \A r \in Procs : r # p => ~Using(r, o)' BY <1>1, <1>5, <1>6, <1>7, <3>2 DEF Using
    <3>4. data'[ino] = <<>> BY <1>2, <1>3 DEF ScanInv, Types
    <3>5. Prefix(proc[p].index, 0) = <<>> BY DEF Prefix
    <3>6. 0 < Len(Blocks(proc[p].index)) BY BlocksArePrefix
    <3> QED BY <1>1, <1>5, <1>6, <1>8, <2>1, <3>3, <3>4, <3>5, <3>6
  <2>2. CASE q # p
    <3>1. Busy(q) /\ proc[q].clean /\ q \notin others BY <1>7, <2>2 DEF Busy
    <3>2. proc[q].out # o /\ proc[q].out \in Outputs /\ proc[q].ino \in Inodes
      BY <2>2, <3>1 DEF others, Using, Busy, ScanInv, Types
    <3>3. dir[proc[q].out].tmp = proc[q].ino /\ proc[q].ino # ino
      BY <3>1, <3>2, <1>9 DEF ScanInv, AloneInv
    <3>4. \A r \in Procs : r # q => ~Using(r, proc[q].out)'
      BY <3>1, <3>2, <1>5, <1>6, <1>7 DEF ScanInv, AloneInv, Using
    <3>5. data'[proc[q].ino] = data[proc[q].ino] BY <1>3, <3>2, <3>3 DEF ScanInv, Types
    <3> QED BY <1>3, <1>7, <1>8, <2>2, <3>1, <3>2, <3>3, <3>4, <3>5 DEF ScanInv, AloneInv
  <2> QED BY <2>1, <2>2
<1>13. CleanInv'
  <2> SUFFICES ASSUME NEW i \in clean, Published(i)
               PROVE  /\ \E index \in Scans : data'[i] = Blocks(index)
                      /\ i \in flushed'
                      /\ \A q \in Procs : proc'[q].pc = "write" => proc'[q].ino # i
    BY <1>3, <1>9 DEF CleanInv
  <2>1. i # ino /\ i \in Inodes BY <1>9 DEF ScanInv, Types
  <2>2. data'[i] = data[i] BY <1>3, <2>1 DEF ScanInv, Types
  <2> QED BY <1>3, <1>5, <1>6, <1>7, <2>1, <2>2 DEF ScanInv, CleanInv
<1> QED BY <1>10, <1>11, <1>12, <1>13 DEF ScanInv

\* A scanner moves on without touching an inode or a name: what it becomes is
\* disturbed, or no longer busy, or has the claims of an undisturbed one.
LEMMA MoveOn ==
  ASSUME ScanInv, NEW p \in Procs, NEW new \in Scanners, proc' = [proc EXCEPT ![p] = new],
         UNCHANGED <<card, dir, durable, data, clean>>, flushed \subseteq flushed',
         new.out = proc[p].out, new.index = proc[p].index, new.ino = proc[p].ino,
         proc[p].pc \notin {"gone", "open"} \/ new.pc = "exit", proc[p].pc # "gone",
         new.pc \in {"write", "sync", "rename", "exit"},
         new.pc = "write" => proc[p].pc = "write",
         new.pc \in {"write", "sync", "rename"} => Busy(p),
         new.pc \in {"write", "sync", "rename"} /\ new.clean =>
           /\ proc[p].clean
           /\ new.pc = "rename" /\ proc[p].pc = "sync" /\ proc[p].ino \in flushed'
  PROVE  ScanInv'
<1>1. proc[p] \in Scanners /\ \A q \in Procs : q # p => proc'[q] = proc[q] BY DEF ScanInv, Types
<1>2. proc'[p] = new BY DEF ScanInv, Types
<1>3. Types' BY <1>1, <1>2 DEF ScanInv, Types, Busy, Scanners, Places
<1>4. TmpInv' BY <1>1, <1>2 DEF ScanInv, TmpInv, Published
<1>5. AloneInv'
  <2> SUFFICES ASSUME NEW q \in Procs, Busy(q)', proc'[q].clean
               PROVE  /\ \A r \in Procs : r # q => ~Using(r, proc[q].out)'
                      /\ proc'[q].out = proc[q].out
                      /\ dir[proc'[q].out].tmp = proc'[q].ino
                      /\ proc'[q].pc = "write" =>
                           /\ proc'[q].off = proc'[q].at /\ proc'[q].at < Len(Blocks(proc'[q].index))
                           /\ data[proc'[q].ino] = Prefix(proc'[q].index, proc'[q].at)
                      /\ proc'[q].pc \in {"sync", "rename"} => data[proc'[q].ino] = Blocks(proc'[q].index)
                      /\ proc'[q].pc = "rename" => proc'[q].ino \in flushed'
    BY DEF AloneInv, Using
  <2>1. \A r \in Procs, x \in Outputs : Using(r, x)' => Using(r, x)
    BY <1>1, <1>2 DEF Using, Busy
  <2>2. CASE q = p BY <1>1, <1>2, <2>1, <2>2 DEF Busy, ScanInv, AloneInv, Types
  <2>3. CASE q # p BY <1>1, <1>2, <2>1, <2>3 DEF Busy, ScanInv, AloneInv, Types
  <2> QED BY <2>2, <2>3
<1>6. CleanInv' BY <1>1, <1>2 DEF ScanInv, CleanInv, Published
<1> QED BY <1>3, <1>4, <1>5, <1>6 DEF ScanInv

LEMMA WrittenFields ==
  ASSUME NEW p \in Procs, proc[p] \in Scanners, NEW gained \in {0, 1}
  PROVE  LET w == Written(p, gained)
         IN  /\ w \in Scanners
             /\ w.out = proc[p].out /\ w.index = proc[p].index /\ w.ino = proc[p].ino
             /\ w.at = proc[p].at + 1 /\ w.off = proc[p].off + gained
             /\ w.pc = (IF proc[p].at + 1 = Len(Blocks(proc[p].index)) THEN "sync" ELSE "write")
             /\ w.clean => proc[p].clean /\ gained = 1
<1> DEFINE at == proc[p].at + 1
           off == proc[p].off + gained
           cl == proc[p].clean /\ gained = 1
           pc == IF proc[p].at + 1 = Len(Blocks(proc[p].index)) THEN "sync" ELSE "write"
<1>1. at \in Nat /\ off \in Nat /\ pc \in Places BY DEF Scanners, Places
<1>2. cl \in BOOLEAN OBVIOUS
<1>3. Written(p, gained) = [proc[p] EXCEPT !.at = at, !.off = off, !.clean = cl, !.pc = pc]
  BY DEF Written
<1> HIDE DEF at, off, cl, pc
<1>4. [proc[p] EXCEPT !.at = at, !.off = off, !.clean = cl, !.pc = pc] \in Scanners
  BY <1>1, <1>2, Zenon DEF Scanners
<1>5. LET w == [proc[p] EXCEPT !.at = at, !.off = off, !.clean = cl, !.pc = pc]
      IN  /\ w.out = proc[p].out /\ w.index = proc[p].index /\ w.ino = proc[p].ino
          /\ w.at = at /\ w.off = off /\ w.pc = pc /\ w.clean = cl
  BY DEF Scanners
<1>6. cl => proc[p].clean /\ gained = 1 BY DEF cl
<1> QED BY <1>3, <1>4, <1>5, <1>6 DEF at, off, pc

\* fflush, fsync and fclose, or a block dropped unnoticed.
LEMMA SyncStep ==
  ASSUME ScanInv, NEW p \in Procs, Sync(p) \/ WriteLost(p)
  PROVE  ScanInv'
<1>1. proc[p] \in Scanners BY DEF ScanInv, Types
<1>2. CASE Sync(p)
  <2> DEFINE new == [proc[p] EXCEPT !.pc = "rename"]
  <2>1. new \in Scanners BY <1>1 DEF Scanners, Places
  <2>2. /\ new.out = proc[p].out /\ new.index = proc[p].index /\ new.ino = proc[p].ino
        /\ new.pc = "rename" /\ new.clean = proc[p].clean
    BY <1>1 DEF Scanners
  <2>3. /\ proc' = [proc EXCEPT ![p] = new] /\ proc[p].pc = "sync"
        /\ UNCHANGED <<card, dir, durable, data, clean>> /\ flushed' = flushed \cup {proc[p].ino}
    BY <1>2 DEF Sync
  <2> HIDE DEF new
  <2> QED BY <2>1, <2>2, <2>3, MoveOn DEF Busy
<1>3. CASE WriteLost(p)
  <2> DEFINE new == Written(p, 0)
  <2>1. /\ new \in Scanners
        /\ new.out = proc[p].out /\ new.index = proc[p].index /\ new.ino = proc[p].ino
        /\ new.pc \in {"write", "sync"} /\ ~new.clean
    <3>1. /\ new \in Scanners
          /\ new.out = proc[p].out /\ new.index = proc[p].index /\ new.ino = proc[p].ino
          /\ new.pc = (IF proc[p].at + 1 = Len(Blocks(proc[p].index)) THEN "sync" ELSE "write")
          /\ new.clean => 0 = 1
      BY <1>1, WrittenFields, Zenon
    <3> HIDE DEF new
    <3>2. new.pc \in {"write", "sync"} BY <3>1
    <3>3. ~new.clean BY <3>1
    <3> QED BY <3>1, <3>2, <3>3
  <2>2. /\ proc' = [proc EXCEPT ![p] = new] /\ proc[p].pc = "write"
        /\ UNCHANGED <<card, dir, durable, data, clean, flushed>>
    BY <1>3 DEF WriteLost
  <2> HIDE DEF new
  <2> QED BY <2>1, <2>2, MoveOn DEF Busy
<1> QED BY <1>2, <1>3

\* A block is written: into an inode that no undisturbed other scanner and no
\* undisturbed index has.
LEMMA WriteStep ==
  ASSUME ScanInv, NEW p \in Procs, Write(p)
  PROVE  ScanInv'
<1> DEFINE s == proc[p]
           old == data[s.ino]
           len == IF Len(old) > s.off THEN Len(old) ELSE s.off + 1
           blocks == [i \in 1..len |-> CASE i = s.off + 1 -> Blocks(s.index)[s.at + 1]
                              [] i \in DOMAIN old /\ i # s.off + 1 -> old[i]
                              [] OTHER -> <<None, 0>>]
           new == Written(p, 1)
<1>1. /\ s \in Scanners /\ s.pc = "write" /\ s.out \in Outputs /\ s.index \in Scans
      /\ s.ino \in Inodes /\ s.at \in Nat /\ s.off \in Nat
  BY DEF Write, ScanInv, Types, Scanners
<1>2. /\ data' = [data EXCEPT ![s.ino] = blocks]
      /\ flushed' = flushed \ {s.ino}
      /\ proc' = [proc EXCEPT ![p] = new]
      /\ UNCHANGED <<card, dir, durable, clean>>
  BY DEF Write
<1>3. /\ new \in Scanners
      /\ new.out = s.out /\ new.index = s.index /\ new.ino = s.ino
      /\ new.at = s.at + 1 /\ new.off = s.off + 1
      /\ new.pc = (IF s.at + 1 = Len(Blocks(s.index)) THEN "sync" ELSE "write")
      /\ new.clean => s.clean
  <2>1. 1 \in {0, 1} OBVIOUS
  <2> QED BY <1>1, <2>1, WrittenFields, Zenon
<1>4. s.clean => blocks = Prefix(s.index, s.at + 1)
  <2> SUFFICES ASSUME s.clean PROVE blocks = Prefix(s.index, s.at + 1)
    OBVIOUS
  <2>1. /\ s.off = s.at /\ s.at < Len(Blocks(s.index)) /\ old = Prefix(s.index, s.at)
    BY <1>1 DEF ScanInv, AloneInv, Busy
  <2>2. Len(old) = s.at BY <1>1, <2>1, PrefixLen
  <2>3. len = s.at + 1 BY <1>1, <2>1, <2>2
  <2>4. Len(Blocks(s.index)) \in {2, 3} /\ Blocks(s.index) = Prefix(s.index, Len(Blocks(s.index)))
    BY BlocksArePrefix
  <2>5. s.at + 1 \in 1..Len(Blocks(s.index)) BY <1>1, <2>1, <2>4
  <2>6. Blocks(s.index)[s.at + 1] = <<s.index, s.at + 1>>
    BY <2>4, <2>5 DEF Prefix
  <2> HIDE DEF s, old, len
  <2>7. blocks = [i \in 1..s.at + 1 |-> CASE i = s.at + 1 -> <<s.index, s.at + 1>>
                    [] i \in DOMAIN Prefix(s.index, s.at) /\ i # s.at + 1 -> Prefix(s.index, s.at)[i]
                    [] OTHER -> <<None, 0>>]
    BY <2>1, <2>3, <2>6, Zenon
  <2>8. s.at \in Nat BY <1>1
  <2> HIDE DEF blocks
  <2> QED BY <2>7, <2>8, NextPrefix, Zenon
<1> HIDE DEF blocks, new
<1>5. proc'[p] = new /\ \A q \in Procs : q # p => proc'[q] = proc[q] BY <1>2 DEF ScanInv, Types
<1>6. /\ data'[s.ino] = blocks
      /\ \A i \in Inodes : i # s.ino => data'[i] = data[i]
      /\ DOMAIN data' = Inodes
  BY <1>1, <1>2 DEF ScanInv, Types
<1>7. new.pc \in {"write", "sync"} BY <1>3
<1>8. Types'
  <2>1. proc' \in [Procs -> Scanners] BY <1>2, <1>3 DEF ScanInv, Types
  <2> QED BY <1>1, <1>2, <1>3, <1>5, <1>6, <1>7, <2>1 DEF ScanInv, Types
<1>9. TmpInv'
  BY <1>1, <1>2, <1>3, <1>5 DEF ScanInv, TmpInv, Published
<1>10. AloneInv'
  <2> SUFFICES ASSUME NEW q \in Procs, Busy(q)', proc'[q].clean
               PROVE  /\ \A r \in Procs : r # q => ~Using(r, proc[q].out)'
                      /\ proc'[q].out = proc[q].out
                      /\ dir[proc'[q].out].tmp = proc'[q].ino
                      /\ proc'[q].pc = "write" =>
                           /\ proc'[q].off = proc'[q].at /\ proc'[q].at < Len(Blocks(proc'[q].index))
                           /\ data'[proc'[q].ino] = Prefix(proc'[q].index, proc'[q].at)
                      /\ proc'[q].pc \in {"sync", "rename"} => data'[proc'[q].ino] = Blocks(proc'[q].index)
                      /\ proc'[q].pc = "rename" => proc'[q].ino \in flushed'
    BY <1>2 DEF AloneInv, Using
  <2>1. \A r \in Procs, x \in Outputs : Using(r, x)' => Using(r, x)
    BY <1>1, <1>3, <1>5, <1>7 DEF Using
  <2>2. CASE q = p
    <3>1. s.clean BY <1>3, <1>5, <2>2
    <3>2. /\ \A r \in Procs : r # p => ~Using(r, s.out)
          /\ dir[s.out].tmp = s.ino /\ s.off = s.at /\ s.at < Len(Blocks(s.index))
      BY <1>1, <3>1 DEF ScanInv, AloneInv, Busy
    <3>3. Len(Blocks(s.index)) \in {2, 3} /\ Blocks(s.index) = Prefix(s.index, Len(Blocks(s.index)))
      BY BlocksArePrefix
    <3>4. blocks = Prefix(s.index, s.at + 1) BY <1>4, <3>1
    <3>5. CASE s.at + 1 = Len(Blocks(s.index))
      BY <1>1, <1>3, <1>5, <1>6, <2>1, <2>2, <3>2, <3>3, <3>4, <3>5
    <3>6. CASE s.at + 1 # Len(Blocks(s.index))
      BY <1>1, <1>3, <1>5, <1>6, <2>1, <2>2, <3>2, <3>3, <3>4, <3>6
    <3> QED BY <3>5, <3>6
  <2>3. CASE q # p
    <3>1. proc'[q] = proc[q] /\ Busy(q) /\ proc[q].clean BY <1>5, <2>3 DEF Busy
    <3>2. proc[q].out \in Outputs /\ proc[q].ino \in Inodes BY <3>1 DEF Busy, ScanInv, Types
    <3>3. ~Using(p, proc[q].out) /\ dir[proc[q].out].tmp = proc[q].ino
      BY <2>3, <3>1 DEF ScanInv, AloneInv
    <3>4. s.out # proc[q].out BY <1>1, <3>3 DEF Using
    <3>5. s.ino # proc[q].ino
      BY <1>1, <3>2, <3>3, <3>4, InodeAssumption DEF ScanInv, TmpInv
    <3> QED BY <1>2, <1>6, <2>1, <3>1, <3>2, <3>5 DEF ScanInv, AloneInv
  <2> QED BY <2>2, <2>3
<1>11. CleanInv'
  <2> SUFFICES ASSUME NEW i \in clean, Published(i)
               PROVE  /\ \E index \in Scans : data'[i] = Blocks(index)
                      /\ i \in flushed'
                      /\ \A q \in Procs : proc'[q].pc = "write" => proc'[q].ino # i
    BY <1>2 DEF CleanInv, Published
  <2>1. i # s.ino /\ i \in Inodes BY <1>1 DEF ScanInv, Types, CleanInv
  <2> QED BY <1>2, <1>3, <1>5, <1>6, <2>1 DEF ScanInv, CleanInv
<1> QED BY <1>8, <1>9, <1>10, <1>11 DEF ScanInv

\* fopen fails, or the end of the writing: the temporary name is unlinked,
\* which an undisturbed scanner of the output cannot have used.
LEMMA WriteFailsStep ==
  ASSUME ScanInv, NEW p \in Procs, WriteFails(p)
  PROVE  ScanInv'
<1> DEFINE new == [proc[p] EXCEPT !.pc = "exit"]
           o == proc[p].out
<1>1. proc[p] \in Scanners /\ proc[p].pc \in {"open", "sync"} /\ o \in Outputs
  BY DEF WriteFails, ScanInv, Types
<1>2. /\ new \in Scanners /\ new.pc = "exit" /\ new.out = o /\ new.index = proc[p].index
      /\ new.ino = proc[p].ino
  BY <1>1 DEF Scanners, Places
<1>3. proc' = [proc EXCEPT ![p] = new] /\ UNCHANGED <<card, durable, data, flushed, clean>>
  BY DEF WriteFails
<1> HIDE DEF new
<1>4. CASE proc[p].pc = "open"
  <2>1. dir' = dir BY <1>4 DEF WriteFails
  <2> QED BY <1>2, <1>3, <1>4, <2>1, MoveOn
<1>5. CASE proc[p].pc = "sync"
  <2>1. dir' = [dir EXCEPT ![o].tmp = None] BY <1>5 DEF WriteFails
  <2>2. proc'[p] = new /\ \A q \in Procs : q # p => proc'[q] = proc[q] BY <1>3 DEF ScanInv, Types
  <2>3. /\ dir' \in [Outputs -> Names]
        /\ \A x \in Outputs : dir'[x].idx = dir[x].idx /\ dir'[x].tmp = (IF x = o THEN None ELSE dir[x].tmp)
    BY <1>1, <2>1 DEF ScanInv, Types, Names
  <2>4. Types'
    <3>1. proc' \in [Procs -> Scanners] BY <1>2, <1>3 DEF ScanInv, Types
    <3> QED BY <1>1, <1>2, <1>3, <2>2, <2>3, <3>1 DEF ScanInv, Types
  <2>5. TmpInv' BY <1>2, <1>3, <2>2, <2>3 DEF ScanInv, TmpInv, Published
  <2>6. AloneInv'
    <3>1. \A r \in Procs, x \in Outputs : Using(r, x)' => Using(r, x) BY <1>2, <2>2 DEF Using
    <3>2. ASSUME NEW q \in Procs, Busy(q)', proc'[q].clean
          PROVE  q # p /\ proc'[q] = proc[q] /\ Busy(q) /\ proc[q].out \in Outputs /\ proc[q].out # o
      <4>1. q # p /\ proc'[q] = proc[q] /\ Busy(q) BY <3>2, <1>2, <2>2 DEF Busy
      <4>2. ~Using(p, proc[q].out) BY <3>2, <4>1 DEF ScanInv, AloneInv
      <4> QED BY <1>5, <4>1, <4>2 DEF Using, Busy, ScanInv, Types
    <3> QED BY <1>3, <2>3, <3>1, <3>2 DEF ScanInv, AloneInv
  <2>7. CleanInv' BY <1>2, <1>3, <2>2, <2>3 DEF ScanInv, CleanInv, Published
  <2> QED BY <2>4, <2>5, <2>6, <2>7 DEF ScanInv
<1> QED BY <1>1, <1>4, <1>5

\* The temporary becomes the index.  When its writer was undisturbed nobody
\* else has it open; otherwise it is no longer counted as clean.
LEMMA RenameStep ==
  ASSUME ScanInv, NEW p \in Procs, Rename(p)
  PROVE  ScanInv'
<1> USE InodeAssumption
<1> DEFINE o == proc[p].out
           tmp == dir[o].tmp
<1>1. proc[p] \in Scanners /\ proc[p].pc = "rename" /\ o \in Outputs
  BY DEF Rename, ScanInv, Types
<1>2. CASE tmp = None
  <2> DEFINE new == [proc[p] EXCEPT !.pc = "exit"]
  <2>1. /\ new \in Scanners /\ new.pc = "exit" /\ new.out = o /\ new.index = proc[p].index
        /\ new.ino = proc[p].ino
    BY <1>1 DEF Scanners, Places
  <2>2. /\ proc' = [proc EXCEPT ![p] = new]
        /\ UNCHANGED <<card, dir, durable, data, flushed, clean>>
    BY <1>2 DEF Rename
  <2> HIDE DEF new
  <2> QED BY <1>1, <2>1, <2>2, MoveOn
<1>3. CASE tmp # None
  <2> DEFINE new == [proc[p] EXCEPT !.pc = "dirsync"]
  <2>1. /\ new \in Scanners /\ new.pc = "dirsync" /\ new.out = o /\ new.index = proc[p].index
        /\ new.ino = proc[p].ino
    BY <1>1 DEF Scanners, Places
  <2>2. /\ proc' = [proc EXCEPT ![p] = new]
        /\ dir' = [dir EXCEPT ![o] = [tmp |-> None, idx |-> tmp]]
        /\ clean' = (IF proc[p].clean THEN clean \cup {tmp} ELSE clean \ {tmp})
        /\ UNCHANGED <<card, durable, data, flushed>>
    BY <1>3 DEF Rename
  <2> HIDE DEF new
  <2>3. proc'[p] = new /\ \A q \in Procs : q # p => proc'[q] = proc[q] BY <2>2 DEF ScanInv, Types
  <2>4. /\ tmp \in Inodes /\ dir' \in [Outputs -> Names]
        /\ \A x \in Outputs : /\ dir'[x].idx = (IF x = o THEN tmp ELSE dir[x].idx)
                              /\ dir'[x].tmp = (IF x = o THEN None ELSE dir[x].tmp)
    BY <1>1, <1>3, <2>2 DEF ScanInv, Types, Names
  <2>5. /\ ~Published(tmp)
        /\ \A x \in Outputs : x # o => dir[x].tmp # tmp
        /\ \A q \in Procs : proc[q].pc = "write" /\ proc[q].ino = tmp => proc[q].out = o
    BY <1>1, <1>3 DEF ScanInv, TmpInv
  <2>6. \A i : Published(i)' => Published(i) \/ i = tmp BY <1>1, <2>2, <2>4 DEF Published
  <2> HIDE DEF tmp
  <2>7. Types'
    <3>1. proc' \in [Procs -> Scanners] BY <2>1, <2>2 DEF ScanInv, Types
    <3>2. clean' \subseteq Inodes BY <2>2, <2>4 DEF ScanInv, Types
    <3> QED BY <1>1, <2>1, <2>2, <2>3, <2>4, <3>1, <3>2 DEF ScanInv, Types
  <2>8. TmpInv'
    <3> SUFFICES ASSUME NEW x \in Outputs, dir'[x].tmp # None
                 PROVE  /\ \A y \in Outputs : dir'[x].tmp # dir'[y].idx /\ dir'[x].tmp # durable[y]
                        /\ \A y \in Outputs : y # x => dir'[y].tmp # dir'[x].tmp
                        /\ \A q \in Procs : proc'[q].pc = "write" /\ proc'[q].ino = dir'[x].tmp => proc'[q].out = x
      BY <2>2 DEF TmpInv, Published
    <3>1. x # o /\ dir'[x].tmp = dir[x].tmp /\ dir[x].tmp # tmp BY <2>4, <2>5
    <3> QED BY <2>1, <2>3, <2>4, <3>1 DEF ScanInv, TmpInv, Published
  <2>9. AloneInv'
    <3>1. \A r \in Procs, x \in Outputs : Using(r, x)' => Using(r, x) BY <2>1, <2>3 DEF Using
    <3>2. ASSUME NEW q \in Procs, Busy(q)', proc'[q].clean
          PROVE  q # p /\ proc'[q] = proc[q] /\ Busy(q) /\ proc[q].out \in Outputs /\ proc[q].out # o
      <4>1. q # p /\ proc'[q] = proc[q] /\ Busy(q) BY <3>2, <2>1, <2>3 DEF Busy
      <4>2. ~Using(p, proc[q].out) BY <3>2, <4>1 DEF ScanInv, AloneInv
      <4> QED BY <1>1, <4>1, <4>2 DEF Using, Busy, ScanInv, Types
    <3> QED BY <2>2, <2>4, <3>1, <3>2 DEF ScanInv, AloneInv
  <2>10. CleanInv'
    <3> SUFFICES ASSUME NEW i \in clean', Published(i)'
                 PROVE  /\ \E index \in Scans : data[i] = Blocks(index)
                        /\ i \in flushed
                        /\ \A q \in Procs : proc'[q].pc = "write" => proc'[q].ino # i
      BY <2>2 DEF CleanInv
    <3>1. CASE i = tmp
      <4>1. proc[p].clean BY <2>2, <3>1
      <4>2. /\ \A q \in Procs : q # p => ~Using(q, o)
            /\ tmp = proc[p].ino /\ data[proc[p].ino] = Blocks(proc[p].index) /\ proc[p].ino \in flushed
        BY <1>1, <4>1 DEF ScanInv, AloneInv, Busy, tmp
      <4>3. proc[p].index \in Scans BY <1>1 DEF ScanInv, Types
      <4>4. \A q \in Procs : proc'[q].pc = "write" => proc'[q].ino # tmp
        BY <2>1, <2>3, <2>5, <4>2 DEF Using
      <4> QED BY <3>1, <4>2, <4>3, <4>4
    <3>2. CASE i # tmp
      <4>1. i \in clean /\ Published(i) BY <2>2, <2>6, <3>2
      <4> QED BY <4>1, <2>1, <2>3 DEF ScanInv, CleanInv
    <3> QED BY <3>1, <3>2
  <2> QED BY <2>7, <2>8, <2>9, <2>10 DEF ScanInv
<1> QED BY <1>2, <1>3

\* The directory is synced: nothing is published that was not.
LEMMA DirSyncStep ==
  ASSUME ScanInv, NEW p \in Procs, sync_parent_dir(p)
  PROVE  ScanInv'
<1> DEFINE new == [proc[p] EXCEPT !.pc = "exit"]
           o == proc[p].out
<1>1. proc[p] \in Scanners /\ proc[p].pc = "dirsync" /\ o \in Outputs
  BY DEF sync_parent_dir, ScanInv, Types
<1>2. /\ new \in Scanners /\ new.pc = "exit" /\ new.out = o /\ new.index = proc[p].index
      /\ new.ino = proc[p].ino
  BY <1>1 DEF Scanners, Places
<1>3. /\ proc' = [proc EXCEPT ![p] = new]
      /\ durable' = [durable EXCEPT ![o] = dir[o].idx]
      /\ UNCHANGED <<card, dir, data, flushed, clean>>
  BY DEF sync_parent_dir
<1> HIDE DEF new
<1>4. proc'[p] = new /\ \A q \in Procs : q # p => proc'[q] = proc[q] BY <1>3 DEF ScanInv, Types
<1>5. /\ durable' \in [Outputs -> Inodes \cup {None}]
      /\ \A i : Published(i)' => Published(i)
  BY <1>1, <1>3 DEF ScanInv, Types, Names, Published
<1>6. Types'
  <2>1. proc' \in [Procs -> Scanners] BY <1>2, <1>3 DEF ScanInv, Types
  <2> QED BY <1>1, <1>2, <1>3, <1>4, <1>5, <2>1 DEF ScanInv, Types
<1>7. TmpInv'
  <2>1. \A x \in Outputs : dir'[x].tmp = dir[x].tmp /\ (Published(dir[x].tmp)' => Published(dir[x].tmp))
    BY <1>1, <1>3 DEF ScanInv, Types, Published
  <2> QED BY <1>2, <1>3, <1>4, <2>1 DEF ScanInv, TmpInv
<1>8. AloneInv'
  <2>1. \A r \in Procs : \A x : Using(r, x)' => Using(r, x) BY <1>2, <1>4 DEF Using
  <2> QED BY <1>2, <1>3, <1>4, <2>1 DEF ScanInv, AloneInv, Busy
<1>9. CleanInv' BY <1>2, <1>3, <1>4, <1>5 DEF ScanInv, CleanInv
<1> QED BY <1>6, <1>7, <1>8, <1>9 DEF ScanInv

\* A scanner is reaped: an inode that nothing leads to any more is emptied.
LEMMA ReapedStep ==
  ASSUME ScanInv, NEW p \in Procs, Reaped(p)
  PROVE  ScanInv'
<1> USE InodeAssumption
<1>1. /\ proc' = [proc EXCEPT ![p] = Gone] /\ UNCHANGED <<card, dir, durable>>
      /\ data' = [i \in Inodes |-> IF Free(i)' THEN <<>> ELSE data[i]]
      /\ flushed' = flushed \cup {i \in Inodes : Free(i)'}
      /\ clean' = {i \in clean : ~Free(i)'}
  BY DEF Reaped
<1>2. Gone \in Scanners /\ Gone.pc = "gone" BY DEF Gone, Scanners, Places
<1>3. proc'[p] = Gone /\ \A q \in Procs : q # p => proc'[q] = proc[q] BY <1>1 DEF ScanInv, Types
<1>4. \A q \in Procs : \A i : i = proc'[q].ino => ~Free(i)' BY DEF Free
<1>5. \A i \in Inodes : ~Free(i)' => data'[i] = data[i] BY <1>1
<1> HIDE DEF Gone
<1>6. Types'
  <2>1. proc' \in [Procs -> Scanners] BY <1>1, <1>2 DEF ScanInv, Types
  <2> QED BY <1>1, <1>2, <1>3, <2>1 DEF ScanInv, Types
<1>7. TmpInv' BY <1>1, <1>2, <1>3 DEF ScanInv, TmpInv, Published
<1>8. AloneInv'
  <2>1. \A r \in Procs : \A x : Using(r, x)' => Using(r, x) BY <1>2, <1>3 DEF Using
  <2>2. ASSUME NEW q \in Procs, Busy(q)'
        PROVE  /\ q # p /\ proc'[q] = proc[q] /\ Busy(q) /\ proc[q].ino \in Inodes
               /\ data'[proc[q].ino] = data[proc[q].ino]
    <3>1. q # p /\ proc'[q] = proc[q] /\ Busy(q) BY <1>2, <1>3, <2>2 DEF Busy
    <3>2. proc[q].ino \in Inodes BY <3>1 DEF Busy, ScanInv, Types
    <3> QED BY <1>4, <1>5, <3>1, <3>2
  <2> QED BY <1>1, <2>1, <2>2 DEF ScanInv, AloneInv
<1>9. CleanInv'
  <2> SUFFICES ASSUME NEW i \in clean, ~Free(i)', Published(i)
               PROVE  /\ \E index \in Scans : data'[i] = Blocks(index)
                      /\ i \in flushed'
                      /\ \A q \in Procs : proc'[q].pc = "write" => proc'[q].ino # i
    BY <1>1 DEF CleanInv, Published
  <2>1. i \in Inodes /\ data'[i] = data[i] BY <1>5 DEF ScanInv, Types
  <2> QED BY <1>1, <1>2, <1>3, <2>1 DEF ScanInv, CleanInv
<1> QED BY <1>6, <1>7, <1>8, <1>9 DEF ScanInv

\* Power is cut: what was published clean was flushed, under either name.
LEMMA CutStep ==
  ASSUME ScanInv, PowerCut
  PROVE  ScanInv'
<1> USE InodeAssumption
<1>1. proc' = [q \in Procs |-> Gone] /\ flushed' = Inodes /\ card' = card BY DEF PowerCut
<1>2. PICK left \in SUBSET {o \in Outputs : dir[o].idx # durable[o]}, kept \in 0..2 :
       /\ dir' = [o \in Outputs |-> [tmp |-> None,
                    idx |-> IF o \in left THEN dir[o].idx ELSE durable[o]]]
       /\ durable' = [o \in Outputs |-> dir'[o].idx]
       /\ data' = [i \in Inodes |->
            CASE Free(i)' -> <<>>
              [] i \in flushed -> data[i]
              [] OTHER -> [b \in 1..(IF kept < Len(data[i]) THEN kept ELSE Len(data[i])) |-> data[i][b]]]
       /\ clean' = {i \in clean : ~Free(i)'}
  BY DEF PowerCut
<1>3. Gone \in Scanners /\ Gone.pc = "gone" BY DEF Gone, Scanners, Places
<1> HIDE DEF Gone
<1>4. /\ \A q \in Procs : proc'[q] = Gone
      /\ \A o \in Outputs : dir'[o].tmp = None /\ durable'[o] = dir'[o].idx
      /\ \A o \in Outputs : dir'[o].idx = dir[o].idx \/ dir'[o].idx = durable[o]
  BY <1>1, <1>2
<1>5. Types'
  <2>1. proc' \in [Procs -> Scanners] BY <1>1, <1>3
  <2>2. \A o \in Outputs : dir[o].idx \in Inodes \cup {None} /\ durable[o] \in Inodes \cup {None}
    BY DEF ScanInv, Types, Names
  <2>3. dir' \in [Outputs -> Names] BY <1>2, <2>2 DEF Names
  <2>4. durable' \in [Outputs -> Inodes \cup {None}] BY <1>2, <1>4, <2>2
  <2>5. DOMAIN data' = Inodes /\ clean' \subseteq Inodes BY <1>2 DEF ScanInv, Types
  <2> QED BY <1>1, <1>3, <1>4, <2>1, <2>3, <2>4, <2>5 DEF ScanInv, Types
<1>6. TmpInv' BY <1>4 DEF TmpInv
<1>7. AloneInv' BY <1>3, <1>4 DEF AloneInv, Busy
<1>8. CleanInv'
  <2> SUFFICES ASSUME NEW i \in clean', Published(i)'
               PROVE  (\E index \in Scans : data'[i] = Blocks(index)) /\ i \in flushed'
    BY <1>3, <1>4 DEF CleanInv
  <2>1. i \in clean /\ i \in Inodes /\ ~Free(i)' BY <1>2 DEF ScanInv, Types
  <2>2. Published(i) BY <1>4 DEF Published
  <2>3. i \in flushed /\ \E index \in Scans : data[i] = Blocks(index)
    BY <2>1, <2>2 DEF ScanInv, CleanInv
  <2>4. data'[i] = data[i] BY <1>2, <2>1, <2>3
  <2> QED BY <1>1, <2>1, <2>3, <2>4
<1> QED BY <1>5, <1>6, <1>7, <1>8 DEF ScanInv

LEMMA StepScan == ScanInv /\ [Next]_vars => ScanInv'
<1> SUFFICES ASSUME ScanInv, [Next]_vars PROVE ScanInv'
  OBVIOUS
<1>1. ASSUME NEW p \in Procs, run_scanner(p) PROVE ScanInv'
  <2>1. /\ \E only \in Ids \cup {None}, thumbs \in BOOLEAN : Launch(p, only, thumbs)
        /\ proc[p] = Gone /\ UNCHANGED <<card, dir, durable, data, flushed, clean>>
    BY <1>1 DEF run_scanner
  <2> QED BY <2>1, LaunchStep
<1>2. ASSUME NEW p \in Procs, trigger_rom_scan_refresh(p) PROVE ScanInv'
  <2>1. /\ \E only \in Ids : Launch(p, only, FALSE)
        /\ proc[p] = Gone /\ UNCHANGED <<card, dir, durable, data, flushed, clean>>
    BY <1>2 DEF trigger_rom_scan_refresh
  <2> QED BY <2>1, LaunchStep
<1>3. CASE FrontendRestarts \/ UNCHANGED vars
  <2>1. UNCHANGED <<card, proc, dir, durable, data, flushed, clean>>
    BY <1>3 DEF FrontendRestarts, vars
  <2> QED BY <2>1 DEF ScanInv, Types, TmpInv, AloneInv, CleanInv, Published, Busy, Using
<1> QED
  BY <1>1, <1>2, <1>3, OpenStep, SyncStep, WriteStep, WriteFailsStep, RenameStep, DirSyncStep, ReapedStep,
     CutStep DEF Next

\* An index that a scanner nobody disturbed has published is the whole result
\* of one scan, now and after any power cut.
THEOREM CleanScanIsWholeHolds == Spec => []CleanScanIsWhole
<1>1. ScanInv => CleanScanIsWhole
  <2> SUFFICES ASSUME ScanInv, NEW o \in Outputs, dir[o].idx \in clean PROVE Whole(o)
    BY DEF CleanScanIsWhole
  <2>1. Published(dir[o].idx) BY DEF Published
  <2>2. PICK index \in Scans : data[dir[o].idx] = Blocks(index)
    BY <2>1 DEF ScanInv, CleanInv
  <2>3. Len(Blocks(index)) \in {2, 3} /\ Blocks(index) = Prefix(index, Len(Blocks(index)))
    BY BlocksArePrefix
  <2>4. Blocks(index)[1] = <<index, 1>> BY <2>3 DEF Prefix
  <2> QED BY <2>2, <2>3, <2>4 DEF Whole
<1> QED BY InitScan, StepScan, <1>1, PTL DEF Spec
=============================================================================

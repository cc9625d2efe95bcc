------------------------- MODULE LaunchSessionProofs -------------------------
(***************************************************************************)
(* Theorems about plumos-text-ui: the game a power cut stopped is the game *)
(* boot starts again, the core screen shows the profile a launch uses, and *)
(* core-overrides.json implements the plain store its callers see.         *)
(***************************************************************************)
EXTENDS LaunchSession, WellFoundedInduction, TLAPS

-----------------------------------------------------------------------------
(* Recursive functions.  Everything the code reads or edits in a loop is   *)
(* a recursive function of the turn; these lemmas say that it exists and   *)
(* that what each turn preserves holds at the last one.                    *)

\* A non-empty set of naturals has a least element.
LEMMA LeastNat ==
    ASSUME NEW S \in SUBSET Nat, S # {}
    PROVE  \E x \in S : \A y \in S : x <= y
<1>1. PICK x \in S : \A y \in S : ~(<<y, x>> \in OpToRel(<, Nat))
  BY NatLessThanWellFounded, WFMin
<1>2. \A y \in S : ~(y < x)
  BY <1>1 DEF OpToRel
<1> QED
  BY <1>2

\* A function defined by recursion on its argument exists, and its values are
\* where the step keeps them.
Turns(A, N) == [A \X (1..N) -> A]
Runs(A, base, N, next) ==
    \E f \in [0..N -> A] : f[0] = base /\ \A n \in 1..N : f[n] = next[<<f[n - 1], n>>]

LEMMA Recursion ==
    ASSUME NEW A, NEW base \in A, NEW N \in Nat, NEW next \in Turns(A, N)
    PROVE  Runs(A, base, N, next)
<1> USE DEF Turns, Runs
<1> DEFINE Upto(m) == \E f \in [0..m -> A] : f[0] = base /\ \A n \in 1..m : f[n] = next[<<f[n - 1], n>>]
           Bad == {m \in 0..N : ~Upto(m)}
<1>1. Upto(0)
  <2> DEFINE f == [n \in 0..0 |-> base]
  <2>1. f \in [0..0 -> A] /\ f[0] = base /\ \A n \in 1..0 : f[n] = next[<<f[n - 1], n>>] OBVIOUS
  <2> QED BY <2>1
<1>2. ASSUME NEW m \in 1..N, Upto(m - 1) PROVE Upto(m)
  <2>1. PICK f \in [0..(m - 1) -> A] : f[0] = base /\ \A n \in 1..(m - 1) : f[n] = next[<<f[n - 1], n>>]
    BY <1>2
  <2> DEFINE last == next[<<f[m - 1], m>>]
             g == [n \in 0..m |-> IF n = m THEN last ELSE f[n]]
  <2>2. last \in A BY <2>1
  <2>3. \A n \in 1..m : n - 1 \in 0..(m - 1) /\ n - 1 # m BY SMT
  <2>4. g \in [0..m -> A] BY <2>1, <2>2
  <2>5. g[0] = base BY <2>1
  <2>6. \A n \in 1..m : g[n] = next[<<g[n - 1], n>>]
    <3> TAKE n \in 1..m
    <3>1. g[n - 1] = f[n - 1] BY <2>3
    <3>2. CASE n = m BY <3>1, <3>2
    <3>3. CASE n # m
      <4>1. n \in 1..(m - 1) BY <3>3
      <4> QED BY <2>1, <3>1, <3>3, <4>1
    <3> QED BY <3>2, <3>3
  <2> HIDE DEF g
  <2> QED BY <2>4, <2>5, <2>6
<1> HIDE DEF Upto
<1>3. Bad = {}
  <2> SUFFICES ASSUME Bad # {} PROVE FALSE OBVIOUS
  <2>1. Bad \in SUBSET Nat OBVIOUS
  <2>2. PICK m \in Bad : \A y \in Bad : m <= y BY <2>1, LeastNat
  <2>3. m # 0 BY <1>1, <2>2
  <2>4. m - 1 \in 0..N /\ m - 1 \notin Bad /\ m \in 1..N BY <2>2, <2>3
  <2> QED BY <1>2, <2>2, <2>4
<1> QED BY <1>3 DEF Upto

\* Induction up to a bound, for a set of good indices.
LEMMA UpTo ==
    ASSUME NEW N \in Nat, NEW Good, 0 \in Good, \A n \in 1..N : n - 1 \in Good => n \in Good
    PROVE  \A n \in 0..N : n \in Good
<1> DEFINE Bad == {m \in 0..N : m \notin Good}
<1> SUFFICES ASSUME Bad # {} PROVE FALSE OBVIOUS
<1>1. Bad \in SUBSET Nat OBVIOUS
<1>2. PICK m \in Bad : \A y \in Bad : m <= y BY <1>1, LeastNat
<1>3. m # 0 BY <1>2
<1>4. m - 1 \in 0..N /\ m - 1 \notin Bad /\ m \in 1..N BY <1>2, <1>3
<1> QED BY <1>2, <1>4

\* What a load of favourites or history reads is a list of the file's entries,
\* and the first entry of the file is read first.
LEMMA DeduplicatedHead ==
    ASSUME NEW S, NEW list \in Seq(S), NEW unread, NEW cap \in Nat \ {0}
    PROVE  /\ Deduplicated(list, unread, cap) \in Seq(S)
           /\ list # <<>> /\ 1 \notin unread =>
                 /\ Deduplicated(list, unread, cap) # <<>>
                 /\ Deduplicated(list, unread, cap)[1] = list[1]
<1> DEFINE Step(acc, n) == IF n \in unread THEN acc ELSE LoadOnce(acc, list[n], cap)
           N == Len(list)
           Is(f) == f = [n \in 0..N |-> IF n = 0 THEN <<>> ELSE Step(f[n - 1], n)]
           read == CHOOSE f : Is(f)
<1>1. Deduplicated(list, unread, cap) = read[N] BY DEF Deduplicated
<1>2. N \in Nat OBVIOUS
<1>3. \A acc \in Seq(S), n \in 1..N : Step(acc, n) \in Seq(S)
  <2>1. \A n \in 1..N : list[n] \in S OBVIOUS
  <2> QED BY <2>1 DEF LoadOnce
<1>4. list # <<>> /\ 1 \notin unread => \A acc \in Seq(S) : acc = <<>> => Step(acc, 1) # <<>> /\ Step(acc, 1)[1] = list[1]
  <2> SUFFICES ASSUME list # <<>>, 1 \notin unread
               PROVE  Step(<<>>, 1) # <<>> /\ Step(<<>>, 1)[1] = list[1] OBVIOUS
  <2>1. list[1] \in S OBVIOUS
  <2>2. DOMAIN << >> = {} OBVIOUS
  <2>3. At(<<>>, list[1].sys, list[1].path) = 0 BY <2>2 DEF At
  <2>4. Len(<<>>) = 0 /\ ~(0 >= cap) OBVIOUS
  <2>5. Step(<<>>, 1) = Append(<<>>, list[1]) BY <2>3, <2>4 DEF LoadOnce
  <2>6. Append(<<>>, list[1]) = <<list[1]>> BY <2>1
  <2> QED BY <2>5, <2>6
<1>5. \A acc \in Seq(S), n \in 1..N : acc # <<>> => Step(acc, n) # <<>> /\ Step(acc, n)[1] = acc[1]
  <2> SUFFICES ASSUME NEW acc \in Seq(S), NEW n \in 1..N, acc # <<>>
               PROVE  Step(acc, n) # <<>> /\ Step(acc, n)[1] = acc[1] OBVIOUS
  <2>1. list[n] \in S OBVIOUS
  <2>2. Append(acc, list[n]) # <<>> /\ Append(acc, list[n])[1] = acc[1] BY <2>1
  <2> QED BY <2>2 DEF LoadOnce
<1> HIDE DEF Step
<1>6. \E f : Is(f)
  <2> DEFINE next == [x \in Seq(S) \X (1..N) |-> Step(x[1], x[2])]
  <2>1. next \in [Seq(S) \X (1..N) -> Seq(S)] BY <1>3
  <2>2. <<>> \in Seq(S) OBVIOUS
  <2>3. \A acc \in Seq(S), n \in 1..N : next[<<acc, n>>] = Step(acc, n) OBVIOUS
  <2> HIDE DEF next, N
  <2> DEFINE A == Seq(S)
             base == <<>>
  <2>a. base \in A /\ next \in Turns(A, N) BY <2>1, <2>2 DEF Turns
  <2> HIDE DEF A, base, Is
  <2>c. Runs(A, base, N, next) BY <1>2, <2>a, Recursion
  <2>b. PICK f \in [0..N -> A] : f[0] = base /\ \A n \in 1..N : f[n] = next[<<f[n - 1], n>>]
    BY <2>c DEF Runs
  <2>4. f \in [0..N -> Seq(S)] /\ f[0] = <<>> /\ \A n \in 1..N : f[n] = next[<<f[n - 1], n>>]
    BY <2>b DEF A, base
  <2>5. \A n \in 1..N : n - 1 \in 0..N /\ f[n - 1] \in Seq(S) BY <1>2, <2>4
  <2>6. \A n \in 1..N : f[n] = Step(f[n - 1], n) BY <2>3, <2>4, <2>5
  <2>7. \A n \in 0..N : n = 0 \/ n \in 1..N BY <1>2
  <2>8. Is(f) BY <2>4, <2>6, <2>7 DEF Is
  <2> QED BY <2>8
<1>7. Is(read) BY <1>6
<1> HIDE DEF read
<1>8. read[0] = <<>> /\ \A n \in 1..N : read[n] = Step(read[n - 1], n) BY <1>2, <1>7
<1> HIDE DEF Is, N
<1> DEFINE Good == {n \in 0..N : /\ read[n] \in Seq(S)
                                 /\ n > 0 /\ list # <<>> /\ 1 \notin unread => read[n] # <<>> /\ read[n][1] = list[1]}
<1>9. 0 \in Good
  <2>1. 0 \in 0..N /\ ~(0 > 0) BY <1>2
  <2>2. read[0] \in Seq(S) BY <1>8
  <2> QED BY <2>1, <2>2
<1>10. ASSUME NEW n \in 1..N, n - 1 \in Good PROVE n \in Good
  <2>0. n - 1 \in 0..N /\ (n # 1 => n - 1 > 0) BY <1>2
  <2>1. read[n - 1] \in Seq(S) BY <1>10 DEF Good
  <2>2. read[n] = Step(read[n - 1], n) BY <1>8
  <2>3. read[n] \in Seq(S) BY <1>3, <2>1, <2>2
  <2>4. ASSUME list # <<>>, 1 \notin unread PROVE read[n] # <<>> /\ read[n][1] = list[1]
    <3>1. CASE n = 1 BY <1>4, <1>8, <2>1, <2>2, <2>4, <3>1
    <3>2. CASE n # 1
      <4>1. read[n - 1] # <<>> /\ read[n - 1][1] = list[1] BY <1>10, <2>0, <2>4, <3>2
      <4> QED BY <1>5, <2>1, <2>2, <4>1
    <3> QED BY <3>1, <3>2
  <2> QED BY <1>2, <2>3, <2>4
<1> HIDE DEF Good
<1>11. \A n \in 0..N : n \in Good BY <1>2, <1>9, <1>10, UpTo
<1>12. N \in 0..N /\ (list # <<>> => N > 0) BY <1>2 DEF N
<1>13. N \in Good BY <1>11, <1>12
<1>14. read[N] \in Seq(S) /\ (list # <<>> /\ 1 \notin unread => read[N] # <<>> /\ read[N][1] = list[1])
  BY <1>12, <1>13 DEF Good
<1> QED BY <1>1, <1>14

-----------------------------------------------------------------------------
(* The relaunch at boot.                                                   *)

IsList(x) == x \in Seq({x[n] : n \in DOMAIN x})

\* The plans of one game that differ at most in the CPU policy.
SameGame(a, b) ==
    /\ a.sys = b.sys /\ a.path = b.path
    /\ a.content = b.content /\ a.profile = b.profile /\ a.options = b.options

\* A boot that relaunches would start g, and can.
WouldRelaunch(g) ==
    LET plan == BootPlan(LoadCoreOverrides(overrides), LoadRecent[1])
    IN  /\ LoadRecent # <<>>
        /\ SameGame(plan, g)
        /\ CanExecute(plan.sys, plan.content, plan.profile)

\* From the saved history on, a boot would start the game of the launch; it
\* still would after the cut, until a relaunch has ended.
RelaunchInv ==
    /\ IsList(recent)
    /\ pc \in {"recorded", "execute", "running"} => WouldRelaunch(game) /\ interrupted = NoGame
    /\ pc \in {"bootExecute", "bootRunning"} => BootMode = "on" /\ WouldRelaunch(game)
    /\ interrupted # NoGame /\ BootMode = "on" =>
          pc \in {"off", "bootExecute", "bootRunning"} /\ WouldRelaunch(interrupted)

\* A list of anything is a list of its own elements.
LEMMA OwnElements ==
    ASSUME NEW S, NEW x \in Seq(S)
    PROVE  IsList(x)
<1>1. x = [n \in 1..Len(x) |-> x[n]] /\ Len(x) \in Nat /\ DOMAIN x = 1..Len(x) OBVIOUS
<1>2. \A n \in 1..Len(x) : x[n] \in {x[m] : m \in DOMAIN x} BY <1>1
<1> QED BY <1>1, <1>2 DEF IsList

\* add_recent_entry puts the game in front.
LEMMA AddedFirst ==
    ASSUME NEW S, NEW list \in Seq(S), NEW e
    PROVE  AddRecentEntry(list, e) \in Seq(S \cup {e}) /\ AddRecentEntry(list, e) # <<>>
           /\ AddRecentEntry(list, e)[1] = e
<1> DEFINE i == At(list, e.sys, e.path)
           rest == IF i > 0 THEN RemoveAt(list, i) ELSE list
           kept == IF Len(rest) < MaxRecents THEN Len(rest) ELSE MaxRecents - 1
<1>1. i = 0 \/ i \in 1..Len(list) BY DEF At
<1>2. rest \in Seq(S)
  <2>1. CASE i = 0 BY <2>1
  <2>2. CASE i \in 1..Len(list)
    <3>1. SubSeq(list, 1, i - 1) \in Seq(S) /\ SubSeq(list, i + 1, Len(list)) \in Seq(S) BY <2>2
    <3> QED BY <2>2, <3>1 DEF RemoveAt
  <2> QED BY <1>1, <2>1, <2>2
<1> HIDE DEF rest
<1>3. kept \in 0..Len(rest)
  <2>1. Len(rest) \in Nat BY <1>2
  <2> QED BY <2>1, LaunchAssumption DEF LaunchAssumption
<1>4. SubSeq(rest, 1, kept) \in Seq(S) BY <1>2, <1>3
<1> DEFINE tail == SubSeq(rest, 1, kept)
<1>5. AddRecentEntry(list, e) = <<e>> \o tail BY DEF AddRecentEntry, rest
<1> HIDE DEF tail, kept
<1>6. tail \in Seq(S \cup {e}) /\ <<e>> \in Seq(S \cup {e})
  <2>1. tail \in Seq(S) BY <1>4 DEF tail
  <2> QED BY <2>1
<1>7. <<e>> \o tail \in Seq(S \cup {e}) /\ Len(<<e>> \o tail) = 1 + Len(tail) /\ (<<e>> \o tail)[1] = e BY <1>6
<1> QED BY <1>5, <1>6, <1>7

\* The history as it is read from a file h.
ReadHistory(h) == Deduplicated(h, {n \in DOMAIN h : h[n].profile = None}, MaxRecents)

\* It is a list, and its first entry is the file's when that one has a profile.
LEMMA ReadHistoryHead ==
    ASSUME NEW h, IsList(h)
    PROVE  /\ ReadHistory(h) \in Seq({h[n] : n \in DOMAIN h})
           /\ h # <<>> /\ h[1].profile # None => ReadHistory(h) # <<>> /\ ReadHistory(h)[1] = h[1]
<1> DEFINE S == {h[n] : n \in DOMAIN h}
           unread == {n \in DOMAIN h : h[n].profile = None}
<1>1. h \in Seq(S) BY DEF IsList
<1>2. MaxRecents \in Nat \ {0} BY LaunchAssumption DEF LaunchAssumption
<1>3. h[1].profile # None => 1 \notin unread OBVIOUS
<1> HIDE DEF S, unread
<1>4. /\ Deduplicated(h, unread, MaxRecents) \in Seq(S)
      /\ h # <<>> /\ 1 \notin unread =>
            /\ Deduplicated(h, unread, MaxRecents) # <<>>
            /\ Deduplicated(h, unread, MaxRecents)[1] = h[1]
  BY <1>1, <1>2, DeduplicatedHead
<1>5. ReadHistory(h) = Deduplicated(h, unread, MaxRecents) BY DEF ReadHistory, unread
<1> QED BY <1>3, <1>4, <1>5 DEF S

\* What a relaunch would do depends on these files only.
LEMMA RelaunchStable ==
    ASSUME UNCHANGED <<catalogue, overrides, card, recent>>, NEW g
    PROVE  WouldRelaunch(g)' = WouldRelaunch(g)
BY DEF WouldRelaunch, BootPlan, LoadRecent, IsListed, Listed, ResolveLaunchProfile, ResolveCpu, CanExecute, RomExists

\* What a launch records is what a boot relaunches.
LEMMA LaunchIsRecorded ==
    ASSUME RelaunchInv,
           NEW s \in Systems, NEW p \in Paths, NEW given \in Given \cup {None}, NEW scan \in BOOLEAN,
           LaunchCommand(s, p, given, scan)
    PROVE  RelaunchInv'
<1> DEFINE plan == PlanOf(LoadCoreOverrides(overrides), s, p, given)
           added == AddRecentEntry(LoadRecent, EntryOf(plan))
<1>1. /\ given # None => IsListed(s, given)
      /\ CanExecute(s, plan.content, plan.profile)
      /\ \E saved \in SaveRecent(added) :
            /\ recent' = saved.file
            /\ pc' = IF saved.ok THEN "recorded" ELSE "idle"
            /\ game' = IF saved.ok THEN plan ELSE NoGame
      /\ interrupted' = NoGame
      /\ UNCHANGED <<card, catalogue, overrides, mode>>
  BY DEF LaunchCommand, Quietly
<1>2. IsList(recent) BY DEF RelaunchInv
<1>3. LoadRecent = ReadHistory(recent) BY DEF LoadRecent, ReadHistory
<1>4. /\ added \in Seq({recent[n] : n \in DOMAIN recent} \cup {EntryOf(plan)})
      /\ added # <<>> /\ added[1] = EntryOf(plan)
  <2>1. LoadRecent \in Seq({recent[n] : n \in DOMAIN recent}) BY <1>2, <1>3, ReadHistoryHead
  <2> QED BY <2>1, AddedFirst
<1>5. IsList(added) BY <1>4, OwnElements
<1> HIDE DEF added
<1>6. \/ recent' = added /\ pc' = "recorded" /\ game' = plan
      \/ recent' \in {recent, added} /\ pc' = "idle"
  BY <1>1 DEF SaveRecent, CommitTempFile
<1>7. IsList(recent)' 
  <2>1. IsList(recent') BY <1>2, <1>5, <1>6
  <2> QED BY <2>1 DEF IsList
<1>8. plan.sys = s /\ plan.path = p /\ plan.content = ContentPath(LoadCoreOverrides(overrides), s, p)
      /\ plan.options = RuntimeOptions(LoadCoreOverrides(overrides), s, p)
      /\ plan.profile = IF given # None THEN given ELSE ResolveLaunchProfile(LoadCoreOverrides(overrides), s, p)
  BY DEF PlanOf
<1>9. plan.profile \in Profiles /\ plan.profile # None /\ plan.profile # NotListed
  BY <1>1, LaunchAssumption DEF LaunchAssumption, CanExecute
<1> HIDE DEF plan
<1>10. IsListed(s, plan.profile)
  <2>1. CASE given # None BY <1>1, <1>8, <2>1
  <2>2. CASE given = None
    <3>1. plan.profile = ResolveLaunchProfile(LoadCoreOverrides(overrides), s, p) BY <1>8, <2>2
    <3> QED BY <1>9, <3>1 DEF ResolveLaunchProfile
  <2> QED BY <2>1, <2>2
<1>11. EntryOf(plan).sys = s /\ EntryOf(plan).path = p /\ EntryOf(plan).content = plan.content
       /\ EntryOf(plan).profile = plan.profile
  BY <1>8 DEF EntryOf
<1>12. ASSUME recent' = added, game' = plan PROVE WouldRelaunch(game)'
  <2>1. LoadRecent' = ReadHistory(added) BY <1>12 DEF LoadRecent, ReadHistory
  <2>2. ReadHistory(added) # <<>> /\ ReadHistory(added)[1] = EntryOf(plan)
    BY <1>4, <1>5, <1>9, <1>11, ReadHistoryHead
  <2>3. PICK e : e = EntryOf(plan) OBVIOUS
  <2>4. PICK state : state = LoadCoreOverrides(overrides) OBVIOUS
  <2>5. LoadCoreOverrides(overrides)' = state BY <1>1, <2>4
  <2>6. LoadRecent' # <<>> /\ LoadRecent[1]' = e BY <2>1, <2>2, <2>3
  <2> DEFINE again == BootPlan(state, e)
  <2>7. again.sys = s /\ again.path = p /\ again.content = plan.content /\ again.options = plan.options
    BY <1>8, <1>11, <2>3, <2>4 DEF BootPlan
  <2>8. again.profile = plan.profile
    BY <1>10, <1>11, <2>3 DEF BootPlan
  <2>9. BootPlan(LoadCoreOverrides(overrides), LoadRecent[1])' = again
    BY <1>1, <2>5, <2>6 DEF BootPlan, IsListed, Listed, ResolveLaunchProfile, ResolveCpu
  <2> HIDE DEF again
  <2>10. PICK a, g : a = again /\ g = plan OBVIOUS
  <2>11. SameGame(a, g) BY <1>8, <2>7, <2>8, <2>10 DEF SameGame
  <2>12. CanExecute(a.sys, a.content, a.profile) BY <1>1, <2>7, <2>8, <2>10
  <2>13. CanExecute(a.sys, a.content, a.profile)' BY <1>1, <2>12 DEF CanExecute, RomExists
  <2> QED BY <1>12, <2>6, <2>9, <2>10, <2>11, <2>13 DEF WouldRelaunch
<1> QED BY <1>1, <1>6, <1>7, <1>12 DEF RelaunchInv, BootMode

\* Every other command leaves a list that can be read.
LEMMA HistoryStaysList ==
    ASSUME IsList(recent), NEW e, NEW saved \in SaveRecent(AddRecentEntry(LoadRecent, e))
    PROVE  IsList(saved.file)
<1>1. LoadRecent = ReadHistory(recent) BY DEF LoadRecent, ReadHistory
<1>2. LoadRecent \in Seq({recent[n] : n \in DOMAIN recent}) BY <1>1, ReadHistoryHead
<1>3. AddRecentEntry(LoadRecent, e) \in Seq({recent[n] : n \in DOMAIN recent} \cup {e}) BY <1>2, AddedFirst
<1>4. IsList(AddRecentEntry(LoadRecent, e)) BY <1>3, OwnElements
<1>5. saved.file \in {recent, AddRecentEntry(LoadRecent, e)} BY DEF SaveRecent, CommitTempFile
<1> QED BY <1>4, <1>5

\* RelaunchInv is inductive.
LEMMA RelaunchStep ==
    ASSUME RelaunchInv, [Next]_vars
    PROVE  RelaunchInv'
<1> DEFINE Files4 == UNCHANGED <<catalogue, overrides, card, recent>>
<1>1. ASSUME Files4 PROVE \A g : WouldRelaunch(g)' = WouldRelaunch(g) BY <1>1, RelaunchStable
<1>2. ASSUME Files4 PROVE IsList(recent)' BY <1>2 DEF RelaunchInv, IsList
<1>3. ASSUME Idle, pc' = pc, IsList(recent)', mode' = mode,
             interrupted' = NoGame \/ (Files4 /\ interrupted' = interrupted)
                           \/ (interrupted' = interrupted /\ ~(interrupted # NoGame /\ BootMode = "on"))
      PROVE  RelaunchInv'
  BY <1>3 DEF RelaunchInv, Idle, BootMode
<1>4. ASSUME Files4, mode' = mode, interrupted' = interrupted, game' = game,
             \/ pc = "recorded" /\ pc' = "execute"
             \/ pc = "execute" /\ pc' = "running"
             \/ pc = "bootExecute" /\ pc' = "bootRunning"
      PROVE  RelaunchInv'
  <2>1. PICK g : g = game OBVIOUS
  <2>2. WouldRelaunch(g) /\ game' = g BY <1>4, <2>1 DEF RelaunchInv
  <2>3. WouldRelaunch(g)' BY <1>1, <1>4, <2>2
  <2>4. WouldRelaunch(game)' BY <2>2, <2>3 DEF WouldRelaunch
  <2>5. PICK i : i = interrupted OBVIOUS
  <2>6. interrupted # NoGame /\ BootMode = "on" => WouldRelaunch(i)
    BY <2>5 DEF RelaunchInv
  <2>7. interrupted' = i BY <1>4, <2>5
  <2>8. interrupted # NoGame /\ BootMode = "on" => WouldRelaunch(interrupted)'
    BY <1>1, <1>4, <2>6, <2>7 DEF WouldRelaunch
  <2> QED BY <1>2, <1>4, <2>4, <2>8 DEF RelaunchInv, BootMode
<1>5. CASE \E s \in Systems, p \in Paths, given \in Given \cup {None}, scan \in BOOLEAN : LaunchCommand(s, p, given, scan)
  BY <1>5, LaunchIsRecorded
<1>6. ASSUME NEW s \in Systems, NEW p \in Paths, NEW given \in Given \cup {None}, NEW scan \in BOOLEAN,
             RecentAdd(s, p, given, scan) \/ ResumeSet(s, p, given, scan)
      PROVE  RelaunchInv'
  <2>1. Idle /\ pc' = pc /\ mode' = mode /\ interrupted' = NoGame BY <1>6 DEF RecentAdd, ResumeSet
  <2>2. recent' = recent \/ \E e : \E saved \in SaveRecent(AddRecentEntry(LoadRecent, e)) : recent' = saved.file
    BY <1>6 DEF RecentAdd, ResumeSet
  <2>3. IsList(recent) BY DEF RelaunchInv
  <2>4. IsList(recent') BY <2>2, <2>3, HistoryStaysList
  <2>5. IsList(recent)' BY <2>4 DEF IsList
  <2> QED BY <1>3, <2>1, <2>5
<1>7. ASSUME NEW s \in Systems, NEW p \in Paths, NEW scan \in BOOLEAN, NEW a, Favorite(s, p, a, scan)
      PROVE  RelaunchInv'
  BY <1>2, <1>3, <1>7 DEF Favorite, Quietly, RelaunchInv
<1>8. ASSUME NEW s \in Systems, NEW p, NEW ops, NEW scan \in BOOLEAN, Core(s, p, ops, scan)
      PROVE  RelaunchInv'
  <2>1. Idle /\ pc' = pc /\ mode' = mode /\ interrupted' = interrupted /\ recent' = recent BY <1>8 DEF Core
  <2>2. IsList(recent)' BY <2>1 DEF RelaunchInv, IsList
  <2>3. ~(interrupted # NoGame /\ BootMode = "on") BY <2>1 DEF RelaunchInv, Idle
  <2> QED BY <1>3, <2>1, <2>2, <2>3
<1>9. ASSUME NEW s \in Systems, ListRoms(s, TRUE) PROVE RelaunchInv'
  BY <1>2, <1>3, <1>9 DEF ListRoms, Quietly
<1>10. CASE ResumeClear
  BY <1>2, <1>3, <1>10 DEF ResumeClear, Quietly
<1>11. CASE MarkPending
  <2>1. Files4 /\ mode' = mode /\ interrupted' = interrupted /\ pc = "recorded"
        /\ ((pc' = "execute" /\ game' = game) \/ pc' = "idle")
    BY <1>11 DEF MarkPending, Quietly
  <2>2. CASE pc' = "execute" /\ game' = game BY <1>4, <2>1, <2>2
  <2>3. CASE pc' = "idle" BY <1>2, <2>1, <2>3 DEF RelaunchInv
  <2> QED BY <2>1, <2>2, <2>3
<1>12. CASE StartGame BY <1>4, <1>12 DEF StartGame, Quietly
<1>13. CASE GameEnds BY <1>2, <1>13 DEF GameEnds, Quietly, RelaunchInv
<1>14. CASE StopHotkeyd \/ PersistVolume \/ ClearPending
  <2>1. Files4 /\ mode' = mode /\ interrupted' = interrupted
        /\ pc \notin {"off", "bootExecute", "bootRunning"}
        /\ pc' \in {"persist", "bootPersist", "clear", "idle"}
    BY <1>14 DEF StopHotkeyd, PersistVolume, ClearPending, Quietly
  <2> QED BY <1>2, <2>1 DEF RelaunchInv, BootMode
<1>15. CASE PowerCut
  <2>1. Files4 /\ mode' = mode /\ pc' = "off" BY <1>15 DEF PowerCut, Quietly
  <2>2. PICK g, i : g = game /\ i = interrupted OBVIOUS
  <2>3. CASE pc \in {"running", "bootRunning"}
    <3>1. interrupted' = g BY <1>15, <2>2, <2>3 DEF PowerCut
    <3>2. WouldRelaunch(g) BY <2>2, <2>3 DEF RelaunchInv
    <3>3. WouldRelaunch(interrupted)' BY <1>1, <2>1, <3>1, <3>2 DEF WouldRelaunch
    <3> QED BY <1>2, <2>1, <3>3 DEF RelaunchInv
  <2>4. CASE pc \notin {"running", "bootRunning"}
    <3>1. interrupted' = i BY <1>15, <2>2, <2>4 DEF PowerCut
    <3>2. i # NoGame /\ BootMode = "on" => WouldRelaunch(i) BY <2>2 DEF RelaunchInv
    <3>3. i # NoGame /\ BootMode = "on" => WouldRelaunch(interrupted)' BY <1>1, <2>1, <3>1, <3>2 DEF WouldRelaunch
    <3>4. BootMode' = BootMode BY <2>1 DEF BootMode
    <3> QED BY <1>2, <2>1, <3>1, <3>3, <3>4 DEF RelaunchInv
  <2> QED BY <2>3, <2>4
<1>16. CASE Boot
  <2> DEFINE plan == BootPlan(LoadCoreOverrides(overrides), LoadRecent[1])
             relaunch == /\ BootMode = "on" /\ LoadRecent # <<>>
                         /\ CanExecute(plan.sys, plan.content, plan.profile)
  <2>1. /\ Files4 /\ mode' = mode /\ interrupted' = interrupted /\ pc = "off"
        /\ pc' = (IF relaunch THEN "bootExecute" ELSE "idle")
        /\ game' = IF relaunch THEN plan ELSE NoGame
    BY <1>16 DEF Boot, Quietly
  <2> HIDE DEF plan
  <2>2. PICK g, i : g = plan /\ i = interrupted OBVIOUS
  <2>3. i # NoGame /\ BootMode = "on" => WouldRelaunch(i) BY <2>2 DEF RelaunchInv
  <2>4. i # NoGame /\ BootMode = "on" => relaunch BY <2>3 DEF WouldRelaunch, plan
  <2>5. i # NoGame /\ BootMode = "on" => WouldRelaunch(interrupted)'
    BY <1>1, <2>1, <2>2, <2>3 DEF WouldRelaunch
  <2>6. ASSUME relaunch PROVE WouldRelaunch(game)'
    <3>1. WouldRelaunch(g) BY <2>2, <2>6 DEF WouldRelaunch, SameGame, plan
    <3>2. game' = g BY <2>1, <2>2, <2>6
    <3> QED BY <1>1, <2>1, <3>1, <3>2 DEF WouldRelaunch
  <2>7. BootMode' = BootMode BY <2>1 DEF BootMode
  <2> HIDE DEF relaunch
  <2>8. relaunch => BootMode = "on" BY DEF relaunch
  <2> QED BY <1>2, <2>1, <2>2, <2>4, <2>5, <2>6, <2>7, <2>8 DEF RelaunchInv
<1>17. ASSUME NEW s \in Systems, NEW f \in Files, ChangeCard(s, f) PROVE RelaunchInv'
  <2>1. pc \in {"idle", "off"} /\ pc' = pc /\ recent' = recent /\ interrupted' = NoGame
    BY <1>17 DEF ChangeCard, Quietly
  <2> QED BY <2>1 DEF RelaunchInv, IsList
<1>18. CASE ReplaceCatalogue
  <2>1. Idle /\ pc' = pc /\ mode' = mode /\ interrupted' = NoGame /\ recent' = recent
    BY <1>18 DEF ReplaceCatalogue
  <2> QED BY <1>3, <2>1 DEF RelaunchInv, IsList
<1>19. CASE UNCHANGED vars
  <2>1. Files4 /\ UNCHANGED <<mode, interrupted, game, pc>> BY <1>19 DEF vars, overrideVars, launchVars
  <2>2. PICK g, i : g = game /\ i = interrupted OBVIOUS
  <2>3. (pc \in {"recorded", "execute", "running"} => WouldRelaunch(g) /\ i = NoGame)
        /\ (pc \in {"bootExecute", "bootRunning"} => BootMode = "on" /\ WouldRelaunch(g))
        /\ (i # NoGame /\ BootMode = "on" => pc \in {"off", "bootExecute", "bootRunning"} /\ WouldRelaunch(i))
    BY <2>2 DEF RelaunchInv
  <2>4. game' = g /\ interrupted' = i /\ pc' = pc BY <2>1, <2>2
  <2>5. BootMode' = BootMode BY <2>1 DEF BootMode
  <2>6. WouldRelaunch(g) => WouldRelaunch(game)' BY <1>1, <2>1, <2>4 DEF WouldRelaunch
  <2>7. WouldRelaunch(i) => WouldRelaunch(interrupted)' BY <1>1, <2>1, <2>4 DEF WouldRelaunch
  <2> QED BY <1>2, <2>1, <2>3, <2>4, <2>5, <2>6, <2>7 DEF RelaunchInv
<1> QED
  BY <1>5, <1>6, <1>7, <1>8, <1>9, <1>10, <1>11, <1>12, <1>13, <1>14, <1>15, <1>16, <1>17, <1>18, <1>19
  DEF Next

\* A game that a power cut stopped is the one boot starts again, with the same
\* content, profile and options (build_launch_plan at boot): for every
\* catalogue, set of overrides and history, and every sequence of commands,
\* failing saves and power cuts.
THEOREM RelaunchesWhatWasCutHolds == Spec => []RelaunchesWhatWasCut
<1>1. Init => RelaunchInv
  BY LaunchAssumption DEF LaunchAssumption, Init, RelaunchInv, IsList, NoGame
<1>2. RelaunchInv => RelaunchesWhatWasCut
  <2> SUFFICES ASSUME RelaunchInv, pc \in {"bootExecute", "bootRunning"}, interrupted # NoGame
               PROVE  RelaunchesWhatWasCut BY DEF RelaunchesWhatWasCut
  <2>1. WouldRelaunch(game) /\ WouldRelaunch(interrupted) BY DEF RelaunchInv
  <2> QED BY <2>1 DEF WouldRelaunch, SameGame, RelaunchesWhatWasCut
<1> QED BY <1>1, <1>2, RelaunchStep, PTL DEF Spec

-----------------------------------------------------------------------------
(* The document as it is loaded.                                           *)

\* What load_core_overrides keeps, and keeps as it is.
LoadedEntries(rom) == {e \in Entries : Readable(e, rom) /\ Cleaned(e) = e}

\* Cleaning an entry once is enough.
LEMMA CleanedOnce ==
    ASSUME NEW e \in Entries, NEW rom \in BOOLEAN, Readable(e, rom)
    PROVE  Cleaned(e) \in LoadedEntries(rom) /\ Cleaned(e).sys = e.sys /\ Cleaned(e).path = e.path
<1> DEFINE v == [f \in Fields |-> IF f \in SystemFields \/ Accepted(f, e.val[f]) THEN e.val[f] ELSE None]
           c == [e EXCEPT !.val = v]
<1>1. Cleaned(e) = c BY DEF Cleaned
<1>2. e.val \in [Fields -> Values] /\ None \in Values BY DEF Entries, Values
<1>3. v \in [Fields -> Values] BY <1>2
<1>4. \A f \in Fields : v[f] = IF f \in SystemFields \/ Accepted(f, e.val[f]) THEN e.val[f] ELSE None OBVIOUS
<1>5. "cpu" \in Fields /\ "cpu" \in SystemFields BY OverrideAssumption DEF OverrideAssumption, SystemFields
<1> HIDE DEF v
<1>6. c \in Entries /\ c.val = v /\ c.sys = e.sys /\ c.path = e.path BY <1>3 DEF Entries
<1>7. Readable(c, rom) BY <1>4, <1>5, <1>6 DEF Readable
<1>8. Cleaned(c) = c
  <2> DEFINE w == [f \in Fields |-> IF f \in SystemFields \/ Accepted(f, v[f]) THEN v[f] ELSE None]
  <2>1. \A f \in Fields : w[f] = v[f] BY <1>4 DEF Accepted
  <2>2. w = v BY <1>3, <2>1
  <2>3. Cleaned(c) = [c EXCEPT !.val = w] BY <1>6 DEF Cleaned
  <2> HIDE DEF w
  <2> QED BY <1>6, <2>2, <2>3 DEF Entries
<1> QED BY <1>1, <1>6, <1>7, <1>8 DEF LoadedEntries

\* The turns of the loop that loads an array.
LEMMA Loading ==
    ASSUME NEW entries \in Seq(Entries), NEW cap \in Nat, NEW rom \in BOOLEAN
    PROVE  \E read \in [0..Len(entries) -> Seq(LoadedEntries(rom))] :
              /\ read[0] = <<>>
              /\ \A n \in 1..Len(entries) : read[n] = LoadEntry(read[n - 1], entries[n], cap, rom)
              /\ LoadEntries(entries, cap, rom) = read[Len(entries)]
<1> DEFINE N == Len(entries)
           A == Seq(LoadedEntries(rom))
           base == <<>>
           Step(acc, n) == LoadEntry(acc, entries[n], cap, rom)
           Is(f) == f = [n \in 0..N |-> IF n = 0 THEN <<>> ELSE Step(f[n - 1], n)]
           read == CHOOSE f : Is(f)
           next == [x \in A \X (1..N) |-> Step(x[1], x[2])]
<1>1. LoadEntries(entries, cap, rom) = read[N] BY DEF LoadEntries
<1>2. N \in Nat /\ base \in A OBVIOUS
<1>3. \A acc \in A, n \in 1..N : Step(acc, n) \in A
  <2> SUFFICES ASSUME NEW acc \in A, NEW n \in 1..N PROVE Step(acc, n) \in A OBVIOUS
  <2>1. entries[n] \in Entries OBVIOUS
  <2>2. Readable(entries[n], rom) => Cleaned(entries[n]) \in LoadedEntries(rom) BY <2>1, CleanedOnce
  <2> QED BY <2>2 DEF LoadEntry
<1> HIDE DEF Step, N
<1>4. next \in Turns(A, N) BY <1>3 DEF Turns
<1>5. \A acc \in A, n \in 1..N : next[<<acc, n>>] = Step(acc, n) OBVIOUS
<1> HIDE DEF next, A, base, Is
<1>6. Runs(A, base, N, next) BY <1>2, <1>4, Recursion
<1>7. PICK f \in [0..N -> A] : f[0] = base /\ \A n \in 1..N : f[n] = next[<<f[n - 1], n>>] BY <1>6 DEF Runs
<1>8. \A n \in 1..N : n - 1 \in 0..N /\ f[n - 1] \in A BY <1>2, <1>7
<1>9. \A n \in 1..N : f[n] = Step(f[n - 1], n) BY <1>5, <1>7, <1>8
<1>10. \A n \in 0..N : n = 0 \/ n \in 1..N BY <1>2
<1>11. Is(f) BY <1>7, <1>9, <1>10 DEF Is, base
<1>12. Is(read) BY <1>11
<1> HIDE DEF read
<1>13. DOMAIN read = 0..N /\ read = [n \in DOMAIN read |-> read[n]]
       /\ read[0] = base /\ \A n \in 1..N : read[n] = Step(read[n - 1], n)
  <2>1. read = [n \in 0..N |-> IF n = 0 THEN <<>> ELSE Step(read[n - 1], n)] BY <1>12 DEF Is
  <2>2. DOMAIN read = 0..N BY <2>1
  <2>3. read = [n \in DOMAIN read |-> read[n]] BY <2>1
  <2>4. 0 \in 0..N /\ \A n \in 1..N : n \in 0..N /\ n # 0 BY <1>2
  <2>5. read[0] = base BY <2>1, <2>4 DEF base
  <2>6. \A n \in 1..N : read[n] = Step(read[n - 1], n) BY <2>1, <2>4
  <2> QED BY <2>2, <2>3, <2>5, <2>6
<1> DEFINE Good == {n \in 0..N : read[n] \in A}
<1>14. 0 \in Good BY <1>2, <1>13
<1>15. \A n \in 1..N : n - 1 \in Good => n \in Good BY <1>2, <1>3, <1>13
<1> HIDE DEF Good
<1>16. \A n \in 0..N : n \in Good BY <1>2, <1>14, <1>15, UpTo
<1>17. read \in [0..N -> A] BY <1>13, <1>16 DEF Good
<1> QED BY <1>1, <1>13, <1>17 DEF A, base, Step, N

\* An array of the loaded document: within its capacity, no key twice.
Arrays(rom, cap) == {a \in Seq(LoadedEntries(rom)) : Len(a) <= cap /\ Unrepeated(a)}
SameKey(d, e) == d.sys = e.sys /\ d.path = e.path

\* A new key at the end is not a repetition.
LEMMA UnrepeatedAppend ==
    ASSUME NEW T, NEW a \in Seq(T), Unrepeated(a), NEW e \in T, \A j \in DOMAIN a : ~SameKey(a[j], e)
    PROVE  Unrepeated(Append(a, e))
<1> DEFINE b == Append(a, e)
<1>1. /\ b \in Seq(T) /\ Len(b) = Len(a) + 1 /\ DOMAIN b = 1..(Len(a) + 1) /\ DOMAIN a = 1..Len(a)
      /\ b[Len(a) + 1] = e /\ \A j \in 1..Len(a) : b[j] = a[j]
      /\ Len(a) \in Nat
  OBVIOUS
<1> HIDE DEF b
<1> SUFFICES ASSUME NEW i \in 1..(Len(a) + 1), NEW j \in 1..(Len(a) + 1),
                    b[i].sys = b[j].sys /\ b[i].path = b[j].path
             PROVE  i = j
  BY <1>1 DEF Unrepeated, b
<1>2. CASE i \in 1..Len(a) /\ j \in 1..Len(a) BY <1>1, <1>2 DEF Unrepeated
<1>3. CASE i = Len(a) + 1 /\ j \in 1..Len(a) BY <1>1, <1>3 DEF SameKey
<1>4. CASE j = Len(a) + 1 /\ i \in 1..Len(a) BY <1>1, <1>4 DEF SameKey
<1>5. CASE i = Len(a) + 1 /\ j = Len(a) + 1 BY <1>5
<1> QED BY <1>1, <1>2, <1>3, <1>4, <1>5

\* A load reads an array.
LEMMA LoadResult ==
    ASSUME NEW entries \in Seq(Entries), NEW cap \in Nat, NEW rom \in BOOLEAN, Unrepeated(entries)
    PROVE  LoadEntries(entries, cap, rom) \in Arrays(rom, cap)
<1> DEFINE N == Len(entries)
           T == LoadedEntries(rom)
<1>1. PICK read \in [0..N -> Seq(T)] :
              /\ read[0] = <<>>
              /\ \A n \in 1..N : read[n] = LoadEntry(read[n - 1], entries[n], cap, rom)
              /\ LoadEntries(entries, cap, rom) = read[N]
  BY Loading
<1>2. N \in Nat /\ DOMAIN entries = 1..N OBVIOUS
<1>3. \A n \in 1..N : entries[n] \in Entries OBVIOUS
<1> HIDE DEF N
<1> DEFINE Good == {n \in 0..N : /\ Len(read[n]) <= cap /\ Unrepeated(read[n])
                                 /\ \A j \in DOMAIN read[n] : \E i \in 1..n : SameKey(read[n][j], entries[i])}
<1>4. 0 \in Good
  <2>1. 0 \in 0..N /\ DOMAIN << >> = {} /\ Len(<<>>) = 0 BY <1>2
  <2> QED BY <1>1, <2>1 DEF Unrepeated
<1>5. ASSUME NEW n \in 1..N, n - 1 \in Good PROVE n \in Good
  <2>1. n - 1 \in 0..N /\ n \in 0..N /\ \A i \in 1..(n - 1) : i \in 1..n /\ i \in 1..N /\ i # n BY <1>2
  <2>2. read[n - 1] \in Seq(T) /\ entries[n] \in Entries BY <1>1, <1>3, <2>1
  <2>3. PICK a : a = read[n - 1] OBVIOUS
  <2>4. a \in Seq(T) /\ Len(a) <= cap /\ Unrepeated(a)
        /\ \A j \in DOMAIN a : \E i \in 1..(n - 1) : SameKey(a[j], entries[i])
    BY <1>5, <2>2, <2>3
  <2>5. read[n] = LoadEntry(a, entries[n], cap, rom) BY <1>1, <2>3
  <2> HIDE DEF Good
  <2>6. CASE ~(Readable(entries[n], rom) /\ Len(a) < cap)
    <3>1. read[n] = a BY <2>5, <2>6 DEF LoadEntry
    <3> QED BY <2>1, <2>4, <3>1 DEF Good
  <2>7. CASE Readable(entries[n], rom) /\ Len(a) < cap
    <3>1. read[n] = Append(a, Cleaned(entries[n])) BY <2>5, <2>7 DEF LoadEntry
    <3>2. Cleaned(entries[n]) \in T /\ SameKey(Cleaned(entries[n]), entries[n])
      BY <2>2, <2>7, CleanedOnce DEF SameKey
    <3> DEFINE c == Cleaned(entries[n])
    <3>3. \A j \in DOMAIN a : ~SameKey(a[j], c)
      <4> SUFFICES ASSUME NEW j \in DOMAIN a, SameKey(a[j], c) PROVE FALSE OBVIOUS
      <4>1. PICK i \in 1..(n - 1) : SameKey(a[j], entries[i]) BY <2>4
      <4>2. SameKey(entries[i], entries[n]) BY <3>2, <4>1 DEF SameKey
      <4>3. i = n BY <1>2, <2>1, <4>2 DEF Unrepeated, SameKey
      <4> QED BY <2>1, <4>3
    <3>4. Unrepeated(Append(a, c)) BY <2>4, <3>2, <3>3, UnrepeatedAppend
    <3>5. Len(Append(a, c)) <= cap BY <2>4, <2>7, <3>2
    <3>6. \A j \in DOMAIN Append(a, c) : \E i \in 1..n : SameKey(Append(a, c)[j], entries[i])
      <4> TAKE j \in DOMAIN Append(a, c)
      <4>1. CASE j \in DOMAIN a
        <5>1. Append(a, c)[j] = a[j] BY <2>4, <3>2, <4>1
        <5> QED BY <2>1, <2>4, <4>1, <5>1
      <4>2. CASE j = Len(a) + 1
        <5>1. Append(a, c)[j] = c BY <2>4, <3>2, <4>2
        <5> QED BY <1>2, <3>2, <5>1
      <4> QED BY <2>4, <3>2, <4>1, <4>2
    <3> QED BY <2>1, <3>1, <3>4, <3>5, <3>6 DEF Good
  <2> QED BY <2>6, <2>7
<1> HIDE DEF Good
<1>6. \A n \in 0..N : n \in Good BY <1>2, <1>4, <1>5, UpTo
<1>7. N \in 0..N /\ N \in Good BY <1>2, <1>6
<1> QED BY <1>1, <1>7 DEF Arrays, Good

\* What was loaded and saved is loaded again as it is.
LEMMA LoadAgain ==
    ASSUME NEW cap \in Nat, NEW rom \in BOOLEAN, NEW entries \in Arrays(rom, cap)
    PROVE  LoadEntries(entries, cap, rom) = entries
<1> DEFINE N == Len(entries)
           T == LoadedEntries(rom)
<1>1. entries \in Seq(T) /\ N <= cap BY DEF Arrays
<1>2. T \subseteq Entries /\ entries \in Seq(Entries)
  <2>1. T \subseteq Entries BY DEF LoadedEntries
  <2> QED BY <1>1, <2>1
<1>3. PICK read \in [0..N -> Seq(T)] :
              /\ read[0] = <<>>
              /\ \A n \in 1..N : read[n] = LoadEntry(read[n - 1], entries[n], cap, rom)
              /\ LoadEntries(entries, cap, rom) = read[N]
  BY <1>2, Loading
<1>4. N \in Nat /\ \A n \in 1..N : entries[n] \in T BY <1>1
<1> HIDE DEF N
<1> DEFINE Good == {n \in 0..N : Len(read[n]) = n /\ \A j \in 1..n : read[n][j] = entries[j]}
<1>5. 0 \in Good
  <2>1. 0 \in 0..N /\ 1..0 = {} /\ Len(<<>>) = 0 BY <1>4
  <2> QED BY <1>3, <2>1
<1>6. ASSUME NEW n \in 1..N, n - 1 \in Good PROVE n \in Good
  <2>1. n - 1 \in 0..N /\ n \in 0..N /\ n - 1 < cap /\ \A j \in 1..n : j = n \/ j \in 1..(n - 1) BY <1>1, <1>4 DEF N
  <2>2. PICK a : a = read[n - 1] OBVIOUS
  <2>3. a \in Seq(T) /\ Len(a) = n - 1 /\ \A j \in 1..(n - 1) : a[j] = entries[j]
    BY <1>3, <1>6, <2>1, <2>2
  <2>4. entries[n] \in T BY <1>4
  <2>5. Readable(entries[n], rom) /\ Cleaned(entries[n]) = entries[n] BY <2>4 DEF LoadedEntries
  <2>6. read[n] = Append(a, entries[n]) BY <1>3, <2>1, <2>2, <2>3, <2>5 DEF LoadEntry
  <2>7. Len(read[n]) = n /\ \A j \in 1..n : read[n][j] = entries[j] BY <2>1, <2>3, <2>4, <2>6
  <2> QED BY <2>1, <2>7
<1> HIDE DEF Good
<1>7. \A n \in 0..N : n \in Good BY <1>4, <1>5, <1>6, UpTo
<1>8. N \in 0..N /\ N \in Good BY <1>4, <1>7
<1>9. Len(read[N]) = N /\ \A j \in 1..N : read[N][j] = entries[j] BY <1>8 DEF Good
<1>10. read[N] \in Seq(T) BY <1>3, <1>8
<1>11. read[N] = entries BY <1>1, <1>9, <1>10 DEF N
<1> QED BY <1>3, <1>11

-----------------------------------------------------------------------------
(* Editing the document.                                                   *)

\* Settings an entry may have once it is loaded.
LoadedValues == {v \in [Fields -> Values] : \A f \in Fields \ {"profile"} : Accepted(f, v[f])}

LEMMA LoadedEntriesAre ==
    ASSUME NEW e \in Entries, NEW rom \in BOOLEAN
    PROVE  e \in LoadedEntries(rom) <=> e.val \in LoadedValues /\ (rom => e.path # NoPath)
<1> DEFINE v == [f \in Fields |-> IF f \in SystemFields \/ Accepted(f, e.val[f]) THEN e.val[f] ELSE None]
<1>1. "cpu" \in Fields /\ SystemFields = {"profile", "cpu"}
  BY OverrideAssumption DEF OverrideAssumption, SystemFields
<1>2. e.val \in [Fields -> Values] BY DEF Entries
<1>3. \A f \in Fields : v[f] = IF f \in SystemFields \/ Accepted(f, e.val[f]) THEN e.val[f] ELSE None OBVIOUS
<1>4. v \in [Fields -> Values] BY <1>2 DEF Values
<1>5. Cleaned(e) = [e EXCEPT !.val = v] BY DEF Cleaned
<1> HIDE DEF v
<1>6. Cleaned(e) = e <=> v = e.val BY <1>5 DEF Entries
<1>7. v = e.val <=> \A f \in Fields : v[f] = e.val[f] BY <1>2, <1>4
<1>8. \A f \in Fields : v[f] = e.val[f] <=> f \in SystemFields \/ Accepted(f, e.val[f])
  BY <1>3 DEF Accepted
<1> QED BY <1>1, <1>2, <1>6, <1>7, <1>8 DEF LoadedEntries, LoadedValues, Readable

\* FindEntry returns a match if there is one.
LEMMA Found ==
    ASSUME NEW T, NEW a \in Seq(T), NEW s, NEW p
    PROVE  \/ FindEntry(a, s, p) = 0 /\ \A i \in 1..Len(a) : ~(a[i].sys = s /\ a[i].path = p)
           \/ /\ FindEntry(a, s, p) \in 1..Len(a)
              /\ a[FindEntry(a, s, p)].sys = s /\ a[FindEntry(a, s, p)].path = p
<1> DEFINE I == {i \in 1..Len(a) : a[i].sys = s /\ a[i].path = p}
<1>1. FindEntry(a, s, p) = IF I # {} THEN Min(I) ELSE 0 BY DEF FindEntry, SelectInSeq
<1>2. CASE I = {} BY <1>1, <1>2
<1>3. CASE I # {}
  <2>1. I \in SUBSET Nat OBVIOUS
  <2>2. \E x \in I : \A y \in I : x <= y BY <1>3, <2>1, LeastNat
  <2>3. Min(I) \in I BY <2>2 DEF Min
  <2> QED BY <1>1, <1>3, <2>3
<1> QED BY <1>2, <1>3

\* The settings an array gives a key.
Setting(a, s, p) == IF FindEntry(a, s, p) = 0 THEN Blank ELSE a[FindEntry(a, s, p)].val

LEMMA SettingIs ==
    ASSUME NEW T, NEW a \in Seq(T), Unrepeated(a), NEW s, NEW p
    PROVE  /\ \A i \in 1..Len(a) : a[i].sys = s /\ a[i].path = p => Setting(a, s, p) = a[i].val
           /\ (\A i \in 1..Len(a) : ~(a[i].sys = s /\ a[i].path = p)) => Setting(a, s, p) = Blank
<1>1. \A i, j \in 1..Len(a) : a[i].sys = a[j].sys /\ a[i].path = a[j].path => i = j BY DEF Unrepeated
<1> QED BY <1>1, Found DEF Setting

\* The settings of an array are settings a loaded entry may have.
LEMMA SettingLoaded ==
    ASSUME NEW rom \in BOOLEAN, NEW cap \in Nat, NEW a \in Arrays(rom, cap), NEW s, NEW p
    PROVE  Setting(a, s, p) \in LoadedValues
<1>1. Blank \in LoadedValues BY DEF LoadedValues, Blank, Values, Accepted
<1>2. a \in Seq(LoadedEntries(rom)) BY DEF Arrays
<1>3. \A i \in 1..Len(a) : a[i] \in LoadedEntries(rom) BY <1>2
<1>4. \A e \in LoadedEntries(rom) : e.val \in LoadedValues BY LoadedEntriesAre DEF LoadedEntries
<1> QED BY <1>1, <1>2, <1>3, <1>4, Found DEF Setting

WithSettings(a, i, v) == [a EXCEPT ![i].val = v]

\* The three ways an array is changed: one entry's settings,
LEMMA Replaced ==
    ASSUME NEW rom \in BOOLEAN, NEW cap \in Nat, NEW a \in Arrays(rom, cap),
           NEW i \in 1..Len(a), NEW v \in LoadedValues
    PROVE  LET b == WithSettings(a, i, v)
           IN  /\ b \in Arrays(rom, cap)
               /\ Setting(b, a[i].sys, a[i].path) = v
               /\ \A s, p : ~(s = a[i].sys /\ p = a[i].path) => Setting(b, s, p) = Setting(a, s, p)
<1> DEFINE T == LoadedEntries(rom)
           b == WithSettings(a, i, v)
<1>1. a \in Seq(T) /\ Len(a) <= cap /\ Unrepeated(a) /\ Len(a) \in Nat BY DEF Arrays
<1>2. a[i] \in T BY <1>1
<1>3. a[i] \in Entries /\ v \in [Fields -> Values] BY <1>2 DEF LoadedEntries, LoadedValues
<1>4. [a[i] EXCEPT !.val = v] \in Entries /\ [a[i] EXCEPT !.val = v].val = v
      /\ [a[i] EXCEPT !.val = v].path = a[i].path /\ [a[i] EXCEPT !.val = v].sys = a[i].sys
  BY <1>3 DEF Entries
<1>5. [a[i] EXCEPT !.val = v] \in T BY <1>2, <1>3, <1>4, LoadedEntriesAre
<1>6. /\ b \in Seq(T) /\ Len(b) = Len(a)
      /\ \A j \in 1..Len(a) : b[j] = IF j = i THEN [a[i] EXCEPT !.val = v] ELSE a[j]
  BY <1>1, <1>5 DEF WithSettings
<1> HIDE DEF b
<1>7. \A j \in 1..Len(a) : b[j].sys = a[j].sys /\ b[j].path = a[j].path BY <1>4, <1>6
<1>8. Unrepeated(b)
  <2>1. DOMAIN a = 1..Len(a) /\ DOMAIN b = 1..Len(a) BY <1>1, <1>6
  <2> QED BY <1>1, <1>7, <2>1 DEF Unrepeated
<1>9. b \in Arrays(rom, cap) BY <1>1, <1>6, <1>8 DEF Arrays
<1>10. Setting(b, a[i].sys, a[i].path) = v
  <2>1. b[i].sys = a[i].sys /\ b[i].path = a[i].path /\ b[i].val = v /\ i \in 1..Len(b) BY <1>4, <1>6
  <2> QED BY <1>6, <1>8, <2>1, SettingIs
<1>11. ASSUME NEW s, NEW p, ~(s = a[i].sys /\ p = a[i].path) PROVE Setting(b, s, p) = Setting(a, s, p)
  <2>1. CASE \E j \in 1..Len(a) : a[j].sys = s /\ a[j].path = p
    <3>1. PICK j \in 1..Len(a) : a[j].sys = s /\ a[j].path = p BY <2>1
    <3>2. j # i BY <1>11, <3>1
    <3>3. Setting(a, s, p) = a[j].val BY <1>1, <3>1, SettingIs
    <3>4. b[j] = a[j] /\ j \in 1..Len(b) BY <1>6, <3>2
    <3>5. Setting(b, s, p) = b[j].val BY <1>6, <1>8, <3>1, <3>4, SettingIs
    <3> QED BY <3>3, <3>4, <3>5
  <2>2. CASE \A j \in 1..Len(a) : ~(a[j].sys = s /\ a[j].path = p)
    <3>1. Setting(a, s, p) = Blank BY <1>1, <2>2, SettingIs
    <3>2. \A j \in 1..Len(b) : ~(b[j].sys = s /\ b[j].path = p) BY <1>6, <1>7, <2>2
    <3>3. Setting(b, s, p) = Blank BY <1>6, <1>8, <3>2, SettingIs
    <3> QED BY <3>1, <3>3
  <2> QED BY <2>1, <2>2
<1> QED BY <1>9, <1>10, <1>11 DEF b

\* a new entry at the end,
LEMMA Appended ==
    ASSUME NEW rom \in BOOLEAN, NEW cap \in Nat, NEW a \in Arrays(rom, cap), Len(a) < cap,
           NEW e \in LoadedEntries(rom), \A j \in 1..Len(a) : ~(a[j].sys = e.sys /\ a[j].path = e.path)
    PROVE  LET b == Append(a, e)
           IN  /\ b \in Arrays(rom, cap)
               /\ Setting(b, e.sys, e.path) = e.val
               /\ \A s, p : ~(s = e.sys /\ p = e.path) => Setting(b, s, p) = Setting(a, s, p)
<1> DEFINE T == LoadedEntries(rom)
           b == Append(a, e)
<1>1. a \in Seq(T) /\ Len(a) <= cap /\ Unrepeated(a) /\ Len(a) \in Nat /\ DOMAIN a = 1..Len(a) BY DEF Arrays
<1>2. /\ b \in Seq(T) /\ Len(b) = Len(a) + 1 /\ b[Len(a) + 1] = e
      /\ \A j \in 1..Len(a) : b[j] = a[j]
  BY <1>1
<1>3. Unrepeated(b) BY <1>1, UnrepeatedAppend DEF SameKey
<1> HIDE DEF b
<1>4. b \in Arrays(rom, cap) BY <1>1, <1>2, <1>3 DEF Arrays
<1>5. Len(a) + 1 \in 1..Len(b) /\ \A j \in 1..Len(b) : j = Len(a) + 1 \/ j \in 1..Len(a) BY <1>1, <1>2
<1>6. Setting(b, e.sys, e.path) = e.val BY <1>2, <1>3, <1>5, SettingIs
<1>7. ASSUME NEW s, NEW p, ~(s = e.sys /\ p = e.path) PROVE Setting(b, s, p) = Setting(a, s, p)
  <2>1. CASE \E j \in 1..Len(a) : a[j].sys = s /\ a[j].path = p
    <3>1. PICK j \in 1..Len(a) : a[j].sys = s /\ a[j].path = p BY <2>1
    <3>2. Setting(a, s, p) = a[j].val BY <1>1, <3>1, SettingIs
    <3>3. b[j] = a[j] /\ j \in 1..Len(b) BY <1>1, <1>2
    <3>4. Setting(b, s, p) = b[j].val BY <1>2, <1>3, <3>1, <3>3, SettingIs
    <3> QED BY <3>2, <3>3, <3>4
  <2>2. CASE \A j \in 1..Len(a) : ~(a[j].sys = s /\ a[j].path = p)
    <3>1. Setting(a, s, p) = Blank BY <1>1, <2>2, SettingIs
    <3>2. \A j \in 1..Len(b) : ~(b[j].sys = s /\ b[j].path = p) BY <1>2, <1>5, <1>7, <2>2
    <3>3. Setting(b, s, p) = Blank BY <1>2, <1>3, <3>2, SettingIs
    <3> QED BY <3>1, <3>3
  <2> QED BY <2>1, <2>2
<1> QED BY <1>4, <1>6, <1>7 DEF b

\* an entry removed.
LEMMA Removed ==
    ASSUME NEW rom \in BOOLEAN, NEW cap \in Nat, NEW a \in Arrays(rom, cap), NEW i \in 1..Len(a)
    PROVE  LET b == RemoveAt(a, i)
           IN  /\ b \in Arrays(rom, cap)
               /\ Setting(b, a[i].sys, a[i].path) = Blank
               /\ \A s, p : ~(s = a[i].sys /\ p = a[i].path) => Setting(b, s, p) = Setting(a, s, p)
<1> DEFINE T == LoadedEntries(rom)
           b == RemoveAt(a, i)
           old(j) == IF j < i THEN j ELSE j + 1
<1>1. a \in Seq(T) /\ Len(a) <= cap /\ Unrepeated(a) /\ Len(a) \in Nat /\ DOMAIN a = 1..Len(a) BY DEF Arrays
<1>2. /\ b \in Seq(T) /\ Len(b) = Len(a) - 1
      /\ \A j \in 1..(Len(a) - 1) : old(j) \in 1..Len(a) /\ b[j] = a[old(j)] /\ old(j) # i
  <2> DEFINE l == SubSeq(a, 1, i - 1)
             r == SubSeq(a, i + 1, Len(a))
  <2>1. l \in Seq(T) /\ Len(l) = i - 1 /\ \A j \in 1..(i - 1) : l[j] = a[j] BY <1>1
  <2>2. r \in Seq(T) /\ Len(r) = Len(a) - i /\ \A j \in 1..(Len(a) - i) : r[j] = a[j + i]
    <3>1. \A j \in (i + 1)..Len(a) : a[j] \in T BY <1>1
    <3>2. r \in Seq(T) BY <1>1, <3>1
    <3>3. r = [j \in 1..(Len(a) - i) |-> a[j + i]]
      <4>1. r = [j \in 1..((Len(a) - (i + 1)) + 1) |-> a[(j + (i + 1)) - 1]] BY <1>1
      <4>2. (Len(a) - (i + 1)) + 1 = Len(a) - i BY <1>1
      <4>3. \A j \in 1..(Len(a) - i) : (j + (i + 1)) - 1 = j + i BY <1>1
      <4> QED BY <4>1, <4>2, <4>3
    <3> HIDE DEF r
    <3>4. DOMAIN r = 1..(Len(a) - i) /\ Len(a) - i \in Nat BY <1>1, <3>3
    <3>5. Len(r) = Len(a) - i BY <3>2, <3>4
    <3> QED BY <3>2, <3>3, <3>5
  <2>3. b = l \o r BY DEF RemoveAt
  <2> HIDE DEF l, r, b
  <2>4. b \in Seq(T) /\ Len(b) = Len(a) - 1
    <3>0. l \in Seq(T) /\ r \in Seq(T) BY <2>1, <2>2
    <3>1. l \o r \in Seq(T) /\ Len(l \o r) = Len(l) + Len(r) BY <3>0
    <3> QED BY <1>1, <2>1, <2>2, <2>3, <3>1
  <2>5. ASSUME NEW j \in 1..(Len(a) - 1) PROVE old(j) \in 1..Len(a) /\ b[j] = a[old(j)] /\ old(j) # i
    <3>1. CASE j < i
      <4>1. j \in 1..(i - 1) BY <3>1
      <4>2. b[j] = l[j] BY <1>1, <2>1, <2>2, <2>3, <4>1
      <4> QED BY <1>1, <2>1, <3>1, <4>1, <4>2
    <3>2. CASE ~(j < i)
      <4>1. j - (i - 1) \in 1..(Len(a) - i) BY <1>1, <3>2
      <4>2. b[j] = r[j - (i - 1)] BY <1>1, <2>1, <2>2, <2>3, <3>2, <4>1
      <4>3. (j - (i - 1)) + i = j + 1 BY <1>1
      <4> QED BY <1>1, <2>2, <3>2, <4>1, <4>2, <4>3
    <3> QED BY <3>1, <3>2
  <2> QED BY <2>4, <2>5
<1> HIDE DEF b
<1>3. \A j \in 1..Len(a) : j # i => \E k \in 1..(Len(a) - 1) : old(k) = j
  <2> TAKE j \in 1..Len(a)
  <2>1. CASE j < i BY <1>1, <2>1
  <2>2. CASE j > i
    <3>1. j - 1 \in 1..(Len(a) - 1) /\ old(j - 1) = j BY <1>1, <2>2
    <3> QED BY <3>1
  <2> QED BY <1>1, <2>1, <2>2
<1>4. \A j, k \in 1..(Len(a) - 1) : old(j) = old(k) => j = k BY <1>1
<1> HIDE DEF old
<1>5. DOMAIN b = 1..(Len(a) - 1) BY <1>1, <1>2
<1>6. Unrepeated(b)
  <2> SUFFICES ASSUME NEW j \in 1..(Len(a) - 1), NEW k \in 1..(Len(a) - 1),
                      b[j].sys = b[k].sys, b[j].path = b[k].path
               PROVE  j = k BY <1>5 DEF Unrepeated
  <2>1. old(j) = old(k) BY <1>1, <1>2 DEF Unrepeated
  <2> QED BY <1>4, <2>1
<1>7. b \in Arrays(rom, cap) BY <1>1, <1>2, <1>6 DEF Arrays
<1>8. Setting(b, a[i].sys, a[i].path) = Blank
  <2>1. \A j \in 1..Len(b) : ~(b[j].sys = a[i].sys /\ b[j].path = a[i].path)
    BY <1>1, <1>2 DEF Unrepeated
  <2> QED BY <1>2, <1>6, <2>1, SettingIs
<1>9. ASSUME NEW s, NEW p, ~(s = a[i].sys /\ p = a[i].path) PROVE Setting(b, s, p) = Setting(a, s, p)
  <2>1. CASE \E j \in 1..Len(a) : a[j].sys = s /\ a[j].path = p
    <3>1. PICK j \in 1..Len(a) : a[j].sys = s /\ a[j].path = p BY <2>1
    <3>2. PICK k \in 1..(Len(a) - 1) : old(k) = j BY <1>3, <1>9, <3>1
    <3>3. Setting(a, s, p) = a[j].val BY <1>1, <3>1, SettingIs
    <3>4. b[k] = a[j] /\ k \in 1..Len(b) BY <1>2, <3>2
    <3>5. Setting(b, s, p) = b[k].val BY <1>2, <1>6, <3>1, <3>4, SettingIs
    <3> QED BY <3>3, <3>4, <3>5
  <2>2. CASE \A j \in 1..Len(a) : ~(a[j].sys = s /\ a[j].path = p)
    <3>1. Setting(a, s, p) = Blank BY <1>1, <2>2, SettingIs
    <3>2. \A j \in 1..Len(b) : ~(b[j].sys = s /\ b[j].path = p) BY <1>2, <2>2
    <3>3. Setting(b, s, p) = Blank BY <1>2, <1>6, <3>2, SettingIs
    <3> QED BY <3>1, <3>3
  <2> QED BY <2>1, <2>2
<1> QED BY <1>7, <1>8, <1>9 DEF b

\* The options a caller can give.
GoodOptions == {op \in Options : op.do = "set" => op.value \in FieldValues[op.field]}

\* What an option makes of an entry's settings.
LEMMA MeaningLoaded ==
    ASSUME NEW op \in GoodOptions, NEW v \in LoadedValues
    PROVE  Store!Meaning(v, op) \in LoadedValues
<1>1. v \in [Fields -> Values] /\ \A f \in Fields \ {"profile"} : Accepted(f, v[f]) BY DEF LoadedValues
<1>2. CASE op.do = "set"
  <2>1. op.field \in Fields /\ op.value \in Values /\ op.value \in FieldValues[op.field]
    BY <1>2 DEF GoodOptions, Options
  <2>2. Store!Meaning(v, op) = [v EXCEPT ![op.field] = op.value] BY <1>2 DEF Store!Meaning
  <2> QED BY <1>1, <2>1, <2>2 DEF LoadedValues, Accepted
<1>3. CASE op.do = "clear"
  <2>1. Store!Meaning(v, op) = [f \in Fields |-> IF GroupOf[f] = op.group THEN None ELSE v[f]]
    BY <1>3 DEF Store!Meaning
  <2> QED BY <1>1, <2>1 DEF LoadedValues, Accepted, Values
<1>4. CASE op.do = "all"
  <2>1. Store!Meaning(v, op) = [f \in Fields |-> None] BY <1>4 DEF Store!Meaning, Store!Blank
  <2> QED BY <2>1 DEF LoadedValues, Accepted, Values
<1> QED BY <1>2, <1>3, <1>4 DEF GoodOptions, Options

\* An edit changes the settings of its key by the meaning of the option, and
\* those of no other key, whether it changes, appends or drops an entry.
LEMMA EditResult ==
    ASSUME NEW rom \in BOOLEAN, NEW cap \in Nat, NEW a \in Arrays(rom, cap),
           NEW s \in Systems, NEW p \in Paths \cup {NoPath}, rom => p # NoPath, NEW op \in GoodOptions
    PROVE  LET r == EditEntry(a, FindEntry(a, s, p), [sys |-> s, path |-> p, val |-> Blank], cap, op)
           IN  /\ r.ok \in BOOLEAN /\ r = [ok |-> r.ok, entries |-> r.entries]
               /\ r.entries \in Arrays(rom, cap)
               /\ r.ok => Setting(r.entries, s, p) = Store!Meaning(Setting(a, s, p), op)
               /\ r.ok => \A s2, p2 : ~(s2 = s /\ p2 = p) => Setting(r.entries, s2, p2) = Setting(a, s2, p2)
<1> DEFINE i == FindEntry(a, s, p)
           fresh == [sys |-> s, path |-> p, val |-> Blank]
           r == EditEntry(a, i, fresh, cap, op)
           Wanted(b) == /\ b \in Arrays(rom, cap)
                        /\ Setting(b, s, p) = Store!Meaning(Setting(a, s, p), op)
                        /\ \A s2, p2 : ~(s2 = s /\ p2 = p) => Setting(b, s2, p2) = Setting(a, s2, p2)
<1>1. a \in Seq(LoadedEntries(rom)) /\ Len(a) \in Nat BY DEF Arrays
<1>2. \/ i = 0 /\ \A j \in 1..Len(a) : ~(a[j].sys = s /\ a[j].path = p)
      \/ i \in 1..Len(a) /\ a[i].sys = s /\ a[i].path = p
  BY <1>1, Found
<1>3. Setting(a, s, p) = IF i = 0 THEN Blank ELSE a[i].val BY DEF Setting
<1>4. Setting(a, s, p) \in LoadedValues BY SettingLoaded
<1>5. op.do \in {"set", "clear", "all"} BY DEF GoodOptions, Options
<1> DEFINE m == Store!Meaning(Setting(a, s, p), op)
<1>6. m \in LoadedValues BY <1>4, MeaningLoaded
<1>7. Blank \in LoadedValues BY DEF LoadedValues, Blank, Values, Accepted
<1> HIDE DEF i, m
<1> DEFINE Concluded(q) ==
              /\ q.ok \in BOOLEAN /\ q = [ok |-> q.ok, entries |-> q.entries]
              /\ q.entries \in Arrays(rom, cap)
              /\ q.ok => Setting(q.entries, s, p) = Store!Meaning(Setting(a, s, p), op)
              /\ q.ok => \A s2, p2 : ~(s2 = s /\ p2 = p) => Setting(q.entries, s2, p2) = Setting(a, s2, p2)
<1>8. /\ \A b : Wanted(b) => Concluded([ok |-> TRUE, entries |-> b])
      /\ Concluded([ok |-> FALSE, entries |-> a])
  OBVIOUS
<1>a. Concluded(r) => Concluded(EditEntry(a, FindEntry(a, s, p), fresh, cap, op)) BY DEF i
<1> HIDE DEF r, Concluded
<1>b. \A b : b \in Arrays(rom, cap) /\ Setting(b, s, p) = m
             /\ (\A s2, p2 : ~(s2 = s /\ p2 = p) => Setting(b, s2, p2) = Setting(a, s2, p2)) => Wanted(b)
  BY DEF m
<1> HIDE DEF Wanted
<1> SUFFICES Concluded(r) BY <1>a DEF Concluded
<1>9. CASE op.do = "set" /\ i # 0
  <2>1. op.field \in Fields BY <1>9 DEF GoodOptions, Options
  <2>2. i \in 1..Len(a) /\ i > 0 /\ a[i] \in LoadedEntries(rom) BY <1>1, <1>2, <1>9
  <2>3. a[i] \in Entries BY <2>2 DEF LoadedEntries
  <2>4. r = [ok |-> TRUE, entries |-> [a EXCEPT ![i].val[op.field] = op.value]]
    BY <1>9, <2>2 DEF r, EditEntry
  <2>5. m = [a[i].val EXCEPT ![op.field] = op.value] BY <1>3, <1>9 DEF m, Store!Meaning
  <2>6. r = [ok |-> TRUE, entries |-> WithSettings(a, i, m)] BY <2>4, <2>5 DEF WithSettings
  <2> DEFINE b == WithSettings(a, i, m)
  <2>7. /\ b \in Arrays(rom, cap) /\ Setting(b, a[i].sys, a[i].path) = m
        /\ \A s2, p2 : ~(s2 = a[i].sys /\ p2 = a[i].path) => Setting(b, s2, p2) = Setting(a, s2, p2)
    BY <1>6, <2>2, Replaced
  <2> HIDE DEF b
  <2>8. Wanted(b) BY <1>2, <1>9, <1>b, <2>7
  <2> QED BY <1>8, <2>6, <2>8 DEF b
<1>10. CASE op.do = "set" /\ i = 0 /\ Len(a) < cap
  <2>1. op.field \in Fields /\ Blank \in [Fields -> Values] BY <1>7, <1>10 DEF GoodOptions, Options, LoadedValues
  <2> DEFINE e == [fresh EXCEPT !.val[op.field] = op.value]
  <2>2. r = [ok |-> TRUE, entries |-> Append(a, e)] BY <1>10 DEF r, EditEntry
  <2>3. m = [Blank EXCEPT ![op.field] = op.value] BY <1>3, <1>10 DEF m, Store!Meaning
  <2>4. e = [sys |-> s, path |-> p, val |-> m] BY <2>3
  <2> HIDE DEF e
  <2>5. e.sys = s /\ e.path = p /\ e.val = m BY <2>4
  <2>6. e \in Entries BY <1>6, <2>4 DEF Entries, LoadedValues
  <2>7. e \in LoadedEntries(rom) BY <1>6, <2>5, <2>6, LoadedEntriesAre
  <2>8. \A j \in 1..Len(a) : ~(a[j].sys = e.sys /\ a[j].path = e.path) BY <1>2, <1>10, <2>5
  <2>9. Wanted(Append(a, e)) BY <1>10, <1>b, <2>5, <2>7, <2>8, Appended
  <2> QED BY <1>8, <2>2, <2>9
<1>11. CASE op.do = "set" /\ i = 0 /\ ~(Len(a) < cap)
  <2>1. r = [ok |-> FALSE, entries |-> a] BY <1>1, <1>11 DEF r, EditEntry
  <2> QED BY <1>8, <2>1
<1>12. CASE op.do # "set" /\ i = 0
  <2>1. r = [ok |-> TRUE, entries |-> a] BY <1>12 DEF r, EditEntry
  <2>2. m = Blank BY <1>3, <1>5, <1>12 DEF m, Store!Meaning, Store!Blank, Blank
  <2>3. Setting(a, s, p) = m BY <1>3, <1>12, <2>2
  <2> QED BY <1>8, <1>b, <2>1, <2>3
<1>13. CASE op.do = "all" /\ i # 0
  <2>1. i \in 1..Len(a) /\ i > 0 BY <1>2, <1>13
  <2>2. r = [ok |-> TRUE, entries |-> RemoveAt(a, i)] BY <1>13, <2>1 DEF r, EditEntry
  <2>3. m = Blank BY <1>13 DEF m, Store!Meaning, Store!Blank, Blank
  <2>4. Wanted(RemoveAt(a, i)) BY <1>2, <1>13, <1>b, <2>1, <2>3, Removed
  <2> QED BY <1>8, <2>2, <2>4
<1>14. CASE op.do = "clear" /\ i # 0
  <2>1. i \in 1..Len(a) /\ i > 0 BY <1>2, <1>14
  <2>2. m = [f \in Fields |-> IF GroupOf[f] = op.group THEN None ELSE a[i].val[f]]
    BY <1>3, <1>14 DEF m, Store!Meaning
  <2>3. r = [ok |-> TRUE, entries |-> IF m = Blank THEN RemoveAt(a, i) ELSE WithSettings(a, i, m)]
    BY <1>14, <2>1, <2>2 DEF r, EditEntry, WithSettings
  <2>4. CASE m = Blank
    <3>1. Wanted(RemoveAt(a, i)) BY <1>2, <1>14, <1>b, <2>1, <2>4, Removed
    <3> QED BY <1>8, <2>3, <2>4, <3>1
  <2>5. CASE m # Blank
    <3> DEFINE b == WithSettings(a, i, m)
    <3>1. /\ b \in Arrays(rom, cap) /\ Setting(b, a[i].sys, a[i].path) = m
          /\ \A s2, p2 : ~(s2 = a[i].sys /\ p2 = a[i].path) => Setting(b, s2, p2) = Setting(a, s2, p2)
      BY <1>6, <2>1, Replaced
    <3> HIDE DEF b
    <3>2. Wanted(b) BY <1>2, <1>14, <1>b, <2>1, <3>1
    <3> QED BY <1>8, <2>3, <2>5, <3>2 DEF b
  <2> QED BY <2>4, <2>5
<1> QED BY <1>5, <1>9, <1>10, <1>11, <1>12, <1>13, <1>14

-----------------------------------------------------------------------------
(* The document as a store.                                                *)

\* The state the command "core" works on.
States == [sys : Arrays(FALSE, MaxSystemOverrides), rom : Arrays(TRUE, MaxRomOverrides)]
Results == [ok : BOOLEAN, state : States]

LEMMA Capacities == MaxSystemOverrides \in Nat /\ MaxRomOverrides \in Nat
BY OverrideAssumption DEF OverrideAssumption

\* A key is a system or a ROM without a suffix.
LEMMA KeysAre ==
    ASSUME NEW k \in Keys
    PROVE  /\ k = <<k[1], k[2]>> /\ k[1] \in Systems /\ k[2] \in Paths \cup {NoPath}
           /\ k[2] # NoPath => k[2][2] = None
<1>1. CASE k \in {<<s, NoPath>> : s \in Systems} BY <1>1
<1>2. CASE k \in Systems \X (Files \X {None}) BY <1>2 DEF Paths
<1> QED BY <1>1, <1>2 DEF Keys

\* The settings a state gives a key.
SettingIn(state, k) == IF k[2] = NoPath THEN Setting(state.sys, k[1], k[2]) ELSE Setting(state.rom, k[1], k[2])

LEMMA ViewIs ==
    ASSUME NEW state
    PROVE  ViewOf(state) = [k \in Keys |-> SettingIn(state, k)]
BY DEF ViewOf, SettingIn, Setting

\* One option changes one record of the view.
LEMMA OptionResult ==
    ASSUME NEW r \in Results, NEW k \in Keys, NEW op \in GoodOptions
    PROVE  LET q == ApplyOption(r, k[1], k[2], op)
           IN  /\ q \in Results
               /\ q.ok => r.ok /\ ViewOf(q.state) = [ViewOf(r.state) EXCEPT ![k] = Store!Meaning(@, op)]
<1> DEFINE q == ApplyOption(r, k[1], k[2], op)
           s == k[1]
           p == k[2]
           st == r.state
<1>1. k = <<s, p>> /\ s \in Systems /\ p \in Paths \cup {NoPath} /\ (p # NoPath => p[2] = None) BY KeysAre
<1>2. r = [ok |-> r.ok, state |-> st] /\ r.ok \in BOOLEAN /\ st \in States BY DEF Results
<1>3. st.sys \in Arrays(FALSE, MaxSystemOverrides) /\ st.rom \in Arrays(TRUE, MaxRomOverrides)
      /\ st = [sys |-> st.sys, rom |-> st.rom]
  BY <1>2 DEF States
<1>4. \A k2 \in Keys : k2 # k => ~(k2[1] = s /\ k2[2] = p) BY <1>1, KeysAre
<1> HIDE DEF s, p, st
<1>5. ASSUME NEW new \in States, SettingIn(new, k) = Store!Meaning(SettingIn(st, k), op),
             \A k2 \in Keys : k2 # k => SettingIn(new, k2) = SettingIn(st, k2)
      PROVE  ViewOf(new) = [ViewOf(st) EXCEPT ![k] = Store!Meaning(@, op)]
  <2>1. ViewOf(st) = [k2 \in Keys |-> SettingIn(st, k2)] BY ViewIs
  <2>2. ViewOf(new) = [k2 \in Keys |-> SettingIn(new, k2)] BY ViewIs
  <2> QED BY <1>5, <2>1, <2>2
<1>6. CASE ~r.ok BY <1>2, <1>6 DEF ApplyOption
<1>7. CASE r.ok /\ p = NoPath
  <2> DEFINE e == EditEntry(st.sys, FindEntry(st.sys, s, p), [sys |-> s, path |-> p, val |-> Blank],
                            MaxSystemOverrides, op)
             new == [st EXCEPT !.sys = e.entries]
  <2>1. q = [ok |-> e.ok, state |-> new]
    BY <1>7 DEF ApplyOption, EditSystem, FindSystemCoreOverride, s, p, st
  <2>2. /\ e.ok \in BOOLEAN /\ e.entries \in Arrays(FALSE, MaxSystemOverrides)
        /\ e.ok => Setting(e.entries, s, p) = Store!Meaning(Setting(st.sys, s, p), op)
        /\ e.ok => \A s2, p2 : ~(s2 = s /\ p2 = p) => Setting(e.entries, s2, p2) = Setting(st.sys, s2, p2)
    BY <1>1, <1>3, Capacities, EditResult
  <2> HIDE DEF e
  <2>3. new = [sys |-> e.entries, rom |-> st.rom] /\ new \in States
    <3>1. PICK x, y : st = [sys |-> x, rom |-> y] BY <1>3
    <3>2. new = [sys |-> e.entries, rom |-> y] /\ st.rom = y BY <3>1
    <3> QED BY <1>3, <2>2, <3>2 DEF States
  <2> HIDE DEF new
  <2>4. q \in Results BY <2>1, <2>2, <2>3 DEF Results
  <2>5. ASSUME e.ok PROVE ViewOf(new) = [ViewOf(st) EXCEPT ![k] = Store!Meaning(@, op)]
    <3>1. SettingIn(new, k) = Store!Meaning(SettingIn(st, k), op)
      BY <1>7, <2>2, <2>3, <2>5 DEF SettingIn, s, p
    <3>2. \A k2 \in Keys : k2 # k => SettingIn(new, k2) = SettingIn(st, k2)
      BY <1>4, <2>2, <2>3, <2>5 DEF SettingIn
    <3> QED BY <1>5, <2>3, <3>1, <3>2
  <2> QED BY <1>7, <2>1, <2>4, <2>5 DEF st
<1>8. CASE r.ok /\ p # NoPath
  <2> DEFINE e == EditEntry(st.rom, FindEntry(st.rom, s, p), [sys |-> s, path |-> p, val |-> Blank],
                            MaxRomOverrides, op)
             new == [st EXCEPT !.rom = e.entries]
  <2>0. FindRomCoreOverride(st, s, p) = FindEntry(st.rom, s, p) BY <1>1, <1>8 DEF FindRomCoreOverride
  <2>1. q = [ok |-> e.ok, state |-> new]
    BY <1>8, <2>0 DEF ApplyOption, EditRom, s, p, st
  <2>2. /\ e.ok \in BOOLEAN /\ e.entries \in Arrays(TRUE, MaxRomOverrides)
        /\ e.ok => Setting(e.entries, s, p) = Store!Meaning(Setting(st.rom, s, p), op)
        /\ e.ok => \A s2, p2 : ~(s2 = s /\ p2 = p) => Setting(e.entries, s2, p2) = Setting(st.rom, s2, p2)
    BY <1>1, <1>3, <1>8, Capacities, EditResult
  <2> HIDE DEF e
  <2>3. new = [sys |-> st.sys, rom |-> e.entries] /\ new \in States
    <3>1. PICK x, y : st = [sys |-> x, rom |-> y] BY <1>3
    <3>2. new = [sys |-> x, rom |-> e.entries] /\ st.sys = x BY <3>1
    <3> QED BY <1>3, <2>2, <3>2 DEF States
  <2> HIDE DEF new
  <2>4. q \in Results BY <2>1, <2>2, <2>3 DEF Results
  <2>5. ASSUME e.ok PROVE ViewOf(new) = [ViewOf(st) EXCEPT ![k] = Store!Meaning(@, op)]
    <3>1. SettingIn(new, k) = Store!Meaning(SettingIn(st, k), op)
      BY <1>8, <2>2, <2>3, <2>5 DEF SettingIn, s, p
    <3>2. \A k2 \in Keys : k2 # k => SettingIn(new, k2) = SettingIn(st, k2)
      BY <1>4, <2>2, <2>3, <2>5 DEF SettingIn
    <3> QED BY <1>5, <2>3, <3>1, <3>2
  <2> QED BY <1>8, <2>1, <2>4, <2>5 DEF st
<1> QED BY <1>2, <1>6, <1>7, <1>8

\* The turns of the loop over the options of a command.
LEMMA Applying ==
    ASSUME NEW state \in States, NEW k \in Keys, NEW ops \in Seq(GoodOptions)
    PROVE  \E after \in [0..Len(ops) -> Results] :
              /\ after[0] = [ok |-> TRUE, state |-> state]
              /\ \A n \in 1..Len(ops) : after[n] = ApplyOption(after[n - 1], k[1], k[2], ops[n])
              /\ ApplyOptions(state, k[1], k[2], ops) = after[Len(ops)]
<1> DEFINE N == Len(ops)
           base == [ok |-> TRUE, state |-> state]
           Step(acc, n) == ApplyOption(acc, k[1], k[2], ops[n])
           Is(f) == f = [n \in 0..N |-> IF n = 0 THEN [ok |-> TRUE, state |-> state] ELSE Step(f[n - 1], n)]
           after == CHOOSE f : Is(f)
           next == [x \in Results \X (1..N) |-> Step(x[1], x[2])]
<1>1. ApplyOptions(state, k[1], k[2], ops) = after[N] BY DEF ApplyOptions
<1>2. N \in Nat /\ base \in Results BY DEF Results
<1>3. \A acc \in Results, n \in 1..N : Step(acc, n) \in Results
  <2>1. \A n \in 1..N : ops[n] \in GoodOptions OBVIOUS
  <2> QED BY <2>1, OptionResult
<1> HIDE DEF Step, N
<1>4. next \in Turns(Results, N) BY <1>3 DEF Turns
<1>5. \A acc \in Results, n \in 1..N : next[<<acc, n>>] = Step(acc, n) OBVIOUS
<1> HIDE DEF next, base, Is
<1>6. Runs(Results, base, N, next) BY <1>2, <1>4, Recursion
<1>7. PICK f \in [0..N -> Results] : f[0] = base /\ \A n \in 1..N : f[n] = next[<<f[n - 1], n>>] BY <1>6 DEF Runs
<1>8. \A n \in 1..N : n - 1 \in 0..N /\ f[n - 1] \in Results BY <1>2, <1>7
<1>9. \A n \in 1..N : f[n] = Step(f[n - 1], n) BY <1>5, <1>7, <1>8
<1>10. \A n \in 0..N : n = 0 \/ n \in 1..N BY <1>2
<1>11. Is(f) BY <1>7, <1>9, <1>10 DEF Is, base
<1>12. Is(after) BY <1>11
<1> HIDE DEF after
<1>13. DOMAIN after = 0..N /\ after = [n \in DOMAIN after |-> after[n]]
       /\ after[0] = base /\ \A n \in 1..N : after[n] = Step(after[n - 1], n)
  <2>1. after = [n \in 0..N |-> IF n = 0 THEN base ELSE Step(after[n - 1], n)] BY <1>12 DEF Is, base
  <2>2. DOMAIN after = 0..N BY <2>1
  <2>3. after = [n \in DOMAIN after |-> after[n]] BY <2>1
  <2>4. 0 \in 0..N /\ \A n \in 1..N : n \in 0..N /\ n # 0 BY <1>2
  <2>5. after[0] = base BY <2>1, <2>4
  <2>6. \A n \in 1..N : after[n] = Step(after[n - 1], n) BY <2>1, <2>4
  <2> QED BY <2>2, <2>3, <2>5, <2>6
<1> DEFINE Good == {n \in 0..N : after[n] \in Results}
<1>14. 0 \in Good BY <1>2, <1>13
<1>15. \A n \in 1..N : n - 1 \in Good => n \in Good BY <1>2, <1>3, <1>13
<1> HIDE DEF Good
<1>16. \A n \in 0..N : n \in Good BY <1>2, <1>14, <1>15, UpTo
<1>17. after \in [0..N -> Results] BY <1>13, <1>16 DEF Good
<1> QED BY <1>1, <1>13, <1>17 DEF base, Step, N

\* The turns of the abstract change.
LEMMA Changing ==
    ASSUME NEW record \in LoadedValues, NEW ops \in Seq(GoodOptions)
    PROVE  \E after \in [0..Len(ops) -> LoadedValues] :
              /\ after[0] = record
              /\ \A n \in 1..Len(ops) : after[n] = Store!Meaning(after[n - 1], ops[n])
              /\ Store!Changed(record, ops) = after[Len(ops)]
<1> DEFINE N == Len(ops)
           Step(acc, n) == Store!Meaning(acc, ops[n])
           Is(f) == f = [n \in 0..N |-> IF n = 0 THEN record ELSE Step(f[n - 1], n)]
           after == CHOOSE f : Is(f)
           next == [x \in LoadedValues \X (1..N) |-> Step(x[1], x[2])]
<1>1. Store!Changed(record, ops) = after[N] BY DEF Store!Changed
<1>2. N \in Nat OBVIOUS
<1>3. \A acc \in LoadedValues, n \in 1..N : Step(acc, n) \in LoadedValues
  <2>1. \A n \in 1..N : ops[n] \in GoodOptions OBVIOUS
  <2> QED BY <2>1, MeaningLoaded
<1> HIDE DEF Step, N
<1>4. next \in Turns(LoadedValues, N) BY <1>3 DEF Turns
<1>5. \A acc \in LoadedValues, n \in 1..N : next[<<acc, n>>] = Step(acc, n) OBVIOUS
<1> HIDE DEF next, Is
<1>6. Runs(LoadedValues, record, N, next) BY <1>2, <1>4, Recursion
<1>7. PICK f \in [0..N -> LoadedValues] : f[0] = record /\ \A n \in 1..N : f[n] = next[<<f[n - 1], n>>]
  BY <1>6 DEF Runs
<1>8. \A n \in 1..N : n - 1 \in 0..N /\ f[n - 1] \in LoadedValues BY <1>2, <1>7
<1>9. \A n \in 1..N : f[n] = Step(f[n - 1], n) BY <1>5, <1>7, <1>8
<1>10. \A n \in 0..N : n = 0 \/ n \in 1..N BY <1>2
<1>11. Is(f) BY <1>7, <1>9, <1>10 DEF Is
<1>12. Is(after) BY <1>11
<1> HIDE DEF after
<1>13. DOMAIN after = 0..N /\ after = [n \in DOMAIN after |-> after[n]]
       /\ after[0] = record /\ \A n \in 1..N : after[n] = Step(after[n - 1], n)
  <2>1. after = [n \in 0..N |-> IF n = 0 THEN record ELSE Step(after[n - 1], n)] BY <1>12 DEF Is
  <2>2. DOMAIN after = 0..N BY <2>1
  <2>3. after = [n \in DOMAIN after |-> after[n]] BY <2>1
  <2>4. 0 \in 0..N /\ \A n \in 1..N : n \in 0..N /\ n # 0 BY <1>2
  <2>5. after[0] = record BY <2>1, <2>4
  <2>6. \A n \in 1..N : after[n] = Step(after[n - 1], n) BY <2>1, <2>4
  <2> QED BY <2>2, <2>3, <2>5, <2>6
<1> DEFINE Good == {n \in 0..N : after[n] \in LoadedValues}
<1>14. 0 \in Good BY <1>2, <1>13
<1>15. \A n \in 1..N : n - 1 \in Good => n \in Good BY <1>2, <1>3, <1>13
<1> HIDE DEF Good
<1>16. \A n \in 0..N : n \in Good BY <1>2, <1>14, <1>15, UpTo
<1>17. after \in [0..N -> LoadedValues] BY <1>13, <1>16 DEF Good
<1> QED BY <1>1, <1>13, <1>17 DEF Step, N

\* A command that is not refused changes its record by all its options.
LEMMA CommandResult ==
    ASSUME NEW state \in States, NEW k \in Keys, NEW ops \in Seq(GoodOptions)
    PROVE  LET r == ApplyOptions(state, k[1], k[2], ops)
           IN  /\ r \in Results
               /\ r.ok => ViewOf(r.state) = [ViewOf(state) EXCEPT ![k] = Store!Changed(@, ops)]
<1> DEFINE N == Len(ops)
           v == ViewOf(state)[k]
<1>1. N \in Nat /\ \A n \in 1..N : ops[n] \in GoodOptions OBVIOUS
<1>2. PICK after \in [0..N -> Results] :
              /\ after[0] = [ok |-> TRUE, state |-> state]
              /\ \A n \in 1..N : after[n] = ApplyOption(after[n - 1], k[1], k[2], ops[n])
              /\ ApplyOptions(state, k[1], k[2], ops) = after[N]
  BY Applying
<1>3. v \in LoadedValues
  <2>1. v = SettingIn(state, k) BY ViewIs
  <2>2. state.sys \in Arrays(FALSE, MaxSystemOverrides) /\ state.rom \in Arrays(TRUE, MaxRomOverrides) BY DEF States
  <2> QED BY <2>1, <2>2, Capacities, SettingLoaded DEF SettingIn
<1> HIDE DEF v
<1>4. PICK changed \in [0..N -> LoadedValues] :
              /\ changed[0] = v
              /\ \A n \in 1..N : changed[n] = Store!Meaning(changed[n - 1], ops[n])
              /\ Store!Changed(v, ops) = changed[N]
  BY <1>3, Changing
<1> HIDE DEF N
<1> DEFINE w == ViewOf(state)
           Good == {n \in 0..N : after[n].ok => ViewOf(after[n].state) = [w EXCEPT ![k] = changed[n]]}
<1>5. DOMAIN w = Keys /\ w = [j \in Keys |-> w[j]] /\ w[k] = v
  <2>1. w = [j \in Keys |-> SettingIn(state, j)] BY ViewIs
  <2> QED BY <2>1 DEF v
<1> HIDE DEF w
<1>6. 0 \in Good
  <2>1. 0 \in 0..N BY <1>1
  <2>2. ViewOf(after[0].state) = w BY <1>2 DEF w
  <2>3. [w EXCEPT ![k] = changed[0]] = w BY <1>4, <1>5
  <2> QED BY <2>1, <2>2, <2>3
<1>7. ASSUME NEW n \in 1..N, n - 1 \in Good PROVE n \in Good
  <2>1. n - 1 \in 0..N /\ n \in 0..N BY <1>1
  <2>2. after[n - 1] \in Results /\ after[n] = ApplyOption(after[n - 1], k[1], k[2], ops[n]) BY <1>2, <2>1
  <2>3. PICK r, u : r = after[n - 1] /\ u = ViewOf(r.state) OBVIOUS
  <2>4. after[n].ok => r.ok /\ ViewOf(after[n].state) = [u EXCEPT ![k] = Store!Meaning(@, ops[n])]
    BY <1>1, <2>2, <2>3, OptionResult
  <2>5. r.ok => u = [w EXCEPT ![k] = changed[n - 1]] BY <1>7, <2>3
  <2>6. after[n].ok => ViewOf(after[n].state) = [w EXCEPT ![k] = changed[n]]
    <3> SUFFICES ASSUME after[n].ok PROVE ViewOf(after[n].state) = [w EXCEPT ![k] = changed[n]] OBVIOUS
    <3>1. u = [w EXCEPT ![k] = changed[n - 1]] /\ ViewOf(after[n].state) = [u EXCEPT ![k] = Store!Meaning(@, ops[n])]
      BY <2>4, <2>5
    <3>2. u[k] = changed[n - 1] /\ changed[n] = Store!Meaning(u[k], ops[n]) BY <1>4, <1>5, <3>1
    <3> QED BY <1>5, <3>1, <3>2
  <2> QED BY <2>1, <2>6
<1> HIDE DEF Good
<1>8. \A n \in 0..N : n \in Good BY <1>1, <1>6, <1>7, UpTo
<1>9. N \in 0..N /\ N \in Good BY <1>1, <1>8
<1>10. after[N].ok => ViewOf(after[N].state) = [w EXCEPT ![k] = changed[N]] BY <1>9 DEF Good
<1>11. [w EXCEPT ![k] = changed[N]] = [w EXCEPT ![k] = Store!Changed(@, ops)] BY <1>4, <1>5
<1> QED BY <1>2, <1>9, <1>10, <1>11 DEF w

\* What the file may hold, by itself and after any command.
Documents == {d \in [sys : Seq(Entries), rom : Seq(Entries)] : Unrepeated(d.sys) /\ Unrepeated(d.rom)}

LEMMA LoadedState ==
    ASSUME NEW d \in Documents
    PROVE  LoadCoreOverrides(d) \in States
<1>1. d.sys \in Seq(Entries) /\ d.rom \in Seq(Entries) /\ Unrepeated(d.sys) /\ Unrepeated(d.rom) BY DEF Documents
<1>2. LoadEntries(d.sys, MaxSystemOverrides, FALSE) \in Arrays(FALSE, MaxSystemOverrides)
  BY <1>1, Capacities, LoadResult
<1>3. LoadEntries(d.rom, MaxRomOverrides, TRUE) \in Arrays(TRUE, MaxRomOverrides)
  BY <1>1, Capacities, LoadResult
<1> QED BY <1>2, <1>3 DEF LoadCoreOverrides, States

LEMMA LargerSeq ==
    ASSUME NEW T, NEW U, T \subseteq U, NEW x \in Seq(T)
    PROVE  x \in Seq(U)
OBVIOUS

LEMMA SavedState ==
    ASSUME NEW st \in States
    PROVE  st \in Documents /\ LoadCoreOverrides(st) = st
<1>1. st.sys \in Arrays(FALSE, MaxSystemOverrides) /\ st.rom \in Arrays(TRUE, MaxRomOverrides)
      /\ st = [sys |-> st.sys, rom |-> st.rom]
  BY DEF States
<1>2. LoadEntries(st.sys, MaxSystemOverrides, FALSE) = st.sys /\ LoadEntries(st.rom, MaxRomOverrides, TRUE) = st.rom
  BY <1>1, Capacities, LoadAgain
<1>3. LoadedEntries(TRUE) \subseteq Entries /\ LoadedEntries(FALSE) \subseteq Entries BY DEF LoadedEntries
<1>4. st.sys \in Seq(LoadedEntries(FALSE)) /\ st.rom \in Seq(LoadedEntries(TRUE))
      /\ Unrepeated(st.sys) /\ Unrepeated(st.rom)
  BY <1>1 DEF Arrays
<1>5. st.sys \in Seq(Entries) BY <1>3, <1>4, LargerSeq
<1>6. st.rom \in Seq(Entries) BY <1>3, <1>4, LargerSeq
<1>7. st \in Documents BY <1>1, <1>4, <1>5, <1>6 DEF Documents
<1> QED BY <1>1, <1>2, <1>7 DEF LoadCoreOverrides

DocumentRead == overrides \in Documents

LEMMA CommandsAreOptions ==
    ASSUME NEW ops \in CoreCommands
    PROVE  ops \in Seq(GoodOptions)
<1>1. ops \in Seq(Options) /\ \A i \in DOMAIN ops : ops[i].do = "set" => ops[i].value \in FieldValues[ops[i].field]
  BY OverrideAssumption DEF OverrideAssumption
<1>2. \A i \in 1..Len(ops) : ops[i] \in GoodOptions BY <1>1 DEF GoodOptions
<1> QED BY <1>1, <1>2

\* A command "core" is a step of the store.
LEMMA CoreStep ==
    ASSUME DocumentRead, NEW k \in Keys, NEW ops \in CoreCommands, CoreCommand(k[1], k[2], ops)
    PROVE  DocumentRead' /\ [Store!Next]_<<View, reply>>
<1> DEFINE loaded == LoadCoreOverrides(overrides)
           r == ApplyOptions(loaded, k[1], k[2], ops)
           answer(told) == [key |-> <<k[1], k[2]>>, ops |-> ops, told |-> told]
<1>1. loaded \in States BY LoadedState DEF DocumentRead
<1>2. k = <<k[1], k[2]>> BY KeysAre
<1>3. \/ /\ r.ok
         /\ \E saved \in SaveCoreOverrides(r.state) :
               overrides' = saved.file /\ reply' = answer(IF saved.ok THEN "ok" ELSE "failed")
      \/ ~r.ok /\ reply' = answer("failed") /\ UNCHANGED overrides
  BY DEF CoreCommand
<1> HIDE DEF loaded
<1>4. r \in Results /\ (r.ok => ViewOf(r.state) = [ViewOf(loaded) EXCEPT ![k] = Store!Changed(@, ops)])
  BY <1>1, CommandsAreOptions, CommandResult
<1> HIDE DEF r
<1>5. \/ overrides' = overrides /\ reply' = answer("failed")
      \/ r.ok /\ overrides' = r.state /\ \E told \in {"ok", "failed"} : reply' = answer(told)
  BY <1>3 DEF SaveCoreOverrides, CommitTempFile
<1>6. \A told \in {"ok", "failed"} : answer(told) # Store!Quiet BY DEF Store!Quiet
<1>7. CASE overrides' = overrides /\ reply' = answer("failed")
  <2>1. View' = View BY <1>7 DEF View
  <2>2. reply' # Store!Quiet BY <1>6, <1>7
  <2>3. reply' = [key |-> k, ops |-> ops, told |-> "failed"] BY <1>2, <1>7
  <2>4. Store!Answer(k, ops, "failed") BY <2>1, <2>3 DEF Store!Answer
  <2>5. Store!Next BY <2>2, <2>4 DEF Store!Next
  <2> QED BY <1>7, <2>5 DEF DocumentRead
<1>8. CASE r.ok /\ overrides' = r.state /\ \E told \in {"ok", "failed"} : reply' = answer(told)
  <2>1. PICK told \in {"ok", "failed"} : reply' = answer(told) BY <1>8
  <2>2. r.state \in States BY <1>4 DEF Results
  <2>3. r.state \in Documents /\ LoadCoreOverrides(r.state) = r.state BY <2>2, SavedState
  <2>4. View' = ViewOf(r.state) BY <1>8, <2>3 DEF View
  <2>5. View = ViewOf(loaded) BY DEF View, loaded
  <2>6. View' = [View EXCEPT ![k] = Store!Changed(@, ops)] BY <1>4, <1>8, <2>4, <2>5
  <2>7. reply' # Store!Quiet BY <1>6, <2>1
  <2>8. reply' = [key |-> k, ops |-> ops, told |-> told] BY <1>2, <2>1
  <2>9. Store!Answer(k, ops, told) BY <2>6, <2>8 DEF Store!Answer
  <2>10. Store!Next BY <2>7, <2>9 DEF Store!Next
  <2> QED BY <1>8, <2>3, <2>10 DEF DocumentRead
<1> QED BY <1>5, <1>7, <1>8

\* Every step of the program is a step of the store or changes nothing in it.
LEMMA StoreStep ==
    ASSUME DocumentRead, [Next]_vars
    PROVE  DocumentRead' /\ [Store!Next]_<<View, reply>>
<1>1. ASSUME overrides' = overrides, reply' = NoReply PROVE DocumentRead' /\ [Store!Next]_<<View, reply>>
  <2>1. View' = View BY <1>1 DEF View
  <2>2. reply' = Store!Quiet BY <1>1 DEF NoReply, Store!Quiet
  <2>3. Store!Read BY <2>1, <2>2 DEF Store!Read
  <2> QED BY <1>1, <2>3 DEF Store!Next, DocumentRead
<1>2. ASSUME Quietly PROVE overrides' = overrides /\ reply' = NoReply BY <1>2 DEF Quietly
<1>3. CASE \E s \in Systems, p \in Paths, given \in Given \cup {None}, scan \in BOOLEAN : LaunchCommand(s, p, given, scan)
  BY <1>1, <1>2, <1>3 DEF LaunchCommand
<1>4. CASE \E s \in Systems, p \in Paths, given \in Given \cup {None}, scan \in BOOLEAN :
          RecentAdd(s, p, given, scan) \/ ResumeSet(s, p, given, scan)
  BY <1>1, <1>2, <1>4 DEF RecentAdd, ResumeSet
<1>5. CASE \E s \in Systems, p \in Paths, scan \in BOOLEAN, a \in {"set", "clear", "toggle"} : Favorite(s, p, a, scan)
  BY <1>1, <1>2, <1>5 DEF Favorite
<1>6. ASSUME NEW s \in Systems, NEW p \in Paths \cup {NoPath}, NEW ops \in CoreCommands, NEW scan \in BOOLEAN,
             Core(s, p, ops, scan)
      PROVE  DocumentRead' /\ [Store!Next]_<<View, reply>>
  <2>1. p = NoPath \/ p[2] = None BY <1>6 DEF Core
  <2> DEFINE k == <<s, p>>
  <2>2. k \in Keys /\ k[1] = s /\ k[2] = p
    <3>1. CASE p = NoPath BY <3>1 DEF Keys
    <3>2. CASE p # NoPath
      <4>1. p \in Files \X {None} BY <2>1, <3>2 DEF Paths
      <4> QED BY <4>1 DEF Keys
    <3> QED BY <3>1, <3>2
  <2>3. CoreCommand(k[1], k[2], ops) BY <1>6, <2>2 DEF Core
  <2> HIDE DEF k
  <2> QED BY <2>2, <2>3, CoreStep
<1>7. CASE \E s \in Systems : ListRoms(s, TRUE) BY <1>1, <1>2, <1>7 DEF ListRoms
<1>8. CASE ResumeClear BY <1>1, <1>2, <1>8 DEF ResumeClear
<1>9. CASE MarkPending \/ StartGame \/ GameEnds \/ StopHotkeyd \/ PersistVolume \/ ClearPending
  BY <1>1, <1>2, <1>9 DEF MarkPending, StartGame, GameEnds, StopHotkeyd, PersistVolume, ClearPending
<1>10. CASE PowerCut \/ Boot BY <1>1, <1>2, <1>10 DEF PowerCut, Boot
<1>11. CASE \E s \in Systems, f \in Files : ChangeCard(s, f) BY <1>1, <1>2, <1>11 DEF ChangeCard
<1>12. CASE ReplaceCatalogue BY <1>1, <1>12 DEF ReplaceCatalogue, CatalogueReplaced, NoReply
<1>13. CASE UNCHANGED vars
  <2>1. overrides' = overrides /\ reply' = reply BY <1>13 DEF vars, overrideVars
  <2>2. View' = View BY <2>1 DEF View
  <2> QED BY <2>1, <2>2 DEF DocumentRead
<1> QED
  BY <1>3, <1>4, <1>5, <1>6, <1>7, <1>8, <1>9, <1>10, <1>11, <1>12, <1>13 DEF Next

LEMMA FirstDocument == ASSUME Init PROVE DocumentRead /\ reply = NoReply
<1>1. \A d \in FirstDocuments : d \in Documents BY OverrideAssumption DEF OverrideAssumption, Documents
<1> QED BY <1>1 DEF Init, OverridesInit, NoReply, DocumentRead

\* core-overrides.json implements the store of settings its callers see (core,
\* save_core_overrides): for every set of systems, files and settings, every
\* capacity of the two arrays and every document without repetitions, a
\* command changes the one record it names by all its options or by none.
THEOREM ImplementsStoreHolds == Spec => ImplementsStore
<1>1. Init => DocumentRead BY FirstDocument
<1>2. Init => Store!Init
  <2> SUFFICES ASSUME Init PROVE Store!Init OBVIOUS
  <2>1. reply = Store!Quiet BY FirstDocument DEF NoReply, Store!Quiet
  <2>2. LoadCoreOverrides(overrides) \in States BY FirstDocument, LoadedState DEF DocumentRead
  <2>3. ASSUME NEW k \in Keys PROVE DOMAIN View[k] = Fields
    <3>1. PICK st \in States : st = LoadCoreOverrides(overrides) BY <2>2
    <3>2. View[k] = SettingIn(st, k) BY <3>1, ViewIs DEF View
    <3>3. st.sys \in Arrays(FALSE, MaxSystemOverrides) /\ st.rom \in Arrays(TRUE, MaxRomOverrides) BY DEF States
    <3>4. SettingIn(st, k) \in LoadedValues BY <3>3, Capacities, SettingLoaded DEF SettingIn
    <3> QED BY <3>2, <3>4 DEF LoadedValues
  <2> QED BY <2>1, <2>3 DEF Store!Init
<1> QED BY <1>1, <1>2, StoreStep, PTL DEF Spec, ImplementsStore, Store!Spec

-----------------------------------------------------------------------------
(* The profile shown and the profile launched.                             *)

\* The first candidate the system lists, or 0.
ListedAt(s, c) == SelectInSeq(c, LAMBDA x : IsListed(s, x))

LEMMA FirstListed ==
    ASSUME NEW T, NEW c \in Seq(T), NEW s
    PROVE  \/ ListedAt(s, c) = 0 /\ \A i \in 1..Len(c) : ~IsListed(s, c[i])
           \/ /\ ListedAt(s, c) \in 1..Len(c) /\ IsListed(s, c[ListedAt(s, c)])
              /\ \A i \in 1..Len(c) : IsListed(s, c[i]) => ListedAt(s, c) <= i
<1> DEFINE I == {i \in 1..Len(c) : IsListed(s, c[i])}
<1>1. ListedAt(s, c) = IF I # {} THEN Min(I) ELSE 0 BY DEF ListedAt, SelectInSeq
<1>2. CASE I = {} BY <1>1, <1>2
<1>3. CASE I # {}
  <2>1. I \in SUBSET Nat OBVIOUS
  <2>2. \E x \in I : \A y \in I : x <= y BY <1>3, <2>1, LeastNat
  <2>3. Min(I) \in I /\ \A y \in I : Min(I) <= y BY <2>2 DEF Min
  <2> QED BY <1>1, <1>3, <2>3
<1> QED BY <1>2, <1>3

\* The profile the core screen shows is the one a launch would use
\* (print_core_selection and resolve_launch_profile): for every catalogue and
\* every document, the entries without a path included that a load skips.
THEOREM ShownIsLaunchedHolds == Spec => []ShownIsLaunched
<1>1. Init => DocumentRead BY FirstDocument
<1>2. DocumentRead => ShownIsLaunched
  <2> SUFFICES ASSUME DocumentRead, NEW k \in Keys
               PROVE  ShownProfile(LoadCoreOverrides(overrides), k[1], k[2])
                        = ResolveLaunchProfile(LoadCoreOverrides(overrides), k[1], k[2])
    BY DEF ShownIsLaunched
  <2>1. PICK st \in States : st = LoadCoreOverrides(overrides) BY LoadedState DEF DocumentRead
  <2>2. PICK s, p : s = k[1] /\ p = k[2] OBVIOUS
  <2> DEFINE r == IF p = NoPath THEN 0 ELSE FindRomCoreOverride(st, s, p)
             y == FindSystemCoreOverride(st, s)
             a == IF r > 0 THEN <<st.rom[r].val["profile"]>> ELSE <<>>
             b == IF y > 0 THEN <<st.sys[y].val["profile"]>> ELSE <<>>
             c == a \o b \o <<catalogue[s].default>>
             i == ListedAt(s, c)
  <2>3. ShownProfile(st, s, p) = IF i > 0 THEN c[i] ELSE NotListed BY DEF ShownProfile, ListedAt
  <2>4. FindRomCoreOverride(st, s, p) = r
    <3>1. CASE p = NoPath
      <4>0. PICK T : T = LoadedEntries(TRUE) OBVIOUS
      <4>1. st.rom \in Seq(T) BY <4>0 DEF States, Arrays
      <4>2. \A j \in 1..Len(st.rom) : st.rom[j].path # NoPath
        <5>1. \A e \in T : e.path # NoPath BY <4>0 DEF LoadedEntries, Readable
        <5> QED BY <4>1, <5>1
      <4>3. FindEntry(st.rom, s, NoPath) = 0 BY <4>1, <4>2, Found
      <4>4. NoPath[2] = None BY DEF NoPath
      <4>5. FindRomCoreOverride(st, s, NoPath) = 0 BY <4>3, <4>4 DEF FindRomCoreOverride
      <4> QED BY <3>1, <4>5
    <3>2. CASE p # NoPath BY <3>2
    <3> QED BY <3>1, <3>2
  <2> DEFINE u == st.rom[r].val["profile"]
             v == st.sys[y].val["profile"]
             d == catalogue[s].default
  <2>5. ResolveLaunchProfile(st, s, p) =
          IF r > 0 /\ IsListed(s, u) THEN u ELSE IF y > 0 /\ IsListed(s, v) THEN v
          ELSE IF IsListed(s, d) THEN d ELSE NotListed
    BY <2>4 DEF ResolveLaunchProfile
  <2> HIDE DEF r, y, u, v, d, i
  <2>6. c = (IF r > 0 THEN <<u>> ELSE <<>>) \o (IF y > 0 THEN <<v>> ELSE <<>>) \o <<d>> BY DEF u, v, d
  <2> HIDE DEF c, a, b
  <2>7. c \in Seq({u, v, d}) =>
           \/ i = 0 /\ \A j \in 1..Len(c) : ~IsListed(s, c[j])
           \/ /\ i \in 1..Len(c) /\ IsListed(s, c[i])
              /\ \A j \in 1..Len(c) : IsListed(s, c[j]) => i <= j
    BY FirstListed DEF i
  <2> DEFINE T == {u, v, d}
  <2>a. \A x \in Seq(T), z \in Seq(T) :
           /\ x \o z \in Seq(T) /\ Len(x \o z) = Len(x) + Len(z)
           /\ \A n \in 1..Len(x) : (x \o z)[n] = x[n]
           /\ \A n \in 1..Len(z) : (x \o z)[Len(x) + n] = z[n]
    OBVIOUS
  <2>b. \A e \in T : <<e>> \in Seq(T) /\ Len(<<e>>) = 1 /\ <<e>>[1] = e OBVIOUS
  <2>c. <<>> \in Seq(T) /\ Len(<<>>) = 0 /\ u \in T /\ v \in T /\ d \in T OBVIOUS
  <2> HIDE DEF T
  <2>8. CASE r > 0 /\ y > 0
    <3>1. PICK x : x = <<u>> \o <<v>> OBVIOUS
    <3>2. c = x \o <<d>> BY <2>6, <2>8, <3>1
    <3>3. x \in Seq(T) /\ Len(x) = 2 /\ x[1] = u /\ x[2] = v BY <2>a, <2>b, <2>c, <3>1
    <3>4. c \in Seq(T) /\ Len(c) = 3 /\ c[1] = u /\ c[2] = v /\ c[3] = d BY <2>a, <2>b, <2>c, <3>2, <3>3
    <3> QED BY <2>1, <2>2, <2>3, <2>5, <2>7, <2>8, <3>4 DEF T
  <2>9. CASE r > 0 /\ ~(y > 0)
    <3>1. PICK x : x = <<u>> \o <<>> OBVIOUS
    <3>2. c = x \o <<d>> BY <2>6, <2>9, <3>1
    <3>3. x \in Seq(T) /\ Len(x) = 1 /\ x[1] = u BY <2>a, <2>b, <2>c, <3>1
    <3>4. c \in Seq(T) /\ Len(c) = 2 /\ c[1] = u /\ c[2] = d BY <2>a, <2>b, <2>c, <3>2, <3>3
    <3> QED BY <2>1, <2>2, <2>3, <2>5, <2>7, <2>9, <3>4 DEF T
  <2>10. CASE ~(r > 0) /\ y > 0
    <3>1. PICK x : x = <<>> \o <<v>> OBVIOUS
    <3>2. c = x \o <<d>> BY <2>6, <2>10, <3>1
    <3>3. x \in Seq(T) /\ Len(x) = 1 /\ x[1] = v BY <2>a, <2>b, <2>c, <3>1
    <3>4. c \in Seq(T) /\ Len(c) = 2 /\ c[1] = v /\ c[2] = d BY <2>a, <2>b, <2>c, <3>2, <3>3
    <3> QED BY <2>1, <2>2, <2>3, <2>5, <2>7, <2>10, <3>4 DEF T
  <2>11. CASE ~(r > 0) /\ ~(y > 0)
    <3>1. c = <<d>> BY <2>6, <2>11
    <3>2. c \in Seq(T) /\ Len(c) = 1 /\ c[1] = d BY <2>b, <2>c, <3>1
    <3> QED BY <2>1, <2>2, <2>3, <2>5, <2>7, <2>11, <3>2 DEF T
  <2> QED BY <2>8, <2>9, <2>10, <2>11
<1> QED BY <1>1, <1>2, StoreStep, PTL DEF Spec

=============================================================================

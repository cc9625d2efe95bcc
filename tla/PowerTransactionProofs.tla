----------------------- MODULE PowerTransactionProofs -----------------------
(***************************************************************************)
(* Every safety invariant of the power transaction, for any number of      *)
(* selections, any faults and any number of power cuts and boots.          *)
(***************************************************************************)
EXTENDS PowerTransaction, TLAPS

\* A script past its arguments carries an action, and one past the sync-only
\* exit a terminal action.
Carries ==
    \A s \in Selections :
        /\ pc[s] \in Script => act[s] # None
        /\ pc[s] \in Script \ {"quiesce", "stopSd2"} => act[s] # "sync"

\* PID 1 supervises while its restart budget lasts.
Budget ==
    /\ ~console => restarts < RestartLimit
    /\ ~Running => ~console
    /\ pc[PID1] \in {"wait", "pause"} => ~console

\* A process past mkdir of the claim implies the claim directory.
ClaimHeld == \A p \in Procs : pc[p] \in Final => claim

\* Nobody runs while the machine is off or in its initramfs.
Asleep == ~Running => \A p \in Procs : pc[p] \in {"unused", "done"}

\* The backend is called with /storage read-only; the initramfs hands it over
\* writable.
ReadOnlyAtBackend ==
    /\ \A p \in Procs : pc[p] = "backend" => ~storage
    /\ sys = "consume" => storage

\* The owner was terminated in a system that can still write: its claim stays.
Stranded == claim /\ storage /\ Owners = {}

\* Both markers beside a mounted user partition: a script is about to unmount it
\* or was ended there, or the owner takes them back or was ended there.
Loose ==
    Running /\ user /\ p3mark /\ p4mark =>
        \/ midway \/ Halfway \/ Stranded
        \/ \E p \in Procs : pc[p] = "refuse"

TypeInv == TypeOK /\ Carries /\ Budget
OwnerInv == ClaimHeld /\ OneOwner /\ Asleep
ProofInv == ReadOnlyAtBackend /\ Loose /\ NoStaleProof

\* Initially.
LEMMA FlagsInit == Init => Flags
  BY Zenon DEF Init, Flags

\* The flags stay Booleans.
LEMMA FlagsStep == Flags /\ [Next]_vars => Flags'
<1> SUFFICES ASSUME Flags, [Next]_vars PROVE Flags'
  OBVIOUS
<1> USE DEF Flags, marks, mounts, frontend, life, bootVars
<1>1. ASSUME NEW s \in Selections, Select(s) PROVE Flags'
  BY <1>1, ZenonT(60) DEF Select
<1>2. ASSUME NEW s \in Selections, QuiesceMedia(s) PROVE Flags'
  BY <1>2, ZenonT(60) DEF QuiesceMedia
<1>3. ASSUME NEW s \in Selections, StopSd2(s) PROVE Flags'
  <2>1. sd2' \in BOOLEAN
    BY <1>3, ZenonT(60) DEF StopSd2
  <2> QED
    BY <1>3, <2>1, ZenonT(60) DEF StopSd2
<1>4. ASSUME NEW s \in Selections, Choose(s) PROVE Flags'
  BY <1>4, ZenonT(60) DEF Choose
<1>5. ASSUME NEW s \in Selections, Reuse(s) PROVE Flags'
  BY <1>5, ZenonT(60) DEF Reuse, Requested
<1>6. ASSUME NEW s \in Selections, Reissue(s) PROVE Flags'
  <2>1. CASE request' = act[s] /\ Requested(s)
    BY <1>6, <2>1, ZenonT(60) DEF Reissue, Requested
  <2>2. CASE Goto(s, "done") /\ UNCHANGED <<request, frontend>>
    BY <1>6, <2>2, ZenonT(60) DEF Reissue
  <2> QED
    BY <1>6, <2>1, <2>2, ZenonT(60) DEF Reissue
<1>7. ASSUME NEW s \in Selections, Mark(s) PROVE Flags'
  BY <1>7, ZenonT(60) DEF Mark
<1>8. ASSUME NEW s \in Selections, Unmount(s) PROVE Flags'
  BY <1>8, ZenonT(60) DEF Unmount
<1>9. ASSUME NEW s \in Selections, StopServices(s) PROVE Flags'
  BY <1>9, ZenonT(60) DEF StopServices, QuiesceFails, KillStorageUsers, Ancestor
<1>10. ASSUME NEW s \in Selections, Commit(s) PROVE Flags'
  BY <1>10, ZenonT(60) DEF Commit, Requested
<1>11. ASSUME NEW s \in Selections, FallbackWake(s) PROVE Flags'
  BY <1>11, ZenonT(60) DEF FallbackWake
<1>12. ASSUME NEW s \in Selections, FinalStopSd2(s) PROVE Flags'
  BY <1>12, ZenonT(60) DEF FinalStopSd2
<1>13. ASSUME NEW p \in Procs, Claim(p) PROVE Flags'
  BY <1>13, ZenonT(60) DEF Claim
<1>14. ASSUME NEW p \in Procs, Consume(p) PROVE Flags'
  BY <1>14, ZenonT(60) DEF Consume
<1>15. ASSUME NEW p \in Procs, Invalidate(p) PROVE Flags'
  BY <1>15, ZenonT(60) DEF Invalidate
<1>16. ASSUME NEW p \in Procs, FinalQuiesce(p) PROVE Flags'
  BY <1>16, ZenonT(60) DEF FinalQuiesce, QuiesceFails, KillStorageUsers, Ancestor
<1>17. ASSUME NEW p \in Procs, Remount(p) PROVE Flags'
  BY <1>17, ZenonT(60) DEF Remount
<1>18. ASSUME NEW p \in Procs, Refuse(p) PROVE Flags'
  BY <1>18, ZenonT(60) DEF Refuse
<1>19. ASSUME NEW p \in Procs, Backend(p) PROVE Flags'
  BY <1>19, ZenonT(60) DEF Backend, PowerLost
<1>20. ASSUME NEW p \in Procs, BackendReturns(p) PROVE Flags'
  BY <1>20, ZenonT(60) DEF BackendReturns
<1>21. CASE ReadRequest
  BY <1>21, ZenonT(60) DEF ReadRequest
<1>22. CASE Restart
  BY <1>22, ZenonT(60) DEF Restart
<1>23. CASE FrontendMount
  BY <1>23, ZenonT(60) DEF FrontendMount
<1>24. CASE FrontendStart
  BY <1>24, ZenonT(60) DEF FrontendStart
<1>25. CASE FrontendExit(TRUE)
  BY <1>25, ZenonT(60) DEF FrontendExit
<1>26. CASE FrontendExit(FALSE)
  BY <1>26, ZenonT(60) DEF FrontendExit
<1>27. CASE BootReport
  BY <1>27, ZenonT(60) DEF BootReport
<1>28. CASE BootConsume
  BY <1>28, ZenonT(60) DEF BootConsume
<1>29. CASE Cut
  BY <1>29, ZenonT(60) DEF Cut, PowerLost
<1>30. CASE BootReadP3
  BY <1>30, ZenonT(60) DEF BootReadP3
<1>31. CASE UNCHANGED vars
  BY <1>31, ZenonT(60) DEF vars
<1> QED
  BY <1>1, <1>2, <1>3, <1>4, <1>5, <1>6, <1>7, <1>8, <1>9, <1>10,
     <1>11, <1>12, <1>13, <1>14, <1>15, <1>16, <1>17, <1>18, <1>19, <1>20,
     <1>21, <1>22, <1>23, <1>24, <1>25, <1>26, <1>27, <1>28, <1>29, <1>30,
     <1>31
     DEF Next, ScriptStep, FallbackStep, FinalStep, Supervise, Launch, Boot

\* Initially.
LEMMA TypeInit == Init => TypeInv
<1> SUFFICES ASSUME Init PROVE TypeInv
  OBVIOUS
<1>1. Flags
  BY FlagsInit
<1>2. TypeOK
  BY <1>1, PowerAssumption DEF Init, TypeOK, Procs, Actions, Script, Waiting, Final
<1>3. Carries /\ Budget
  BY PowerAssumption DEF Init, Carries, Budget, Running, Procs, Script
<1> QED
  BY <1>2, <1>3 DEF TypeInv

\* Types, the action a script carries and the restart budget are inductive.
LEMMA TypeStep == TypeInv /\ Flags' /\ [Next]_vars => TypeInv'
<1> SUFFICES ASSUME TypeInv, Flags', [Next]_vars PROVE TypeInv'
  OBVIOUS
<1> USE PowerAssumption DEF TypeInv, TypeOK, Carries, Budget, Running, Procs, Actions, Script,
        Waiting, Final, Goto, Return, marks, mounts, frontend, life, bootVars
<1>1. ASSUME NEW s \in Selections, Select(s) PROVE TypeInv'
  BY <1>1 DEF Select
<1>2. ASSUME NEW s \in Selections, QuiesceMedia(s) PROVE TypeInv'
  BY <1>2 DEF QuiesceMedia
<1>3. ASSUME NEW s \in Selections, StopSd2(s) PROVE TypeInv'
  BY <1>3 DEF StopSd2
<1>4. ASSUME NEW s \in Selections, Choose(s) PROVE TypeInv'
  BY <1>4 DEF Choose
<1>5. ASSUME NEW s \in Selections, Reuse(s) PROVE TypeInv'
  BY <1>5 DEF Reuse, Requested
<1>6. ASSUME NEW s \in Selections, Reissue(s) PROVE TypeInv'
  BY <1>6 DEF Reissue, Requested
<1>7. ASSUME NEW s \in Selections, Mark(s) PROVE TypeInv'
  BY <1>7 DEF Mark
<1>8. ASSUME NEW s \in Selections, Unmount(s) PROVE TypeInv'
  BY <1>8 DEF Unmount
<1>9. ASSUME NEW s \in Selections, StopServices(s) PROVE TypeInv'
  BY <1>9 DEF StopServices, QuiesceFails, KillStorageUsers, Ancestor
<1>10. ASSUME NEW s \in Selections, Commit(s) PROVE TypeInv'
  BY <1>10 DEF Commit, Requested
<1>11. ASSUME NEW s \in Selections, FallbackWake(s) PROVE TypeInv'
  BY <1>11 DEF FallbackWake
<1>12. ASSUME NEW s \in Selections, FinalStopSd2(s) PROVE TypeInv'
  BY <1>12 DEF FinalStopSd2
<1>13. ASSUME NEW p \in Procs, Claim(p) PROVE TypeInv'
  BY <1>13 DEF Claim
<1>14. ASSUME NEW p \in Procs, Consume(p) PROVE TypeInv'
  BY <1>14 DEF Consume
<1>15. ASSUME NEW p \in Procs, Invalidate(p) PROVE TypeInv'
  BY <1>15 DEF Invalidate
<1>16. ASSUME NEW p \in Procs, FinalQuiesce(p) PROVE TypeInv'
  BY <1>16 DEF FinalQuiesce, QuiesceFails, KillStorageUsers, Ancestor
<1>17. ASSUME NEW p \in Procs, Remount(p) PROVE TypeInv'
  BY <1>17 DEF Remount
<1>18. ASSUME NEW p \in Procs, Refuse(p) PROVE TypeInv'
  BY <1>18 DEF Refuse
<1>19. ASSUME NEW p \in Procs, Backend(p) PROVE TypeInv'
  BY <1>19 DEF Backend, PowerLost
<1>20. ASSUME NEW p \in Procs, BackendReturns(p) PROVE TypeInv'
  BY <1>20 DEF BackendReturns
<1>21. CASE ReadRequest
  BY <1>21 DEF ReadRequest
<1>22. CASE Restart
  BY <1>22 DEF Restart
<1>23. CASE FrontendMount
  BY <1>23 DEF FrontendMount
<1>24. CASE FrontendStart
  BY <1>24 DEF FrontendStart
<1>25. CASE FrontendExit(TRUE)
  BY <1>25 DEF FrontendExit
<1>26. CASE FrontendExit(FALSE)
  BY <1>26 DEF FrontendExit
<1>27. CASE BootReport
  BY <1>27 DEF BootReport
<1>28. CASE BootConsume
  BY <1>28 DEF BootConsume
<1>29. CASE Cut
  BY <1>29 DEF Cut, PowerLost
<1>30. CASE BootReadP3
  BY <1>30 DEF BootReadP3
<1>31. CASE UNCHANGED vars
  BY <1>31 DEF vars
<1> QED
  BY <1>1, <1>2, <1>3, <1>4, <1>5, <1>6, <1>7, <1>8, <1>9, <1>10,
     <1>11, <1>12, <1>13, <1>14, <1>15, <1>16, <1>17, <1>18, <1>19, <1>20,
     <1>21, <1>22, <1>23, <1>24, <1>25, <1>26, <1>27, <1>28, <1>29, <1>30,
     <1>31
     DEF Next, ScriptStep, FallbackStep, FinalStep, Supervise, Launch, Boot

\* Initially.
LEMMA OwnerInit == Init => OwnerInv
  BY PowerAssumption DEF Init, OwnerInv, ClaimHeld, OneOwner, Owners, Asleep, Running, Procs, Final

\* The claim admits one owner: inductive given the types.
LEMMA OwnerStep == TypeOK /\ OwnerInv /\ [Next]_vars => OwnerInv'
<1> SUFFICES ASSUME TypeOK, OwnerInv, [Next]_vars PROVE OwnerInv'
  OBVIOUS
<1> USE PowerAssumption DEF TypeOK, OwnerInv, ClaimHeld, OneOwner, Owners, Asleep, Running, Procs,
        Script, Waiting, Final, Goto, Return, marks, mounts, frontend, life, bootVars
<1>1. ASSUME NEW s \in Selections, Select(s) PROVE OwnerInv'
  BY <1>1 DEF Select
<1>2. ASSUME NEW s \in Selections, QuiesceMedia(s) PROVE OwnerInv'
  BY <1>2 DEF QuiesceMedia
<1>3. ASSUME NEW s \in Selections, StopSd2(s) PROVE OwnerInv'
  BY <1>3 DEF StopSd2
<1>4. ASSUME NEW s \in Selections, Choose(s) PROVE OwnerInv'
  BY <1>4 DEF Choose
<1>5. ASSUME NEW s \in Selections, Reuse(s) PROVE OwnerInv'
  BY <1>5 DEF Reuse, Requested
<1>6. ASSUME NEW s \in Selections, Reissue(s) PROVE OwnerInv'
  BY <1>6 DEF Reissue, Requested
<1>7. ASSUME NEW s \in Selections, Mark(s) PROVE OwnerInv'
  BY <1>7 DEF Mark
<1>8. ASSUME NEW s \in Selections, Unmount(s) PROVE OwnerInv'
  BY <1>8 DEF Unmount
<1>9. ASSUME NEW s \in Selections, StopServices(s) PROVE OwnerInv'
  BY <1>9 DEF StopServices, QuiesceFails, KillStorageUsers, Ancestor
<1>10. ASSUME NEW s \in Selections, Commit(s) PROVE OwnerInv'
  BY <1>10 DEF Commit, Requested
<1>11. ASSUME NEW s \in Selections, FallbackWake(s) PROVE OwnerInv'
  BY <1>11 DEF FallbackWake
<1>12. ASSUME NEW s \in Selections, FinalStopSd2(s) PROVE OwnerInv'
  BY <1>12 DEF FinalStopSd2
<1>13. ASSUME NEW p \in Procs, Claim(p) PROVE OwnerInv'
  BY <1>13 DEF Claim
<1>14. ASSUME NEW p \in Procs, Consume(p) PROVE OwnerInv'
  BY <1>14 DEF Consume
<1>15. ASSUME NEW p \in Procs, Invalidate(p) PROVE OwnerInv'
  BY <1>15 DEF Invalidate
<1>16. ASSUME NEW p \in Procs, FinalQuiesce(p) PROVE OwnerInv'
  BY <1>16 DEF FinalQuiesce, QuiesceFails, KillStorageUsers, Ancestor
<1>17. ASSUME NEW p \in Procs, Remount(p) PROVE OwnerInv'
  BY <1>17 DEF Remount
<1>18. ASSUME NEW p \in Procs, Refuse(p) PROVE OwnerInv'
  BY <1>18 DEF Refuse
<1>19. ASSUME NEW p \in Procs, Backend(p) PROVE OwnerInv'
  BY <1>19 DEF Backend, PowerLost
<1>20. ASSUME NEW p \in Procs, BackendReturns(p) PROVE OwnerInv'
  BY <1>20 DEF BackendReturns
<1>21. CASE ReadRequest
  BY <1>21 DEF ReadRequest
<1>22. CASE Restart
  BY <1>22 DEF Restart
<1>23. CASE FrontendMount
  BY <1>23 DEF FrontendMount
<1>24. CASE FrontendStart
  BY <1>24 DEF FrontendStart
<1>25. CASE FrontendExit(TRUE)
  BY <1>25 DEF FrontendExit
<1>26. CASE FrontendExit(FALSE)
  BY <1>26 DEF FrontendExit
<1>27. CASE BootReport
  BY <1>27 DEF BootReport
<1>28. CASE BootConsume
  BY <1>28 DEF BootConsume
<1>29. CASE Cut
  BY <1>29 DEF Cut, PowerLost
<1>30. CASE BootReadP3
  BY <1>30 DEF BootReadP3
<1>31. CASE UNCHANGED vars
  BY <1>31 DEF vars
<1> QED
  BY <1>1, <1>2, <1>3, <1>4, <1>5, <1>6, <1>7, <1>8, <1>9, <1>10,
     <1>11, <1>12, <1>13, <1>14, <1>15, <1>16, <1>17, <1>18, <1>19, <1>20,
     <1>21, <1>22, <1>23, <1>24, <1>25, <1>26, <1>27, <1>28, <1>29, <1>30,
     <1>31
     DEF Next, ScriptStep, FallbackStep, FinalStep, Supervise, Launch, Boot

\* Initially.
LEMMA ProofInit == Init => ProofInv
  BY DEF Init, ProofInv, ReadOnlyAtBackend, Loose, NoStaleProof, Running, Procs

\* The markers are covered by a transaction in flight: inductive given the owner.
LEMMA ProofStep == TypeInv /\ OwnerInv /\ ProofInv /\ [Next]_vars => ProofInv'
<1> SUFFICES ASSUME TypeInv, OwnerInv, ProofInv, [Next]_vars PROVE ProofInv'
  OBVIOUS
<1> USE PowerAssumption DEF TypeInv, TypeOK, Carries, OwnerInv, ClaimHeld, OneOwner, Owners, Asleep,
        Running, Procs, ProofInv, ReadOnlyAtBackend, Loose, Stranded, Halfway, NoStaleProof, InFlight,
        Script, Final, Goto, Return, Actions, marks, mounts, frontend, life, bootVars
<1>1. ASSUME NEW s \in Selections, Select(s) PROVE ProofInv'
  BY <1>1 DEF Select
<1>2. ASSUME NEW s \in Selections, QuiesceMedia(s) PROVE ProofInv'
  BY <1>2 DEF QuiesceMedia
<1>3. ASSUME NEW s \in Selections, StopSd2(s) PROVE ProofInv'
  BY <1>3 DEF StopSd2
<1>4. ASSUME NEW s \in Selections, Choose(s) PROVE ProofInv'
  BY <1>4 DEF Choose
<1>5. ASSUME NEW s \in Selections, Reuse(s) PROVE ProofInv'
  BY <1>5 DEF Reuse, Requested
<1>6. ASSUME NEW s \in Selections, Reissue(s) PROVE ProofInv'
  BY <1>6 DEF Reissue, Requested
<1>7. ASSUME NEW s \in Selections, Mark(s) PROVE ProofInv'
  BY <1>7 DEF Mark
<1>8. ASSUME NEW s \in Selections, Unmount(s) PROVE ProofInv'
  <2>1. CASE user /\ user' = FALSE /\ Goto(s, "services") /\ UNCHANGED marks
    BY <1>8, <2>1 DEF Unmount
  <2>2. CASE /\ p3mark' = (p3mark /\ ~storage) /\ p4mark' = (p4mark /\ ~user)
             /\ user' = user /\ Goto(s, "done")
    BY <1>8, <2>2 DEF Unmount
  <2> QED
    BY <1>8, <2>1, <2>2 DEF Unmount
<1>9. ASSUME NEW s \in Selections, StopServices(s) PROVE ProofInv'
  <2>1. CASE /\ storage /\ KillStorageUsers(s, "commit")
             /\ midway' = (midway \/ Halfway) /\ UNCHANGED <<p3mark, gaveUp>>
    <3>1. /\ pc'[s] = "commit" /\ sys' = sys /\ user' = user /\ storage' = storage
          /\ p3mark' = p3mark /\ p4mark' = p4mark /\ claim' = claim /\ storage
      BY <1>9, <2>1 DEF StopServices, KillStorageUsers
    <3>2. \A q \in Procs : pc'[q] \in Final => pc'[q] = pc[q]
      BY <1>9, <2>1 DEF StopServices, KillStorageUsers
    <3>3. ReadOnlyAtBackend' /\ NoStaleProof'
      BY <3>1, <3>2
    <3>4. ASSUME user, p3mark, p4mark, ~midway', ~Stranded'
          PROVE  \E q \in Procs : pc'[q] = "refuse"
      <4>1. ~midway /\ ~Halfway
        BY <3>4, <2>1
      <4>2. ~Stranded
        BY <3>1, <3>2, <3>4
      <4>3. Running /\ user /\ p3mark /\ p4mark
        BY <1>9, <3>4 DEF StopServices
      <4>4. PICK q2 \in Procs : pc[q2] = "refuse"
        BY <4>1, <4>2, <4>3
      <4>5. claim
        BY <4>4
      <4>6. PICK q \in Procs : pc'[q] \in Final
        BY <4>5, <3>1, <3>4
      <4> QED
        BY <4>4, <4>6, <3>2
    <3> QED
      BY <3>1, <3>3, <3>4
  <2>2. CASE QuiesceFails(s, "done") /\ p3mark' = (p3mark /\ ~storage) /\ midway' = midway
    <3>1. CASE storage
      BY <1>9, <2>2, <3>1 DEF StopServices, QuiesceFails, KillStorageUsers, Ancestor
    <3>2. CASE ~storage
      BY <1>9, <2>2, <3>2 DEF StopServices, QuiesceFails
    <3> QED
      BY <3>1, <3>2
  <2> QED
    BY <1>9, <2>1, <2>2 DEF StopServices
<1>10. ASSUME NEW s \in Selections, Commit(s) PROVE ProofInv'
  <2>1. CASE request' = act[s] /\ Requested(s) /\ UNCHANGED <<p3mark, gaveUp>>
    BY <1>10, <2>1 DEF Commit, Requested
  <2>2. CASE /\ p3mark' = (p3mark /\ ~storage) /\ Goto(s, "done")
             /\ UNCHANGED <<request, frontend>>
    BY <1>10, <2>2 DEF Commit
  <2> QED
    BY <1>10, <2>1, <2>2 DEF Commit
<1>11. ASSUME NEW s \in Selections, FallbackWake(s) PROVE ProofInv'
  BY <1>11 DEF FallbackWake
<1>12. ASSUME NEW s \in Selections, FinalStopSd2(s) PROVE ProofInv'
  BY <1>12 DEF FinalStopSd2
<1>13. ASSUME NEW p \in Procs, Claim(p) PROVE ProofInv'
  BY <1>13 DEF Claim
<1>14. ASSUME NEW p \in Procs, Consume(p) PROVE ProofInv'
  BY <1>14 DEF Consume
<1>15. ASSUME NEW p \in Procs, Invalidate(p) PROVE ProofInv'
  BY <1>15 DEF Invalidate
<1>16. ASSUME NEW p \in Procs, FinalQuiesce(p) PROVE ProofInv'
  <2>1. CASE /\ storage /\ KillStorageUsers(p, IF p = PID1 THEN "remount" ELSE "finSd2")
             /\ midway' = (midway \/ Halfway)
    <3>1. /\ pc'[p] \in {"remount", "finSd2"} /\ sys' = sys /\ user' = user
          /\ storage' = storage /\ p3mark' = p3mark /\ p4mark' = p4mark /\ storage
      BY <1>16, <2>1 DEF FinalQuiesce, KillStorageUsers
    <3>2. \A q \in Procs : pc'[q] \in Final => q = p \/ pc'[q] = pc[q]
      BY <1>16, <2>1 DEF FinalQuiesce, KillStorageUsers
    <3>3. ReadOnlyAtBackend' /\ NoStaleProof'
      BY <3>1, <3>2
    <3>4. ~Stranded /\ ~(\E q \in Procs : pc[q] = "refuse")
      BY <1>16 DEF FinalQuiesce
    <3>5. user /\ p3mark /\ p4mark => midway \/ Halfway
      BY <1>16, <3>4 DEF FinalQuiesce
    <3>6. user /\ p3mark /\ p4mark => midway'
      BY <2>1, <3>5, Zenon
    <3> QED
      BY <3>1, <3>3, <3>6
  <2>2. CASE QuiesceFails(p, "refuse") /\ midway' = midway
    BY <1>16, <2>2 DEF FinalQuiesce, QuiesceFails, KillStorageUsers, Ancestor
  <2> QED
    BY <1>16, <2>1, <2>2 DEF FinalQuiesce
<1>17. ASSUME NEW p \in Procs, Remount(p) PROVE ProofInv'
  BY <1>17 DEF Remount
<1>18. ASSUME NEW p \in Procs, Refuse(p) PROVE ProofInv'
  BY <1>18 DEF Refuse
<1>19. ASSUME NEW p \in Procs, Backend(p) PROVE ProofInv'
  BY <1>19 DEF Backend, PowerLost
<1>20. ASSUME NEW p \in Procs, BackendReturns(p) PROVE ProofInv'
  BY <1>20 DEF BackendReturns
<1>21. CASE ReadRequest
  BY <1>21 DEF ReadRequest
<1>22. CASE Restart
  BY <1>22 DEF Restart
<1>23. CASE FrontendMount
  BY <1>23 DEF FrontendMount
<1>24. CASE FrontendStart
  BY <1>24 DEF FrontendStart
<1>25. CASE FrontendExit(TRUE)
  BY <1>25 DEF FrontendExit
<1>26. CASE FrontendExit(FALSE)
  BY <1>26 DEF FrontendExit
<1>27. CASE BootReport
  BY <1>27 DEF BootReport
<1>28. CASE BootConsume
  BY <1>28 DEF BootConsume
<1>29. CASE Cut
  BY <1>29 DEF Cut, PowerLost
<1>30. CASE BootReadP3
  BY <1>30 DEF BootReadP3
<1>31. CASE UNCHANGED vars
  BY <1>31 DEF vars
<1> QED
  BY <1>1, <1>2, <1>3, <1>4, <1>5, <1>6, <1>7, <1>8, <1>9, <1>10,
     <1>11, <1>12, <1>13, <1>14, <1>15, <1>16, <1>17, <1>18, <1>19, <1>20,
     <1>21, <1>22, <1>23, <1>24, <1>25, <1>26, <1>27, <1>28, <1>29, <1>30,
     <1>31
     DEF Next, ScriptStep, FallbackStep, FinalStep, Supervise, Launch, Boot

\* The typing invariant of every behaviour.
LEMMA TypeInvHolds == Spec => []TypeInv
<1>1. Init => Flags /\ TypeInv
  BY FlagsInit, TypeInit
<1>2. (Flags /\ TypeInv) /\ [Next]_vars => (Flags /\ TypeInv)'
  BY FlagsStep, TypeStep
<1> QED
  BY <1>1, <1>2, PTL DEF Spec

(***************************************************************************)
(* TypeCorrect: the state keeps its type; a committed request is always a  *)
(* terminal action (the sync-only script of plumos-safe-shutdown never     *)
(* commits one) and the restart budget is never exceeded.                  *)
(***************************************************************************)
THEOREM TypeCorrect == Spec => []TypeOK
<1>1. TypeInv => TypeOK
  BY DEF TypeInv
<1> QED
  BY <1>1, TypeInvHolds, PTL

(***************************************************************************)
(* OneOwnerHolds: mkdir of the claim admits one finisher among PID 1 and   *)
(* all delayed finalizers, whatever fails and however often power is cut.  *)
(***************************************************************************)
THEOREM OneOwnerHolds == Spec => []OneOwner
<1>1. TypeOK /\ OwnerInv /\ [Next]_vars => OwnerInv'
  BY OwnerStep
<1>2. OwnerInv => OneOwner
  BY DEF OwnerInv
<1> QED
  BY OwnerInit, <1>1, <1>2, TypeCorrect, PTL DEF Spec

(***************************************************************************)
(* NoStaleProofHolds: in a running system that can still write, both       *)
(* clean-shutdown markers exist only while a transaction is in flight or   *)
(* after another power action ended a script between its markers and its   *)
(* unmount: every failing branch of plumos-safe-shutdown, its finalizer    *)
(* and finalize_power_action takes the proof back.                         *)
(***************************************************************************)
THEOREM NoStaleProofHolds == Spec => []NoStaleProof
<1>1. TypeInv /\ OwnerInv /\ [Next]_vars => OwnerInv'
  BY OwnerStep DEF TypeInv
<1>2. TypeInv /\ OwnerInv /\ ProofInv /\ [Next]_vars => ProofInv'
  BY ProofStep
<1>3. ProofInv => NoStaleProof
  BY DEF ProofInv
<1> QED
  BY OwnerInit, ProofInit, <1>1, <1>2, <1>3, TypeInvHolds, PTL DEF Spec

-----------------------------------------------------------------------------
(* The user partition *)

\* Somebody is responsible for a missing user partition, or a script has given
\* up without it.  A script that is still about to unmount is not responsible: it
\* leaves when it finds the partition gone.
Borne ==
    /\ Running /\ ~user =>
        \/ request # None \/ gaveUp
        \/ \E s \in Selections : pc[s] \in {"services", "commit"}
        \/ \E p \in Procs : pc[p] \in Final \ {"claimed"}
    /\ sys = "consume" => user

\* The responsibility passes from script to request to owner without a gap, also
\* when terminate-storage kills another script or an owner on the way.
LEMMA BorneStep == TypeInv /\ Borne /\ [Next]_vars => Borne'
<1> SUFFICES ASSUME TypeInv, Borne, [Next]_vars PROVE Borne'
  OBVIOUS
<1> USE PowerAssumption DEF TypeInv, TypeOK, Flags, Carries, Borne, Running, Procs,
        Script, Final, Goto, Return, Actions, marks, mounts, frontend, life, bootVars
<1>1. ASSUME NEW s \in Selections, Select(s) PROVE Borne'
  BY <1>1 DEF Select
<1>2. ASSUME NEW s \in Selections, QuiesceMedia(s) PROVE Borne'
  BY <1>2 DEF QuiesceMedia
<1>3. ASSUME NEW s \in Selections, StopSd2(s) PROVE Borne'
  BY <1>3 DEF StopSd2
<1>4. ASSUME NEW s \in Selections, Choose(s) PROVE Borne'
  BY <1>4 DEF Choose
<1>5. ASSUME NEW s \in Selections, Reuse(s) PROVE Borne'
  BY <1>5 DEF Reuse, Requested
<1>6. ASSUME NEW s \in Selections, Reissue(s) PROVE Borne'
  BY <1>6 DEF Reissue, Requested
<1>7. ASSUME NEW s \in Selections, Mark(s) PROVE Borne'
  BY <1>7 DEF Mark
<1>8. ASSUME NEW s \in Selections, Unmount(s) PROVE Borne'
  BY <1>8 DEF Unmount
<1>9. ASSUME NEW s \in Selections, StopServices(s) PROVE Borne'
  BY <1>9 DEF StopServices, QuiesceFails, KillStorageUsers, Ancestor
<1>10. ASSUME NEW s \in Selections, Commit(s) PROVE Borne'
  BY <1>10 DEF Commit, Requested
<1>11. ASSUME NEW s \in Selections, FallbackWake(s) PROVE Borne'
  BY <1>11 DEF FallbackWake
<1>12. ASSUME NEW s \in Selections, FinalStopSd2(s) PROVE Borne'
  BY <1>12 DEF FinalStopSd2
<1>13. ASSUME NEW p \in Procs, Claim(p) PROVE Borne'
  BY <1>13 DEF Claim
<1>14. ASSUME NEW p \in Procs, Consume(p) PROVE Borne'
  BY <1>14 DEF Consume
<1>15. ASSUME NEW p \in Procs, Invalidate(p) PROVE Borne'
  BY <1>15 DEF Invalidate
<1>16. ASSUME NEW p \in Procs, FinalQuiesce(p) PROVE Borne'
  BY <1>16 DEF FinalQuiesce, QuiesceFails, KillStorageUsers, Ancestor
<1>17. ASSUME NEW p \in Procs, Remount(p) PROVE Borne'
  BY <1>17 DEF Remount
<1>18. ASSUME NEW p \in Procs, Refuse(p) PROVE Borne'
  BY <1>18 DEF Refuse
<1>19. ASSUME NEW p \in Procs, Backend(p) PROVE Borne'
  BY <1>19 DEF Backend, PowerLost
<1>20. ASSUME NEW p \in Procs, BackendReturns(p) PROVE Borne'
  BY <1>20 DEF BackendReturns
<1>21. CASE ReadRequest
  BY <1>21 DEF ReadRequest
<1>22. CASE Restart
  BY <1>22 DEF Restart
<1>23. CASE FrontendMount
  BY <1>23 DEF FrontendMount
<1>24. CASE FrontendStart
  BY <1>24 DEF FrontendStart
<1>25. CASE FrontendExit(TRUE)
  BY <1>25 DEF FrontendExit
<1>26. CASE FrontendExit(FALSE)
  BY <1>26 DEF FrontendExit
<1>27. CASE BootReport
  BY <1>27 DEF BootReport
<1>28. CASE BootConsume
  BY <1>28 DEF BootConsume
<1>29. CASE Cut
  BY <1>29 DEF Cut, PowerLost
<1>30. CASE BootReadP3
  BY <1>30 DEF BootReadP3
<1>31. CASE UNCHANGED vars
  BY <1>31 DEF vars
<1> QED
  BY <1>1, <1>2, <1>3, <1>4, <1>5, <1>6, <1>7, <1>8, <1>9, <1>10,
     <1>11, <1>12, <1>13, <1>14, <1>15, <1>16, <1>17, <1>18, <1>19, <1>20,
     <1>21, <1>22, <1>23, <1>24, <1>25, <1>26, <1>27, <1>28, <1>29, <1>30,
     <1>31
     DEF Next, ScriptStep, FallbackStep, FinalStep, Supervise, Launch, Boot

(***************************************************************************)
(* NotTrappedHolds: the user partition is missing from the running system  *)
(* only while an action is in flight or after one of the four branches     *)
(* that give up without it, for any number of overlapping selections,      *)
(* restarts, power cuts and boots and whichever steps fail.                *)
(***************************************************************************)
THEOREM NotTrappedHolds == Spec => []NotTrapped
<1>1. Init => Borne
  BY DEF Init, Borne, Running
<1>2. TypeInv /\ Borne /\ [Next]_vars => Borne'
  BY BorneStep
<1>3. Borne => NotTrapped
  BY DEF Borne, NotTrapped, InFlight
<1> QED
  BY <1>1, <1>2, <1>3, TypeInvHolds, PTL DEF Spec

-----------------------------------------------------------------------------
(* The proof of a clean shutdown *)

\* A power-off that was not clean left at most one marker, but for the two
\* exceptions; the initramfs reads what is there and consumes p3's first.
Withdrawn ==
    /\ sys \in {"off", "initramfs"} /\ dirty => ~(p3mark /\ p4mark) \/ midway
    /\ sys = "initramfs" => seen = p3mark
    /\ sys = "consume" => ~p3mark

CleanInv == Withdrawn /\ CleanIsTrue

\* The proof is withdrawn before the backend is called on a mounted user partition.
LEMMA CleanStep ==
    TypeInv /\ OwnerInv /\ ProofInv /\ CleanInv /\ [Next]_vars => CleanInv'
<1> SUFFICES ASSUME TypeInv, OwnerInv, ProofInv, CleanInv, [Next]_vars PROVE CleanInv'
  OBVIOUS
<1> USE PowerAssumption DEF TypeInv, TypeOK, Flags, OwnerInv, ClaimHeld, OneOwner, Owners,
        ProofInv, ReadOnlyAtBackend, Loose, Stranded, Halfway, NoStaleProof, CleanInv,
        Withdrawn, CleanIsTrue, Running, Procs, Final, Goto, marks, mounts, frontend, life,
        bootVars
<1>1. ASSUME NEW s \in Selections, Select(s) PROVE CleanInv'
  BY <1>1 DEF Select
<1>2. ASSUME NEW s \in Selections, QuiesceMedia(s) PROVE CleanInv'
  BY <1>2 DEF QuiesceMedia
<1>3. ASSUME NEW s \in Selections, StopSd2(s) PROVE CleanInv'
  BY <1>3 DEF StopSd2
<1>4. ASSUME NEW s \in Selections, Choose(s) PROVE CleanInv'
  BY <1>4 DEF Choose
<1>5. ASSUME NEW s \in Selections, Reuse(s) PROVE CleanInv'
  BY <1>5 DEF Reuse, Requested
<1>6. ASSUME NEW s \in Selections, Reissue(s) PROVE CleanInv'
  BY <1>6 DEF Reissue, Requested
<1>7. ASSUME NEW s \in Selections, Mark(s) PROVE CleanInv'
  BY <1>7 DEF Mark
<1>8. ASSUME NEW s \in Selections, Unmount(s) PROVE CleanInv'
  BY <1>8 DEF Unmount
<1>9. ASSUME NEW s \in Selections, StopServices(s) PROVE CleanInv'
  BY <1>9 DEF StopServices, QuiesceFails, KillStorageUsers, Ancestor
<1>10. ASSUME NEW s \in Selections, Commit(s) PROVE CleanInv'
  BY <1>10 DEF Commit, Requested
<1>11. ASSUME NEW s \in Selections, FallbackWake(s) PROVE CleanInv'
  BY <1>11 DEF FallbackWake
<1>12. ASSUME NEW s \in Selections, FinalStopSd2(s) PROVE CleanInv'
  BY <1>12 DEF FinalStopSd2
<1>13. ASSUME NEW p \in Procs, Claim(p) PROVE CleanInv'
  BY <1>13 DEF Claim
<1>14. ASSUME NEW p \in Procs, Consume(p) PROVE CleanInv'
  BY <1>14 DEF Consume
<1>15. ASSUME NEW p \in Procs, Invalidate(p) PROVE CleanInv'
  BY <1>15 DEF Invalidate
<1>16. ASSUME NEW p \in Procs, FinalQuiesce(p) PROVE CleanInv'
  BY <1>16 DEF FinalQuiesce, QuiesceFails, KillStorageUsers, Ancestor
<1>17. ASSUME NEW p \in Procs, Remount(p) PROVE CleanInv'
  BY <1>17 DEF Remount
<1>18. ASSUME NEW p \in Procs, Refuse(p) PROVE CleanInv'
  BY <1>18 DEF Refuse
<1>19. ASSUME NEW p \in Procs, Backend(p) PROVE CleanInv'
  BY <1>19 DEF Backend, PowerLost
<1>20. ASSUME NEW p \in Procs, BackendReturns(p) PROVE CleanInv'
  BY <1>20 DEF BackendReturns
<1>21. CASE ReadRequest
  BY <1>21 DEF ReadRequest
<1>22. CASE Restart
  BY <1>22 DEF Restart
<1>23. CASE FrontendMount
  BY <1>23 DEF FrontendMount
<1>24. CASE FrontendStart
  BY <1>24 DEF FrontendStart
<1>25. CASE FrontendExit(TRUE)
  BY <1>25 DEF FrontendExit
<1>26. CASE FrontendExit(FALSE)
  BY <1>26 DEF FrontendExit
<1>27. CASE BootReport
  BY <1>27 DEF BootReport
<1>28. CASE BootConsume
  BY <1>28 DEF BootConsume
<1>29. CASE Cut
  BY <1>29 DEF Cut, PowerLost
<1>30. CASE BootReadP3
  BY <1>30 DEF BootReadP3
<1>31. CASE UNCHANGED vars
  BY <1>31 DEF vars
<1> QED
  BY <1>1, <1>2, <1>3, <1>4, <1>5, <1>6, <1>7, <1>8, <1>9, <1>10,
     <1>11, <1>12, <1>13, <1>14, <1>15, <1>16, <1>17, <1>18, <1>19, <1>20,
     <1>21, <1>22, <1>23, <1>24, <1>25, <1>26, <1>27, <1>28, <1>29, <1>30,
     <1>31
     DEF Next, ScriptStep, FallbackStep, FinalStep, Supervise, Launch, Boot

(***************************************************************************)
(* CleanIsTrueHolds: a boot reports a clean shutdown only if the           *)
(* filesystems were down when power went, or the power was cut inside a    *)
(* transaction, or another power action ended a script between its markers *)
(* and its unmount: whichever steps failed, however many selections        *)
(* overlapped, and whether PID 1 or a finalizer ended the action.          *)
(***************************************************************************)
THEOREM CleanIsTrueHolds == Spec => []CleanIsTrue
<1>1. Init => CleanInv
  BY DEF Init, CleanInv, Withdrawn, CleanIsTrue
<1>2. TypeInv /\ OwnerInv /\ [Next]_vars => OwnerInv'
  BY OwnerStep DEF TypeInv
<1>3. TypeInv /\ OwnerInv /\ ProofInv /\ [Next]_vars => ProofInv'
  BY ProofStep
<1>4. TypeInv /\ OwnerInv /\ ProofInv /\ CleanInv /\ [Next]_vars => CleanInv'
  BY CleanStep
<1>5. CleanInv => CleanIsTrue
  BY DEF CleanInv
<1> QED
  BY OwnerInit, ProofInit, <1>1, <1>2, <1>3, <1>4, <1>5, TypeInvHolds, PTL DEF Spec

=============================================================================

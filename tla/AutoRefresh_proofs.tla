-------------------------- MODULE AutoRefresh_proofs --------------------------
(***************************************************************************)
(* The refresh of a stale key beside commands and under them, for any      *)
(* number of filters, commands, generations, runs and faults.               *)
(***************************************************************************)
EXTENDS AutoRefresh, TLAPS

(* The invariant holds before anything runs.                                *)
LEMMA InitIInv == Init => IInv
<1> SUFFICES ASSUME Init PROVE IInv
  OBVIOUS
<1>1. TypeOK
  <2>1. pub \in Gens /\ env \in 0 .. MaxGen /\ key \in 0 .. MaxGen /\ newest \in Gens
    BY RefreshBoundsType DEF Init, Gens
  <2>2. 0 \in 0 .. MaxGen /\ 0 \in 0 .. MaxFiles /\ 0 \in 0 .. MaxRuns /\ 0 \in 0 .. MaxFaults
    BY RefreshBoundsType
  <2>. QED BY <2>1, <2>2 DEF Init, TypeOK, FilterSteps, CommandSteps
<1>2. HolderInv /\ UnderInv
  BY DEF Init, HolderInv, UnderInv
<1>3. FileInv
  BY DEF Init, FileInv, Refreshing
<1>. QED BY <1>1, <1>2, <1>3 DEF IInv

(* What is done to refresh.lock leaves a refresh.lock.                      *)
LEMMA LockFileFacts ==
  /\ \A f \in Filters : NewFile(f) \in LockFiles
  /\ \A l \in LockFiles : /\ [l EXCEPT !.text = TRUE] \in LockFiles
                         /\ [l EXCEPT !.alive = FALSE] \in LockFiles
                         /\ [l EXCEPT !.old = TRUE] \in LockFiles
BY DEF NewFile, LockFiles

(* Every step keeps the types.                                              *)
LEMMA TypeKeeps == IInv /\ [Next]_vars => TypeOK'
<1> SUFFICES ASSUME IInv, [Next]_vars PROVE TypeOK'
  OBVIOUS
<1> USE RefreshNamesType, RefreshFileType, RefreshBoundsType DEF IInv, Goto, CmdGoto, keyVars, counters, Procs
<1>1. CASE UNCHANGED vars
  BY <1>1 DEF vars, TypeOK, FilterSteps, CommandSteps, Refreshing
<1>2. ASSUME NEW f \in Filters, StartAlone(f) PROVE TypeOK'
  BY <1>2 DEF StartAlone, Start, TypeOK, FilterSteps, CommandSteps, Refreshing
<1>3. ASSUME NEW f \in Filters, Adopt(f) PROVE TypeOK'
  BY <1>3 DEF Adopt, Finish, TypeOK, FilterSteps, CommandSteps, Refreshing
<1>4. ASSUME NEW f \in Filters, TryAgain(f) PROVE TypeOK'
  BY <1>4 DEF TryAgain, TypeOK, FilterSteps, CommandSteps, Refreshing
<1>5. ASSUME NEW f \in Filters, Create(f) PROVE TypeOK'
  BY <1>5, LockFileFacts DEF Create, TypeOK, FilterSteps, Refreshing
<1>6. ASSUME NEW f \in Filters, Inspect(f) PROVE TypeOK'
  BY <1>6 DEF Inspect, LooksAbandoned, TypeOK, FilterSteps, CommandSteps, Refreshing
<1>7. ASSUME NEW f \in Filters, Break(f) PROVE TypeOK'
  BY <1>7 DEF Break, TypeOK, FilterSteps, CommandSteps, Refreshing
<1>8. ASSUME NEW f \in Filters, Awake(f) PROVE TypeOK'
  BY <1>8 DEF Awake, TypeOK, FilterSteps, CommandSteps, Refreshing
<1>9. ASSUME NEW f \in Filters, WritePid(f) PROVE TypeOK'
  BY <1>9, LockFileFacts DEF WritePid, TypeOK, FilterSteps, Refreshing
<1>10. ASSUME NEW f \in Filters, Recheck(f) PROVE TypeOK'
  BY <1>10 DEF Recheck, TypeOK, FilterSteps, CommandSteps, Refreshing
<1>11. ASSUME NEW f \in Filters, Expect(f) PROVE TypeOK'
  BY <1>11 DEF Expect, TypeOK, FilterSteps, Refreshing, Gens
<1>12. ASSUME NEW f \in Filters, Unwrap(f) PROVE TypeOK'
  BY <1>12 DEF Unwrap, TypeOK, FilterSteps, CommandSteps, Refreshing
<1>13. ASSUME NEW f \in Filters, FilterTake(f) PROVE TypeOK'
  BY <1>13 DEF FilterTake, Mutex!Take, TypeOK, FilterSteps, CommandSteps, Refreshing
<1>14. ASSUME NEW f \in Filters, FilterTimesOut(f) PROVE TypeOK'
  BY <1>14 DEF FilterTimesOut, TypeOK, FilterSteps, CommandSteps, Refreshing
<1>15. ASSUME NEW f \in Filters, Save(f) \/ SaveFails(f) PROVE TypeOK'
  BY <1>15 DEF Save, SaveFails, TypeOK, FilterSteps, CommandSteps, Refreshing
<1>16. ASSUME NEW f \in Filters, DropGuard(f) PROVE TypeOK'
  BY <1>16 DEF DropGuard, Finish, TypeOK, FilterSteps, CommandSteps, Refreshing
<1>17. ASSUME NEW f \in Filters, LosePatience(f) PROVE TypeOK'
  BY <1>17 DEF LosePatience, TypeOK, FilterSteps, CommandSteps, Refreshing
<1>18. ASSUME NEW f \in Filters, KillFilter(f) PROVE TypeOK'
  <2>1. lockFile' \in LockFiles \cup {NoFile}
    BY <1>18, LockFileFacts DEF KillFilter, TypeOK
  <2>2. faults' \in 0 .. MaxFaults /\ holders' \subseteq Procs
    BY <1>18 DEF KillFilter, TypeOK
  <2>. QED BY <1>18, <2>1, <2>2 DEF KillFilter, Finish, UnderInv, TypeOK, FilterSteps, CommandSteps
<1>19. ASSUME NEW c \in Commands, Begin(c) PROVE TypeOK'
  BY <1>19 DEF Begin, TypeOK, FilterSteps, CommandSteps, Refreshing
<1>20. ASSUME NEW c \in Commands, CommandTake(c) PROVE TypeOK'
  BY <1>20 DEF CommandTake, Mutex!Take, TypeOK, FilterSteps, CommandSteps, Refreshing
<1>21. ASSUME NEW c \in Commands, CommandTimesOut(c) PROVE TypeOK'
  BY <1>21 DEF CommandTimesOut, TypeOK, FilterSteps, CommandSteps, Refreshing
<1>22. ASSUME NEW c \in Commands, Sweep(c) PROVE TypeOK'
  BY <1>22 DEF Sweep, TypeOK, FilterSteps, CommandSteps, Refreshing
<1>23. ASSUME NEW c \in Commands, Body(c) PROVE TypeOK'
  BY <1>23 DEF Body, TypeOK, FilterSteps, CommandSteps, Refreshing
<1>24. ASSUME NEW c \in Commands, Return(c) PROVE TypeOK'
  BY <1>24 DEF Return, Mutex!Give, TypeOK, FilterSteps, CommandSteps, Refreshing
<1>25. ASSUME NEW c \in Commands, KillCommand(c) PROVE TypeOK'
  BY <1>25 DEF KillCommand, TypeOK, FilterSteps, CommandSteps, Refreshing
<1>26. ASSUME NEW c \in Commands, NEW f \in Filters, RunGit(c, f) PROVE TypeOK'
  BY <1>26 DEF RunGit, Start, TypeOK, FilterSteps, CommandSteps, Refreshing
<1>27. ASSUME NEW p \in Procs, Expire(p) PROVE TypeOK'
  BY <1>27 DEF Expire, TypeOK, FilterSteps, CommandSteps, Refreshing
<1>28. ASSUME Age PROVE TypeOK'
  BY <1>28, LockFileFacts DEF Age, TypeOK
<1>29. ASSUME Rotate PROVE TypeOK'
  BY <1>29 DEF Rotate, Gens, TypeOK, FilterSteps, CommandSteps, Refreshing
<1>30. ASSUME Pull PROVE TypeOK'
  BY <1>30 DEF Pull, Gens, TypeOK, FilterSteps, CommandSteps, Refreshing
<1>. QED
  BY <1>1, <1>2, <1>3, <1>4, <1>5, <1>6, <1>7, <1>8, <1>9, <1>10, <1>11, <1>12, <1>13, <1>14, <1>15, <1>16, <1>17, <1>18, <1>19, <1>20, <1>21, <1>22, <1>23, <1>24, <1>25, <1>26, <1>27, <1>28, <1>29, <1>30
     DEF Next, FilterStep, CommandStep

(* A filter that returns is not inside any more; its command still is.      *)
LEMMA FinishHolder ==
  ASSUME IInv, NEW f \in Filters, Finish(f), holders' = holders \ {f} \/ (holders' = holders /\ at[f] # "save")
  PROVE  HolderInv'
<1> USE RefreshNamesType DEF IInv
<1>1. under[f] # Nobody => cmd[under[f]] = "git" /\ back[under[f]] \in {"startup", "body", "end"}
  BY DEF UnderInv, TypeOK
<1>2. \A c \in Commands : cmd'[c] \in {"startup", "body", "git", "end"}
                         <=> cmd[c] \in {"startup", "body", "git", "end"}
  BY <1>1 DEF Finish, CmdGoto, TypeOK
<1>3. \A g \in Filters : at'[g] = "save" <=> at[g] = "save" /\ g # f
  BY DEF Finish, Goto, TypeOK
<1>. QED BY <1>2, <1>3 DEF HolderInv

(* Every step keeps the account of who is inside recovery.lock.             *)
LEMMA HolderKeeps == IInv /\ [Next]_vars => HolderInv'
<1> SUFFICES ASSUME IInv, [Next]_vars PROVE HolderInv'
  OBVIOUS
<1> USE RefreshNamesType, RefreshFileType, RefreshBoundsType DEF IInv, Goto, CmdGoto, keyVars, counters, Procs
<1>1. CASE UNCHANGED vars
  BY <1>1 DEF vars, HolderInv, TypeOK
<1>2. ASSUME NEW f \in Filters, StartAlone(f) PROVE HolderInv'
  BY <1>2 DEF StartAlone, Start, HolderInv, TypeOK
<1>3. ASSUME NEW f \in Filters, Adopt(f) PROVE HolderInv'
  <2>1. at[f] # "save" /\ Finish(f) /\ holders' = holders /\ UNCHANGED back
    BY <1>3 DEF Adopt
  <2>. QED BY <2>1, FinishHolder
<1>4. ASSUME NEW f \in Filters, TryAgain(f) PROVE HolderInv'
  BY <1>4 DEF TryAgain, HolderInv, TypeOK
<1>5. ASSUME NEW f \in Filters, Create(f) PROVE HolderInv'
  BY <1>5 DEF Create, NewFile, HolderInv, TypeOK
<1>6. ASSUME NEW f \in Filters, Inspect(f) PROVE HolderInv'
  BY <1>6 DEF Inspect, LooksAbandoned, HolderInv, TypeOK
<1>7. ASSUME NEW f \in Filters, Break(f) PROVE HolderInv'
  BY <1>7 DEF Break, HolderInv, TypeOK
<1>8. ASSUME NEW f \in Filters, Awake(f) PROVE HolderInv'
  BY <1>8 DEF Awake, HolderInv, TypeOK
<1>9. ASSUME NEW f \in Filters, WritePid(f) PROVE HolderInv'
  BY <1>9 DEF WritePid, HolderInv, TypeOK
<1>10. ASSUME NEW f \in Filters, Recheck(f) PROVE HolderInv'
  BY <1>10 DEF Recheck, HolderInv, TypeOK
<1>11. ASSUME NEW f \in Filters, Expect(f) PROVE HolderInv'
  BY <1>11 DEF Expect, HolderInv, TypeOK
<1>12. ASSUME NEW f \in Filters, Unwrap(f) PROVE HolderInv'
  BY <1>12 DEF Unwrap, HolderInv, TypeOK
<1>13. ASSUME NEW f \in Filters, FilterTake(f) PROVE HolderInv'
  BY <1>13 DEF FilterTake, Mutex!Take, HolderInv, TypeOK
<1>14. ASSUME NEW f \in Filters, FilterTimesOut(f) PROVE HolderInv'
  BY <1>14 DEF FilterTimesOut, HolderInv, TypeOK
<1>15. ASSUME NEW f \in Filters, Save(f) \/ SaveFails(f) PROVE HolderInv'
  BY <1>15 DEF Save, SaveFails, HolderInv, TypeOK
<1>16. ASSUME NEW f \in Filters, DropGuard(f) PROVE HolderInv'
  <2>1. at[f] # "save" /\ Finish(f) /\ holders' = holders /\ UNCHANGED back
    BY <1>16 DEF DropGuard
  <2>. QED BY <2>1, FinishHolder
<1>17. ASSUME NEW f \in Filters, LosePatience(f) PROVE HolderInv'
  BY <1>17 DEF LosePatience, HolderInv, TypeOK
<1>18. ASSUME NEW f \in Filters, KillFilter(f) PROVE HolderInv'
  BY <1>18, FinishHolder DEF KillFilter
<1>19. ASSUME NEW c \in Commands, Begin(c) PROVE HolderInv'
  BY <1>19 DEF Begin, HolderInv, TypeOK
<1>20. ASSUME NEW c \in Commands, CommandTake(c) PROVE HolderInv'
  BY <1>20 DEF CommandTake, Mutex!Take, HolderInv, TypeOK
<1>21. ASSUME NEW c \in Commands, CommandTimesOut(c) PROVE HolderInv'
  BY <1>21 DEF CommandTimesOut, HolderInv, TypeOK
<1>22. ASSUME NEW c \in Commands, Sweep(c) PROVE HolderInv'
  BY <1>22 DEF Sweep, HolderInv, TypeOK
<1>23. ASSUME NEW c \in Commands, Body(c) PROVE HolderInv'
  BY <1>23 DEF Body, HolderInv, TypeOK
<1>24. ASSUME NEW c \in Commands, Return(c) PROVE HolderInv'
  BY <1>24 DEF Return, Mutex!Give, HolderInv, TypeOK
<1>25. ASSUME NEW c \in Commands, KillCommand(c) PROVE HolderInv'
  BY <1>25 DEF KillCommand, HolderInv, TypeOK
<1>26. ASSUME NEW c \in Commands, NEW f \in Filters, RunGit(c, f) PROVE HolderInv'
  BY <1>26 DEF RunGit, Start, HolderInv, TypeOK
<1>27. ASSUME NEW p \in Procs, Expire(p) PROVE HolderInv'
  BY <1>27 DEF Expire, HolderInv, TypeOK
<1>28. ASSUME Age PROVE HolderInv'
  BY <1>28 DEF Age, Gens, HolderInv, TypeOK
<1>29. ASSUME Rotate PROVE HolderInv'
  BY <1>29 DEF Rotate, Gens, HolderInv, TypeOK
<1>30. ASSUME Pull PROVE HolderInv'
  BY <1>30 DEF Pull, Gens, HolderInv, TypeOK
<1>. QED
  BY <1>1, <1>2, <1>3, <1>4, <1>5, <1>6, <1>7, <1>8, <1>9, <1>10, <1>11, <1>12, <1>13, <1>14, <1>15, <1>16, <1>17, <1>18, <1>19, <1>20, <1>21, <1>22, <1>23, <1>24, <1>25, <1>26, <1>27, <1>28, <1>29, <1>30
     DEF Next, FilterStep, CommandStep

(* A filter that returns takes its command back to where it was.            *)
LEMMA FinishUnder ==
  ASSUME IInv, NEW f \in Filters, Finish(f), back' = back PROVE UnderInv'
<1> USE RefreshNamesType DEF IInv
<1>1. /\ under'[f] = Nobody
      /\ \A g \in Filters : g # f => under'[g] = under[g] /\ at'[g] = at[g]
  BY DEF Finish, Goto, TypeOK
<1>2. under[f] # Nobody => back[under[f]] \in {"startup", "body", "end"}
  BY DEF UnderInv, TypeOK
<1>3. \A c \in Commands : IF c = under[f] THEN cmd'[c] # "git" ELSE cmd'[c] = cmd[c]
  BY <1>2 DEF Finish, CmdGoto, TypeOK
<1>4. \A g \in Filters : under'[g] # Nobody => at'[g] # "idle" /\ cmd'[under'[g]] = "git"
  <2> SUFFICES ASSUME NEW g \in Filters, under'[g] # Nobody
               PROVE  at'[g] # "idle" /\ cmd'[under'[g]] = "git"
    OBVIOUS
  <2>1. g # f /\ under'[g] = under[g] /\ at'[g] = at[g]
    BY <1>1
  <2>2. under[g] \in Commands /\ under[g] # under[f]
    BY <2>1 DEF UnderInv, TypeOK
  <2>. QED BY <1>3, <2>1, <2>2 DEF UnderInv
<1>5. \A g, h \in Filters : under'[g] = under'[h] /\ under'[g] # Nobody => g = h
  BY <1>1 DEF UnderInv
<1>6. \A c \in Commands : cmd'[c] = "git" => /\ \E g \in Filters : under'[g] = c
                                             /\ back'[c] \in {"startup", "body", "end"}
  BY <1>1, <1>3 DEF UnderInv
<1>. QED BY <1>4, <1>5, <1>6 DEF UnderInv

(* Every step keeps each command and the filter it waits for together.      *)
LEMMA UnderKeeps == IInv /\ [Next]_vars => UnderInv'
<1> SUFFICES ASSUME IInv, [Next]_vars PROVE UnderInv'
  OBVIOUS
<1> USE RefreshNamesType, RefreshFileType, RefreshBoundsType DEF IInv, Goto, CmdGoto, keyVars, counters, Procs
<1>1. CASE UNCHANGED vars
  BY <1>1 DEF vars, UnderInv, TypeOK
<1>2. ASSUME NEW f \in Filters, StartAlone(f) PROVE UnderInv'
  BY <1>2 DEF StartAlone, Start, UnderInv, TypeOK
<1>3. ASSUME NEW f \in Filters, Adopt(f) PROVE UnderInv'
  BY <1>3, FinishUnder DEF Adopt
<1>4. ASSUME NEW f \in Filters, TryAgain(f) PROVE UnderInv'
  BY <1>4 DEF TryAgain, UnderInv, TypeOK
<1>5. ASSUME NEW f \in Filters, Create(f) PROVE UnderInv'
  BY <1>5 DEF Create, NewFile, UnderInv, TypeOK
<1>6. ASSUME NEW f \in Filters, Inspect(f) PROVE UnderInv'
  BY <1>6 DEF Inspect, LooksAbandoned, UnderInv, TypeOK
<1>7. ASSUME NEW f \in Filters, Break(f) PROVE UnderInv'
  BY <1>7 DEF Break, UnderInv, TypeOK
<1>8. ASSUME NEW f \in Filters, Awake(f) PROVE UnderInv'
  BY <1>8 DEF Awake, UnderInv, TypeOK
<1>9. ASSUME NEW f \in Filters, WritePid(f) PROVE UnderInv'
  BY <1>9 DEF WritePid, UnderInv, TypeOK
<1>10. ASSUME NEW f \in Filters, Recheck(f) PROVE UnderInv'
  BY <1>10 DEF Recheck, UnderInv, TypeOK
<1>11. ASSUME NEW f \in Filters, Expect(f) PROVE UnderInv'
  BY <1>11 DEF Expect, UnderInv, TypeOK
<1>12. ASSUME NEW f \in Filters, Unwrap(f) PROVE UnderInv'
  BY <1>12 DEF Unwrap, UnderInv, TypeOK
<1>13. ASSUME NEW f \in Filters, FilterTake(f) PROVE UnderInv'
  BY <1>13 DEF FilterTake, Mutex!Take, UnderInv, TypeOK
<1>14. ASSUME NEW f \in Filters, FilterTimesOut(f) PROVE UnderInv'
  BY <1>14 DEF FilterTimesOut, UnderInv, TypeOK
<1>15. ASSUME NEW f \in Filters, Save(f) \/ SaveFails(f) PROVE UnderInv'
  BY <1>15 DEF Save, SaveFails, UnderInv, TypeOK
<1>16. ASSUME NEW f \in Filters, DropGuard(f) PROVE UnderInv'
  BY <1>16, FinishUnder DEF DropGuard
<1>17. ASSUME NEW f \in Filters, LosePatience(f) PROVE UnderInv'
  BY <1>17 DEF LosePatience, UnderInv, TypeOK
<1>18. ASSUME NEW f \in Filters, KillFilter(f) PROVE UnderInv'
  BY <1>18, FinishUnder DEF KillFilter
<1>19. ASSUME NEW c \in Commands, Begin(c) PROVE UnderInv'
  BY <1>19 DEF Begin, UnderInv, TypeOK
<1>20. ASSUME NEW c \in Commands, CommandTake(c) PROVE UnderInv'
  BY <1>20 DEF CommandTake, Mutex!Take, UnderInv, TypeOK
<1>21. ASSUME NEW c \in Commands, CommandTimesOut(c) PROVE UnderInv'
  BY <1>21 DEF CommandTimesOut, UnderInv, TypeOK
<1>22. ASSUME NEW c \in Commands, Sweep(c) PROVE UnderInv'
  BY <1>22 DEF Sweep, UnderInv, TypeOK
<1>23. ASSUME NEW c \in Commands, Body(c) PROVE UnderInv'
  BY <1>23 DEF Body, UnderInv, TypeOK
<1>24. ASSUME NEW c \in Commands, Return(c) PROVE UnderInv'
  BY <1>24 DEF Return, Mutex!Give, UnderInv, TypeOK
<1>25. ASSUME NEW c \in Commands, KillCommand(c) PROVE UnderInv'
  BY <1>25 DEF KillCommand, UnderInv, TypeOK
<1>26. ASSUME NEW c \in Commands, NEW f \in Filters, RunGit(c, f) PROVE UnderInv'
  BY <1>26 DEF RunGit, Start, UnderInv, TypeOK
<1>27. ASSUME NEW p \in Procs, Expire(p) PROVE UnderInv'
  BY <1>27 DEF Expire, UnderInv, TypeOK
<1>28. ASSUME Age PROVE UnderInv'
  BY <1>28 DEF Age, Gens, UnderInv, TypeOK
<1>29. ASSUME Rotate PROVE UnderInv'
  BY <1>29 DEF Rotate, Gens, UnderInv, TypeOK
<1>30. ASSUME Pull PROVE UnderInv'
  BY <1>30 DEF Pull, Gens, UnderInv, TypeOK
<1>. QED
  BY <1>1, <1>2, <1>3, <1>4, <1>5, <1>6, <1>7, <1>8, <1>9, <1>10, <1>11, <1>12, <1>13, <1>14, <1>15, <1>16, <1>17, <1>18, <1>19, <1>20, <1>21, <1>22, <1>23, <1>24, <1>25, <1>26, <1>27, <1>28, <1>29, <1>30
     DEF Next, FilterStep, CommandStep

(* Without faults and delays every step keeps refresh.lock with its maker.   *)
LEMMA FileKeeps == IInv /\ [Next]_vars => FileInv'
<1> SUFFICES ASSUME IInv, [Next]_vars PROVE FileInv'
  OBVIOUS
<1> USE RefreshNamesType, RefreshFileType, RefreshBoundsType DEF IInv, Goto, CmdGoto, keyVars, counters, Procs
<1>1. CASE UNCHANGED vars
  BY <1>1 DEF vars, FileInv, Refreshing, TypeOK, LockFiles
<1>2. ASSUME NEW f \in Filters, StartAlone(f) PROVE FileInv'
  BY <1>2 DEF StartAlone, Start, FileInv, Refreshing, TypeOK, LockFiles
<1>3. ASSUME NEW f \in Filters, Adopt(f) PROVE FileInv'
  BY <1>3 DEF Adopt, Finish, FileInv, Refreshing, TypeOK, LockFiles
<1>4. ASSUME NEW f \in Filters, TryAgain(f) PROVE FileInv'
  BY <1>4 DEF TryAgain, FileInv, Refreshing, TypeOK, LockFiles
<1>5. ASSUME NEW f \in Filters, Create(f) PROVE FileInv'
  <2>1. NewFile(f) \in LockFiles
    BY LockFileFacts
  <2>2. CASE lockFile = NoFile
    <3>0. lockFile' = NewFile(f)
      BY <1>5, <2>2 DEF Create
    <3>1. /\ lockFile' # NoFile
          /\ lockFile'.by = f /\ lockFile'.alive /\ ~lockFile'.old
      <4>1. NewFile(f).by = f /\ NewFile(f).alive /\ ~NewFile(f).old
        BY DEF NewFile
      <4>. QED BY <3>0, <4>1, <2>1
    <3>2. at' = [at EXCEPT ![f] = "write"] /\ faults' = faults /\ overdue' = overdue
      BY <1>5, <2>2 DEF Create
    <3>. QED BY <2>2, <3>1, <3>2 DEF FileInv, TypeOK, Refreshing
  <2>3. CASE lockFile # NoFile
    <3>1. lockFile' = lockFile /\ at' = [at EXCEPT ![f] = "inspect"]
      BY <1>5, <2>3 DEF Create
    <3>2. at[f] = "create" /\ faults' = faults /\ overdue' = overdue
      BY <1>5 DEF Create
    <3>. QED BY <2>3, <3>1, <3>2 DEF FileInv, TypeOK, Refreshing, LockFiles
  <2>. QED BY <2>2, <2>3
<1>6. ASSUME NEW f \in Filters, Inspect(f) PROVE FileInv'
  BY <1>6 DEF Inspect, LooksAbandoned, FileInv, Refreshing, TypeOK, LockFiles
<1>7. ASSUME NEW f \in Filters, Break(f) PROVE FileInv'
  BY <1>7 DEF Break, FileInv, Refreshing, TypeOK, LockFiles
<1>8. ASSUME NEW f \in Filters, Awake(f) PROVE FileInv'
  BY <1>8 DEF Awake, FileInv, Refreshing, TypeOK, LockFiles
<1>9. ASSUME NEW f \in Filters, WritePid(f) PROVE FileInv'
  <2>1. lockFile' = lockFile \/ (lockFile # NoFile /\ lockFile' = [lockFile EXCEPT !.text = TRUE])
    BY <1>9 DEF WritePid
  <2>2. /\ lockFile' = NoFile <=> lockFile = NoFile
        /\ lockFile # NoFile => /\ lockFile'.by = lockFile.by
                                /\ lockFile'.alive = lockFile.alive
                                /\ lockFile'.old = lockFile.old
    <3>1. CASE lockFile' = lockFile
      BY <3>1
    <3>2. CASE lockFile # NoFile /\ lockFile' = [lockFile EXCEPT !.text = TRUE]
      <4>1. lockFile \in LockFiles
        BY <3>2 DEF TypeOK
      <4>2. lockFile' \in LockFiles
        BY <3>2, <4>1, LockFileFacts
      <4>. QED BY <3>2, <4>1, <4>2 DEF LockFiles
    <3>. QED BY <2>1, <3>1, <3>2
  <2>3. /\ at[f] = "write" /\ at' = [at EXCEPT ![f] = "recheck"]
        /\ UNCHANGED <<faults, overdue>>
    BY <1>9 DEF WritePid
  <2>4. \A g \in Filters : /\ at'[g] \in Refreshing <=> at[g] \in Refreshing
                           /\ at'[g] = "break" <=> at[g] = "break"
    BY <2>3 DEF Refreshing, TypeOK
  <2>5. lockFile # NoFile => lockFile.by \in Filters
    BY DEF TypeOK, LockFiles
  <2>. QED BY <2>2, <2>3, <2>4, <2>5 DEF FileInv
<1>10. ASSUME NEW f \in Filters, Recheck(f) PROVE FileInv'
  BY <1>10 DEF Recheck, FileInv, Refreshing, TypeOK, LockFiles
<1>11. ASSUME NEW f \in Filters, Expect(f) PROVE FileInv'
  BY <1>11 DEF Expect, FileInv, Refreshing, TypeOK, LockFiles
<1>12. ASSUME NEW f \in Filters, Unwrap(f) PROVE FileInv'
  BY <1>12 DEF Unwrap, FileInv, Refreshing, TypeOK, LockFiles
<1>13. ASSUME NEW f \in Filters, FilterTake(f) PROVE FileInv'
  BY <1>13 DEF FilterTake, Mutex!Take, FileInv, Refreshing, TypeOK, LockFiles
<1>14. ASSUME NEW f \in Filters, FilterTimesOut(f) PROVE FileInv'
  BY <1>14 DEF FilterTimesOut, FileInv, Refreshing, TypeOK, LockFiles
<1>15. ASSUME NEW f \in Filters, Save(f) \/ SaveFails(f) PROVE FileInv'
  BY <1>15 DEF Save, SaveFails, FileInv, Refreshing, TypeOK, LockFiles
<1>16. ASSUME NEW f \in Filters, DropGuard(f) PROVE FileInv'
  BY <1>16 DEF DropGuard, Finish, FileInv, Refreshing, TypeOK, LockFiles
<1>17. ASSUME NEW f \in Filters, LosePatience(f) PROVE FileInv'
  BY <1>17 DEF LosePatience, FileInv, Refreshing, TypeOK, LockFiles
<1>18. ASSUME NEW f \in Filters, KillFilter(f) PROVE FileInv'
  BY <1>18 DEF KillFilter, Finish, FileInv, Refreshing, TypeOK, LockFiles
<1>19. ASSUME NEW c \in Commands, Begin(c) PROVE FileInv'
  BY <1>19 DEF Begin, FileInv, Refreshing, TypeOK, LockFiles
<1>20. ASSUME NEW c \in Commands, CommandTake(c) PROVE FileInv'
  BY <1>20 DEF CommandTake, Mutex!Take, FileInv, Refreshing, TypeOK, LockFiles
<1>21. ASSUME NEW c \in Commands, CommandTimesOut(c) PROVE FileInv'
  BY <1>21 DEF CommandTimesOut, FileInv, Refreshing, TypeOK, LockFiles
<1>22. ASSUME NEW c \in Commands, Sweep(c) PROVE FileInv'
  BY <1>22 DEF Sweep, FileInv, Refreshing, TypeOK, LockFiles
<1>23. ASSUME NEW c \in Commands, Body(c) PROVE FileInv'
  BY <1>23 DEF Body, FileInv, Refreshing, TypeOK, LockFiles
<1>24. ASSUME NEW c \in Commands, Return(c) PROVE FileInv'
  BY <1>24 DEF Return, Mutex!Give, FileInv, Refreshing, TypeOK, LockFiles
<1>25. ASSUME NEW c \in Commands, KillCommand(c) PROVE FileInv'
  BY <1>25 DEF KillCommand, FileInv, Refreshing, TypeOK, LockFiles
<1>26. ASSUME NEW c \in Commands, NEW f \in Filters, RunGit(c, f) PROVE FileInv'
  BY <1>26 DEF RunGit, Start, FileInv, Refreshing, TypeOK, LockFiles
<1>27. ASSUME NEW p \in Procs, Expire(p) PROVE FileInv'
  BY <1>27 DEF Expire, FileInv, Refreshing, TypeOK, LockFiles
<1>28. ASSUME Age PROVE FileInv'
  BY <1>28 DEF Age, Gens, FileInv, Refreshing, TypeOK, LockFiles
<1>29. ASSUME Rotate PROVE FileInv'
  BY <1>29 DEF Rotate, Gens, FileInv, Refreshing, TypeOK, LockFiles
<1>30. ASSUME Pull PROVE FileInv'
  BY <1>30 DEF Pull, Gens, FileInv, Refreshing, TypeOK, LockFiles
<1>. QED
  BY <1>1, <1>2, <1>3, <1>4, <1>5, <1>6, <1>7, <1>8, <1>9, <1>10, <1>11, <1>12, <1>13, <1>14, <1>15, <1>16, <1>17, <1>18, <1>19, <1>20, <1>21, <1>22, <1>23, <1>24, <1>25, <1>26, <1>27, <1>28, <1>29, <1>30
     DEF Next, FilterStep, CommandStep

-----------------------------------------------------------------------------
(* Every step keeps the invariant.                                          *)
LEMMA NextIInv == IInv /\ [Next]_vars => IInv'
BY TypeKeeps, HolderKeeps, UnderKeeps, FileKeeps DEF IInv

(* Types, the one process inside recovery.lock, the command that waits for  *)
(* its filter and the maker of refresh.lock are as stated at every moment   *)
(* (git.rs:1930-2082).                                                      *)
THEOREM Invariance == Spec => []IInv
BY InitIInv, NextIInv, PTL DEF Spec

(* Without faults and delays only one filter refreshes (git.rs:1937).        *)
THEOREM OneRefresher == Spec => []RefreshersExclusive
<1>1. IInv => RefreshersExclusive
  BY DEF IInv, FileInv, RefreshersExclusive
<1>. QED BY <1>1, Invariance, PTL

(* No filter replaces the key under a command that waits for Git, whatever  *)
(* is killed, slow or replaced (git.rs:2080).                               *)
THEOREM KeyBelongsToTheCommand == Spec => CommandOwnsKey
<1> DEFINE Untouched == \A c \in Commands : cmd[c] = "git" => key' = key
<1>1. IInv /\ [Next]_vars => Untouched
  <2> SUFFICES ASSUME IInv, [Next]_vars, NEW c \in Commands, cmd[c] = "git", key' # key
               PROVE  FALSE
    OBVIOUS
  <2> USE RefreshNamesType DEF IInv
  <2>1. c \in holders /\ \A p \in holders : p = c
    BY DEF HolderInv
  <2>2. ASSUME NEW f \in Filters, Save(f) \/ SaveFails(f) PROVE FALSE
    BY <2>1, <2>2 DEF HolderInv, Save, SaveFails
  <2>3. ASSUME NEW d \in Commands, Body(d) PROVE FALSE
    BY <2>1, <2>3 DEF HolderInv, Body
  <2>4. ASSUME NEW f \in Filters, StartAlone(f) \/ LosePatience(f) \/ KillFilter(f) PROVE FALSE
    BY <2>4 DEF StartAlone, Start, LosePatience, KillFilter
  <2>5. ASSUME NEW f \in Filters, FilterStep(f) PROVE FALSE
    BY <2>2, <2>5
       DEF FilterStep, Adopt, TryAgain, Create, Inspect, Break, Awake, WritePid, Recheck,
           Expect, Unwrap, FilterTake, FilterTimesOut, DropGuard
  <2>6. ASSUME NEW d \in Commands, Begin(d) \/ CommandStep(d) \/ KillCommand(d) PROVE FALSE
    BY <2>3, <2>6
       DEF Begin, CommandStep, CommandTake, CommandTimesOut, Sweep, Return, KillCommand
  <2>7. ASSUME NEW d \in Commands, NEW f \in Filters, RunGit(d, f) PROVE FALSE
    BY <2>7 DEF RunGit, Start
  <2>8. CASE UNCHANGED vars \/ Age \/ Rotate \/ Pull \/ \E p \in Procs : Expire(p)
    BY <2>8 DEF vars, Age, Rotate, Pull, Expire
  <2>. QED BY <2>2, <2>4, <2>5, <2>6, <2>7, <2>8 DEF Next
<1>. QED BY <1>1, Invariance, PTL DEF Spec, CommandOwnsKey

-----------------------------------------------------------------------------
(* The composition with recovery.lock: filters and commands enter and leave *)
(* it as its specification allows, and a kill leaves it as the kernel does, *)
(* so AtomicMutex, which RecoveryLock implements, is all they rely on       *)
(* (git.rs:2080).                                                           *)
THEOREM UsesRecoveryLock == Spec => Mutex!Spec
<1>1. Init => Mutex!Init
  BY DEF Init, Mutex!Init
<1>2. IInv /\ [Next]_vars => [Mutex!Next]_holders
  <2> SUFFICES ASSUME IInv, [Next]_vars, holders' # holders
               PROVE  Mutex!Next
    BY DEF Mutex!Next
  <2>1. ASSUME NEW p \in Procs, holders' = holders \ {p} PROVE Mutex!Next
    BY <2>1 DEF IInv, HolderInv, TypeOK, Mutex!Next, Mutex!Give
  <2>2. ASSUME NEW f \in Filters, FilterTake(f) PROVE Mutex!Next
    BY <2>2 DEF FilterTake, Mutex!Next, Procs
  <2>3. ASSUME NEW f \in Filters, Save(f) \/ SaveFails(f) \/ KillFilter(f) PROVE Mutex!Next
    BY <2>1, <2>3 DEF Save, SaveFails, KillFilter, Procs
  <2>4. ASSUME NEW c \in Commands, CommandTake(c) \/ Return(c) PROVE Mutex!Next
    BY <2>4 DEF CommandTake, Return, Mutex!Next, Procs
  <2>5. ASSUME NEW c \in Commands, KillCommand(c) PROVE Mutex!Next
    BY <2>1, <2>5 DEF KillCommand, Procs
  <2>6. ASSUME NEW f \in Filters, StartAlone(f) \/ LosePatience(f) PROVE FALSE
    BY <2>6 DEF StartAlone, Start, LosePatience
  <2>7. ASSUME NEW f \in Filters, FilterStep(f), ~FilterTake(f), ~Save(f), ~SaveFails(f) PROVE FALSE
    BY <2>7 DEF FilterStep, Adopt, TryAgain, Create, Inspect, Break, Awake, WritePid,
                Recheck, Expect, Unwrap, FilterTimesOut, DropGuard
  <2>8. ASSUME NEW c \in Commands,
               Begin(c) \/ CommandTimesOut(c) \/ Sweep(c) \/ Body(c)
        PROVE  FALSE
    BY <2>8 DEF Begin, CommandTimesOut, Sweep, Body
  <2>9. ASSUME NEW c \in Commands, NEW f \in Filters, RunGit(c, f) PROVE FALSE
    BY <2>9 DEF RunGit, Start
  <2>10. ASSUME NEW p \in Procs, Expire(p) PROVE FALSE
    BY <2>10 DEF Expire
  <2>11. CASE Age \/ Rotate \/ Pull \/ UNCHANGED vars
    BY <2>11 DEF Age, Rotate, Pull, vars
  <2>. QED
    BY <2>2, <2>3, <2>4, <2>5, <2>6, <2>7, <2>8, <2>9, <2>10, <2>11
       DEF Next, CommandStep
<1>. QED BY <1>1, <1>2, Invariance, PTL DEF Spec, Mutex!Spec
==============================================================================

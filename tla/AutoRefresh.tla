----------------------------- MODULE AutoRefresh -----------------------------
(***************************************************************************)
(* Filters that find repo.key older than repo.pub and replace it by the    *)
(* key in their envelope, beside commands and under them.                  *)
(*                                                                         *)
(* After a pull that brings a rotation, Git runs many filters at once.     *)
(* One of them should do the work while the others wait for its result:    *)
(* that is the purpose of refresh.lock, a file made with create_new that   *)
(* holds the pid of its maker and is removed by name.  A waiter removes it *)
(* when it looks abandoned and gives up after five seconds.  The key       *)
(* itself is written under recovery.lock, for which a filter waits too.    *)
(* Commands run Git while they hold recovery.lock, so a filter may wait    *)
(* for the command that waits for it; only the timeout ends this.          *)
(*                                                                         *)
(* recovery.lock is used here by its specification, AtomicMutex, which     *)
(* RecoveryLock implements.  Keys are generations; 0 is no key.            *)
(***************************************************************************)
EXTENDS Naturals

CONSTANTS
  Filters,    \* smudge, textconv and merge processes
  Commands,   \* commands that take recovery.lock
  MaxGen,     \* bound on generations
  MaxRuns,    \* bound on commands started
  MaxFiles,   \* bound on filters a command's Git runs
  MaxFaults,   \* bound on processes killed and saves that fail
  NoFile,     \* there is no refresh.lock
  Nobody      \* no command: a filter the user's own Git runs

Gens == 1 .. MaxGen
Procs == Filters \cup Commands

ASSUME RefreshBoundsType == MaxGen \in Nat \ {0} /\ MaxRuns \in Nat /\ MaxFiles \in Nat
                            /\ MaxFaults \in Nat
ASSUME RefreshNamesType  == Filters \cap Commands = {} /\ Nobody \notin Commands

VARIABLES
  pub, env, key, newest,  \* generations: repo.pub, own envelope, repo.key, the last one made
  holders,   \* who is inside recovery.lock
  lockFile,  \* refresh.lock
  at,        \* the step each filter is about to take
  under,     \* the command whose Git runs it
  expected,  \* the generation of repo.pub it compares with, and of the key it unwraps
  patience,  \* it has not waited five seconds for refresh.lock
  late,      \* the time of this process for recovery.lock is over
  cmd,       \* the step each command is about to take
  files,     \* how many files its Git still has to check out
  back,      \* the step it takes when its Git returns
  runs, faults,
  overdue    \* history: a filter has kept refresh.lock for more than five seconds

keyVars    == <<pub, env, newest>>
counters   == <<files, back, runs, faults, overdue>>
vars == <<pub, env, key, newest, holders, lockFile, at, under, expected,
          patience, late, cmd, files, back, runs, faults, overdue>>

Mutex == INSTANCE AtomicMutex

(* The steps between create_new and the removal of the file by its guard.   *)
Refreshing == {"write", "recheck", "expect", "unwrap", "wait", "save", "drop"}
FilterSteps == {"idle", "check", "create", "inspect", "break", "again"} \cup Refreshing
CommandSteps == {"idle", "wait", "startup", "body", "git", "end"}

(* by: its maker; alive: the maker still runs; text: the pid is in it;      *)
(* old: it is more than five seconds old.                                   *)
LockFiles == [by : Filters, alive : BOOLEAN, text : BOOLEAN, old : BOOLEAN]

ASSUME RefreshFileType == NoFile \notin LockFiles

Stale == key # 0 /\ key # pub

Goto(f, s) == at' = [at EXCEPT ![f] = s]
CmdGoto(c, s) == cmd' = [cmd EXCEPT ![c] = s]

Init ==
  /\ pub \in Gens /\ newest = pub /\ env \in {0, pub} /\ key \in 0 .. pub
  /\ holders = {} /\ lockFile = NoFile
  /\ at = [f \in Filters |-> "idle"] /\ under = [f \in Filters |-> Nobody]
  /\ expected = [f \in Filters |-> 0]
  /\ patience = [f \in Filters |-> TRUE]
  /\ late = [p \in Procs |-> FALSE]
  /\ cmd = [c \in Commands |-> "idle"] /\ back = [c \in Commands |-> "idle"]
  /\ files = [c \in Commands |-> 0]
  /\ runs = 0 /\ faults = 0 /\ overdue = FALSE

-----------------------------------------------------------------------------
(* Git runs a filter that finds the key stale; one that does not, returns.  *)
Start(f, c) ==
  /\ at[f] = "idle" /\ Stale
  /\ Goto(f, "check") /\ under' = [under EXCEPT ![f] = c]
  /\ UNCHANGED <<key, keyVars, holders, lockFile, expected, patience, late, runs, faults,
                 overdue>>

StartAlone(f) == Start(f, Nobody) /\ UNCHANGED <<cmd, files, back>>

(* The filter returns, with the key of the moment, the one it has saved, or *)
(* none; Git takes up where it was.                                         *)
Finish(f) ==
  /\ Goto(f, "idle") /\ under' = [under EXCEPT ![f] = Nobody]
  /\ expected' = [expected EXCEPT ![f] = 0]
  /\ patience' = [patience EXCEPT ![f] = TRUE] /\ late' = [late EXCEPT ![f] = FALSE]
  /\ IF under[f] = Nobody THEN cmd' = cmd ELSE CmdGoto(under[f], back[under[f]])

(* The head of the loop: adopt what another filter has saved, or give up.   *)
Adopt(f) ==
  /\ at[f] = "check" /\ ~(Stale /\ patience[f])
  /\ Finish(f)
  /\ UNCHANGED <<key, keyVars, holders, lockFile, counters>>

TryAgain(f) ==
  /\ at[f] = "check" /\ Stale /\ patience[f]
  /\ Goto(f, "create")
  /\ UNCHANGED <<key, keyVars, holders, lockFile, under, expected, patience, late,
                 cmd, counters>>

NewFile(f) == [by |-> f, alive |-> TRUE, text |-> FALSE, old |-> FALSE]

(* Mutant: create without create_new.                                       *)
CreateOver(f) ==
  /\ at[f] = "create"
  /\ lockFile' = NewFile(f) /\ Goto(f, "write")
  /\ UNCHANGED <<key, keyVars, holders, under, expected, patience, late, cmd, counters>>

Create(f) ==
  /\ at[f] = "create"
  /\ IF lockFile = NoFile THEN lockFile' = NewFile(f) /\ Goto(f, "write")
                          ELSE lockFile' = lockFile /\ Goto(f, "inspect")
  /\ UNCHANGED <<key, keyVars, holders, under, expected, patience, late, cmd, counters>>

(* Mutant: only time breaks the file, and time is not in an unwritten one.   *)
LooksOldOnly == lockFile # NoFile /\ lockFile.text /\ lockFile.alive /\ lockFile.old

(* An empty file names no pid and no time, so it does not look abandoned.   *)
LooksAbandoned == lockFile # NoFile /\ lockFile.text /\ (~lockFile.alive \/ lockFile.old)

Inspect(f) ==
  /\ at[f] = "inspect"
  /\ Goto(f, IF LooksAbandoned THEN "break" ELSE "again")
  /\ UNCHANGED <<key, keyVars, holders, lockFile, under, expected, patience, late,
                 cmd, counters>>

Awake(f) ==
  /\ at[f] = "again" /\ Goto(f, "check")
  /\ UNCHANGED <<key, keyVars, holders, lockFile, under, expected, patience, late,
                 cmd, counters>>

(* Its five seconds are over when it comes back to the head of the loop.    *)
LosePatience(f) ==
  /\ at[f] = "again" /\ patience[f]
  /\ patience' = [patience EXCEPT ![f] = FALSE] /\ Goto(f, "check")
  /\ UNCHANGED <<key, keyVars, holders, lockFile, under, expected, late, cmd, counters>>

(* By name: what is removed may be another file by now.                     *)
Break(f) ==
  /\ at[f] = "break"
  /\ lockFile' = NoFile /\ Goto(f, "again")
  /\ UNCHANGED <<key, keyVars, holders, under, expected, patience, late, cmd, counters>>

WritePid(f) ==
  /\ at[f] = "write"
  /\ lockFile' = IF lockFile # NoFile /\ lockFile.by = f /\ lockFile.alive
                   THEN [lockFile EXCEPT !.text = TRUE] ELSE lockFile
  /\ Goto(f, "recheck")
  /\ UNCHANGED <<key, keyVars, holders, under, expected, patience, late, cmd, counters>>

Recheck(f) ==
  /\ at[f] = "recheck"
  /\ Goto(f, IF Stale THEN "expect" ELSE "drop")
  /\ UNCHANGED <<key, keyVars, holders, lockFile, under, expected, patience, late,
                 cmd, counters>>

Expect(f) ==
  /\ at[f] = "expect"
  /\ expected' = [expected EXCEPT ![f] = pub] /\ Goto(f, "unwrap")
  /\ UNCHANGED <<key, keyVars, holders, lockFile, under, patience, late,
                 cmd, counters>>

(* No identity, no envelope of one's own, or one of another generation.     *)
Unwrap(f) ==
  /\ at[f] = "unwrap"
  /\ Goto(f, IF env # 0 /\ env = expected[f] THEN "wait" ELSE "drop")
  /\ UNCHANGED <<key, keyVars, holders, lockFile, under, expected, patience, late,
                 cmd, counters>>

(* Mutant: a filter under a command relies on the lock of the command.      *)
ReentrantTake(f) ==
  /\ at[f] = "wait"
  /\ IF under[f] # Nobody THEN UNCHANGED holders ELSE Mutex!Take(f)
  /\ Goto(f, "save")
  /\ UNCHANGED <<key, keyVars, lockFile, under, expected, patience, late, cmd, counters>>

FilterTake(f) ==
  /\ at[f] = "wait" /\ Mutex!Take(f)
  /\ Goto(f, "save")
  /\ UNCHANGED <<key, keyVars, lockFile, under, expected, patience, late, cmd, counters>>

(* Mutant: the filter waits for recovery.lock without a timeout.            *)
NeverTimesOut(f) == FALSE /\ UNCHANGED vars

FilterTimesOut(f) ==
  /\ at[f] = "wait" /\ holders # {} /\ late[f]
  /\ Goto(f, "drop")
  /\ UNCHANGED <<key, keyVars, holders, lockFile, under, expected, patience, late,
                 cmd, counters>>

(* save_local_master_key_for_ring, without comparing again; then the inner  *)
(* guard is dropped.                                                        *)
Save(f) ==
  /\ at[f] = "save"
  /\ key' = expected[f]
  /\ holders' = holders \ {f} /\ Goto(f, "drop")
  /\ UNCHANGED <<keyVars, lockFile, under, expected, patience, late, cmd, counters>>

(* It fails and leaves the old key; the filter returns with the error.      *)
SaveFails(f) ==
  /\ at[f] = "save" /\ faults < MaxFaults
  /\ faults' = faults + 1
  /\ holders' = holders \ {f} /\ Goto(f, "drop")
  /\ UNCHANGED <<key, keyVars, lockFile, under, expected, patience, late, cmd, files,
                 back, runs, overdue>>

(* The outer guard removes refresh.lock by name.                            *)
DropGuard(f) ==
  /\ at[f] = "drop"
  /\ lockFile' = NoFile /\ Finish(f)
  /\ UNCHANGED <<key, keyVars, holders, counters>>

-----------------------------------------------------------------------------
Begin(c) ==
  /\ cmd[c] = "idle" /\ runs < MaxRuns
  /\ CmdGoto(c, "wait") /\ runs' = runs + 1
  /\ files' = [files EXCEPT ![c] = MaxFiles]
  /\ UNCHANGED <<key, keyVars, holders, lockFile, at, under, expected, patience, late,
                 back, faults, overdue>>

CommandTake(c) ==
  /\ cmd[c] = "wait" /\ Mutex!Take(c)
  /\ CmdGoto(c, "startup") /\ late' = [late EXCEPT ![c] = FALSE]
  /\ UNCHANGED <<key, keyVars, lockFile, at, under, expected, patience, counters>>

CommandTimesOut(c) ==
  /\ cmd[c] = "wait" /\ holders # {} /\ late[c]
  /\ CmdGoto(c, "idle") /\ late' = [late EXCEPT ![c] = FALSE]
  /\ UNCHANGED <<key, keyVars, holders, lockFile, at, under, expected, patience, counters>>

(* A replay, a refresh of the worktrees or a checkout runs Git, which runs  *)
(* a filter and waits for it.                                               *)
RunGit(c, f) ==
  /\ cmd[c] \in {"startup", "body", "end"} /\ files[c] > 0
  /\ Start(f, c)
  /\ CmdGoto(c, "git") /\ back' = [back EXCEPT ![c] = cmd[c]]
  /\ files' = [files EXCEPT ![c] = files[c] - 1]

(* The end of startup recovery removes a refresh.lock older than ten        *)
(* seconds, whatever is in it.                                              *)
Sweep(c) ==
  /\ cmd[c] = "startup"
  /\ lockFile' \in {lockFile} \cup (IF lockFile # NoFile /\ lockFile.old THEN {NoFile} ELSE {})
  /\ CmdGoto(c, "body")
  /\ UNCHANGED <<key, keyVars, holders, at, under, expected, patience, late, counters>>

(* What the command does to the key: lock removes it, unlock saves the one  *)
(* in the envelope, others leave it.                                        *)
Body(c) ==
  /\ cmd[c] = "body"
  /\ key' \in {key, 0} \cup (IF env = pub THEN {pub} ELSE {})
  /\ CmdGoto(c, "end")
  /\ UNCHANGED <<keyVars, holders, lockFile, at, under, expected, patience, late, counters>>

Return(c) ==
  /\ cmd[c] = "end"
  /\ Mutex!Give(c) /\ CmdGoto(c, "idle")
  /\ UNCHANGED <<key, keyVars, lockFile, at, under, expected, patience, late, counters>>

-----------------------------------------------------------------------------
(* The kernel releases recovery.lock; refresh.lock stays.  Git goes on when *)
(* a filter is killed, and a filter when its command is.                    *)
KillFilter(f) ==
  /\ at[f] # "idle" /\ faults < MaxFaults
  /\ faults' = faults + 1
  /\ holders' = holders \ {f}
  /\ lockFile' = IF lockFile # NoFile /\ lockFile.by = f
                   THEN [lockFile EXCEPT !.alive = FALSE] ELSE lockFile
  /\ Finish(f)
  /\ UNCHANGED <<key, keyVars, files, back, runs, overdue>>

KillCommand(c) ==
  /\ cmd[c] # "idle" /\ faults < MaxFaults
  /\ faults' = faults + 1
  /\ holders' = holders \ {c} /\ CmdGoto(c, "idle")
  /\ late' = [late EXCEPT ![c] = FALSE]
  /\ under' = [f \in Filters |-> IF under[f] = c THEN Nobody ELSE under[f]]
  /\ UNCHANGED <<key, keyVars, lockFile, at, expected, patience, files, back, runs, overdue>>

(* Time passes: the age of the file, the timeout for recovery.lock.         *)
Age ==
  /\ lockFile # NoFile /\ ~lockFile.old
  /\ lockFile' = [lockFile EXCEPT !.old = TRUE]
  /\ overdue' = (overdue \/ lockFile.alive)
  /\ UNCHANGED <<key, keyVars, holders, at, under, expected, patience, late, cmd, files,
                 back, runs, faults>>

Expire(p) ==
  /\ ~late[p] /\ IF p \in Filters THEN at[p] = "wait" ELSE cmd[p] = "wait"
  /\ late' = [late EXCEPT ![p] = TRUE]
  /\ UNCHANGED <<key, keyVars, holders, lockFile, at, under, expected, patience, cmd,
                 counters>>

(* A teammate rotates the key; a pull brings repo.pub and the envelopes one *)
(* after the other, one's own perhaps no more.                              *)
Rotate ==
  /\ newest < MaxGen /\ newest' = newest + 1
  /\ UNCHANGED <<pub, env, key, holders, lockFile, at, under, expected, patience, late,
                 cmd, counters>>

Pull ==
  /\ \/ pub' = newest /\ env' = env
     \/ env' \in {newest, 0} /\ pub' = pub
  /\ <<pub, env>>' # <<pub, env>> /\ env # 0
  /\ UNCHANGED <<newest, key, holders, lockFile, at, under, expected, patience, late,
                 cmd, counters>>

-----------------------------------------------------------------------------
FilterStep(f) ==
  Adopt(f) \/ TryAgain(f) \/ Create(f) \/ Inspect(f) \/ Break(f) \/ Awake(f) \/ WritePid(f)
  \/ Recheck(f) \/ Expect(f) \/ Unwrap(f) \/ FilterTake(f) \/ FilterTimesOut(f) \/ Save(f)
  \/ DropGuard(f)

CommandStep(c) ==
  CommandTake(c) \/ CommandTimesOut(c) \/ Sweep(c) \/ Body(c) \/ Return(c)

Next ==
  \/ \E f \in Filters : StartAlone(f) \/ FilterStep(f) \/ LosePatience(f)
                         \/ SaveFails(f) \/ KillFilter(f)
  \/ \E c \in Commands : Begin(c) \/ CommandStep(c) \/ KillCommand(c)
                           \/ \E f \in Filters : RunGit(c, f)
  \/ \E p \in Procs : Expire(p)
  \/ Age \/ Rotate \/ Pull

Spec == Init /\ [][Next]_vars

(* Processes that run keep running, and time passes.  Nobody has to start a *)
(* command or a filter, to pull, or to be killed.                           *)
FairSpec ==
  /\ Spec
  /\ \A f \in Filters : WF_vars(FilterStep(f)) /\ SF_vars(LosePatience(f))
  /\ \A c \in Commands : WF_vars(CommandStep(c))
  /\ \A p \in Procs : WF_vars(Expire(p))
  /\ WF_vars(Age)

-----------------------------------------------------------------------------
TypeOK ==
  /\ pub \in Gens /\ env \in 0 .. MaxGen /\ key \in 0 .. MaxGen /\ newest \in Gens
  /\ holders \subseteq Procs
  /\ lockFile \in LockFiles \cup {NoFile}
  /\ at \in [Filters -> FilterSteps]
  /\ under \in [Filters -> Commands \cup {Nobody}]
  /\ expected \in [Filters -> 0 .. MaxGen]
  /\ patience \in [Filters -> BOOLEAN] /\ late \in [Procs -> BOOLEAN]
  /\ cmd \in [Commands -> CommandSteps] /\ back \in [Commands -> CommandSteps]
  /\ files \in [Commands -> 0 .. MaxFiles]
  /\ runs \in 0 .. MaxRuns /\ faults \in 0 .. MaxFaults /\ overdue \in BOOLEAN

(* Who is inside recovery.lock, and that only one process is (git.rs:2080): *)
(* a filter holds it while it saves, a command from its start to its end.   *)
HolderInv ==
  /\ holders = {f \in Filters : at[f] = "save"}
                 \cup {c \in Commands : cmd[c] \in {"startup", "body", "git", "end"}}
  /\ \A p, q \in holders : p = q

(* A command inside Git waits for one filter, which runs under it, and goes *)
(* on where it was.                                                         *)
UnderInv ==
  /\ \A f \in Filters : under[f] # Nobody => at[f] # "idle" /\ cmd[under[f]] = "git"
  /\ \A f, g \in Filters : under[f] = under[g] /\ under[f] # Nobody => f = g
  /\ \A c \in Commands : cmd[c] = "git" => /\ \E f \in Filters : under[f] = c
                                          /\ back[c] \in {"startup", "body", "end"}

(* As long as nothing failed and nobody was slow, refresh.lock is there when*)
(* a filter refreshes, is its file, and looks abandoned to nobody.          *)
FileInv ==
  faults = 0 /\ ~overdue =>
    /\ \A f \in Filters : at[f] \in Refreshing => lockFile # NoFile /\ lockFile.by = f
    /\ \A f \in Filters : at[f] # "break"
    /\ lockFile # NoFile =>
         lockFile.alive /\ ~lockFile.old /\ at[lockFile.by] \in Refreshing

IInv == TypeOK /\ HolderInv /\ UnderInv /\ FileInv

(* One filter refreshes while its siblings wait and adopt (git.rs:1937),    *)
(* unless one was killed with the file in place, failed to save the key, or *)
(* kept the file for more than five seconds.                                *)
RefreshersExclusive ==
  faults = 0 /\ ~overdue =>
    \A f, g \in Filters : at[f] \in Refreshing /\ at[g] \in Refreshing => f = g

(* While Git runs for a command inside recovery.lock, neither its filters   *)
(* nor anybody else's replace the key the command relies on (git.rs:2080).  *)
CommandOwnsKey ==
  [][\A c \in Commands : cmd[c] = "git" => key' = key]_vars

(* Every command and every filter returns, even a command whose Git waits   *)
(* for a filter that waits for the command (git.rs:2080): the timeout of    *)
(* the filter resolves it.                                                  *)
EverybodyReturns ==
  /\ \A f \in Filters : at[f] # "idle" ~> at[f] = "idle"
  /\ \A c \in Commands : cmd[c] # "idle" ~> cmd[c] = "idle"

(* A file without a pid, whose maker is dead.                               *)
Orphan == lockFile # NoFile /\ ~lockFile.alive /\ ~lockFile.text

(* If users keep checking files out, a stale key does not stay stale: kills,*)
(* a failing save and slow filters leave nothing behind that others do not  *)
(* get over (git.rs:1976-2010).  Excepted are an envelope the pull has not  *)
(* brought and a refresh.lock whose maker was killed before it wrote its    *)
(* pid.                                                                     *)
StaleKeyIsRefreshed ==
  (\A f \in Filters : WF_vars(StartAlone(f))) =>
    <>[]~Stale \/ <>[](env # pub) \/ <>[]Orphan
=============================================================================

---------------------------- MODULE ProcControl ----------------------------
(***************************************************************************)
(* How SimpleEM creates its child processes and controls them with         *)
(* signals: the fork loop and child_init of Emulator::fork_stop_run, the   *)
(* SIGCONT, SIGSTOP and sigwait of EMProc::awake, the SIGCONT, SIGINT and  *)
(* waitpid of Emulator::kill_emulation, and the SIGINT handler of tinyem.  *)
(*                                                                         *)
(* What happens to packets inside a window is module Emulator; here any    *)
(* process may be chosen next.  The kernel's part (a SIGCHLD is one bit,   *)
(* sent when a child stops, continues or ends) is that of Linux.           *)
(*                                                                         *)
(* A child whose child_init returns (execve failed, or its program is      *)
(* java, which system() runs, and has ended) goes on in the fork loop and  *)
(* in main as a second emulator.  It gets as far as its first sigwait: the *)
(* processes it forks itself have stopped before and never answer.         *)
(***************************************************************************)
EXTENDS Integers

CONSTANTS
    procs,           \* number of child processes
    steps,           \* number of awakenings
    StartupSettles,  \* TRUE: the children raise SIGSTOP within main's sleep
    Exiting,         \* children whose program may end by itself
    Programs         \* the configurations: what program_paths names

EmIds == 0 .. procs - 1

\* A program execve runs, one it fails to, and java.
Kinds == {"executable", "missing", "java"}

ASSUME ConstantsAssumption ==
    /\ procs \in Nat \ {0}
    /\ steps \in Nat
    /\ StartupSettles \in BOOLEAN
    /\ Exiting \subseteq EmIds
    /\ Programs \subseteq [EmIds -> Kinds]

VARIABLES
    program,  \* program[c]: what the configuration names for c
    epc,      \* where the emulator is
    loop,     \* awakenings completed
    cur,      \* the child of the current awakening
    idx,      \* the child fork_stop_run or kill_emulation is at
    handler,  \* TRUE once the SIGINT handler runs
    blocked,  \* the emulator blocks SIGCHLD
    sigchld,  \* a SIGCHLD is pending for the emulator
    life,     \* life[c]: state of the process of child c
    raised,   \* raised[c]: c has called raise(SIGSTOP)
    second,   \* second[c]: child_init returned: c begins as a second emulator, or waits
    pending,  \* pending[c]: signals pending for c
    notify    \* notify[c]: c has yet to report that it was continued

emulator == <<epc, loop, cur, idx, handler, blocked>>
child    == <<life, raised, second, pending, notify>>
vars     == <<program, emulator, sigchld, child>>

Init ==
    /\ program \in Programs
    /\ epc = "fork"
    /\ loop = 0
    /\ cur = 0
    /\ idx = 0
    /\ handler = FALSE
    /\ blocked = FALSE
    /\ sigchld = FALSE
    /\ life = [c \in EmIds |-> "none"]
    /\ raised = [c \in EmIds |-> FALSE]
    /\ second = [c \in EmIds |-> "no"]
    /\ pending = [c \in EmIds |-> {}]
    /\ notify = [c \in EmIds |-> FALSE]

-----------------------------------------------------------------------------
(* The kernel. *)

Alive(c) == life[c] \in {"running", "stopped"}

\* A process that has ended takes no signal; system() ignores SIGINT while its
\* command runs.
Takes(c, s) == Alive(c) /\ (s = "SIGINT" /\ program[c] = "java" => second[c] # "no")

\* SIGCHLD for the emulator: one bit if it is blocked, else discarded.
RaiseSigchld == sigchld' = (sigchld \/ blocked)

\* A SIGCONT takes effect when it is sent: it discards a pending SIGSTOP and
\* continues a stopped process, which reports it before it does anything else.
\* To a running process, and to one that has ended, it does nothing more.
Sigcont(c) ==
    /\ pending' = [pending EXCEPT ![c] = @ \ {"SIGSTOP"}]
    /\ life' = [life EXCEPT ![c] = IF @ = "stopped" THEN "running" ELSE @]
    /\ notify' = [notify EXCEPT ![c] = @ \/ life[c] = "stopped"]

SendSigcont(c) == Sigcont(c) /\ UNCHANGED <<raised, second>>

\* A SIGSTOP or SIGINT waits until the process runs.
SendSignal(c, s) ==
    /\ pending' = [pending EXCEPT ![c] = IF Takes(c, s) THEN @ \cup {s} ELSE @]
    /\ UNCHANGED <<life, raised, second, notify>>

-----------------------------------------------------------------------------
(* The children. *)

\* child_init: the child is to stop before it executes its program; system()
\* runs a java without that.
RaiseSigstop(c) ==
    /\ life[c] = "running"
    /\ ~ raised[c]
    /\ program[c] # "java"
    /\ raised' = [raised EXCEPT ![c] = TRUE]
    /\ pending' = [pending EXCEPT ![c] = @ \cup {"SIGSTOP"}]
    /\ UNCHANGED <<program, emulator, sigchld, life, second, notify>>

\* child_init returns: execve failed, or system() is back.
ReturnFromInit(c) ==
    /\ life[c] = "running"
    /\ ~ notify[c]
    /\ pending[c] = {}
    /\ second[c] = "no"
    /\ (program[c] = "missing" /\ raised[c]) \/ program[c] = "java"
    /\ second' = [second EXCEPT ![c] = "begins"]
    /\ UNCHANGED <<program, emulator, sigchld, life, raised, pending, notify>>

\* The first awakening of a second emulator, whose clocks are all equal: that
\* of process 0, whose pid it got from its parent.  Process 0 itself has an
\* indeterminate pid there, which may be that of any process.
AwakeSibling(c) ==
    /\ life[c] = "running"
    /\ ~ notify[c]
    /\ second[c] = "begins"
    /\ second' = [second EXCEPT ![c] = "waits"]
    /\ \E q \in EmIds : (c > 0 => q = 0) /\ Sigcont(q)
    /\ UNCHANGED <<program, emulator, sigchld, raised>>

NotifyContinued(c) ==
    /\ life[c] = "running"
    /\ notify[c]
    /\ notify' = [notify EXCEPT ![c] = FALSE]
    /\ RaiseSigchld
    /\ UNCHANGED <<program, emulator, life, raised, second, pending>>

TakeSigstop(c) ==
    /\ life[c] = "running"
    /\ ~ notify[c]
    /\ "SIGSTOP" \in pending[c]
    /\ life' = [life EXCEPT ![c] = "stopped"]
    /\ pending' = [pending EXCEPT ![c] = @ \ {"SIGSTOP"}]
    /\ RaiseSigchld
    /\ UNCHANGED <<program, emulator, raised, second, notify>>

End(c) ==
    /\ life[c] = "running"
    /\ ~ notify[c]
    /\ life' = [life EXCEPT ![c] = "zombie"]
    /\ pending' = [pending EXCEPT ![c] = {}]
    /\ RaiseSigchld
    /\ UNCHANGED <<program, emulator, raised, second, notify>>

\* A second emulator that begins may not have installed its handler yet.
TakeSigint(c) ==
    /\ "SIGINT" \in pending[c]
    /\ second[c] # "waits"
    /\ End(c)

\* The handler of a second emulator runs kill_emulation: SIGCONT and SIGINT to
\* the processes forked before it, whose waitpid fails (they are its siblings),
\* then to its own children.
PassSigintOn(c) ==
    LET siblings == {q \in EmIds : q < c /\ Alive(q)}
        interrupted == {q \in siblings : Takes(q, "SIGINT")}
    IN  /\ life[c] = "running"
        /\ ~ notify[c]
        /\ second[c] # "no"
        /\ "SIGINT" \in pending[c]
        /\ life' = [q \in EmIds |-> IF q = c THEN "zombie"
                                    ELSE IF q \in siblings THEN "running" ELSE life[q]]
        /\ pending' = [q \in EmIds |-> IF q = c THEN {}
                           ELSE (pending[q] \ {s \in {"SIGSTOP"} : q \in siblings})
                                  \cup {s \in {"SIGINT"} : q \in interrupted}]
        /\ notify' = [q \in EmIds |-> notify[q] \/ (q \in siblings /\ life[q] = "stopped")]
        /\ RaiseSigchld
        /\ UNCHANGED <<program, emulator, raised, second>>

\* The program ends by itself.
Exit(c) == c \in Exiting /\ raised[c] /\ second[c] = "no" /\ pending[c] = {} /\ End(c)

ChildStep(c) ==
    \/ RaiseSigstop(c) \/ NotifyContinued(c) \/ TakeSigstop(c) \/ TakeSigint(c)
    \/ PassSigintOn(c)

\* What a child may do, but need not.
ChildChoice(c) == Exit(c) \/ ReturnFromInit(c) \/ AwakeSibling(c)

-----------------------------------------------------------------------------
(* The emulator. *)

\* One turn of the fork loop.
Fork ==
    /\ epc = "fork"
    /\ idx < procs
    /\ life' = [life EXCEPT ![idx] = "running"]
    /\ idx' = idx + 1
    /\ UNCHANGED <<program, epc, loop, cur, handler, blocked, sigchld, raised, second, pending, notify>>

AllForked ==
    /\ epc = "fork"
    /\ idx >= procs
    /\ epc' = "sleep"
    /\ UNCHANGED <<program, loop, cur, idx, handler, blocked, sigchld, child>>

\* fork fails, or a SIGINT comes before its handler is installed: the emulator
\* ends at once, whatever it has forked.
EndEarly ==
    /\ epc \in {"fork", "sleep"}
    /\ epc' = "exited"
    /\ \/ UNCHANGED pending
       \/ pending' = [c \in EmIds |->
              IF Takes(c, "SIGINT") THEN pending[c] \cup {"SIGINT"} ELSE pending[c]]
    /\ UNCHANGED <<program, loop, cur, idx, handler, blocked, sigchld, life, raised, second, notify>>

\* main sleeps 100 ms for the children to start and stop themselves, and
\* installs its SIGINT handler.
EndSleep ==
    /\ epc = "sleep"
    /\ StartupSettles => \A c \in EmIds : life[c] = "stopped" \/ program[c] = "java"
    /\ epc' = "choose"
    /\ UNCHANGED <<program, loop, cur, idx, handler, blocked, sigchld, child>>

\* Fault: one awakening too many.
AwakeOnceMore ==
    /\ epc = "choose"
    /\ loop =< steps
    /\ cur' \in EmIds
    /\ blocked' = TRUE
    /\ epc' = "cont"
    /\ UNCHANGED <<program, loop, idx, handler, sigchld, child>>

\* Head of the loop and of awake: SIGCHLD is blocked, and stays so.
Awake ==
    /\ epc = "choose"
    /\ loop < steps
    /\ cur' \in EmIds
    /\ blocked' = TRUE
    /\ epc' = "cont"
    /\ UNCHANGED <<program, loop, idx, handler, sigchld, child>>

Continue ==
    /\ epc = "cont"
    /\ SendSigcont(cur)
    /\ epc' = "continued"
    /\ UNCHANGED <<program, loop, cur, idx, handler, blocked, sigchld>>

\* Fault: no sigwait after SIGCONT.
AwaitNothing ==
    /\ epc = "continued"
    /\ epc' = "window"
    /\ UNCHANGED <<program, loop, cur, idx, handler, blocked, sigchld, child>>

\* sigwait returns for a SIGCHLD of whatever child, whatever happened to it.
AwaitContinued ==
    /\ epc = "continued"
    /\ sigchld
    /\ sigchld' = FALSE
    /\ epc' = "window"
    /\ UNCHANGED <<program, loop, cur, idx, handler, blocked, child>>

\* The window has passed.
StopProcess ==
    /\ epc = "window"
    /\ SendSignal(cur, "SIGSTOP")
    /\ epc' = "stopping"
    /\ UNCHANGED <<program, loop, cur, idx, handler, blocked, sigchld>>

\* Fault: awake returns without the second sigwait.
ReturnAtOnce ==
    /\ epc = "stopping"
    /\ loop' = loop + 1
    /\ epc' = "choose"
    /\ UNCHANGED <<program, cur, idx, handler, blocked, sigchld, child>>

AwaitStopped ==
    /\ epc = "stopping"
    /\ sigchld
    /\ sigchld' = FALSE
    /\ loop' = loop + 1
    /\ epc' = "choose"
    /\ UNCHANGED <<program, cur, idx, handler, blocked, child>>

Finish ==
    /\ epc = "choose"
    /\ loop >= steps
    /\ idx' = 0
    /\ epc' = "kill"
    /\ UNCHANGED <<program, loop, cur, handler, blocked, sigchld, child>>

\* SIGINT of the user: the handler runs kill_emulation wherever the emulator
\* is, also inside kill_emulation.  One typed at the terminal also goes to the
\* children.
Interrupt ==
    /\ epc \notin {"fork", "sleep", "done", "exited"}
    /\ ~ handler
    /\ handler' = TRUE
    /\ idx' = 0
    /\ epc' = "kill"
    /\ \/ UNCHANGED pending
       \/ pending' = [c \in EmIds |->
              IF Takes(c, "SIGINT") THEN pending[c] \cup {"SIGINT"} ELSE pending[c]]
    /\ UNCHANGED <<program, loop, cur, blocked, sigchld, life, raised, second, notify>>

\* Fault: no SIGCONT before the SIGINT.
KillStopped ==
    /\ epc = "kill"
    /\ idx < procs
    /\ epc' = "int"
    /\ UNCHANGED <<program, loop, cur, idx, handler, blocked, sigchld, child>>

KillContinue ==
    /\ epc = "kill"
    /\ idx < procs
    /\ SendSigcont(idx)
    /\ epc' = "int"
    /\ UNCHANGED <<program, loop, cur, idx, handler, blocked, sigchld>>

KillInterrupt ==
    /\ epc = "int"
    /\ SendSignal(idx, "SIGINT")
    /\ epc' = "waitpid"
    /\ UNCHANGED <<program, loop, cur, idx, handler, blocked, sigchld>>

\* Fault: waitpid with WNOHANG.
PollChild ==
    /\ epc = "waitpid"
    /\ life' = [life EXCEPT ![idx] = IF @ = "zombie" THEN "reaped" ELSE @]
    /\ idx' = idx + 1
    /\ epc' = "kill"
    /\ UNCHANGED <<program, loop, cur, handler, blocked, sigchld, raised, second, pending, notify>>

\* waitpid waits for the child to end; it fails for one that is reaped already.
WaitForChild ==
    /\ epc = "waitpid"
    /\ life[idx] \in {"zombie", "reaped"}
    /\ life' = [life EXCEPT ![idx] = "reaped"]
    /\ idx' = idx + 1
    /\ epc' = "kill"
    /\ UNCHANGED <<program, loop, cur, handler, blocked, sigchld, raised, second, pending, notify>>

AllWaitedFor ==
    /\ epc = "kill"
    /\ idx >= procs
    /\ epc' = "done"
    /\ UNCHANGED <<program, loop, cur, idx, handler, blocked, sigchld, child>>

Terminated == epc \in {"done", "exited"} /\ UNCHANGED vars

EmulatorStep ==
    \/ Fork
    \/ AllForked
    \/ EndSleep
    \/ Awake
    \/ Continue
    \/ AwaitContinued
    \/ StopProcess
    \/ AwaitStopped
    \/ Finish
    \/ KillContinue
    \/ KillInterrupt
    \/ WaitForChild
    \/ AllWaitedFor

Next ==
    \/ EmulatorStep
    \/ EndEarly
    \/ Interrupt
    \/ \E c \in EmIds : ChildStep(c) \/ ChildChoice(c)
    \/ Terminated

Spec == Init /\ [][Next]_vars

\* The emulator keeps running, and so does a child as far as its signals are
\* concerned: a pending signal is eventually taken by a process that runs.
FairSpec == Spec /\ WF_vars(EmulatorStep) /\ \A c \in EmIds : WF_vars(ChildStep(c))

-----------------------------------------------------------------------------
TypeOK ==
    /\ program \in [EmIds -> Kinds]
    /\ epc \in {"fork", "sleep", "choose", "cont", "continued", "window", "stopping",
                "kill", "int", "waitpid", "done", "exited"}
    /\ loop \in 0 .. steps
    /\ epc \in {"cont", "continued", "window", "stopping"} => loop < steps
    /\ cur \in EmIds
    /\ idx \in 0 .. procs
    /\ epc \in {"int", "waitpid"} => idx \in EmIds
    /\ handler \in BOOLEAN
    /\ blocked \in BOOLEAN
    /\ sigchld \in BOOLEAN
    /\ life \in [EmIds -> {"none", "running", "stopped", "zombie", "reaped"}]
    /\ raised \in [EmIds -> BOOLEAN]
    /\ second \in [EmIds -> {"no", "begins", "waits"}]
    /\ pending \in [EmIds -> SUBSET {"SIGSTOP", "SIGINT"}]
    /\ notify \in [EmIds -> BOOLEAN]

\* No child has become a second emulator.
OneEmulator == \A c \in EmIds : second[c] = "no"

InTurn == epc \in {"choose", "cont", "continued", "window", "stopping"}

\* emproc.hpp: when awake returns, the process it ran has already stopped, as
\* long as there is one emulator.
StoppedOnReturn == OneEmulator /\ epc = "choose" /\ loop > 0 => life[cur] # "running"

\* The processes never run at the same time: before kill_emulation, only the
\* one that was awakened runs, although sigwait cannot tell whose SIGCHLD it
\* got.  The exceptions are a java, which never stops, and the processes a
\* second emulator continues.
OneRunsAtATime ==
    OneEmulator /\ InTurn =>
        \A c \in EmIds : life[c] = "running" /\ program[c] # "java" =>
            c = cur /\ epc \in {"continued", "window", "stopping"}

\* The window of a process is time it runs: it has been continued when the
\* clock of the window starts, and nothing stops it before the window ends.
WindowIsRun == OneEmulator /\ epc = "window" => life[cur] # "stopped" /\ ~ notify[cur]

\* Between two awakenings no SIGCHLD is pending that the next sigwait would
\* take for an answer of the process it continues.
NoStaleSigchld == OneEmulator /\ epc \in {"choose", "cont"} => ~ sigchld

\* kill_emulation leaves no process behind, also when its signal handler runs
\* it a second time inside itself, or a child that failed to execute its
\* program passes the SIGINT on.
AllKilled == epc = "done" => \A c \in EmIds : life[c] = "reaped"

\* start_emulation performs its steps awakenings, whatever the programs do.
EmulationEnds == <>(epc \in {"done", "exited"})

\* While the emulation goes on no program ends, and no child_init returns.
ProgramsRun ==
    /\ OneEmulator
    /\ \A c \in EmIds : life[c] = "zombie" => epc \in {"kill", "int", "waitpid", "done", "exited"}

\* If the configuration names executables only, and no program ends by itself,
\* no sigwait and no waitpid waits for ever, with or without a SIGINT at any
\* point.
EndsUnlessProgramEnds ==
    [](ProgramsRun /\ \A c \in EmIds : program[c] = "executable") => EmulationEnds

\* emulator.hpp:39-40 ("Every newly created process immediately stops itself"):
\* whatever its program, a process that awake continues was stopped, and its
\* SIGCHLD ends the first sigwait: no window fails to begin.
AwakeIsAnswered == []ProgramsRun => (epc = "continued" ~> epc # "continued")

-----------------------------------------------------------------------------
(* The inductive invariant behind StoppedOnReturn, OneRunsAtATime,         *)
(* WindowIsRun and NoStaleSigchld (module ProcControlProofs).              *)

\* In fork_stop_run and while main sleeps, each child is still to be forked, or
\* it is before, in or after its raise(SIGSTOP).
Starting ==
    epc \in {"fork", "sleep"} =>
        /\ ~ blocked /\ ~ sigchld /\ loop = 0
        /\ \A c \in EmIds : life[c] = "none" <=> (epc = "fork" /\ c >= idx)
        /\ \A c \in EmIds :
               /\ ~ notify[c]
               /\ \/ life[c] \in {"none", "running"} /\ ~ raised[c] /\ pending[c] = {}
                  \/ life[c] = "running" /\ raised[c] /\ pending[c] = {"SIGSTOP"}
                  \/ life[c] = "stopped" /\ raised[c] /\ pending[c] = {}

\* A java runs on, undisturbed, until kill_emulation.
JavaRuns ==
    \A c \in EmIds : program[c] = "java" =>
        /\ ~ raised[c]
        /\ InTurn => life[c] = "running" /\ ~ notify[c] /\ pending[c] = {}

\* All but the awakened process rest, and so does that one between awakenings.
OthersRest ==
    InTurn =>
        \A c \in EmIds : program[c] # "java" /\ (c # cur \/ epc \in {"choose", "cont"}) =>
            /\ life[c] \in {"stopped", "zombie"}
            /\ ~ notify[c] /\ raised[c]
            /\ pending[c] = {}

\* The awakened process, if it lives, answers each signal with one SIGCHLD.
OneAnswer ==
    /\ epc \in {"choose", "cont"} => ~ sigchld
    /\ epc = "continued" =>
           \/ program[cur] = "java" /\ ~ sigchld
           \/ /\ life[cur] = "running" /\ program[cur] # "java"
              /\ (notify[cur] <=> ~ sigchld) /\ pending[cur] = {}
           \/ life[cur] = "zombie" /\ ~ notify[cur] /\ pending[cur] = {}
    /\ epc = "window" =>
           \/ life[cur] = "running" /\ ~ notify[cur] /\ ~ sigchld /\ pending[cur] = {}
           \/ life[cur] = "zombie" /\ ~ notify[cur] /\ pending[cur] = {}
    /\ epc = "stopping" =>
           \/ /\ life[cur] = "running" /\ ~ notify[cur] /\ ~ sigchld
              /\ pending[cur] = {"SIGSTOP"}
           \/ life[cur] \in {"stopped", "zombie"} /\ ~ notify[cur] /\ pending[cur] = {}
    /\ epc \in {"window", "stopping"} \/ (epc = "choose" /\ loop > 0) => program[cur] # "java"

Turns ==
    /\ Starting
    /\ JavaRuns
    /\ OthersRest
    /\ OneAnswer
    /\ epc \in {"continued", "window", "stopping"} /\ program[cur] # "java" => raised[cur]
    /\ epc \in {"cont", "continued", "window", "stopping"} => blocked

\* As long as there is one emulator, the processes take turns.
TurnInvariant == TypeOK /\ (OneEmulator => Turns)

\* Behind kill_emulation's loop all processes are gone.
KilledSoFar ==
    /\ epc \in {"kill", "int", "waitpid"} => \A c \in EmIds : c < idx => life[c] = "reaped"
    /\ epc = "done" => \A c \in EmIds : life[c] = "reaped"

=============================================================================

-------------------------- MODULE ProcControlProofs --------------------------
(***************************************************************************)
(* Proofs about ProcControl, for every number of children and awakenings   *)
(* and every configuration: type correctness, that one process runs at a   *)
(* time and is stopped when awake returns, and that kill_emulation leaves  *)
(* no process behind.                                                      *)
(*                                                                         *)
(* All but the first and the last need the children to have stopped        *)
(* themselves before the emulation starts, and hold until a child_init     *)
(* returns; the programs may end by themselves at any time.                *)
(***************************************************************************)
EXTENDS ProcControl, TLAPS

\* What the actions of the kernel and of the children are made of.
Child(c) == ChildStep(c) \/ ChildChoice(c)

-----------------------------------------------------------------------------
\* The initial state is well typed.
LEMMA TypeInit == Init => TypeOK
<1> SUFFICES ASSUME Init PROVE TypeOK
  OBVIOUS
<1>1. /\ 0 \in 0 .. steps
      /\ 0 \in 0 .. procs
      /\ 0 \in EmIds
  BY ConstantsAssumption DEF EmIds
<1> QED
  BY <1>1, ConstantsAssumption DEF Init, TypeOK

\* Signals keep the children's state well typed.
LEMMA TypeChild ==
  ASSUME TypeOK, NEW c \in EmIds, Child(c)
  PROVE  TypeOK'
<1> USE DEF TypeOK, emulator, child, RaiseSigchld
<1>1. CASE RaiseSigstop(c)
  BY <1>1 DEF RaiseSigstop
<1>2. CASE NotifyContinued(c)
  BY <1>2 DEF NotifyContinued
<1>3. CASE TakeSigstop(c)
  BY <1>3 DEF TakeSigstop
<1>4. CASE End(c)
  BY <1>4 DEF End
<1>5. CASE ReturnFromInit(c)
  BY <1>5 DEF ReturnFromInit
<1>6. CASE AwakeSibling(c)
  BY <1>6 DEF AwakeSibling, Sigcont
<1>7. CASE PassSigintOn(c)
  BY <1>7 DEF PassSigintOn
<1> QED
  BY <1>1, <1>2, <1>3, <1>4, <1>5, <1>6, <1>7
  DEF Child, ChildStep, ChildChoice, TakeSigint, Exit

\* Each step of the emulator keeps the state well typed.
LEMMA TypeEmulator ==
  ASSUME TypeOK, EmulatorStep \/ Interrupt \/ EndEarly
  PROVE  TypeOK'
<1> USE ConstantsAssumption DEF TypeOK, EmIds, child, SendSigcont, Sigcont, SendSignal
<1>1. CASE EndSleep
  BY <1>1 DEF EndSleep
<1>2. CASE Awake
  BY <1>2 DEF Awake
<1>3. CASE Continue
  BY <1>3 DEF Continue
<1>4. CASE AwaitContinued
  BY <1>4 DEF AwaitContinued
<1>5. CASE StopProcess
  BY <1>5 DEF StopProcess
<1>6. CASE AwaitStopped
  <2>1. /\ epc' = "choose"
        /\ loop' \in 0 .. steps
    BY <1>6 DEF AwaitStopped
  <2> QED
    BY <1>6, <2>1 DEF AwaitStopped
<1>7. CASE Finish
  BY <1>7 DEF Finish
<1>8. CASE KillContinue
  BY <1>8 DEF KillContinue
<1>9. CASE KillInterrupt
  BY <1>9 DEF KillInterrupt
<1>10. CASE WaitForChild
  BY <1>10 DEF WaitForChild
<1>11. CASE AllWaitedFor
  BY <1>11 DEF AllWaitedFor
<1>12. CASE Interrupt
  BY <1>12 DEF Interrupt
<1>13. CASE Fork
  BY <1>13 DEF Fork
<1>14. CASE AllForked
  BY <1>14 DEF AllForked
<1>15. CASE EndEarly
  BY <1>15 DEF EndEarly
<1> QED
  BY <1>1, <1>2, <1>3, <1>4, <1>5, <1>6, <1>7, <1>8, <1>9, <1>10, <1>11, <1>12, <1>13, <1>14,
     <1>15
  DEF EmulatorStep

\* Every step keeps the state well typed.
LEMMA TypeStep == TypeOK /\ [Next]_vars => TypeOK'
<1> SUFFICES ASSUME TypeOK, [Next]_vars PROVE TypeOK'
  OBVIOUS
<1>1. CASE UNCHANGED vars
  BY <1>1 DEF TypeOK, vars, emulator, child
<1> QED
  BY <1>1, TypeChild, TypeEmulator DEF Next, Child, Terminated

\* ProcControl is well typed in every state.
THEOREM ProcControlTypeCorrect == Spec => []TypeOK
  BY TypeInit, TypeStep, PTL DEF Spec

-----------------------------------------------------------------------------
\* kill_emulation has waited for each child it left, and a process that was
\* waited for does not come back.
LEMMA KilledStep ==
  ASSUME TypeOK, KilledSoFar, [Next]_vars
  PROVE  KilledSoFar'
<1> USE ConstantsAssumption DEF TypeOK, KilledSoFar, EmIds
<1>1. ASSUME NEW c \in EmIds, Child(c) PROVE KilledSoFar'
  <2>1. CASE AwakeSibling(c)
    BY <2>1 DEF AwakeSibling, Sigcont, emulator
  <2>2. CASE PassSigintOn(c)
    BY <2>2 DEF PassSigintOn, Alive, emulator
  <2> QED
    BY <1>1, <2>1, <2>2 DEF Child, ChildStep, ChildChoice, RaiseSigstop, NotifyContinued,
       TakeSigstop, TakeSigint, Exit, End, ReturnFromInit, emulator
<1>2. CASE EmulatorStep
  <2>1. CASE KillContinue
    BY <1>2, <2>1 DEF KillContinue, SendSigcont, Sigcont
  <2>2. CASE KillInterrupt
    BY <1>2, <2>2 DEF KillInterrupt, SendSignal
  <2>3. CASE WaitForChild
    BY <1>2, <2>3 DEF WaitForChild
  <2>4. CASE AllWaitedFor
    BY <1>2, <2>4 DEF AllWaitedFor, child
  <2>5. CASE Finish
    BY <1>2, <2>5 DEF Finish, child
  <2>6. CASE Fork \/ AllForked \/ EndSleep \/ Awake \/ Continue \/ AwaitContinued \/ StopProcess \/ AwaitStopped
    BY <2>6 DEF Fork, AllForked, EndSleep, Awake, Continue, AwaitContinued, StopProcess, AwaitStopped
  <2> QED
    BY <1>2, <2>1, <2>2, <2>3, <2>4, <2>5, <2>6 DEF EmulatorStep
<1>3. CASE Interrupt \/ EndEarly
  BY <1>3 DEF Interrupt, EndEarly
<1>4. CASE UNCHANGED vars
  BY <1>4 DEF vars, emulator, child
<1> QED
  BY <1>1, <1>2, <1>3, <1>4 DEF Next, Child, Terminated

\* The children kill_emulation has left behind in its loop are gone, whatever
\* the handler, the children and their second emulators do.
THEOREM KilledSoFarHolds == Spec => []KilledSoFar
<1>1. Init => KilledSoFar
  BY DEF Init, KilledSoFar
<1> QED
  BY <1>1, KilledStep, ProcControlTypeCorrect, PTL DEF Spec

\* kill_emulation leaves no process behind.
THEOREM AllKilledHolds == Spec => []AllKilled
<1>1. KilledSoFar => AllKilled
  BY DEF KilledSoFar, AllKilled
<1> QED
  BY <1>1, KilledSoFarHolds, PTL

-----------------------------------------------------------------------------
\* The initial state, before any fork.
LEMMA TurnInit == Init => TurnInvariant
<1> SUFFICES ASSUME Init PROVE Turns
  BY TypeInit DEF TurnInvariant
<1> QED
  BY DEF Init, Turns, Starting, JavaRuns, OthersRest, OneAnswer, InTurn, EmIds

\* A child that acts is starting, or is the awakened process, or kill_emulation
\* has begun: unless it becomes a second emulator, the turns go on after its
\* step.
LEMMA TurnChild ==
  ASSUME TypeOK, TypeOK', Turns, OneEmulator, OneEmulator', NEW c \in EmIds, Child(c)
  PROVE  Turns'
<1> USE DEF Turns, TypeOK, InTurn, emulator, RaiseSigchld
<1>1. second[c] = "no" /\ second'[c] = "no"
  BY DEF OneEmulator
<1>2. CASE RaiseSigstop(c)
  BY <1>2 DEF RaiseSigstop, Starting, JavaRuns, OthersRest, OneAnswer
<1>3. CASE NotifyContinued(c)
  <2>1. UNCHANGED <<program, epc, idx, cur, blocked>>
    BY <1>3 DEF NotifyContinued
  <2>2. CASE InTurn
    <3>1. /\ c = cur /\ epc = "continued" /\ blocked /\ raised[cur] /\ pending[cur] = {}
          /\ program[cur] # "java"
      BY <1>3, <2>2 DEF NotifyContinued, JavaRuns, OthersRest, OneAnswer
    <3>2. sigchld' /\ ~ notify'[cur] /\ \A d \in EmIds \ {cur} : notify'[d] = notify[d]
      BY <1>3, <3>1 DEF NotifyContinued
    <3>3. UNCHANGED <<life, raised, pending>> /\ life[cur] = "running"
      BY <1>3, <3>1 DEF NotifyContinued
    <3>4. Starting' /\ JavaRuns'
      BY <2>1, <3>1, <3>2, <3>3 DEF Starting, JavaRuns
    <3>5. OthersRest' /\ OneAnswer'
      BY <2>1, <3>1, <3>2, <3>3 DEF OthersRest, OneAnswer
    <3> QED
      BY <2>1, <3>1, <3>3, <3>4, <3>5
  <2>3. CASE ~ InTurn
    BY <1>3, <2>1, <2>3 DEF NotifyContinued, Starting, JavaRuns, OthersRest, OneAnswer
  <2> QED
    BY <2>2, <2>3
<1>4. CASE TakeSigstop(c)
  BY <1>4 DEF TakeSigstop, Starting, JavaRuns, OthersRest, OneAnswer
<1>5. CASE TakeSigint(c) \/ Exit(c)
  BY <1>5 DEF TakeSigint, Exit, End, Starting, JavaRuns, OthersRest, OneAnswer
<1>6. ~ (ReturnFromInit(c) \/ AwakeSibling(c) \/ PassSigintOn(c))
  BY <1>1 DEF ReturnFromInit, AwakeSibling, PassSigintOn
<1> QED
  BY <1>2, <1>3, <1>4, <1>5, <1>6 DEF Child, ChildStep, ChildChoice

\* Each step of the emulator takes the turn one phase further.
LEMMA TurnEmulator ==
  ASSUME TypeOK, TypeOK', Turns, EmulatorStep \/ Interrupt \/ EndEarly, StartupSettles
  PROVE  Turns'
<1> USE DEF Turns, TypeOK, InTurn, child
<1>1. CASE Fork
  <2>1. /\ epc = "fork" /\ idx \in EmIds
        /\ UNCHANGED <<program, epc, cur, blocked, sigchld, loop, raised, pending, notify>>
        /\ idx' = idx + 1
        /\ life'[idx] = "running"
        /\ \A c \in EmIds \ {idx} : life'[c] = life[c]
    BY <1>1, ConstantsAssumption DEF Fork, EmIds
  <2>2. Starting'
    <3>1. \A c \in EmIds : life'[c] = "none" <=> c >= idx + 1
      BY <2>1, ConstantsAssumption DEF Starting, EmIds
    <3>2. \A c \in EmIds :
             \/ life'[c] \in {"none", "running"} /\ ~ raised[c] /\ pending[c] = {}
             \/ life'[c] = "running" /\ raised[c] /\ pending[c] = {"SIGSTOP"}
             \/ life'[c] = "stopped" /\ raised[c] /\ pending[c] = {}
      <4> SUFFICES ASSUME NEW c \in EmIds
                   PROVE  \/ life'[c] \in {"none", "running"} /\ ~ raised[c] /\ pending[c] = {}
                          \/ life'[c] = "running" /\ raised[c] /\ pending[c] = {"SIGSTOP"}
                          \/ life'[c] = "stopped" /\ raised[c] /\ pending[c] = {}
        OBVIOUS
      <4>1. CASE c # idx
        BY <2>1, <4>1 DEF Starting
      <4>2. CASE c = idx
        BY <2>1, <4>2, ConstantsAssumption DEF Starting, EmIds
      <4> QED
        BY <4>1, <4>2
    <3> QED
      BY <2>1, <3>1, <3>2 DEF Starting
  <2> QED
    BY <2>1, <2>2 DEF JavaRuns, OthersRest, OneAnswer
<1>2. CASE AllForked
  BY <1>2, ConstantsAssumption DEF AllForked, Starting, JavaRuns, OthersRest, OneAnswer, EmIds
<1>3. CASE EndSleep
  <2>1. JavaRuns'
    BY <1>3 DEF EndSleep, Starting, JavaRuns
  <2>2. OthersRest'
    BY <1>3 DEF EndSleep, Starting, OthersRest
  <2>3. Starting' /\ OneAnswer'
    BY <1>3 DEF EndSleep, Starting, OneAnswer
  <2> QED
    BY <1>3, <2>1, <2>2, <2>3 DEF EndSleep
<1>4. CASE Awake
  <2>1. Starting' /\ JavaRuns'
    BY <1>4 DEF Awake, Starting, JavaRuns
  <2>2. OthersRest'
    BY <1>4 DEF Awake, OthersRest, OneAnswer
  <2>3. OneAnswer'
    BY <1>4 DEF Awake, OthersRest, OneAnswer
  <2> QED
    BY <1>4, <2>1, <2>2, <2>3 DEF Awake
<1>5. CASE Continue
  BY <1>5 DEF Continue, SendSigcont, Sigcont, Starting, JavaRuns, OthersRest, OneAnswer
<1>6. CASE AwaitContinued
  <2>1. Starting' /\ JavaRuns' /\ OthersRest'
    BY <1>6 DEF AwaitContinued, Starting, JavaRuns, OthersRest
  <2>2. OneAnswer'
    BY <1>6 DEF AwaitContinued, JavaRuns, OneAnswer
  <2> QED
    BY <1>6, <2>1, <2>2 DEF AwaitContinued
<1>7. CASE StopProcess
  <2>1. Starting' /\ JavaRuns'
    BY <1>7 DEF StopProcess, SendSignal, Starting, JavaRuns, OneAnswer
  <2>2. OthersRest'
    BY <1>7 DEF StopProcess, SendSignal, OthersRest
  <2>3. OneAnswer'
    BY <1>7 DEF StopProcess, SendSignal, Takes, Alive, OneAnswer
  <2> QED
    BY <1>7, <2>1, <2>2, <2>3 DEF StopProcess, SendSignal
<1>8. CASE AwaitStopped
  <2>1. Starting' /\ JavaRuns'
    BY <1>8 DEF AwaitStopped, Starting, JavaRuns
  <2>2. OthersRest'
    BY <1>8 DEF AwaitStopped, OthersRest, OneAnswer
  <2>3. OneAnswer'
    BY <1>8 DEF AwaitStopped, OthersRest, OneAnswer
  <2> QED
    BY <1>8, <2>1, <2>2, <2>3 DEF AwaitStopped
<1>9. CASE Finish \/ KillContinue \/ KillInterrupt \/ WaitForChild \/ AllWaitedFor \/ Interrupt
           \/ EndEarly
  <2>1. epc' \in {"kill", "int", "waitpid", "done", "exited"}
    BY <1>9 DEF Finish, KillContinue, KillInterrupt, WaitForChild, AllWaitedFor, Interrupt,
       EndEarly
  <2>2. UNCHANGED <<program, raised>>
    BY <1>9 DEF Finish, KillContinue, KillInterrupt, WaitForChild, AllWaitedFor, Interrupt,
       EndEarly, SendSigcont, SendSignal
  <2> QED
    BY <2>1, <2>2 DEF Starting, JavaRuns, OthersRest, OneAnswer
<1> QED
  BY <1>1, <1>2, <1>3, <1>4, <1>5, <1>6, <1>7, <1>8, <1>9 DEF EmulatorStep

\* A second emulator stays one.
LEMMA OneBefore ==
  ASSUME TypeOK, [Next]_vars, OneEmulator'
  PROVE  OneEmulator
<1>1. CASE UNCHANGED second
  BY <1>1 DEF OneEmulator
<1>2. ASSUME NEW c \in EmIds, ReturnFromInit(c) \/ AwakeSibling(c) PROVE FALSE
  BY <1>2 DEF ReturnFromInit, AwakeSibling, OneEmulator, TypeOK
<1>3. ASSUME NEW c \in EmIds, ChildStep(c) \/ Exit(c) PROVE UNCHANGED second
  BY <1>3 DEF ChildStep, RaiseSigstop, NotifyContinued, TakeSigstop, TakeSigint, PassSigintOn, Exit,
     End
<1>4. ASSUME EmulatorStep PROVE UNCHANGED second
  BY <1>4 DEF EmulatorStep, Fork, AllForked, EndSleep, Awake, Continue, AwaitContinued,
     StopProcess, AwaitStopped, Finish, KillContinue, KillInterrupt, WaitForChild, AllWaitedFor,
     SendSigcont, SendSignal, child
<1>5. ASSUME Interrupt \/ EndEarly \/ Terminated \/ UNCHANGED vars PROVE UNCHANGED second
  BY <1>5 DEF Interrupt, EndEarly, Terminated, vars, child
<1> QED
  BY <1>1, <1>2, <1>3, <1>4, <1>5 DEF Next, ChildChoice

\* If the children stop themselves while main sleeps, each awakened process
\* answers each signal with one SIGCHLD, until a child_init returns.
THEOREM TurnInvariantHolds ==
  ASSUME StartupSettles
  PROVE  Spec => []TurnInvariant
<1>1. TurnInvariant /\ [Next]_vars => TurnInvariant'
  <2> SUFFICES ASSUME TurnInvariant, [Next]_vars, OneEmulator' PROVE Turns'
    BY TypeStep DEF TurnInvariant
  <2>1. TypeOK /\ TypeOK'
    BY TypeStep DEF TurnInvariant
  <2>2. OneEmulator
    BY <2>1, OneBefore
  <2>3. Turns
    BY <2>2 DEF TurnInvariant
  <2>4. CASE UNCHANGED vars
    BY <2>3, <2>4 DEF Turns, Starting, JavaRuns, OthersRest, OneAnswer, InTurn, vars, emulator,
       child
  <2> QED
    BY <2>1, <2>2, <2>3, <2>4, TurnChild, TurnEmulator DEF Next, Child, Terminated
<1> QED
  BY <1>1, TurnInit, PTL DEF Spec

\* Before kill_emulation, only the awakened process runs.
THEOREM OneRunsAtATimeHolds ==
  ASSUME StartupSettles
  PROVE  Spec => []OneRunsAtATime
<1>1. TurnInvariant => OneRunsAtATime
  BY DEF TurnInvariant, Turns, OthersRest, InTurn, OneRunsAtATime
<1> QED
  BY <1>1, TurnInvariantHolds, PTL

\* When awake returns, the process it ran has stopped (or ended).
THEOREM StoppedOnReturnHolds ==
  ASSUME StartupSettles
  PROVE  Spec => []StoppedOnReturn
<1>1. TurnInvariant => StoppedOnReturn
  BY DEF TurnInvariant, Turns, TypeOK, OthersRest, OneAnswer, InTurn, StoppedOnReturn
<1> QED
  BY <1>1, TurnInvariantHolds, PTL

\* The window of a process is time that it runs.
THEOREM WindowIsRunHolds ==
  ASSUME StartupSettles
  PROVE  Spec => []WindowIsRun
<1>1. TurnInvariant => WindowIsRun
  BY DEF TurnInvariant, Turns, OneAnswer, WindowIsRun
<1> QED
  BY <1>1, TurnInvariantHolds, PTL

\* No SIGCHLD is left over for the next awakening.
THEOREM NoStaleSigchldHolds ==
  ASSUME StartupSettles
  PROVE  Spec => []NoStaleSigchld
<1>1. TurnInvariant => NoStaleSigchld
  BY DEF TurnInvariant, Turns, OneAnswer, NoStaleSigchld
<1> QED
  BY <1>1, TurnInvariantHolds, PTL
=============================================================================

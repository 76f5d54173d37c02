--------------------------- MODULE LauncherProofs ---------------------------
(***************************************************************************)
(* What holds of run.sh in every mode, with any number of attempts and of  *)
(* signals: no server is left behind unasked.                              *)
(***************************************************************************)
EXTENDS Launcher, TLAPS

\* The server has been told to stop or need not be: it does not run, or the
\* client it served has succeeded.
Stopped == ~Alive \/ serverStop \/ status = 0

BeforeClient == {"start", "forked", "check", "probe", "alive", "sleep", "client",
                 "wait"}

\* A probe is followed by a sleep only when one was left.
ProbesCounted == pc \in {"alive", "sleep"} => attempts < MaxAttempts

\* The client is started once, and its exit status is there when it is dead.
ClientOnce ==
  /\ pc \in BeforeClient => client = "off"
  /\ status = 0 => client = "dead"

\* From the command after the fork on, cleanup knows a server that runs: the
\* script forgets it when the client has succeeded or the server has exited.
ServerKnown ==
  /\ pc \notin {"start", "forked"} => serverPid \/ ~Alive \/ status = 0
  /\ pc = "clear" => ~Alive \/ status = 0

\* The EXIT trap comes first and sends its signal before the script exits.
CleanupFirst ==
  /\ pc = "exitTrap" /\ cleaning # "kill" => Stopped
  /\ pc = "exited" => Stopped

LauncherInv ==
  /\ TypeOK
  /\ ProbesCounted
  /\ ClientOnce
  /\ ServerKnown
  /\ CleanupFirst

-----------------------------------------------------------------------------
LEMMA LauncherInit == Init => LauncherInv
<1> SUFFICES ASSUME Init PROVE LauncherInv
  OBVIOUS
<1>1. pc \in {"client", "start"} /\ server = "off" /\ client = "off" /\ status = 2
  BY DEF Init
<1>2. TypeOK
  <2>1. {serverPid, trapPending, serverStop, clientStop} \subseteq BOOLEAN
    BY DEF Init
  <2>2. attempts \in 0 .. MaxAttempts /\ status \in 0 .. 2
    BY LauncherAssumption DEF LauncherAssumption, Init
  <2>3. setup \in Setups /\ cleaning \in {"no", "kill", "wait"}
    BY DEF Init
  <2> QED
    BY <1>1, <2>1, <2>2, <2>3 DEF TypeOK
<1>3. ProbesCounted /\ ClientOnce /\ ServerKnown /\ CleanupFirst
  BY <1>1 DEF ProbesCounted, ClientOnce, ServerKnown, CleanupFirst, Alive, BeforeClient
<1> QED
  BY <1>2, <1>3 DEF LauncherInv

\* The commands of the script.
LEMMA ScriptKeeps ==
  ASSUME LauncherInv, Script PROVE LauncherInv'
<1> USE LauncherAssumption
    DEF LauncherInv, TypeOK, ProbesCounted, ClientOnce, ServerKnown, CleanupFirst,
        Stopped, Alive, BeforeClient, At, Go, serverVars, clientVars
<1>1. CASE StartServer
  BY <1>1 DEF StartServer
<1>2. CASE StorePid
  BY <1>2 DEF StorePid
<1>3. CASE CheckStarted
  BY <1>3 DEF CheckStarted
<1>4. CASE Probe
  BY <1>4 DEF Probe, ProbesLeft
<1>5. CASE CheckAlive
  BY <1>5 DEF CheckAlive
<1>6. CASE Sleep
  BY <1>6 DEF Sleep
<1>7. CASE StartClient
  BY <1>7 DEF StartClient
<1>8. CASE ClientEnded
  BY <1>8 DEF ClientEnded
<1>9. CASE WaitReturns
  BY <1>9 DEF WaitReturns
<1>10. CASE Clear
  BY <1>10 DEF Clear
<1>11. CASE Exit
  BY <1>11 DEF Exit
<1>12. CASE RunTrap
  BY <1>12 DEF RunTrap
<1>13. CASE CleanupKill
  BY <1>13 DEF CleanupKill, Terminate
<1>14. CASE CleanupWait
  BY <1>14 DEF CleanupWait
<1> QED
  BY <1>1, <1>2, <1>3, <1>4, <1>5, <1>6, <1>7, <1>8, <1>9, <1>10, <1>11, <1>12,
     <1>13, <1>14 DEF Script

\* The two processes and the signals.
LEMMA ProcessesKeep ==
  ASSUME LauncherInv,
         ServerRuns \/ ServerFails \/ ClientRuns \/ CtrlC \/ TermScript \/ TermClient
  PROVE  LauncherInv'
<1> USE LauncherAssumption
    DEF LauncherInv, TypeOK, ProbesCounted, ClientOnce, ServerKnown, CleanupFirst,
        Stopped, Alive, BeforeClient, scriptVars, serverVars, clientVars
<1>1. CASE ServerRuns
  BY <1>1 DEF ServerRuns
<1>2. CASE ServerFails
  BY <1>2 DEF ServerFails
<1>3. CASE ClientRuns
  BY <1>3 DEF ClientRuns
<1>4. CASE CtrlC
  BY <1>4 DEF CtrlC, SignalClient, ProbesLeft, Sends
<1>5. CASE TermScript
  BY <1>5 DEF TermScript, Sends
<1>6. CASE TermClient
  BY <1>6 DEF TermClient, SignalClient, Sends
<1> QED
  BY <1>1, <1>2, <1>3, <1>4, <1>5, <1>6

LEMMA LauncherNext == LauncherInv /\ [Next]_vars => LauncherInv'
<1> SUFFICES ASSUME LauncherInv, [Next]_vars PROVE LauncherInv'
  OBVIOUS
<1>1. CASE UNCHANGED vars
  BY <1>1 DEF vars, scriptVars, serverVars, clientVars, LauncherInv, TypeOK,
     ProbesCounted, ClientOnce, ServerKnown, CleanupFirst, Stopped, Alive
<1>2. CASE Next
  BY <1>1, <1>2, ScriptKeeps, ProcessesKeep DEF Next, Ended
<1> QED
  BY <1>1, <1>2

THEOREM LauncherInvariance == Spec => []LauncherInv
<1> QED
  BY LauncherInit, LauncherNext, PTL DEF Spec

\* Types, and wait_for_server never tries more than max_attempts times,
\* wherever signals fall into its loop.
THEOREM TypeCorrect == Spec => []TypeOK
<1>1. LauncherInv => TypeOK
  BY DEF LauncherInv
<1> QED
  BY <1>1, LauncherInvariance, PTL

\* run.sh leaves no server running that it has not told to stop, but for a
\* client that succeeded: cleanup and the traps, in every mode.
THEOREM OrphansNever == Spec => []NoOrphan
<1>1. LauncherInv => NoOrphan
  BY DEF LauncherInv, CleanupFirst, Stopped, NoOrphan
<1> QED
  BY <1>1, LauncherInvariance, PTL
=============================================================================

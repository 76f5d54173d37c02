------------------------------ MODULE Launcher ------------------------------
(***************************************************************************)
(* run.sh with the two processes it starts: the server in the background,  *)
(* the client in the foreground, all in one process group, and the traps   *)
(* that run cleanup.  bash runs the trap of a signal between two commands, *)
(* and then goes on with the script: after a foreground child has ended,   *)
(* but out of the middle of `wait`.  Ctrl+C reaches all three processes,   *)
(* except that bash starts a background command with SIGINT ignored, until *)
(* the server installs its own handler.  The build and the download come   *)
(* before.                                                                 *)
(***************************************************************************)
EXTENDS Naturals, Sequences

CONSTANTS
  Modes,        \* the modes it may be started in: "all", "server", "client"
  MaxAttempts,  \* max_attempts
  MaxSignals    \* bound: signals sent by the user

ASSUME LauncherAssumption ==
  /\ Modes \subseteq {"all", "server", "client"}
  /\ MaxAttempts \in Nat /\ MaxSignals \in Nat

VARIABLES
  \* ---- run.sh
  setup,       \* MODE, and whether another server already has the port
  pc,          \* the command it is at
  serverPid,   \* SERVER_PID is not empty
  attempts,    \* of wait_for_server
  trapPending, \* a signal has arrived whose trap has not run
  cleaning,    \* cleanup: "no", at its "kill", or at its "wait"
  \* ---- the processes
  server,      \* "off", "starting", "binding", "serving", "dead"
  serverStop,  \* its g_running is clear
  client,      \* "off", "starting", "deaf", "connecting", "running", "dead"
  clientStop,  \* MarketClient::stop has run
  status,      \* exit status of the client: 0, or 1 for any other, 2 for none
  \* ---- history
  signals      \* signals sent: which, and the command each fell on

scriptVars == <<setup, pc, serverPid, attempts, trapPending, cleaning>>
serverVars == <<server, serverStop>>
clientVars == <<client, clientStop, status>>
vars == <<scriptVars, serverVars, clientVars, signals>>

Setups == [mode : Modes, portTaken : BOOLEAN]

Init ==
  /\ setup \in Setups
  /\ pc = IF setup.mode = "client" THEN "client" ELSE "start"
  /\ serverPid = FALSE
  /\ attempts = 0
  /\ trapPending = FALSE
  /\ cleaning = "no"
  /\ server = "off" /\ serverStop = FALSE
  /\ client = "off" /\ clientStop = FALSE /\ status = 2
  /\ signals = <<>>

Alive == server \in {"starting", "binding", "serving"}

\* Something accepts connections on the port.
Listening == server = "serving" \/ setup.portTaken

-----------------------------------------------------------------------------
(* The script.  A command runs when no trap is due or running.             *)

At(label) == pc = label /\ ~trapPending /\ cleaning = "no"

Go(label) == /\ pc' = label
             /\ UNCHANGED <<setup, serverPid, attempts, trapPending, cleaning>>

StartServer ==
  /\ At("start")
  /\ server' = "starting"
  /\ Go("forked")
  /\ UNCHANGED <<serverStop, clientVars, signals>>

\* SERVER_PID=$!
StorePid ==
  /\ At("forked")
  /\ serverPid' = TRUE
  /\ pc' = "check"
  /\ UNCHANGED <<setup, attempts, trapPending, cleaning, serverVars, clientVars, signals>>

CheckStarted ==
  /\ At("check")
  /\ Go(IF ~Alive THEN "exit" ELSE IF setup.mode = "all" THEN "probe" ELSE "wait")
  /\ UNCHANGED <<serverVars, clientVars, signals>>

\* Mutant: -le max_attempts.
ProbesLeftOneMore == attempts <= MaxAttempts

ProbesLeft == attempts < MaxAttempts

\* wait_for_server: nc -z ...
Probe ==
  /\ At("probe")
  /\ Go(IF ~ProbesLeft THEN "exit" ELSE IF Listening THEN "client" ELSE "alive")
  /\ UNCHANGED <<serverVars, clientVars, signals>>

\* ... then kill -0 ...
CheckAlive ==
  /\ At("alive")
  /\ Go(IF Alive THEN "sleep" ELSE "exit")
  /\ UNCHANGED <<serverVars, clientVars, signals>>

\* ... then sleep.
Sleep ==
  /\ At("sleep")
  /\ attempts' = attempts + 1
  /\ pc' = "probe"
  /\ UNCHANGED <<setup, serverPid, trapPending, cleaning, serverVars, clientVars, signals>>

StartClient ==
  /\ At("client")
  /\ client' = "starting"
  /\ Go("waitClient")
  /\ UNCHANGED <<serverVars, clientStop, status, signals>>

\* set -e: a client that fails ends the script here.
ClientEnded ==
  /\ pc = "waitClient"
  /\ client = "dead"
  /\ Go(IF status = 0 THEN "clear" ELSE "exit")
  /\ UNCHANGED <<serverVars, clientVars, signals>>

\* --server-only: wait returns 0 or fails, and then set -e ends the script.
WaitReturns ==
  /\ At("wait")
  /\ server = "dead"
  /\ Go("clear") \/ Go("exit")
  /\ UNCHANGED <<serverVars, clientVars, signals>>

\* SERVER_PID=""
Clear ==
  /\ At("clear")
  /\ serverPid' = FALSE
  /\ pc' = "exit"
  /\ UNCHANGED <<setup, attempts, trapPending, cleaning, serverVars, clientVars, signals>>

\* Mutant: trap cleanup INT TERM.
ExitUntrapped ==
  /\ At("exit")
  /\ Go("exited")
  /\ UNCHANGED <<serverVars, clientVars, signals>>

\* The EXIT trap, and the end of the script after it.
Exit ==
  /\ \/ /\ At("exit")
        /\ pc' = "exitTrap"
        /\ cleaning' = "kill"
     \/ /\ At("exitTrap")
        /\ pc' = "exited"
        /\ UNCHANGED cleaning
  /\ UNCHANGED <<setup, serverPid, attempts, trapPending, serverVars, clientVars, signals>>

\* The trap of INT or TERM.
RunTrap ==
  /\ trapPending
  /\ cleaning = "no"
  /\ pc = "waitClient" => client = "dead"
  /\ trapPending' = FALSE
  /\ cleaning' = "kill"
  /\ UNCHANGED <<setup, pc, serverPid, attempts, serverVars, clientVars, signals>>

\* A SIGTERM to the server: before its handler is installed it just dies.
Terminate ==
  IF server = "starting" THEN server' = "dead" /\ UNCHANGED serverStop
                         ELSE serverStop' = TRUE /\ UNCHANGED server

\* Mutant: cleanup sends SIGINT, which a server that is just starting ignores.
CleanupKillInt ==
  /\ cleaning = "kill"
  /\ IF serverPid /\ Alive
     THEN /\ serverStop' = (serverStop \/ server # "starting")
          /\ UNCHANGED server
          /\ cleaning' = "wait"
     ELSE UNCHANGED serverVars /\ cleaning' = "no"
  /\ UNCHANGED <<setup, pc, serverPid, attempts, trapPending, clientVars, signals>>

CleanupKill ==
  /\ cleaning = "kill"
  /\ IF serverPid /\ Alive
     THEN Terminate /\ cleaning' = "wait"
     ELSE UNCHANGED serverVars /\ cleaning' = "no"
  /\ UNCHANGED <<setup, pc, serverPid, attempts, trapPending, clientVars, signals>>

\* wait returns when the server has exited, or at a signal.
CleanupWait ==
  /\ cleaning = "wait"
  /\ server = "dead" \/ trapPending
  /\ cleaning' = "no"
  /\ UNCHANGED <<setup, pc, serverPid, attempts, trapPending, serverVars, clientVars,
                 signals>>

Script ==
  \/ StartServer \/ StorePid \/ CheckStarted \/ Probe \/ CheckAlive \/ Sleep
  \/ StartClient \/ ClientEnded \/ WaitReturns \/ Clear \/ Exit
  \/ RunTrap \/ CleanupKill \/ CleanupWait

-----------------------------------------------------------------------------
(* The server process (server/main.cpp): it installs its handlers, binds   *)
(* the port, loads and serves, and polls g_running.                        *)

ServerRuns ==
  /\ \/ server = "starting" /\ server' = "binding"
     \/ /\ server = "binding"
        /\ server' = IF setup.portTaken THEN "dead" ELSE "serving"
     \/ server = "serving" /\ serverStop /\ server' = "dead"
  /\ UNCHANGED <<serverStop, scriptVars, clientVars, signals>>

\* No listening socket, or no CSV file.
ServerFails ==
  /\ server \in {"binding", "serving"}
  /\ server' = "dead"
  /\ UNCHANGED <<serverStop, scriptVars, clientVars, signals>>

(* The client process (client/main.cpp): a signal before its handlers are  *)
(* installed kills it, one before socket() is lost (MarketClient).         *)

ClientRuns ==
  /\ \/ client = "starting" /\ client' = "deaf" /\ UNCHANGED status
     \/ client = "deaf" /\ client' = "connecting" /\ UNCHANGED status
     \/ client = "connecting" /\ Listening /\ client' = "running" /\ UNCHANGED status
     \/ client = "connecting" /\ client' = "dead" /\ status' = 1
     \/ /\ client = "running"
        /\ clientStop \/ ~Listening
        /\ client' = "dead"
        /\ status' = 0
  /\ UNCHANGED <<clientStop, scriptVars, serverVars, signals>>

\* A SIGINT or SIGTERM to the client.
SignalClient ==
  /\ client' = IF client = "starting" THEN "dead" ELSE client
  /\ status' = IF client = "starting" THEN 1 ELSE status
  /\ clientStop' = (clientStop \/ client \in {"connecting", "running"})

-----------------------------------------------------------------------------
Sends(signal) ==
  /\ pc # "exited"
  /\ Len(signals) < MaxSignals
  /\ signals' = Append(signals, [signal |-> signal, at |-> pc])

\* It also ends the command the script is in: sleep and wait fail and set -e
\* ends the script, nc -z answers no.
CtrlC ==
  /\ Sends("CtrlC")
  /\ trapPending' = TRUE
  /\ \/ UNCHANGED pc
     \/ pc = "probe" /\ ProbesLeft /\ pc' = "alive"
     \/ pc \in {"sleep", "wait"} /\ pc' = "exit"
  /\ serverStop' = (serverStop \/ server \in {"binding", "serving"})
  /\ SignalClient
  /\ UNCHANGED <<setup, serverPid, attempts, cleaning, server>>

\* kill of the script alone: of its commands only wait is interrupted.
TermScript ==
  /\ Sends("TermScript")
  /\ trapPending' = TRUE
  /\ \/ UNCHANGED pc
     \/ pc = "wait" /\ pc' = "exit"
  /\ UNCHANGED <<setup, serverPid, attempts, cleaning, serverVars, clientVars>>

\* kill of the client alone.
TermClient ==
  /\ client \notin {"off", "dead"}
  /\ Sends("TermClient")
  /\ SignalClient
  /\ UNCHANGED <<scriptVars, serverVars>>

\* All is over, or the client goes on with the server that had the port.
Ended ==
  /\ \/ pc = "exited" /\ ~Alive
     \/ client = "running" /\ setup.portTaken
  /\ UNCHANGED vars

Next == Script \/ ServerRuns \/ ServerFails \/ ClientRuns
        \/ CtrlC \/ TermScript \/ TermClient \/ Ended

Spec == Init /\ [][Next]_vars

\* The three processes are scheduled, and stop() of the server returns
\* (SessionManager).  Nobody has to send a signal.
Fairness == WF_vars(Script) /\ WF_vars(ServerRuns) /\ WF_vars(ClientRuns)

FairSpec == Spec /\ Fairness

-----------------------------------------------------------------------------
\* Every variable has a value of its type; wait_for_server tries at most
\* max_attempts times.
TypeOK ==
  /\ setup \in Setups
  /\ pc \in {"start", "forked", "check", "probe", "alive", "sleep", "client",
             "waitClient", "wait", "clear", "exit", "exitTrap", "exited"}
  /\ {serverPid, trapPending, serverStop, clientStop} \subseteq BOOLEAN
  /\ attempts \in 0 .. MaxAttempts
  /\ cleaning \in {"no", "kill", "wait"}
  /\ server \in {"off", "starting", "binding", "serving", "dead"}
  /\ client \in {"off", "starting", "deaf", "connecting", "running", "dead"}
  /\ status \in 0 .. 2

\* The script leaves no server behind that was not told to stop, whatever
\* fails and whichever signals arrive when, but for a client that succeeded.
NoOrphan == pc = "exited" /\ Alive => serverStop \/ status = 0

\* Ctrl+C, from the moment the script knows the server, ends everything: the
\* script, the client and the server, also when the client or the server is
\* at a point where it does not hear it.  A client that does not hear it and
\* is connected to another server on the port goes on.
CtrlCEndsAll ==
  (/\ ~setup.portTaken
   /\ \E i \in DOMAIN signals : signals[i].signal = "CtrlC"
                                /\ signals[i].at \notin {"start", "forked"})
    ~> (pc = "exited" /\ ~Alive /\ client \in {"off", "dead"})
=============================================================================

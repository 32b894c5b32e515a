------------------------------- MODULE Daemon -------------------------------
(***************************************************************************)
(* The life of swrmd processes that are given the same socket path, and of *)
(* daemon.Run inside each of them: listenUnix, the status/control server,  *)
(* the stop, the shutdown and the removal of the socket file.  The user    *)
(* starts, stops and kills daemons and runs swrm list -clean.              *)
(*                                                                         *)
(* The kernel's part (a socket file names the listener that bound it, dial *)
(* reaches it while it is open, bind fails if the path exists) and that of *)
(* net.UnixListener (Close unlinks the path, whoever bound it) are modelled *)
(* as cmd/swrmd uses them.                                                 *)
(***************************************************************************)
EXTENDS Integers, FiniteSets

CONSTANTS
    Daemon,      \* processes that are started
    NoFile,      \* there is no file at the socket path
    Leftover,    \* the file of a daemon that was killed before
    MaxKills,    \* bound: daemons that are killed
    MaxCleans,   \* bound: times swrm list -clean removes the file
    Waits        \* what the user waits for before the next command: "start", "stop"

ASSUME ConstantsAssumption ==
    /\ NoFile \notin Daemon /\ Leftover \notin Daemon /\ NoFile # Leftover
    /\ MaxKills \in Nat /\ MaxCleans \in Nat
    /\ Waits \subseteq {"start", "stop"}

VARIABLES
    file,       \* who bound the file at the socket path
    pc,         \* where main of each swrmd is
    listening,  \* daemons whose listener is open
    cancelled,  \* daemons whose context is cancelled
    run,        \* where daemon.Run is
    outcome,    \* how Download returned
    status,     \* the status of State
    told,       \* the last event the tracker got from the daemon
    killed,     \* daemons that were killed
    cleaning,   \* swrm list -clean has found the socket unreachable
    cleans      \* files it removed

procVars == <<pc, listening, cancelled>>
runVars  == <<run, outcome, status, told>>
userVars == <<killed, cleaning, cleans>>
vars == <<file, procVars, runVars, userVars>>

Init ==
    /\ file \in {NoFile, Leftover}
    /\ pc = [d \in Daemon |-> "off"]
    /\ listening = {} /\ cancelled = {}
    /\ run = [d \in Daemon |-> "off"]
    /\ outcome = [d \in Daemon |-> "none"]
    /\ status = [d \in Daemon |-> "announcing"]
    /\ told = [d \in Daemon |-> "nothing"]
    /\ killed = {} /\ cleaning = FALSE /\ cleans = 0

Exited(d) == pc[d] \in {"off", "gone"}
Goto(d, where) == pc' = [pc EXCEPT ![d] = where]

\* Serving the API and running, or about to run, its download.
Serving(d) == pc[d] = "serving" /\ d \notin cancelled

Connectable == file \in listening
\* A GET /status on the path is answered.
Answers == \E d \in listening : file = d /\ pc[d] = "serving"

-----------------------------------------------------------------------------
(***************************************************************************)
(* swrm start and the start of main.                                       *)
(***************************************************************************)

Starting(d) ==
    pc[d] \in {"stat", "dial", "removeStale", "bind", "listen", "chmod", "abandon"}

\* swrm start and swrm list return when they are done, so a user of one terminal
\* waits for them; swrm stop returns before the daemon is gone.
Settled(others) ==
    /\ "start" \in Waits => ~cleaning /\ \A d \in others : ~Starting(d)
    /\ "stop" \in Waits => \A d \in others : Exited(d) \/ Starting(d) \/ Serving(d)

\* swrmd is run by hand.
RunByHand(d) ==
    /\ pc[d] = "off" /\ Settled(Daemon)
    /\ Goto(d, "stat")
    /\ UNCHANGED <<file, listening, cancelled, runVars, userVars>>

\* runStartCmd: the status request fails, so a daemon is started.
Start(d) == ~Answers /\ RunByHand(d)

\* A process that exits takes its listener and its goroutines with it.
Exit(d) ==
    /\ Goto(d, "gone")
    /\ listening' = listening \ {d}
    /\ run' = [run EXCEPT ![d] = "off"]

StatPath(d) ==
    /\ pc[d] = "stat"
    /\ Goto(d, IF file = NoFile THEN "bind" ELSE "dial")
    /\ UNCHANGED <<file, listening, cancelled, runVars, userVars>>

DialSucceeds == Connectable

\* "a daemon is already listening"
DialPath(d) ==
    /\ pc[d] = "dial"
    /\ IF DialSucceeds
       THEN Exit(d)
       ELSE Goto(d, "removeStale") /\ UNCHANGED <<listening, run>>
    /\ UNCHANGED <<file, cancelled, outcome, status, told, userVars>>

\* Mutant: the file of a dead daemon is left for the user to remove.
LeaveFile(d) ==
    /\ pc[d] = "removeStale"
    /\ Exit(d)
    /\ UNCHANGED <<file, cancelled, outcome, status, told, userVars>>
\* os.Remove takes whatever is at the path by now.
RemoveStale(d) ==
    /\ pc[d] = "removeStale"
    /\ file' = NoFile
    /\ IF file = NoFile
       THEN Exit(d)
       ELSE Goto(d, "bind") /\ UNCHANGED <<listening, run>>
    /\ UNCHANGED <<cancelled, outcome, status, told, userVars>>

\* net.Listen is two system calls.
Bind(d) ==
    /\ pc[d] = "bind"
    /\ IF file # NoFile
       THEN Exit(d) /\ UNCHANGED file
       ELSE file' = d /\ Goto(d, "listen") /\ UNCHANGED <<listening, run>>
    /\ UNCHANGED <<cancelled, outcome, status, told, userVars>>

Listen(d) ==
    /\ pc[d] = "listen"
    /\ listening' = listening \cup {d}
    /\ Goto(d, "chmod")
    /\ UNCHANGED <<file, cancelled, runVars, userVars>>

\* Mutant: a stop that came during the start returns at once, and leaves the file.
QuitWhenStopped(d) ==
    /\ pc[d] = "chmod"
    /\ IF d \in cancelled
       THEN Exit(d)
       ELSE /\ Goto(d, "serving") /\ run' = [run EXCEPT ![d] = "announce"]
            /\ UNCHANGED listening
    /\ UNCHANGED <<file, cancelled, outcome, status, told, userVars>>
\* The file may be gone again.  Else daemon.Run starts.
Chmod(d) ==
    /\ pc[d] = "chmod"
    /\ IF file = NoFile
       THEN Goto(d, "abandon") /\ UNCHANGED run
       ELSE Goto(d, "serving") /\ run' = [run EXCEPT ![d] = "announce"]
    /\ UNCHANGED <<file, listening, cancelled, outcome, status, told, userVars>>

\* UnixListener.Close and main unlink the path, whoever bound what is there.
Unlink == file' = NoFile

\* ln.Close after a failed chmod.
Abandon(d) ==
    /\ pc[d] = "abandon"
    /\ Unlink
    /\ Exit(d)
    /\ UNCHANGED <<cancelled, outcome, status, told, userVars>>

-----------------------------------------------------------------------------
(***************************************************************************)
(* The stop and the shutdown.                                              *)
(***************************************************************************)

\* swrm stop, or a signal, which needs no socket.
RequestStop(d) ==
    /\ (Starting(d) /\ pc[d] # "abandon") \/ pc[d] = "serving"
    /\ d \notin cancelled
    /\ Settled(Daemon \ {d})
    /\ cancelled' = cancelled \cup {d}
    /\ UNCHANGED <<file, pc, listening, runVars, userVars>>

\* server.Shutdown closes the listener.
CloseServer(d) ==
    /\ pc[d] = "serving" /\ d \in cancelled
    /\ Goto(d, "waiting")
    /\ listening' = listening \ {d}
    /\ Unlink
    /\ UNCHANGED <<cancelled, runVars, userVars>>

\* Mutant: main waits for Run without a timer.
WaitForRun(d) == run[d] = "done"
\* Run has ended, or ten seconds have passed.
StopsWaiting(d) == TRUE

WaitDone(d) ==
    /\ pc[d] = "waiting"
    /\ StopsWaiting(d)
    /\ Goto(d, "removing")
    /\ UNCHANGED <<file, listening, cancelled, runVars, userVars>>

\* main removes the path and returns.
RemoveSocket(d) ==
    /\ pc[d] = "removing"
    /\ Unlink
    /\ Exit(d)
    /\ UNCHANGED <<cancelled, outcome, status, told, userVars>>

Kill(d) ==
    /\ ~Exited(d)
    /\ Cardinality(killed) < MaxKills
    /\ killed' = killed \cup {d}
    /\ Exit(d)
    /\ UNCHANGED <<file, cancelled, outcome, status, told, cleaning, cleans>>

\* Mutant: list -clean removes every socket it lists.
EverySocket == file # NoFile
Unreachable == file # NoFile /\ ~Answers

\* swrm list -clean: the status request fails, then the file is removed.
FindUnreachable ==
    /\ ~cleaning /\ cleans < MaxCleans
    /\ Settled(Daemon)
    /\ Unreachable
    /\ cleaning' = TRUE
    /\ UNCHANGED <<file, procVars, runVars, killed, cleans>>

CleanUnreachable ==
    /\ cleaning
    /\ cleaning' = FALSE
    /\ cleans' = cleans + 1
    /\ file' = NoFile
    /\ UNCHANGED <<procVars, runVars, killed>>

-----------------------------------------------------------------------------
(***************************************************************************)
(* daemon.Run.                                                             *)
(***************************************************************************)

RunGoes(d, where, new) ==
    /\ run' = [run EXCEPT ![d] = where]
    /\ status' = [status EXCEPT ![d] = new]

\* An announce that fails, also because of a stop, is an error.
RunAnnounce(d) ==
    /\ run[d] = "announce"
    /\ \/ RunGoes(d, "download", "downloading")
       \/ RunGoes(d, "done", "error")
    /\ UNCHANGED <<file, procVars, outcome, told, userVars>>

\* OnReconnecting; nothing sets the status back.
Reconnecting(d) ==
    /\ run[d] = "download"
    /\ status' = [status EXCEPT ![d] = "reconnecting"]
    /\ UNCHANGED <<file, procVars, run, outcome, told, userVars>>

\* Download returns: success, the context's error, another error or a panic.
DownloadReturns(d) ==
    /\ run[d] = "download"
    /\ \E how \in {"completed", "stopped", "error"} :
        /\ how = "stopped" => d \in cancelled
        /\ outcome' = [outcome EXCEPT ![d] = how]
    /\ run' = [run EXCEPT ![d] = "notify"]
    /\ UNCHANGED <<file, procVars, status, told, userVars>>

\* Mutant: the tracker gets the status for an event.
OutcomeAsEvent(how) == how
\* Mutant: every end of a download is announced as completed.
EventAlwaysCompleted(how) == "completed"
Event(how) == IF how = "completed" THEN "completed" ELSE "stopped"

\* The tracker is told, within ten seconds or not at all.
RunNotify(d) ==
    /\ run[d] = "notify"
    /\ told' \in {told, [told EXCEPT ![d] = Event(outcome[d])]}
    /\ run' = [run EXCEPT ![d] = "settle"]
    /\ UNCHANGED <<file, procVars, outcome, status, userVars>>

RunSettle(d) ==
    /\ run[d] = "settle"
    /\ RunGoes(d, "done", outcome[d])
    /\ UNCHANGED <<file, procVars, outcome, told, userVars>>

MainStep(d) ==
    \/ StatPath(d) \/ DialPath(d) \/ RemoveStale(d) \/ Bind(d) \/ Listen(d)
    \/ Chmod(d) \/ Abandon(d)
    \/ CloseServer(d) \/ WaitDone(d) \/ RemoveSocket(d)
RunStep(d) == RunAnnounce(d) \/ DownloadReturns(d) \/ RunNotify(d) \/ RunSettle(d)

Next ==
    \/ \E d \in Daemon :
        \/ Start(d) \/ RunByHand(d) \/ MainStep(d) \/ RequestStop(d) \/ Kill(d)
        \/ RunStep(d) \/ Reconnecting(d)
    \/ FindUnreachable \/ CleanUnreachable

Spec == Init /\ [][Next]_vars

\* main is never starved, and every wait of it after the stop has a timer.
FairSpec == Spec /\ \A d \in Daemon : WF_vars(MainStep(d))

-----------------------------------------------------------------------------
(***************************************************************************)
(* Properties.                                                             *)
(***************************************************************************)

\* Every variable keeps its type.
TypeOK ==
    /\ file \in Daemon \cup {NoFile, Leftover}
    /\ pc \in [Daemon -> {"off", "stat", "dial", "removeStale", "bind", "listen",
                          "chmod", "abandon", "serving", "waiting", "removing", "gone"}]
    /\ listening \subseteq Daemon /\ cancelled \subseteq Daemon
    /\ run \in [Daemon -> {"off", "announce", "download", "notify", "settle", "done"}]
    /\ outcome \in [Daemon -> {"none", "completed", "stopped", "error"}]
    /\ status \in [Daemon -> {"announcing", "downloading", "reconnecting", "completed",
                              "error", "stopped"}]
    /\ told \in [Daemon -> {"nothing", "completed", "stopped"}]
    /\ killed \subseteq Daemon /\ cleaning \in BOOLEAN /\ cleans \in 0 .. MaxCleans

\* README: "check on it later", "stop it", "list all running daemons".  A daemon that
\* serves is the one its socket leads to.
ServingIsReachable ==
    \A d \in Daemon : Serving(d) => file = d /\ d \in listening

\* e2e_test.go: "expected a second start on the same socket to fail".  Two daemons
\* never serve, and download to, the same path at once.
OneServes == \A d, e \in Daemon : Serving(d) /\ Serving(e) => d = e

\* Unless a process was killed no socket file outlives the processes, whatever
\* starts, stops and clean-ups crossed.
NoStaleFile ==
    killed = {} /\ file # Leftover /\ (\A d \in Daemon : Exited(d)) => file = NoFile

\* When Run has ended, its client sees an end, and the tracker was not told of a
\* completion that did not happen or of a stop of a download that completed.
EndIsConsistent ==
    \A d \in Daemon : run[d] = "done" =>
        /\ status[d] \in {"completed", "stopped", "error"}
        /\ told[d] = "completed" => status[d] = "completed"
        /\ told[d] = "stopped" => status[d] # "completed"

\* A stop ends the process even if Run is stuck.
StopEnds == \A d \in Daemon : d \in cancelled ~> pc[d] = "gone"

\* A daemon started when no other is left comes to serve, though a dead one left
\* its socket file, unless it is killed itself.
StartServes ==
    \A d \in Daemon :
        pc[d] = "stat" /\ (\A e \in Daemon \ {d} : Exited(e))
            ~> pc[d] = "serving" \/ d \in killed
=============================================================================

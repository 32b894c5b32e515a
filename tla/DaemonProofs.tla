---------------------------- MODULE DaemonProofs ----------------------------
(***************************************************************************)
(* Proofs about Daemon: for any number of processes, kills and clean-ups,  *)
(* a user who lets each start, stop and clean-up end before the next       *)
(* command always has at most one daemon serving, and it is the one behind *)
(* the socket.  Whatever the user does, no socket file is left behind and  *)
(* Run ends with a status and an event that agree.                         *)
(***************************************************************************)
EXTENDS Daemon, TLAPS

Place == {"off", "stat", "dial", "removeStale", "bind", "listen", "chmod", "abandon",
          "serving", "waiting", "removing", "gone"}

\* A process that the user still waits for.
Unsettled(d) == ~Exited(d) /\ ~Serving(d)

PlaceInv == pc \in [Daemon -> Place] /\ listening \subseteq Daemon

\* The user waits for one process at a time, and for none during a clean-up.
TurnInv ==
    /\ \A d, e \in Daemon : Unsettled(d) /\ Unsettled(e) => d = e
    /\ cleaning => \A d \in Daemon : Exited(d)

\* Whose file is at the path.
FileInv ==
    \A d \in Daemon :
        /\ pc[d] \in {"listen", "chmod", "serving"} => file = d
        /\ pc[d] \in {"chmod", "serving"} => d \in listening
        /\ pc[d] = "removeStale" => file \notin listening
        /\ pc[d] # "abandon"
        /\ pc[d] \in {"waiting", "removing"} => \A e \in Daemon : pc[e] # "serving"

IInv == PlaceInv /\ TurnInv /\ FileInv

\* It holds when no process has been started.
LEMMA Initially == Init => IInv
BY DEF Init, IInv, PlaceInv, TurnInv, FileInv, Place, Unsettled, Exited

\* Every step keeps it, if the user waits.
LEMMA Inductive ==
    ASSUME {"start", "stop"} \subseteq Waits, IInv, [Next]_vars
    PROVE  IInv'
<1> USE DEF IInv, PlaceInv, TurnInv, FileInv, Place, Unsettled, Exited, Serving, Goto
<1>1. ASSUME NEW d \in Daemon, RunByHand(d)
      PROVE  IInv'
  BY <1>1 DEF RunByHand, Settled, Starting, userVars
<1>2. ASSUME NEW d \in Daemon, Start(d)
      PROVE  IInv'
  BY <1>1, <1>2 DEF Start
<1>3. ASSUME NEW d \in Daemon, StatPath(d)
      PROVE  IInv'
  BY <1>3 DEF StatPath, userVars
<1>4. ASSUME NEW d \in Daemon, DialPath(d)
      PROVE  IInv'
  BY <1>4 DEF DialPath, DialSucceeds, Connectable, Exit, userVars
<1>5. ASSUME NEW d \in Daemon, RemoveStale(d)
      PROVE  IInv'
  BY <1>5, ConstantsAssumption DEF RemoveStale, Exit, userVars
<1>6. ASSUME NEW d \in Daemon, Bind(d)
      PROVE  IInv'
  BY <1>6, ConstantsAssumption DEF Bind, Exit, userVars
<1>7. ASSUME NEW d \in Daemon, Listen(d)
      PROVE  IInv'
  BY <1>7 DEF Listen, userVars
<1>8. ASSUME NEW d \in Daemon, Chmod(d)
      PROVE  IInv'
  BY <1>8, ConstantsAssumption DEF Chmod, userVars
<1>9. ASSUME NEW d \in Daemon, Abandon(d)
      PROVE  IInv'
  BY <1>9 DEF Abandon
<1>10. ASSUME NEW d \in Daemon, RequestStop(d)
       PROVE  IInv'
  BY <1>10 DEF RequestStop, Settled, Starting, userVars
<1>11. ASSUME NEW d \in Daemon, CloseServer(d)
       PROVE  IInv'
  BY <1>11 DEF CloseServer, Unlink, userVars
<1>12. ASSUME NEW d \in Daemon, WaitDone(d)
       PROVE  IInv'
  BY <1>12 DEF WaitDone, userVars
<1>13. ASSUME NEW d \in Daemon, RemoveSocket(d)
       PROVE  IInv'
  BY <1>13 DEF RemoveSocket, Unlink, Exit, userVars
<1>14. ASSUME NEW d \in Daemon, Kill(d)
       PROVE  IInv'
  BY <1>14 DEF Kill, Exit
<1>15. ASSUME NEW d \in Daemon, RunStep(d) \/ Reconnecting(d)
       PROVE  IInv'
  BY <1>15 DEF RunStep, RunAnnounce, DownloadReturns, RunNotify, RunSettle, Reconnecting,
               procVars, userVars
<1>16. CASE FindUnreachable
  BY <1>16 DEF FindUnreachable, Settled, Starting, Unreachable, Answers, procVars
<1>17. CASE CleanUnreachable
  BY <1>17 DEF CleanUnreachable, procVars
<1>18. CASE UNCHANGED vars
  BY <1>18 DEF vars, procVars, userVars
<1> QED
  BY <1>1, <1>2, <1>3, <1>4, <1>5, <1>6, <1>7, <1>8, <1>9, <1>10, <1>11, <1>12, <1>13,
     <1>14, <1>15, <1>16, <1>17, <1>18 DEF Next, MainStep

\* The invariant of a user who waits.
THEOREM Invariant == ASSUME {"start", "stop"} \subseteq Waits
                     PROVE  Spec => []IInv
BY Initially, Inductive, PTL DEF Spec

\* A daemon that serves is the one its socket leads to (main.go: listenUnix, the
\* unlinking at the end of main; list -clean), whoever was killed or left a file.
THEOREM WaitingKeepsReachable ==
    ASSUME {"start", "stop"} \subseteq Waits
    PROVE  Spec => []ServingIsReachable
<1>1. IInv => ServingIsReachable
  BY DEF IInv, FileInv, ServingIsReachable, Serving
<1> QED
  BY <1>1, Invariant, PTL

\* Two daemons never serve the path at once, though swrmd may be started on a path
\* that is in use.
THEOREM WaitingKeepsOne ==
    ASSUME {"start", "stop"} \subseteq Waits
    PROVE  Spec => []OneServes
<1>1. IInv => OneServes
  BY DEF IInv, FileInv, OneServes, Serving
<1> QED
  BY <1>1, Invariant, PTL

-----------------------------------------------------------------------------
(***************************************************************************)
(* For any user.                                                           *)
(***************************************************************************)
Before == {"off", "stat", "dial", "removeStale", "bind", "listen", "chmod"}

CleanInv == cleaning => cleans < MaxCleans

\* A file at the path is that of a process that will still unlink it.
OwnerInv ==
    \A d \in Daemon : file = d =>
        pc[d] \in {"listen", "chmod", "abandon", "serving", "waiting", "removing"} \/ d \in killed

\* The tracker hears of an end only after Download returned, and of that end.
EventInv ==
    \A d \in Daemon :
        /\ pc[d] \in Before => run[d] = "off"
        /\ pc[d] \in Before \/ run[d] \in {"announce", "download", "notify"} => told[d] = "nothing"
        /\ run[d] \in {"notify", "settle"} => outcome[d] \in {"completed", "stopped", "error"}
        /\ run[d] = "settle" => told[d] \in {"nothing", Event(outcome[d])}

AnyInv == TypeOK /\ CleanInv /\ OwnerInv /\ EventInv /\ EndIsConsistent

\* It holds when no process has been started.
LEMMA AnyInitially == Init => AnyInv
<1> SUFFICES ASSUME Init
             PROVE  AnyInv
  OBVIOUS
<1>1. TypeOK
  <2>1. cleans \in 0 .. MaxCleans
    BY ConstantsAssumption DEF Init
  <2>2. killed \subseteq Daemon /\ cleaning \in BOOLEAN
    BY DEF Init
  <2>3. file \in Daemon \cup {NoFile, Leftover} /\ listening \subseteq Daemon
        /\ cancelled \subseteq Daemon
    BY DEF Init
  <2> QED
    BY <2>1, <2>2, <2>3 DEF Init, TypeOK
<1>2. CleanInv
  BY DEF Init, CleanInv
<1>3. OwnerInv
  BY ConstantsAssumption DEF Init, OwnerInv
<1>4. EventInv /\ EndIsConsistent
  BY DEF Init, EventInv, EndIsConsistent, Before
<1> QED
  BY <1>1, <1>2, <1>3, <1>4 DEF AnyInv

\* Every step keeps the types.
LEMMA TypeStep ==
    ASSUME AnyInv, [Next]_vars
    PROVE  TypeOK' /\ CleanInv'
<1> USE DEF AnyInv, TypeOK, CleanInv, Goto
<1> USE ConstantsAssumption
<1>1. ASSUME NEW d \in Daemon, RunByHand(d)
      PROVE  TypeOK' /\ CleanInv'
  BY <1>1 DEF RunByHand, runVars, userVars
<1>2. ASSUME NEW d \in Daemon, MainStep(d)
      PROVE  TypeOK' /\ CleanInv'
  BY <1>2 DEF MainStep, StatPath, DialPath, RemoveStale, Bind, Listen, Chmod, Abandon,
              CloseServer, WaitDone, RemoveSocket, Unlink, Exit, runVars, userVars
<1>3. ASSUME NEW d \in Daemon, RequestStop(d) \/ Kill(d)
      PROVE  TypeOK' /\ CleanInv'
  BY <1>3 DEF RequestStop, Kill, Exit, runVars, userVars
<1>4. ASSUME NEW d \in Daemon, RunStep(d) \/ Reconnecting(d)
      PROVE  TypeOK' /\ CleanInv'
  <2> USE DEF procVars, userVars
  <2>1. CASE RunAnnounce(d) \/ Reconnecting(d)
    BY <2>1 DEF RunAnnounce, Reconnecting, RunGoes
  <2>2. CASE DownloadReturns(d)
    BY <2>2 DEF DownloadReturns
  <2>3. CASE RunNotify(d)
    BY <2>3 DEF RunNotify, Event
  <2>4. CASE RunSettle(d)
    <3>1. outcome[d] \in {"completed", "stopped", "error"}
      BY <2>4 DEF RunSettle, EventInv
    <3> QED
      BY <2>4, <3>1 DEF RunSettle, RunGoes
  <2> QED
    BY <1>4, <2>1, <2>2, <2>3, <2>4 DEF RunStep
<1>5. CASE FindUnreachable \/ CleanUnreachable
  <2>1. CASE FindUnreachable
    BY <2>1 DEF FindUnreachable, procVars, runVars
  <2>2. CASE CleanUnreachable
    <3>1. cleans' \in 0 .. MaxCleans /\ cleaning' = FALSE
      BY <2>2 DEF CleanUnreachable
    <3> QED
      BY <2>2, <3>1 DEF CleanUnreachable, procVars, runVars
  <2> QED
    BY <1>5, <2>1, <2>2
<1>6. CASE UNCHANGED vars
  BY <1>6 DEF vars, procVars, runVars, userVars
<1> QED
  BY <1>1, <1>2, <1>3, <1>4, <1>5, <1>6 DEF Next, Start

\* Every step keeps what is said of files and events.
LEMMA EndStep ==
    ASSUME AnyInv, [Next]_vars
    PROVE  OwnerInv' /\ EventInv' /\ EndIsConsistent'
<1> USE DEF AnyInv, TypeOK, OwnerInv, EventInv, EndIsConsistent, Before, Goto
<1> USE ConstantsAssumption
<1>1. ASSUME NEW d \in Daemon, RunByHand(d)
      PROVE  OwnerInv' /\ EventInv' /\ EndIsConsistent'
  BY <1>1 DEF RunByHand, runVars, userVars
<1>2. ASSUME NEW d \in Daemon, MainStep(d)
      PROVE  OwnerInv' /\ EventInv' /\ EndIsConsistent'
  <2>1. CASE StatPath(d) \/ DialPath(d) \/ RemoveStale(d)
    BY <2>1 DEF StatPath, DialPath, RemoveStale, Exit, runVars, userVars
  <2>2. CASE Bind(d) \/ Listen(d) \/ Chmod(d)
    BY <2>2 DEF Bind, Listen, Chmod, Exit, runVars, userVars
  <2>3. CASE Abandon(d) \/ CloseServer(d) \/ WaitDone(d) \/ RemoveSocket(d)
    BY <2>3 DEF Abandon, CloseServer, WaitDone, RemoveSocket, Unlink, Exit, runVars,
                userVars
  <2> QED
    BY <1>2, <2>1, <2>2, <2>3 DEF MainStep
<1>3. ASSUME NEW d \in Daemon, RequestStop(d) \/ Kill(d)
      PROVE  OwnerInv' /\ EventInv' /\ EndIsConsistent'
  BY <1>3 DEF RequestStop, Kill, Exit, Exited, runVars, userVars
<1>4. ASSUME NEW d \in Daemon, RunStep(d) \/ Reconnecting(d)
      PROVE  OwnerInv' /\ EventInv' /\ EndIsConsistent'
  <2>1. CASE RunAnnounce(d) \/ DownloadReturns(d) \/ Reconnecting(d)
    BY <2>1 DEF RunAnnounce, DownloadReturns, Reconnecting, RunGoes, procVars, userVars
  <2>2. CASE RunNotify(d)
    BY <2>2 DEF RunNotify, Event, procVars, userVars
  <2>3. CASE RunSettle(d)
    BY <2>3 DEF RunSettle, RunGoes, Event, procVars, userVars
  <2> QED
    BY <1>4, <2>1, <2>2, <2>3 DEF RunStep
<1>5. CASE FindUnreachable \/ CleanUnreachable
  BY <1>5 DEF FindUnreachable, CleanUnreachable, procVars, runVars
<1>6. CASE UNCHANGED vars
  BY <1>6 DEF vars, procVars, runVars, userVars
<1> QED
  BY <1>1, <1>2, <1>3, <1>4, <1>5, <1>6 DEF Next, Start

\* The invariant of any user.
THEOREM AnyUser == Spec => []AnyInv
<1>1. AnyInv /\ [Next]_vars => AnyInv'
  BY TypeStep, EndStep DEF AnyInv
<1> QED
  BY AnyInitially, <1>1, PTL DEF Spec

\* Every variable keeps its type.
THEOREM TypeCorrect == Spec => []TypeOK
<1>1. AnyInv => TypeOK
  BY DEF AnyInv
<1> QED
  BY <1>1, AnyUser, PTL

\* Unless a process was killed or left its file before, no socket file outlives the
\* processes (listenUnix, the unlinking at the end of main), in whatever order they
\* start and stop.
THEOREM NothingStaleIsLeft == Spec => []NoStaleFile
<1>1. AnyInv => NoStaleFile
  BY DEF AnyInv, TypeOK, OwnerInv, NoStaleFile, Exited
<1> QED
  BY <1>1, AnyUser, PTL

\* When Run has ended, its status is an end, and the tracker was told of no other
\* end than this one (run.go: the outcome, the event and the status).
THEOREM EndsAgree == Spec => []EndIsConsistent
<1>1. AnyInv => EndIsConsistent
  BY DEF AnyInv
<1> QED
  BY <1>1, AnyUser, PTL
=============================================================================

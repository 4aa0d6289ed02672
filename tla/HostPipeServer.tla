--------------------------- MODULE HostPipeServer ---------------------------
(***************************************************************************)
(* HostPipeServer: the accept loop of the host, one worker thread for each *)
(* connected client, and the two ways the loop ends: requestStop() from    *)
(* another thread, and a pipe or a thread that cannot be created.          *)
(*                                                                         *)
(* A worker waits for its client without a time limit, so whoever ends the *)
(* loop must break its pipe; pipes are found through activePipes, where a  *)
(* worker enters its own.                                                  *)
(***************************************************************************)
EXTENDS Naturals

CONSTANTS PipeClient   \* clients that may connect, each once

VARIABLES
  acceptor,          \* the thread in serve()
  accepted,          \* the connection just accepted (a set of at most one)
  worker,            \* the worker of each client
  activePipes,       \* activePipes
  brokenPipes,       \* pipes that were disconnected by the server
  pipeClient,        \* "away" before it connects, "here", "gone"
  stopRequested,
  stopper            \* the thread in requestStop()

acceptorVars == <<acceptor, accepted>>
pipesVars == <<activePipes, brokenPipes, pipeClient>>
stopVars == <<stopRequested, stopper>>
pipeVars == <<acceptorVars, worker, pipesVars, stopVars>>

AcceptorStep == {"loop", "create", "dispatch", "cancel", "join", "returned"}

WorkerStep == {"none", "spawned", "register", "check", "read", "handle", "end",
               "done", "joined"}

PipeInit ==
  /\ acceptor = "loop" /\ accepted = {}
  /\ worker = [c \in PipeClient |-> "none"]
  /\ activePipes = {} /\ brokenPipes = {}
  /\ pipeClient = [c \in PipeClient |-> "away"]
  /\ stopRequested = FALSE /\ stopper = "idle"

JoinedIfDone ==
  [c \in PipeClient |-> IF worker[c] = "done" THEN "joined" ELSE worker[c]]

-----------------------------------------------------------------------------
(* serve(): finished workers are reaped, unless a stop was requested.      *)
LoopStarts ==
  /\ acceptor = "loop"
  /\ IF stopRequested
       THEN acceptor' = "cancel" /\ UNCHANGED worker
       ELSE acceptor' = "create" /\ worker' = JoinedIfDone
  /\ UNCHANGED <<accepted, pipesVars, stopVars>>

(* A pipe is created and a client connects, none does for 250 ms, or the   *)
(* pipe cannot be created or connected.                                    *)
WaitForClient ==
  /\ acceptor = "create"
  /\ \/ \E c \in PipeClient :
          /\ pipeClient[c] = "away"
          /\ pipeClient' = [pipeClient EXCEPT ![c] = "here"]
          /\ accepted' = {c} /\ acceptor' = "dispatch"
     \/ /\ acceptor' = IF stopRequested THEN "cancel" ELSE "loop"
        /\ UNCHANGED <<pipeClient, accepted>>
     \/ acceptor' = "cancel" /\ UNCHANGED <<pipeClient, accepted>>
  /\ UNCHANGED <<worker, activePipes, brokenPipes, stopVars>>

(* The pipe goes to a new thread; without a thread it is closed.           *)
DispatchClient ==
  /\ acceptor = "dispatch"
  /\ \/ /\ worker' = [c \in PipeClient |->
                       IF c \in accepted THEN "spawned" ELSE worker[c]]
        /\ acceptor' = "loop"
        /\ UNCHANGED brokenPipes
     \/ /\ brokenPipes' = brokenPipes \cup accepted
        /\ acceptor' = "cancel"
        /\ UNCHANGED worker
  /\ accepted' = {}
  /\ UNCHANGED <<activePipes, pipeClient, stopVars>>

(* cancelActiveConnections(), then joinConnectionWorkers().                *)
CancelActive ==
  /\ acceptor = "cancel"
  /\ brokenPipes' = brokenPipes \cup activePipes
  /\ acceptor' = "join"
  /\ UNCHANGED <<accepted, worker, activePipes, pipeClient, stopVars>>

(* Mutant of JoinWorkers: finished threads only, as in the loop.           *)
JoinFinished ==
  /\ acceptor = "join"
  /\ acceptor' = "returned" /\ worker' = JoinedIfDone
  /\ UNCHANGED <<accepted, pipesVars, stopVars>>

JoinWorkers ==
  /\ acceptor = "join"
  /\ \A c \in PipeClient : worker[c] \in {"none", "done", "joined"}
  /\ acceptor' = "returned" /\ worker' = JoinedIfDone
  /\ UNCHANGED <<accepted, pipesVars, stopVars>>

AcceptorNext ==
  LoopStarts \/ WaitForClient \/ DispatchClient \/ CancelActive \/ JoinWorkers

-----------------------------------------------------------------------------
WorkerBecomes(c, step) == worker' = [worker EXCEPT ![c] = step]

(* The stop token is set by joinConnectionWorkers.                         *)
WorkerStarts(c) ==
  /\ worker[c] = "spawned"
  /\ WorkerBecomes(c, IF stopRequested \/ acceptor = "join" THEN "done" ELSE "register")
  /\ UNCHANGED <<acceptorVars, pipesVars, stopVars>>

(* Mutant of RegisterPipe: stopRequested is read before the registration.  *)
RegisterPipeLate(c) ==
  /\ worker[c] \in {"register", "check"}
  /\ IF worker[c] = "register"
       THEN WorkerBecomes(c, IF stopRequested THEN "end" ELSE "check")
            /\ UNCHANGED activePipes
       ELSE WorkerBecomes(c, "read") /\ activePipes' = activePipes \cup {c}
  /\ UNCHANGED <<acceptorVars, brokenPipes, pipeClient, stopVars>>

(* serveConnected(): first the pipe can be found, then the flag is read.   *)
RegisterPipe(c) ==
  /\ worker[c] \in {"register", "check"}
  /\ IF worker[c] = "register"
       THEN WorkerBecomes(c, "check") /\ activePipes' = activePipes \cup {c}
       ELSE WorkerBecomes(c, IF stopRequested THEN "end" ELSE "read")
            /\ UNCHANGED activePipes
  /\ UNCHANGED <<acceptorVars, brokenPipes, pipeClient, stopVars>>

(* Mutant of PipeUnusable: the end of the client is not noticed.           *)
PipeBroken(c) == c \in brokenPipes

PipeUnusable(c) == c \in brokenPipes \/ pipeClient[c] = "gone"

(* A frame arrives, or the wait for one fails.                             *)
ReadFrame(c) ==
  /\ worker[c] = "read"
  /\ IF PipeUnusable(c) THEN WorkerBecomes(c, "end")
                        ELSE pipeClient[c] = "here" /\ WorkerBecomes(c, "handle")
  /\ UNCHANGED <<acceptorVars, pipesVars, stopVars>>

(* The session handles the frame and its response is written.              *)
HandleFrame(c) ==
  /\ worker[c] = "handle"
  /\ WorkerBecomes(c, IF PipeUnusable(c) THEN "end" ELSE "read")
  /\ UNCHANGED <<acceptorVars, pipesVars, stopVars>>

(* The session gives its leases back; then the pipe is disconnected, left  *)
(* by activePipes and closed.                                              *)
EndWorker(c) ==
  /\ worker[c] = "end"
  /\ WorkerBecomes(c, "done")
  /\ brokenPipes' = brokenPipes \cup {c}
  /\ activePipes' = activePipes \ {c}
  /\ UNCHANGED <<acceptorVars, pipeClient, stopVars>>

(* What a worker does by itself: all but the arrival of a frame.           *)
WorkerRuns(c) ==
  \/ WorkerStarts(c) \/ RegisterPipe(c) \/ HandleFrame(c) \/ EndWorker(c)
  \/ PipeUnusable(c) /\ ReadFrame(c)

-----------------------------------------------------------------------------
ClientLeaves(c) ==
  /\ pipeClient[c] = "here"
  /\ pipeClient' = [pipeClient EXCEPT ![c] = "gone"]
  /\ UNCHANGED <<acceptorVars, worker, activePipes, brokenPipes, stopVars>>

(* requestStop(): the flag first, then every pipe that is registered.      *)
RequestServerStop ==
  /\ \/ stopper = "idle" /\ stopper' = "cancel" /\ stopRequested' = TRUE
        /\ UNCHANGED brokenPipes
     \/ stopper = "cancel" /\ stopper' = "done" /\ UNCHANGED stopRequested
        /\ brokenPipes' = brokenPipes \cup activePipes
  /\ UNCHANGED <<acceptorVars, worker, activePipes, pipeClient>>

PipeNext ==
  \/ AcceptorNext \/ RequestServerStop
  \/ \E c \in PipeClient : WorkerRuns(c) \/ ReadFrame(c) \/ ClientLeaves(c)

PipeSpec == PipeInit /\ [][PipeNext]_pipeVars

-----------------------------------------------------------------------------
(* Type invariant of the server.                                           *)
PipeTypeOK ==
  /\ acceptor \in AcceptorStep /\ accepted \subseteq PipeClient
  /\ worker \in [PipeClient -> WorkerStep]
  /\ activePipes \subseteq PipeClient /\ brokenPipes \subseteq PipeClient
  /\ pipeClient \in [PipeClient -> {"away", "here", "gone"}]
  /\ stopRequested \in BOOLEAN /\ stopper \in {"idle", "cancel", "done"}

(* When serve() has returned no worker is left, whose session could still  *)
(* hold leases of a host about to be destroyed.                            *)
NoWorkerOutlivesServe ==
  acceptor = "returned" => \A c \in PipeClient : worker[c] \in {"none", "joined"}

(* A worker that waits on an unbroken pipe once a stop has run to its end  *)
(* would wait for ever: whoever registered late must have seen the flag.   *)
StopReachesEveryWorker ==
  stopper = "done" =>
    \A c \in PipeClient : worker[c] \in {"read", "handle"} => c \in brokenPipes

(* After requestStop() serve() returns, although no client leaves.         *)
ServeReturnsAfterStop == stopRequested ~> (acceptor = "returned")

(* After a failure serve() returns too, or it is held up by a client that  *)
(* stays: one whose worker had not registered when the pipes were broken.  *)
ServeReturnsOrWaitsForClient ==
  (acceptor = "cancel") ~>
    \/ acceptor = "returned"
    \/ \E c \in PipeClient : worker[c] \in {"read", "handle"} /\ c \notin brokenPipes
                             /\ pipeClient[c] = "here"

(* The safety of the server: no thread works on after serve() returned,    *)
(* and a stop reaches the pipe of every worker that waits for its client.  *)
WorkersEndWithServer == NoWorkerOutlivesServe /\ StopReachesEveryWorker

(* The progress of the server: both ways its loop ends lead to its return. *)
ServeReturns == ServeReturnsAfterStop /\ ServeReturnsOrWaitsForClient
=============================================================================

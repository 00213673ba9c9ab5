--------------------------- MODULE GatewayShutdown ---------------------------
(***************************************************************************)
(* The end of a gateway process: run and shutdown_signal of                 *)
(* gateway/src/server.rs around the handlers, batchers and invocations of   *)
(* Gateway.  When shutdown_signal is over, axum accepts no more connections *)
(* and waits, without a limit, for those it has.  When run returns, the     *)
(* runtime and every task on it end with main.                              *)
(***************************************************************************)
EXTENDS Gateway

VARIABLE stage   \* of the process

sdvars == <<gvars, stage>>

Stages == {"up", "closing", "exited"}

SDTypeOK == GTypeOK /\ stage \in Stages

SDInit == GInit /\ stage = "up"

-----------------------------------------------------------------------------
(* shutdown_signal, and with_graceful_shutdown of axum.                     *)

\* shutdown_signal returns: the drain delay after SIGTERM or SIGINT, in which the
\* gateway serves as before and only /readyz tells of it, or at once because a
\* handler for a signal could not be registered.
ShutdownSignal ==
    /\ stage = "up"
    /\ stage' = "closing"
    /\ UNCHANGED gvars

\* The requests that hold a connection open.
Connected == {r \in Requests : client[r] \notin {"new", "done"}}

\* Mutant of ServerReturns: the process ends when the delay is over.
ReturnAtOnce ==
    /\ stage = "closing"
    /\ stage' = "exited"
    /\ UNCHANGED gvars

ServerReturns ==
    /\ stage = "closing"
    /\ Connected = {}
    /\ stage' = "exited"
    /\ UNCHANGED gvars

\* The tasks go on as long as the process lives.
Alive(A) == A /\ stage # "exited" /\ UNCHANGED stage

\* A listener that is closed lets nobody in.
Serve ==
    /\ Alive(GNext)
    /\ stage = "closing" => \A r \in Requests : client[r] = "new" => client'[r] = "new"

Exited == stage = "exited" /\ UNCHANGED sdvars

SDNext == Serve \/ ShutdownSignal \/ ServerReturns \/ Exited

SDSpec == SDInit /\ [][SDNext]_sdvars

(***************************************************************************)
(* Tokio polls the runnable tasks, timers of batchers fire, every Lambda    *)
(* invocation and response stream comes to its end, and the clients read    *)
(* their bodies, as long as the process lives; axum notices that the last   *)
(* connection is gone.  Nothing is assumed of signals, of the request       *)
(* timeout, of clients that send a request or a body, nor that they         *)
(* disconnect.                                                              *)
(***************************************************************************)
SDFairness ==
    /\ \A r \in Requests : WF_sdvars(Alive(Handle(r)))
    /\ \A c \in Chans : WF_sdvars(Alive(BatcherStep(c)))
    /\ WF_sdvars(Alive(DispatcherStep))
    /\ \A J \in Parts :
          WF_sdvars(Alive(BufferedResult(J) \/ StreamFinished(J) \/ StreamProgress(J)))
    /\ WF_sdvars(ServerReturns)

SDFairSpec == SDSpec /\ SDFairness

-----------------------------------------------------------------------------
(* Properties.                                                              *)

\* to_bytes has no timeout: an upload may go on for ever.
OnlyUploads == Connected # {} /\ \A r \in Connected : client[r] = "reading_body"

(***************************************************************************)
(* A process that was told to stop does stop unless an upload never ends,   *)
(* and answers every request that was read, by the pipeline alone and       *)
(* without the timeout of any request: batchers that hold requests get no   *)
(* new ones to fill their batch, idle batchers are evicted and drop what    *)
(* was sent too late, and jobs whose clients left are in the way of others. *)
(* It is said of each moment of the drain, and the signal may come as late  *)
(* as it likes: no request that was read waits for ever.                    *)
(***************************************************************************)
DrainEnds == stage = "closing" ~> (stage = "exited" \/ OnlyUploads)

(***************************************************************************)
(* What dies with the process is nobody's any more: a request that was      *)
(* accepted and has no answer yet, or an open body, when run returns is one *)
(* whose client got 504 or left, wherever in the pipeline it is.            *)
(***************************************************************************)
OnlyUnwantedAreKilled ==
    stage = "exited" =>
        \A r \in Requests :
            handler[r] = "accepted" /\ sink[r] \in {"held", "head"} => reply[r] \in {"504", "gone"}
=============================================================================

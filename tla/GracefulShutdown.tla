--------------------------- MODULE GracefulShutdown ---------------------------
(***************************************************************************)
(* The graceful exit of cache/homework_graceful_shutdown: the App of       *)
(* service/shutdown.go with its servers, requests in flight, exit          *)
(* callbacks and the goroutine that forces the exit, and the callback of   *)
(* main.go.  Time runs from the first signal; a goroutine that can go on   *)
(* does so before the next tick, except inside a request handler or a      *)
(* callback that ignores its context.                                      *)
(***************************************************************************)
EXTENDS Integers, FiniteSets

CONSTANTS
  N,               \* servers, 1..N
  Req,             \* requests clients may send
  Callback,
  Stubborn,        \* callbacks that do not look at their context
  WaitTime, CbTimeout, CloseTime, ShutdownTimeout,  \* in ticks
  MaxSignals       \* bound: signals sent to the process

Server == 1..N

ASSUME ConstAssumption ==
  /\ N \in Nat /\ IsFiniteSet(Req) /\ IsFiniteSet(Callback)
  /\ Stubborn \subseteq Callback /\ MaxSignals \in Nat
  /\ WaitTime \in Nat /\ CbTimeout \in Nat /\ CloseTime \in Nat
  /\ ShutdownTimeout \in Nat

VARIABLES
  phase,      \* where StartAndServe is
  signals,    \* signals sent so far
  sig,        \* the channel sig, of capacity 1
  t,          \* ticks since the first signal
  due,        \* when the context or sleep of the current phase ends
  rejected,   \* servers whose reject flag is set: 1..rejected
  stop,       \* the goroutine that stops each server
  req, at,    \* each request: how far it is, and at which server
  cb,         \* the goroutine of each callback
  flushed     \* callbacks that have written the cache to the database

vars == <<phase, signals, sig, t, due, rejected, stop, req, at, cb, flushed>>

Ended == {"exited", "forced"}

Init ==
  /\ phase = "serving" /\ signals = 0 /\ sig = 0 /\ t = 0 /\ due = 0
  /\ rejected = 0
  /\ stop = [s \in Server |-> "none"]
  /\ req = [r \in Req |-> "new"] /\ at \in [Req -> Server]
  /\ cb = [c \in Callback |-> "none"] /\ flushed = {}

(***************************************************************************)
(* The servers and their clients.                                          *)
(***************************************************************************)
\* A listener is closed when http.Server.Shutdown begins.
Listening(s) == stop[s] \in {"none", "begin"}

\* Requests that keep a server's connections from being idle.
Active(s) == {r \in Req : at[r] = s /\ req[r] \in {"accepted", "running"}}

Accept(r) ==
  /\ phase \notin Ended /\ req[r] = "new" /\ Listening(at[r])
  /\ req' = [req EXCEPT ![r] = "accepted"]
  /\ UNCHANGED <<phase, signals, sig, t, due, rejected, stop, at, cb, flushed>>

\* serverMux.ServeHTTP reads the flag without synchronisation: once it is set
\* the handler may still see the old value.
ServeHTTP(r) ==
  /\ phase \notin Ended /\ req[r] = "accepted"
  /\ \/ req' = [req EXCEPT ![r] = "running"]
     \/ at[r] <= rejected /\ req' = [req EXCEPT ![r] = "refused"]
  /\ UNCHANGED <<phase, signals, sig, t, due, rejected, stop, at, cb, flushed>>

HandlerReturns(r) ==
  /\ phase \notin Ended /\ req[r] = "running"
  /\ req' = [req EXCEPT ![r] = "served"]
  /\ UNCHANGED <<phase, signals, sig, t, due, rejected, stop, at, cb, flushed>>

(***************************************************************************)
(* StartAndServe and shutdown.                                             *)
(***************************************************************************)
\* signal.Notify drops a signal that finds the channel full.
Signal ==
  /\ phase \notin Ended /\ signals < MaxSignals
  /\ signals' = signals + 1 /\ sig' = 1
  /\ UNCHANGED <<phase, t, due, rejected, stop, req, at, cb, flushed>>

ReceiveSignal ==
  /\ phase = "serving" /\ sig = 1
  /\ sig' = 0 /\ phase' = "reject"
  /\ UNCHANGED <<signals, t, due, rejected, stop, req, at, cb, flushed>>

\* The forcing goroutine, started before shutdown: a second signal ...
ForceSignal ==
  /\ phase \notin {"serving"} \cup Ended /\ sig = 1
  /\ sig' = 0 /\ phase' = "forced"
  /\ UNCHANGED <<signals, t, due, rejected, stop, req, at, cb, flushed>>

\* Mutant: nothing ends an exit that takes too long.
ForceTimeout_Missing == FALSE /\ UNCHANGED vars

\* ... or shutdownTimeout.
ForceTimeout ==
  /\ phase \notin {"serving"} \cup Ended /\ t >= ShutdownTimeout
  /\ phase' = "forced"
  /\ UNCHANGED <<signals, sig, t, due, rejected, stop, req, at, cb, flushed>>

RejectReq ==
  /\ phase = "reject" /\ rejected < N
  /\ rejected' = rejected + 1
  /\ UNCHANGED <<phase, signals, sig, t, due, stop, req, at, cb, flushed>>

\* Mutant: the servers are stopped without a deadline.
StopServers_NoTimeout ==
  /\ phase = "reject" /\ rejected = N
  /\ phase' = "wait" /\ due' = ShutdownTimeout + 1
  /\ stop' = [s \in Server |-> "begin"]
  /\ UNCHANGED <<signals, sig, t, rejected, req, at, cb, flushed>>

\* serverCtx begins, and one goroutine for each server.
StopServers ==
  /\ phase = "reject" /\ rejected = N
  /\ phase' = "wait" /\ due' = t + WaitTime
  /\ stop' = [s \in Server |-> "begin"]
  /\ UNCHANGED <<signals, sig, t, rejected, req, at, cb, flushed>>

StopBegin(s) ==
  /\ phase = "wait" /\ stop[s] = "begin"
  /\ stop' = [stop EXCEPT ![s] = "stopping"]
  /\ UNCHANGED <<phase, signals, sig, t, due, rejected, req, at, cb, flushed>>

\* http.Server.Shutdown returns when the connections are idle, or with an
\* error, which is only logged, when the context is over.
StopReturns(s) ==
  /\ phase = "wait" /\ stop[s] = "stopping"
  /\ Active(s) = {} \/ t >= due
  /\ stop' = [stop EXCEPT ![s] = "done"]
  /\ UNCHANGED <<phase, signals, sig, t, due, rejected, req, at, cb, flushed>>

\* Mutant: the callbacks do not wait for the servers.
StartCallbacks_NoWait ==
  /\ phase = "wait"
  /\ phase' = "callbacks" /\ due' = t + CbTimeout
  /\ cb' = [c \in Callback |-> "begin"]
  /\ UNCHANGED <<signals, sig, t, rejected, stop, req, at, flushed>>

\* wg.Wait returns; cbsCtx begins, and one goroutine for each callback.
StartCallbacks ==
  /\ phase = "wait" /\ \A s \in Server : stop[s] = "done"
  /\ phase' = "callbacks" /\ due' = t + CbTimeout
  /\ cb' = [c \in Callback |-> "begin"]
  /\ UNCHANGED <<signals, sig, t, rejected, stop, req, at, flushed>>

CallbackBegin(c) ==
  /\ phase = "callbacks" /\ cb[c] = "begin"
  /\ cb' = [cb EXCEPT ![c] = IF t >= due THEN "skipped" ELSE "running"]
  /\ UNCHANGED <<phase, signals, sig, t, due, rejected, stop, req, at, flushed>>

\* StoreCacheToDBCallback starts a goroutine that writes the cache back ...
Flush(c) ==
  /\ phase \notin Ended /\ c \notin Stubborn
  /\ cb[c] \in {"running", "timedOut"} /\ c \notin flushed
  /\ flushed' = flushed \cup {c}
  /\ UNCHANGED <<phase, signals, sig, t, due, rejected, stop, req, at, cb>>

\* ... and waits for its context: nothing is ever sent on the channel done.
CallbackTimeout(c) ==
  /\ phase = "callbacks" /\ cb[c] = "running" /\ c \notin Stubborn /\ t >= due
  /\ cb' = [cb EXCEPT ![c] = "timedOut"]
  /\ UNCHANGED <<phase, signals, sig, t, due, rejected, stop, req, at, flushed>>

\* A callback that ignores its context returns whenever it likes.
CallbackReturns(c) ==
  /\ phase = "callbacks" /\ cb[c] = "running" /\ c \in Stubborn
  /\ cb' = [cb EXCEPT ![c] = "returned"]
  /\ UNCHANGED <<phase, signals, sig, t, due, rejected, stop, req, at, flushed>>

Finished == {"skipped", "timedOut", "returned"}

StartClose ==
  /\ phase = "callbacks" /\ \A c \in Callback : cb[c] \in Finished
  /\ phase' = "close" /\ due' = t + CloseTime
  /\ UNCHANGED <<signals, sig, t, rejected, stop, req, at, cb, flushed>>

CloseReturns ==
  /\ phase = "close" /\ t >= due
  /\ phase' = "exited"
  /\ UNCHANGED <<signals, sig, t, due, rejected, stop, req, at, cb, flushed>>

\* Something is ready to run, so that no time passes before it has.
Ready ==
  \/ phase = "reject"
  \/ phase = "wait" /\ \/ \A s \in Server : stop[s] = "done"
                       \/ \E s \in Server : \/ stop[s] = "begin"
                                            \/ stop[s] = "stopping" /\ t >= due
  \/ phase = "callbacks" /\ \/ \A c \in Callback : cb[c] \in Finished
                            \/ \E c \in Callback : \/ cb[c] = "begin"
                                                   \/ c \notin Stubborn /\ t >= due
                                                      /\ cb[c] = "running"
  \/ phase = "close" /\ t >= due
  \/ t >= ShutdownTimeout

Tick ==
  /\ phase \notin {"serving"} \cup Ended /\ ~Ready
  /\ t' = t + 1
  /\ UNCHANGED <<phase, signals, sig, due, rejected, stop, req, at, cb, flushed>>

Main ==
  \/ ReceiveSignal \/ ForceSignal \/ ForceTimeout \/ RejectReq
  \/ StopServers \/ (\E s \in Server : StopBegin(s) \/ StopReturns(s))
  \/ StartCallbacks \/ (\E c \in Callback : CallbackBegin(c) \/ CallbackTimeout(c))
  \/ StartClose \/ CloseReturns

Next ==
  \/ Signal \/ Main \/ Tick
  \/ \E r \in Req : Accept(r) \/ ServeHTTP(r) \/ HandlerReturns(r)
  \/ \E c \in Callback : Flush(c) \/ CallbackReturns(c)

Spec == Init /\ [][Next]_vars

\* The goroutines of the App run and time passes; handlers, clients and
\* stubborn callbacks are under no obligation.
FairSpec == Spec /\ WF_vars(Main) /\ WF_vars(Tick)

(***************************************************************************)
(* Properties.                                                             *)
(***************************************************************************)
\* Every variable keeps its shape.
TypeOK ==
  /\ phase \in {"serving", "reject", "wait", "callbacks", "close"} \cup Ended
  /\ signals \in 0..MaxSignals /\ sig \in 0..1
  /\ t \in 0..ShutdownTimeout /\ due \in Nat /\ rejected \in 0..N
  /\ stop \in [Server -> {"none", "begin", "stopping", "done"}]
  /\ req \in [Req -> {"new", "accepted", "running", "refused", "served"}]
  /\ at \in [Req -> Server]
  /\ cb \in [Callback -> {"none", "begin", "running"} \cup Finished]
  /\ flushed \subseteq Callback

\* "应用需要等待已经接收的请求被正常处理完成": a callback runs while a request that
\* was accepted is still being handled only if waitTime was used up.
CallbacksAfterRequests ==
  phase \in {"callbacks", "close", "exited"} /\ t < WaitTime
    => \A s \in Server : Active(s) = {}

\* "释放应用持有资源之前，执行开发者注册的回调": when resources are released every
\* callback has returned, or its time was up before it began.
CloseAfterCallbacks ==
  phase \in {"close", "exited"} => \A c \in Callback : cb[c] \in Finished

Overrun == \E c \in Stubborn : cb[c] \in {"running", "returned"}

\* If waitTime, cbTimeout and the time to release resources fit into
\* shutdownTimeout, and there is no second signal, then only a callback that
\* ignores its context makes the exit a forced one; requests never do, however
\* long they take.
GracefulInTime ==
  /\ WaitTime + CbTimeout + CloseTime < ShutdownTimeout
  /\ signals <= 1 /\ phase = "forced"
  => Overrun

\* The servers stop in phase "wait" and the callbacks run in "callbacks".
StopPhases ==
  /\ phase \in {"serving", "reject"} => t = 0 /\ \A s \in Server : stop[s] = "none"
  /\ phase = "wait" => \A s \in Server : stop[s] # "none"
  /\ phase \in {"callbacks", "close", "exited"} => \A s \in Server : stop[s] = "done"
  /\ phase = "callbacks" => \A c \in Callback : cb[c] # "none"

StoppedIdle == \A s \in Server : stop[s] = "done" /\ t < WaitTime => Active(s) = {}

InTime ==
  /\ phase = "wait" => due = WaitTime /\ t <= due
  /\ phase = "callbacks" => due <= WaitTime + CbTimeout /\ (t <= due \/ Overrun)
  /\ phase \in {"close", "exited"} => (due <= WaitTime + CbTimeout + CloseTime /\ t <= due) \/ Overrun

SecondSignal ==
  IF phase = "serving" THEN sig <= signals
  ELSE signals >= 1 /\ (phase # "forced" => sig + 1 <= signals)

\* What the three properties rest on.  A server that has stopped before waitTime
\* was over has no request left and takes no new one; each phase of the exit
\* ends at the time its context gives it, a callback that ignores its context
\* apart; and a signal waits for the forcing goroutine only if it is a second one.
IInv ==
  /\ TypeOK /\ StopPhases /\ CloseAfterCallbacks /\ StoppedIdle /\ InTime
  /\ SecondSignal /\ GracefulInTime

\* "超时强制退出": once the first signal was received the process ends, whatever
\* handlers and callbacks do.
SignalEnds == phase # "serving" ~> phase \in Ended
===============================================================================

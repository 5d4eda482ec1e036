------------------------------- MODULE IoLoop -------------------------------
(***************************************************************************)
(* The event loop of the main thread: while (luaIsRun()) IoContext.poll()  *)
(* in src/main.cpp, and the timers of core.timer in src/lua/luaApi.cpp.    *)
(*                                                                         *)
(* asio::io_context is not part of the sources.  What matters of it: poll  *)
(* runs the handlers of the operations that are ready; when no operation   *)
(* is outstanding, before poll or after a handler, it becomes stopped; and *)
(* a stopped io_context runs nothing until restart(), which the sources    *)
(* never call.                                                             *)
(*                                                                         *)
(* An operator whose name extends the name of the one right below it is a  *)
(* mutant: what that operator would be if the code had a plausible slip.   *)
(***************************************************************************)
EXTENDS Naturals, FiniteSets

CONSTANTS
  Timers,     (* the timers the services set, each once (bounds the runs)   *)
  Sockets     (* accepts, connects and reads: operations of the tcp classes *)

VARIABLES
  started,    (* operations ever started: their kind of work is counted     *)
  pending,    (* outstanding: started, handler not run yet                  *)
  ready,      (* outstanding ones whose handler poll may run                *)
  aborted,    (* outstanding ones that end with an error                    *)
  posted,     (* timers whose handler posted the message of the timer       *)
  stopped,    (* io_context::stopped()                                      *)
  inPoll,     (* main is inside IoContext.poll()                            *)
  isRun       (* luaIsRun()                                                 *)

ioVars == <<started, pending, ready, aborted>>
vars   == <<ioVars, posted, stopped, inPoll, isRun>>

Ops == Timers \union Sockets

Init ==
  /\ started \in {S \in SUBSET Sockets : Cardinality(S) <= 1}
  /\ pending = started           (* the start script may listen on a socket *)
  /\ ready = {}
  /\ aborted = {}
  /\ posted = {}
  /\ stopped = FALSE
  /\ inPoll = FALSE
  /\ isRun = TRUE

(* An operation starts on the thread of the service that asks for it, at    *)
(* any time: async_wait, async_accept, async_read_some, async_connect.      *)
Begin(o) ==
  /\ o \notin started
  /\ started' = started \union {o}
  /\ pending' = pending \union {o}
  /\ UNCHANGED <<ready, aborted, posted, stopped, inPoll, isRun>>

(* The time is over, or the socket has something, or fails.                 *)
Complete(o) ==
  /\ o \in pending \ ready
  /\ ready' = ready \union {o}
  /\ \/ UNCHANGED aborted
     \/ o \in Sockets /\ aborted' = aborted \union {o}
  /\ UNCHANGED <<started, pending, posted, stopped, inPoll, isRun>>

OutOfWork(work) == work = {}

(* IoContext.poll() is called.                                              *)
PollBegin ==
  /\ ~inPoll /\ isRun
  /\ stopped' = (stopped \/ OutOfWork(pending))
  /\ inPoll' = ~stopped'
  /\ UNCHANGED <<ioVars, posted, isRun>>

Unqueue(o) == ready \ {o}

(* The captured shared_ptr keeps the timer alive until its handler has run. *)
OutcomeDropped(t) == {}
Outcome(t) == {t}

(* The handler of a timer: post, unless the wait ended in an error.         *)
RunTimer(t) ==
  /\ inPoll /\ t \in ready \intersect Timers /\ ~stopped
  /\ posted' = posted \union Outcome(t)
  /\ pending' = pending \ {t}
  /\ ready' = Unqueue(t)
  /\ stopped' = OutOfWork(pending')
  /\ UNCHANGED <<started, aborted, inPoll, isRun>>

(* The handler of a socket starts the next accept or read, unless its       *)
(* operation failed: then nothing is outstanding for it any more.           *)
RunSocket(o) ==
  /\ inPoll /\ o \in ready \intersect Sockets /\ ~stopped
  /\ ready' = Unqueue(o)
  /\ pending' = IF o \in aborted THEN pending \ {o} ELSE pending
  /\ stopped' = OutOfWork(pending')
  /\ UNCHANGED <<started, aborted, posted, inPoll, isRun>>

(* Nothing ready is left, or the io_context stopped; main sleeps a second.  *)
(* run() in its place would only return when stopped.                       *)
PollReturnsRun == stopped
PollReturns == ready = {} \/ stopped

PollEnd ==
  /\ inPoll /\ PollReturns
  /\ inPoll' = FALSE
  /\ UNCHANGED <<ioVars, posted, stopped, isRun>>

(* core.exit or SIGINT.                                                     *)
LuaExit ==
  /\ isRun
  /\ isRun' = FALSE
  /\ UNCHANGED <<ioVars, posted, stopped, inPoll>>

Handler == \E o \in Ops : RunTimer(o) \/ RunSocket(o)

Next ==
  \/ \E o \in Ops : Begin(o) \/ Complete(o)
  \/ PollBegin \/ Handler \/ PollEnd \/ LuaExit

Spec == Init /\ [][Next]_vars

(* Time passes, main keeps looping, and poll gets to each ready handler: the*)
(* queue of handlers is first in, first out.                                *)
FairSpec ==
  /\ Spec
  /\ WF_vars(PollBegin) /\ WF_vars(PollEnd)
  /\ \A t \in Timers : WF_vars(Complete(t)) /\ SF_vars(RunTimer(t))
  /\ \A o \in Sockets : SF_vars(RunSocket(o))

-----------------------------------------------------------------------------
(* As long as the io_context has never run out of work, each timer that is  *)
(* set posts its message, whatever the sockets do.                          *)
FiresUnlessStopped ==
  [](~stopped) =>
    \A t \in Timers : [](t \in started => <>(t \in posted \/ ~isRun))

(* Main comes back from poll again and again, to delete the services that   *)
(* were destroyed and to notice core.exit, unless a socket is ready again   *)
(* each time its handler has run: poll then never finds nothing ready.      *)
MainComesBack == []<>(~inPoll) \/ \E o \in Sockets : []<>(o \in ready)
=============================================================================

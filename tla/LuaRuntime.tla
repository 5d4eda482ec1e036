----------------------------- MODULE LuaRuntime -----------------------------
(***************************************************************************)
(* The scheduler in the Lua state of each service, lualib/api.lua: onPoll, *)
(* api.async, api.call and api.response, and the Close of a service.       *)
(*                                                                         *)
(* onPoll runs its parts one after the other: the coroutines of api.async, *)
(* the calls that timed out, the messages, the Close.  Between them, and   *)
(* in handlers, the script of the service runs; what it does is the        *)
(* environment of this module.  Scripts call api.call and api.send from    *)
(* coroutines.                                                             *)
(*                                                                         *)
(* Delivery is what Channel promises and ServiceQueue implements: each     *)
(* onPoll is given all that was queued, in order.                          *)
(*                                                                         *)
(* Left out: the branches of onPoll for timers and sockets, which call a   *)
(* handler, and that for HttpClient, which resumes the coroutine httpCoro  *)
(* lists: a coroutine that waits for an http answer is not in the model.   *)
(*                                                                         *)
(* An operator whose name extends the name of the one right below it is a  *)
(* mutant: what that operator would be if the code had a plausible slip.   *)
(***************************************************************************)
EXTENDS Integers, Sequences, SequencesExt

CONSTANTS
  Services,
  MaxCoros,      (* bound: coroutines a service creates, the last for Close *)
  MaxCalls,      (* bound: calls a service makes                            *)
  Senders,       (* bound: the coroutines that call api.send                *)
  callTimeout,   (* api.callTimeout, in seconds                             *)
  Nil

Coros    == 1..MaxCoros
Sessions == 1..MaxCalls

(* Session 0 is that of api.send, and of its answers.                       *)
Posts    == [type : {"Lua", "LuaResponse"}, from : Services,
             session : Sessions \union {0}, isOk : BOOLEAN]
Messages == Posts \union {[type |-> "Close"]}

(* api.callCoro: the coroutine, and how long until now > time, below 0 once *)
(* it is.                                                                   *)
Entries == [co : Coros, left : -1..callTimeout]

(* A service has two coroutines besides the one its Close takes.            *)
ASSUME RuntimeAssumption ==
  /\ MaxCoros \in Nat \ {0, 1, 2} /\ MaxCalls \in Nat /\ callTimeout \in Nat
  /\ Senders \subseteq Coros
  /\ Nil \notin Services /\ Nil \notin Entries

(* What api.call returns: the boolean, and whether anything follows it.     *)
Results == [ok : BOOLEAN, ret : {"values", Nil}]

VARIABLES
  inbox,         (* the queue of the service                                *)
  destroyed,     (* services that called core.destoryService                *)
  phase,         (* the part of onPoll a service is in, or "idle"           *)
  batch,         (* msgs: those onPoll has not come to                      *)
  i,             (* the loop variable of the first loop                     *)
  due,           (* what the second loop has yet to visit                   *)
  grown,         (* has the table been added to while it was traversed      *)
  forget,        (* the key to clear once the resume returns, 0 if none     *)
  isExit,
  nextCoro, callCoro, autoSessionId,
  created,       (* how many coroutines the service created                 *)
  closers,       (* those onPoll created for a Close                        *)
  running,       (* the coroutine that has control, 0 if none               *)
  waits,         (* per coroutine: the call it is suspended in, 0 if none   *)
  owed,          (* requests a handler left for a coroutine to answer       *)
  result,        (* history: what each call returned, Nil before            *)
  closeSent,     (* main sent the service its Close                         *)
  closeLost      (* history: a Close given to onPoll came to nothing        *)

pollVars  == <<phase, batch, i, due, grown, forget, isExit>>
tableVars == <<nextCoro, callCoro, autoSessionId>>
coVars    == <<created, closers, running, waits, owed>>
netVars   == <<inbox, destroyed, closeSent>>
vars      == <<pollVars, tableVars, coVars, netVars, result, closeLost>>

Init ==
  /\ inbox = [s \in Services |-> <<>>]
  /\ destroyed = {}
  /\ phase = [s \in Services |-> "idle"]
  /\ batch = [s \in Services |-> <<>>]
  /\ i = [s \in Services |-> 0]
  /\ due = [s \in Services |-> {}]
  /\ grown = [s \in Services |-> FALSE]
  /\ forget = [s \in Services |-> 0]
  /\ isExit = [s \in Services |-> FALSE]
  /\ nextCoro \in [Services -> {<<>>, <<1>>, <<1, 2>>}]    (* at load time *)
  /\ callCoro = [s \in Services |-> [n \in Sessions |-> Nil]]
  /\ autoSessionId = [s \in Services |-> 1]
  /\ created = [s \in Services |-> Len(nextCoro[s])]
  /\ closers = [s \in Services |-> {}]
  /\ running = [s \in Services |-> 0]
  /\ waits = [s \in Services |-> [c \in Coros |-> 0]]
  /\ owed = [s \in Services |-> {}]
  /\ result = [s \in Services |-> [n \in Sessions |-> Nil]]
  /\ closeSent = {}
  /\ closeLost = [s \in Services |-> FALSE]

(* f with the value v for s.                                                *)
With(f, s, v) == [f EXCEPT ![s] = v]

(* core.send: a service that is gone gets nothing.                          *)
Send(r, m) ==
  inbox' = IF r \in destroyed THEN inbox ELSE [inbox EXCEPT ![r] = Append(@, m)]

(* api.async, in any part of the script; it may also be called by onPoll.   *)
Async(s) ==
  /\ created' = With(created, s, created[s] + 1)
  /\ nextCoro' = With(nextCoro, s, Append(nextCoro[s], created[s] + 1))

MayAsync(s) == created[s] + 1 < MaxCoros

(* The values the yield of api.call returns decide what api.call returns.   *)
CallResult(status, isOk, ret) == [ok |-> status /\ isOk, ret |-> ret]

Resume(s, c, n, res) ==
  /\ running' = With(running, s, c)
  /\ waits' = [waits EXCEPT ![s][c] = 0]
  /\ result' = [result EXCEPT ![s][n] = res]

-----------------------------------------------------------------------------
(* onPoll.                                                                  *)

LoopStartShort(s) == Len(nextCoro[s]) - 1
LoopStart(s) == Len(nextCoro[s])

Poll(s) ==
  /\ phase[s] = "idle" /\ s \notin destroyed
  /\ batch' = With(batch, s, inbox[s])
  /\ inbox' = With(inbox, s, <<>>)
  /\ i' = With(i, s, LoopStart(s))
  /\ isExit' = With(isExit, s, FALSE)
  /\ phase' = With(phase, s, "async")
  /\ UNCHANGED <<due, grown, forget, tableVars, coVars, destroyed, closeSent,
                 result, closeLost>>

TakeOutLast(q, k) == Front(q)
TakeOut(q, k) == RemoveAt(q, k)

(* for i=#api.nextCoro,1,-1: take the coroutine out, then resume it.        *)
RunAsync(s) ==
  /\ phase[s] = "async" /\ running[s] = 0 /\ i[s] > 0
  /\ running' = With(running, s, nextCoro[s][i[s]])
  /\ nextCoro' = With(nextCoro, s, TakeOut(nextCoro[s], i[s]))
  /\ i' = With(i, s, i[s] - 1)
  /\ UNCHANGED <<phase, batch, due, grown, forget, isExit, callCoro,
                 autoSessionId, created, closers, waits, owed, netVars,
                 result, closeLost>>

ExpiredNever(s) == {}
Expired(s) == {n \in Sessions : callCoro[s][n] # Nil /\ callCoro[s][n].left < 0}

EndAsync(s) ==
  /\ phase[s] = "async" /\ running[s] = 0 /\ i[s] <= 0
  /\ due' = With(due, s, Expired(s))
  /\ grown' = With(grown, s, FALSE)
  /\ phase' = With(phase, s, "timeouts")
  /\ UNCHANGED <<batch, i, forget, isExit, tableVars, coVars, netVars, result,
                 closeLost>>

ClearAfterNever(n) == 0
ClearAfter(n) == n

(* coroutine.resume(v.co,false), and only then api.callCoro[k]=nil.         *)
TimeOut(s, n) ==
  /\ phase[s] = "timeouts" /\ running[s] = 0 /\ forget[s] = 0 /\ n \in due[s]
  /\ Resume(s, callCoro[s][n].co, n, CallResult(FALSE, FALSE, Nil))
  /\ due' = With(due, s, due[s] \ {n})
  /\ forget' = With(forget, s, ClearAfter(n))
  /\ UNCHANGED <<phase, batch, i, grown, isExit, tableVars, created, closers,
                 owed, netVars, closeLost>>

Forget(s) ==
  /\ running[s] = 0 /\ forget[s] # 0
  /\ callCoro' = [callCoro EXCEPT ![s][forget[s]] = Nil]
  /\ forget' = With(forget, s, 0)
  /\ UNCHANGED <<phase, batch, i, due, grown, isExit, nextCoro, autoSessionId,
                 coVars, netVars, result, closeLost>>

(* A call made by a resumed coroutine adds a key to the table pairs is      *)
(* traversing: Lua leaves it open which of the rest it still visits.        *)
EndTimeouts(s) ==
  /\ phase[s] = "timeouts" /\ running[s] = 0 /\ forget[s] = 0
  /\ due[s] = {} \/ grown[s]
  /\ due' = With(due, s, {})
  /\ phase' = With(phase, s, "messages")
  /\ UNCHANGED <<batch, i, grown, forget, isExit, tableVars, coVars, netVars,
                 result, closeLost>>

(* The next message, of the given type.                                     *)
At(s, type) ==
  /\ phase[s] = "messages" /\ running[s] = 0
  /\ batch[s] # <<>> /\ Head(batch[s]).type = type

TakeMessage(s) == batch' = With(batch, s, Tail(batch[s]))

OnClose(s) ==
  /\ At(s, "Close")
  /\ TakeMessage(s)
  /\ isExit' = With(isExit, s, TRUE)
  /\ UNCHANGED <<phase, i, due, grown, forget, tableVars, coVars, netVars,
                 result, closeLost>>

(* onPoll ends here and now: the rest of msgs is never looked at again, and *)
(* with it goes a Close, seen already or still to come.                     *)
Abandon(s) ==
  /\ phase' = With(phase, s, "idle")
  /\ batch' = With(batch, s, <<>>)
  /\ closeLost' = With(closeLost, s,
       \/ closeLost[s] \/ isExit[s]
       \/ \E k \in DOMAIN batch[s] : batch[s][k].type = "Close")

Waited(s) == {n \in Sessions : callCoro[s][n] # Nil}

(* A LuaResponse nobody waits for, or the answer to an api.send: return.    *)
OnLateResponse(s) ==
  /\ At(s, "LuaResponse") /\ Head(batch[s]).session \notin Waited(s)
  /\ Abandon(s)
  /\ UNCHANGED <<i, due, grown, forget, isExit, tableVars, coVars, netVars,
                 result>>

(* Clear the entry, then resume with true, isOk and the decoded values.     *)
OnResponse(s) ==
  /\ At(s, "LuaResponse")
  /\ LET m == Head(batch[s])
         e == callCoro[s][m.session]
     IN  /\ m.session \in Waited(s)
         /\ callCoro' = [callCoro EXCEPT ![s][m.session] = Nil]
         /\ Resume(s, e.co, m.session, CallResult(TRUE, m.isOk, "values"))
  /\ TakeMessage(s)
  /\ UNCHANGED <<phase, i, due, grown, forget, isExit, nextCoro,
                 autoSessionId, created, closers, owed, netVars, closeLost>>

(* A handler of the script answers at once, ...                             *)
OnLuaAnswer(s, isOk) ==
  /\ At(s, "Lua")
  /\ LET m == Head(batch[s]) IN
       Send(m.from, [type |-> "LuaResponse", from |-> s,
                     session |-> m.session, isOk |-> isOk])
  /\ TakeMessage(s)
  /\ UNCHANGED <<phase, i, due, grown, forget, isExit, tableVars, coVars,
                 destroyed, closeSent, result, closeLost>>

(* ... leaves the answer to a coroutine, or never answers, ...              *)
OnLuaDefer(s, c) ==
  /\ At(s, "Lua")
  /\ \/ c = 0 /\ UNCHANGED <<created, nextCoro, owed>>
     \/ /\ c # 0 /\ MayAsync(s) /\ Async(s)
        /\ owed' = With(owed, s, owed[s] \union {Head(batch[s])})
  /\ TakeMessage(s)
  /\ UNCHANGED <<phase, i, due, grown, forget, isExit, callCoro,
                 autoSessionId, closers, running, waits, netVars, result,
                 closeLost>>

(* ... or raises an error, which nothing between it and Service::poll stops.*)
OnLuaError(s) ==
  /\ At(s, "Lua")
  /\ Abandon(s)
  /\ UNCHANGED <<i, due, grown, forget, isExit, tableVars, coVars, netVars,
                 result>>

(* The messages are done: if isExit, async the close of the service.        *)
EndPoll(s) ==
  /\ phase[s] = "messages" /\ running[s] = 0 /\ batch[s] = <<>>
  /\ \/ /\ isExit[s] /\ Async(s)
        /\ closers' = With(closers, s, closers[s] \union {created[s] + 1})
     \/ ~isExit[s] /\ UNCHANGED <<created, nextCoro, closers>>
  /\ phase' = With(phase, s, "idle")
  /\ UNCHANGED <<batch, i, due, grown, forget, isExit, callCoro,
                 autoSessionId, running, waits, owed, netVars, result,
                 closeLost>>

-----------------------------------------------------------------------------
(* The script: the coroutine of s that has control.                         *)

NextSession(n) == n + 1

(* api.call.                                                                *)
Call(s, r) ==
  /\ running[s] # 0
  /\ autoSessionId[s] <= MaxCalls
  /\ LET n == autoSessionId[s] IN
       /\ autoSessionId' = With(autoSessionId, s, NextSession(n))
       /\ callCoro' = [callCoro EXCEPT ![s][n] = [co |-> running[s],
                                                  left |-> callTimeout]]
       /\ Send(r, [type |-> "Lua", from |-> s, session |-> n, isOk |-> FALSE])
       /\ waits' = [waits EXCEPT ![s][running[s]] = n]
  /\ grown' = With(grown, s, TRUE)
  /\ running' = With(running, s, 0)
  /\ UNCHANGED <<phase, batch, i, due, forget, isExit, nextCoro, created,
                 closers, owed, destroyed, closeSent, result, closeLost>>

(* api.send: session 0, and nobody waits.  Bounds: Senders, and the queue   *)
(* of r has no other of s.                                                  *)
ApiSend(s, r) ==
  LET m == [type |-> "Lua", from |-> s, session |-> 0, isOk |-> FALSE] IN
    /\ running[s] \in Senders /\ m \notin ToSet(inbox[r])
    /\ Send(r, m)
    /\ UNCHANGED <<pollVars, tableVars, coVars, destroyed, closeSent, result,
                   closeLost>>

(* api.async from a coroutine.                                              *)
CoAsync(s) ==
  /\ running[s] # 0 /\ MayAsync(s)
  /\ Async(s)
  /\ UNCHANGED <<pollVars, callCoro, autoSessionId, closers, running, waits,
                 owed, netVars, result, closeLost>>

(* api.response.                                                            *)
Response(s, m, isOk) ==
  /\ running[s] # 0 /\ m \in owed[s]
  /\ owed' = With(owed, s, owed[s] \ {m})
  /\ Send(m.from, [type |-> "LuaResponse", from |-> s,
                   session |-> m.session, isOk |-> isOk])
  /\ UNCHANGED <<pollVars, tableVars, created, closers, running, waits,
                 destroyed, closeSent, result, closeLost>>

(* The coroutine returns, or raises an error, which its resume reports.  At *)
(* its end the coroutine of a Close destroys the service; an error in       *)
(* closeFunc keeps it from getting there.                                   *)
Finish(s, ok) ==
  /\ running[s] # 0
  /\ running' = With(running, s, 0)
  /\ IF running[s] \in closers[s]
     THEN /\ destroyed' = IF ok THEN destroyed \union {s} ELSE destroyed
          /\ closeLost' = With(closeLost, s, closeLost[s] \/ ~ok)
     ELSE UNCHANGED <<destroyed, closeLost>>
  /\ UNCHANGED <<pollVars, tableVars, created, closers, waits, owed, inbox,
                 closeSent, result>>

-----------------------------------------------------------------------------
(* waitAllServiceClose, or api.destroyService of another service.           *)
SendClose(s) ==
  /\ s \notin closeSent
  /\ closeSent' = closeSent \union {s}
  /\ Send(s, [type |-> "Close"])
  /\ UNCHANGED <<pollVars, tableVars, coVars, destroyed, result, closeLost>>

(* A second passes.                                                         *)
Tick ==
  /\ \E s \in Services, n \in Sessions :
       callCoro[s][n] # Nil /\ callCoro[s][n].left >= 0
  /\ callCoro' = [s \in Services |-> [n \in Sessions |->
       IF callCoro[s][n] = Nil \/ callCoro[s][n].left < 0
       THEN callCoro[s][n]
       ELSE [callCoro[s][n] EXCEPT !.left = @ - 1]]]
  /\ UNCHANGED <<pollVars, nextCoro, autoSessionId, coVars, netVars, result,
                 closeLost>>

PollStep(s) ==
  \/ Poll(s) \/ RunAsync(s) \/ EndAsync(s)
  \/ (\E n \in Sessions : TimeOut(s, n)) \/ Forget(s) \/ EndTimeouts(s)
  \/ OnClose(s) \/ OnLateResponse(s) \/ OnResponse(s)
  \/ (\E isOk \in BOOLEAN : OnLuaAnswer(s, isOk))
  \/ (\E c \in {0, 1} : OnLuaDefer(s, c)) \/ OnLuaError(s)
  \/ EndPoll(s)

ScriptStep(s) ==
  \/ \E r \in Services : Call(s, r) \/ ApiSend(s, r)
  \/ CoAsync(s)
  \/ \E m \in owed[s], isOk \in BOOLEAN : Response(s, m, isOk)
  \/ \E ok \in BOOLEAN : Finish(s, ok)

Next ==
  \/ \E s \in Services : PollStep(s) \/ ScriptStep(s) \/ SendClose(s)
  \/ Tick

Spec == Init /\ [][Next]_vars

GiveBack(s) ==
  (\E r \in Services : Call(s, r)) \/ \E ok \in BOOLEAN : Finish(s, ok)

(* Each service is polled again and again, its scripts give control back,   *)
(* and time passes.                                                         *)
FairSpec ==
  /\ Spec
  /\ \A s \in Services : WF_vars(PollStep(s)) /\ WF_vars(GiveBack(s))
  /\ WF_vars(Tick)

-----------------------------------------------------------------------------
TypeOK ==
  /\ inbox \in [Services -> Seq(Messages)]
  /\ destroyed \subseteq Services
  /\ phase \in [Services -> {"idle", "async", "timeouts", "messages"}]
  /\ batch \in [Services -> Seq(Messages)]
  /\ i \in [Services -> Nat]
  /\ due \in [Services -> SUBSET Sessions]
  /\ grown \in [Services -> BOOLEAN]
  /\ forget \in [Services -> Sessions \union {0}]
  /\ isExit \in [Services -> BOOLEAN]
  /\ nextCoro \in [Services -> Seq(Coros)]
  /\ callCoro \in [Services -> [Sessions -> Entries \union {Nil}]]
  /\ autoSessionId \in [Services -> 1..(MaxCalls + 1)]
  /\ created \in [Services -> 0..MaxCoros]
  /\ closers \in [Services -> SUBSET Coros]
  /\ running \in [Services -> Coros \union {0}]
  /\ waits \in [Services -> [Coros -> Sessions \union {0}]]
  /\ owed \in [Services -> SUBSET Posts]
  /\ result \in [Services -> [Sessions -> Results \union {Nil}]]
  /\ closeSent \subseteq Services
  /\ closeLost \in [Services -> BOOLEAN]

(* The coroutine an entry of callCoro names is suspended in that very call, *)
(* and each suspended coroutine has its entry: an answer or a timeout       *)
(* resumes the call it belongs to, and no call is forgotten.                *)
SuspendedIffListed ==
  \A s \in Services :
    \A n \in Sessions \ {forget[s]}, c \in Coros :
      (callCoro[s][n] # Nil /\ callCoro[s][n].co = c) <=> waits[s][c] = n

(* A coroutine that api.async queued is queued once, and neither runs nor   *)
(* waits before the loop of onPoll takes it out, whatever it and the others *)
(* add to the table while the loop goes down it.                            *)
QueuedOnce ==
  \A s \in Services :
    /\ IsInjective(nextCoro[s])
    /\ \A c \in ToSet(nextCoro[s]) : running[s] # c /\ waits[s][c] = 0

(* Every coroutine is where it will be resumed from, once.                  *)
CorosInPlace == TypeOK /\ SuspendedIffListed /\ QueuedOnce

(* A call returns once: an answer that comes after the timeout changes      *)
(* nothing, nor does a timeout after the answer.                            *)
ReturnsOnce ==
  [][\A s \in Services, n \in Sessions :
       result[s][n] # Nil => result'[s][n] = result[s][n]]_vars

(* Every call returns, whatever becomes of the service it calls, as long as *)
(* its own service is not destroyed.                                        *)
CallReturns ==
  \A s \in Services, n \in Sessions :
    callCoro[s][n] # Nil ~> result[s][n] # Nil \/ s \in destroyed

(* A Close that onPoll is given ends the service, unless an error or a late *)
(* response cuts that onPoll short or closeFunc fails.                      *)
CloseHonoured ==
  \A s \in Services :
    (\E k \in DOMAIN batch[s] : batch[s][k].type = "Close")
      ~> s \in destroyed \/ closeLost[s]
=============================================================================

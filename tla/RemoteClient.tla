---------------------------- MODULE RemoteClient ----------------------------
(***************************************************************************)
(* The client of one remote MCP server (gateway/internal/remotehttp): its  *)
(* calls share a session, which each of them may find missing, expired, or *)
(* replaced by another.  The server forgets sessions when it likes and     *)
(* answers 404 for one it does not know; a request without a session it    *)
(* refuses (400, as the protocol has it), one before the session's         *)
(* notifications/initialized it may refuse.                                *)
(***************************************************************************)
EXTENDS Integers, FiniteSets, FiniteSetsExt

CONSTANTS
    Call,          \* goroutines with a call of ListTools or CallTool
    MaxExpiries,   \* bound on the expiries of sessions
    MaxFaults      \* bound on network errors, timeouts and error answers

ASSUME CallAssumption == IsFiniteSet(Call)

VARIABLES
    inited,      \* Client.inited
    sessionID,   \* Client.sessionID, NoSession for ""
    call,        \* what each call is doing, and the ghosts of its excuses
    alive,       \* sessions the server knows
    ready,       \* those it got notifications/initialized for
    unheard,     \* ghost: those whose notification was lost
    expiries,
    faults

remoteVars == <<inited, sessionID, call, alive, ready, unheard, expiries, faults>>

NoSession == 0

(* Session numbers are used again once nobody refers to them. *)
Session == 1..(Cardinality(Call) + 2)
Referred == {sessionID} \union {call[c].sid : c \in Call}
FreshSession == Min(Session \ Referred)

Resting == {"idle", "done", "failed"}
Quiet == [pc |-> "idle", sid |-> NoSession, retried |-> FALSE, answer |-> "none",
          runs |-> 0, faulted |-> FALSE, disturbed |-> FALSE, lost |-> 0]

RemoteInit ==
    /\ inited = FALSE /\ sessionID = NoSession
    /\ call = [c \in Call |-> Quiet]
    /\ alive = {} /\ ready = {} /\ unheard = {}
    /\ expiries = 0 /\ faults = 0

-----------------------------------------------------------------------------
Set(c, r) == call' = [call EXCEPT ![c] = r]
Goto(c, pc) == Set(c, [call[c] EXCEPT !.pc = pc])

(* As Set, in a step that changes the fields all calls share. *)
SetShared(c, r) ==
    call' = [x \in Call |-> IF x = c THEN r
                            ELSE IF call[x].pc \in Resting THEN call[x]
                            ELSE [call[x] EXCEPT !.disturbed = TRUE]]

Fault == faults < MaxFaults /\ faults' = faults + 1
Fails(c) == Fault /\ Set(c, [call[c] EXCEPT !.pc = "failed", !.sid = NoSession, !.faulted = TRUE])

-----------------------------------------------------------------------------
(* rpc begins. *)
Begin(c) ==
    /\ call[c].pc \in Resting
    /\ Set(c, [Quiet EXCEPT !.pc = "check",
                            !.lost = IF inited /\ sessionID \notin alive THEN 1 ELSE 0])
    /\ UNCHANGED <<inited, sessionID, alive, ready, unheard, expiries, faults>>

(* ensureInit looks at inited under the read lock ... *)
Check(c) ==
    /\ call[c].pc = "check"
    /\ Goto(c, IF inited THEN "send" ELSE "initialize")
    /\ UNCHANGED <<inited, sessionID, alive, ready, unheard, expiries, faults>>

(* ... and without it sends initialize, with whatever session another call has
   established meanwhile: the server may refuse it for that ... *)
Initialize(c) ==
    /\ call[c].pc = "initialize"
    /\ \/ /\ Set(c, [call[c] EXCEPT !.pc = "store", !.sid = FreshSession])
          /\ alive' = (alive \intersect Referred) \union {FreshSession}
          /\ ready' = ready \intersect Referred
          /\ unheard' = unheard \ {FreshSession}
          /\ UNCHANGED faults
       \/ /\ sessionID # NoSession
          /\ Set(c, [call[c] EXCEPT !.pc = "failed"])
          /\ UNCHANGED <<alive, ready, unheard, faults>>
       \/ Fails(c) /\ UNCHANGED <<alive, ready, unheard>>
    /\ UNCHANGED <<inited, sessionID, expiries>>

(* ... and stores the session it was given over any other, ... *)
StoreMutNoFlag(c) ==
    /\ call[c].pc = "store"
    /\ sessionID' = call[c].sid
    /\ SetShared(c, [call[c] EXCEPT !.pc = "notify", !.sid = NoSession])
    /\ UNCHANGED <<inited, alive, ready, unheard, expiries, faults>>
Store(c) ==
    /\ call[c].pc = "store"
    /\ sessionID' = call[c].sid /\ inited' = TRUE
    /\ SetShared(c, [call[c] EXCEPT !.pc = "notify", !.sid = NoSession])
    /\ UNCHANGED <<alive, ready, unheard, expiries, faults>>

(* ... and tells the server that the current session is initialised, which
   need not be the one it stored. Errors are dropped. *)
Notify(c) ==
    /\ call[c].pc = "notify"
    /\ \/ /\ ready' = ready \union ({sessionID} \intersect alive)
          /\ Goto(c, "send")
          /\ UNCHANGED <<unheard, faults>>
       \/ /\ Fault
          /\ Set(c, [call[c] EXCEPT !.pc = "send", !.faulted = TRUE])
          /\ unheard' = unheard \union {sessionID}
          /\ UNCHANGED ready
    /\ UNCHANGED <<inited, sessionID, alive, expiries>>

(* doRPC reads the session again and sends the request. *)
Send(c) ==
    /\ call[c].pc = "send"
    /\ Set(c, [call[c] EXCEPT !.pc = "wait", !.sid = sessionID])
    /\ UNCHANGED <<inited, sessionID, alive, ready, unheard, expiries, faults>>

(* The server takes the request; its answer may be lost, or an error. It may
   get it before the notification of the call that made the session, or
   without ever getting that. *)
Unannounced(c) ==
    call[c].sid \in unheard \/ \E x \in Call \ {c} : call[x].pc = "notify"

Serve(c) ==
    /\ call[c].pc = "wait" /\ call[c].answer = "none"
    /\ LET s == call[c].sid
           Answers(a, n) == Set(c, [call[c] EXCEPT !.answer = a, !.runs = @ + n])
       IN  \/ s \in alive /\ Answers("result", 1) /\ UNCHANGED faults
           \/ /\ s \in alive \ ready
              /\ Set(c, [call[c] EXCEPT !.answer = "refused", !.disturbed = @ \/ Unannounced(c)])
              /\ UNCHANGED faults
           \/ s = NoSession /\ Answers("refused", 0) /\ UNCHANGED faults
           \/ s \notin alive /\ s # NoSession /\ Answers("404", 0) /\ UNCHANGED faults
           \/ /\ Fault
              /\ \E n \in {0, 1} :
                   /\ n = 1 => s \in alive
                   /\ Set(c, [call[c] EXCEPT !.answer = "refused", !.runs = @ + n, !.faulted = TRUE])
    /\ UNCHANGED <<inited, sessionID, alive, ready, unheard, expiries>>

-----------------------------------------------------------------------------
(* A result or an error ends the call; the first 404 resets the client, also
   if another call has a new session by now, and starts over. *)
Finish(c) ==
    /\ call[c].pc = "wait"
    /\ \/ call[c].answer = "result" /\ Set(c, [call[c] EXCEPT !.pc = "done", !.sid = NoSession])
       \/ call[c].answer = "refused" /\ Set(c, [call[c] EXCEPT !.pc = "failed", !.sid = NoSession])
       \/ /\ call[c].answer = "404" /\ call[c].retried
          /\ Set(c, [call[c] EXCEPT !.pc = "failed", !.sid = NoSession])
    /\ UNCHANGED <<inited, sessionID, alive, ready, unheard, expiries, faults>>

Again(c) == [call[c] EXCEPT !.pc = "check", !.sid = NoSession, !.answer = "none", !.retried = TRUE]

RetryMutKeepInited(c) ==
    /\ call[c].pc = "wait" /\ call[c].answer = "404" /\ ~call[c].retried
    /\ sessionID' = NoSession
    /\ SetShared(c, Again(c))
    /\ UNCHANGED <<inited, alive, ready, unheard, expiries, faults>>
RetryMutAnyError(c) ==
    /\ call[c].pc = "wait" /\ call[c].answer \in {"404", "refused"} /\ ~call[c].retried
    /\ inited' = FALSE /\ sessionID' = NoSession
    /\ SetShared(c, Again(c))
    /\ UNCHANGED <<alive, ready, unheard, expiries, faults>>
Retry(c) ==
    /\ call[c].pc = "wait" /\ call[c].answer = "404" /\ ~call[c].retried
    /\ inited' = FALSE /\ sessionID' = NoSession
    /\ SetShared(c, Again(c))
    /\ UNCHANGED <<alive, ready, unheard, expiries, faults>>

(* The server forgets a session somebody refers to. *)
Expire(s) ==
    /\ s \in alive \intersect Referred
    /\ expiries < MaxExpiries
    /\ expiries' = expiries + 1
    /\ alive' = alive \ {s} /\ ready' = ready \ {s}
    /\ call' = [c \in Call |->
                   IF call[c].pc \notin Resting /\ s \in {sessionID, call[c].sid}
                   THEN [call[c] EXCEPT !.lost = @ + 1] ELSE call[c]]
    /\ UNCHANGED <<inited, sessionID, unheard, faults>>

Step(c) ==
    \/ Check(c) \/ Initialize(c) \/ Store(c) \/ Notify(c)
    \/ Send(c) \/ Serve(c) \/ Finish(c) \/ Retry(c)

RemoteNext ==
    \/ \E c \in Call : Begin(c) \/ Step(c)
    \/ \E s \in Session : Expire(s)

(* A goroutine goes on, and the server answers: every request has a timeout. *)
RemoteSpec == RemoteInit /\ [][RemoteNext]_remoteVars /\ \A c \in Call : WF_remoteVars(Step(c))

-----------------------------------------------------------------------------
(* A call fails only if a request failed, its session was lost twice on it,
   another call replaced or reset the session under it, or the handshake that
   made the session is unfinished or was cut short: nothing repeats a lost
   notification (client.go:133, 203). So a lone call survives an expiry,
   although the client learns of it only from the 404 (client.go:103-109). *)
ExcusedFailure ==
    \A c \in Call : call[c].pc = "failed" =>
        call[c].faulted \/ call[c].disturbed \/ call[c].lost >= 2

(* The server runs a tool at most once for a call, and exactly once for one
   that succeeds: what is sent again was refused for its session. *)
ExecutedOnce ==
    \A c \in Call : /\ call[c].runs <= 1
                    /\ call[c].pc = "done" => call[c].runs = 1

(* Once the server stops forgetting sessions the client keeps one:
   late 404s of earlier sessions do not make calls reset each other for ever. *)
SessionSettles == <>[][FALSE]_sessionID
=============================================================================

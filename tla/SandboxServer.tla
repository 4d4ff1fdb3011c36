--------------------------- MODULE SandboxServer ---------------------------
(***************************************************************************)
(* One sandbox.Server (internal/sandbox/stdio.go): the downstream object    *)
(* that runs a stdio MCP server in a sandboxed process, launched on first   *)
(* use, with                                                                *)
(*                                                                         *)
(*   - callers, request goroutines in ListTools or CallTool: ensure under   *)
(*     Server.mu (launch and handshake), then a call under conn.mu on the   *)
(*     connection read from the server without its lock;                   *)
(*   - closers, goroutines in Close (the gateway's event loop, or a request *)
(*     that discards an instance);                                         *)
(*   - the process: it answers what it was sent, in any order, late, twice  *)
(*     or never, sends requests of its own, or exits.                      *)
(*                                                                         *)
(* Server.inst, Server.c and Server.cancel are set and reset together and   *)
(* are one variable. Lines that carry no id are read and dropped without    *)
(* any effect, and are left out. A pipe never fills up.                     *)
(***************************************************************************)
EXTENDS Integers, Sequences, FiniteSets

CONSTANTS
    Caller, Closer,
    Process,    \* what Runtime.Launch returns, one per launch
    NoProcess,  \* the nil Instance and the nil conn
    Self,       \* whoever a line is about when it is the process's own request
    Unlocked,   \* a mutex that nobody holds
    MaxCalls,   \* bound: calls of ListTools and CallTool
    MaxCloses,  \* bound: calls of Close
    MaxLines    \* bound: lines a process wrote that nobody has read

ASSUME SandboxAssumption ==
    /\ NoProcess \notin Process
    /\ Self \notin Caller
    /\ Unlocked \notin Caller
    /\ MaxCalls \in Nat
    /\ MaxCloses \in Nat
    /\ MaxLines \in Nat

VARIABLES
    mu,      \* who holds Server.mu across a handshake, or Unlocked
    inited,  \* Server.inited
    inst,    \* Server.inst and Server.c
    proc,    \* each process: unused, running, exited (by itself) or stopped
    cmu,     \* who holds the conn.mu of each process, or Unlocked
    lastId,  \* conn.id
    asked,   \* requests each process has received
    lines,   \* what each process has written and nobody has read
    greeted, \* processes that were sent notifications/initialized
    call,    \* the callers
    closing, \* the closers that are waiting in Close
    calls,   \* number of calls
    closes   \* number of closes

server == <<mu, inited, inst>>
conns == <<cmu, lastId, asked, lines, greeted>>
bounds == <<calls, closes>>
vars == <<mu, inited, inst, proc, cmu, lastId, asked, lines, greeted,
          call, closing, calls, closes>>

-----------------------------------------------------------------------------
Id == 1..(MaxCalls + 1)
Line == [id : Nat, about : Caller \union {Self}]
Idle == [pc |-> "idle"]
Ensuring == [pc |-> "ensure"]
(* ensure has returned nil and s.c is about to be read. `closed' is a ghost:
   whether a Close has reset the server in between. *)
Ensured(closed) == [pc |-> "ensured", closed |-> closed]
(* In conn.call on p: about to send, or waiting for the answer to `id'. `in' is
   the caller's place: the handshake of ensure, or a tools method. *)
Sending(p, in) == [pc |-> "send", conn |-> p, in |-> in]
Waiting(p, in, id) == [pc |-> "wait", conn |-> p, in |-> in, id |-> id]
Notifying(p) == [pc |-> "notify", conn |-> p, in |-> "handshake"]

Place == {"handshake", "tools"}
CallState ==
    {Idle, Ensuring}
    \union {Ensured(closed) : closed \in BOOLEAN}
    \union [pc : {"send"}, conn : Process, in : Place]
    \union [pc : {"wait"}, conn : Process, in : Place, id : Nat]
    \union {Notifying(p) : p \in Process}

InConn(g) == call[g].pc \in {"send", "wait", "notify"}
Handshaking(g) == InConn(g) /\ call[g].in = "handshake"
Running == {p \in Process : proc[p] = "running"}
Unused == {p \in Process : proc[p] = "unused"}
Launched == CHOOSE p \in Process : proc[p] = "unused" \* names mean nothing
Goto(g, state) == call' = [call EXCEPT ![g] = state]

Init ==
    /\ mu = Unlocked
    /\ inited = FALSE
    /\ inst = NoProcess
    /\ proc = [p \in Process |-> "unused"]
    /\ cmu = [p \in Process |-> Unlocked]
    /\ lastId = [p \in Process |-> 0]
    /\ asked = [p \in Process |-> {}]
    /\ lines = [p \in Process |-> <<>>]
    /\ greeted = {}
    /\ call = [g \in Caller |-> Idle]
    /\ closing = {}
    /\ calls = 0
    /\ closes = 0

-----------------------------------------------------------------------------
(* Callers. *)

Call(g) ==
    /\ call[g] = Idle
    /\ calls < MaxCalls
    /\ calls' = calls + 1
    /\ Goto(g, Ensuring)
    /\ UNCHANGED <<server, proc, conns, closing, closes>>

(* ensure up to the handshake. The lock is held until the handshake ends; a
   launch that fails, or an initialised server, releases it at once. *)
EnsureMutHoldsLock(g) ==
    /\ call[g] = Ensuring
    /\ mu = Unlocked
    /\ \/ /\ inited
          /\ mu' = g
          /\ Goto(g, Ensured(FALSE))
          /\ UNCHANGED <<inited, inst, proc>>
       \/ /\ ~inited
          /\ Goto(g, Idle)
          /\ UNCHANGED <<server, proc>>
       \/ /\ ~inited
          /\ Unused # {}
          /\ proc' = [proc EXCEPT ![Launched] = "running"]
          /\ Goto(g, Sending(Launched, "handshake"))
          /\ mu' = g
          /\ UNCHANGED <<inited, inst>>
    /\ UNCHANGED <<conns, closing, bounds>>
EnsureMutPublishFirst(g) ==
    /\ call[g] = Ensuring
    /\ mu = Unlocked
    /\ \/ /\ inited
          /\ Goto(g, Ensured(FALSE))
          /\ UNCHANGED <<server, proc>>
       \/ /\ ~inited
          /\ Goto(g, Idle)
          /\ UNCHANGED <<server, proc>>
       \/ /\ ~inited
          /\ Unused # {}
          /\ proc' = [proc EXCEPT ![Launched] = "running"]
          /\ inst' = Launched
          /\ Goto(g, Sending(Launched, "handshake"))
          /\ mu' = g
          /\ UNCHANGED inited
    /\ UNCHANGED <<conns, closing, bounds>>
Ensure(g) ==
    /\ call[g] = Ensuring
    /\ mu = Unlocked
    /\ \/ /\ inited
          /\ Goto(g, Ensured(FALSE))
          /\ UNCHANGED <<server, proc>>
       \/ /\ ~inited
          /\ Goto(g, Idle)
          /\ UNCHANGED <<server, proc>>
       \/ /\ ~inited
          /\ Unused # {}
          /\ proc' = [proc EXCEPT ![Launched] = "running"]
          /\ Goto(g, Sending(Launched, "handshake"))
          /\ mu' = g
          /\ UNCHANGED <<inited, inst>>
    /\ UNCHANGED <<conns, closing, bounds>>

(* ListTools and CallTool read s.c after ensure has released the lock. When a
   Close came in between it is nil, and the goroutine panics in conn.call. *)
ReadConn(g) ==
    /\ call[g].pc = "ensured"
    /\ Goto(g, IF inst = NoProcess THEN Idle ELSE Sending(inst, "tools"))
    /\ UNCHANGED <<server, proc, conns, closing, bounds>>

(* conn.call returns: whatever the goroutine has locked is unlocked. A failed
   handshake stops its process; a successful one goes on to the notification. *)
FailMutNoStop(g) ==
    /\ Goto(g, Idle)
    /\ mu' = IF mu = g THEN Unlocked ELSE mu
    /\ UNCHANGED proc
Fail(g) ==
    /\ Goto(g, Idle)
    /\ mu' = IF mu = g THEN Unlocked ELSE mu
    /\ proc' = IF Handshaking(g) THEN [proc EXCEPT ![call[g].conn] = "stopped"] ELSE proc
Succeed(g) ==
    /\ Goto(g, IF Handshaking(g) THEN Notifying(call[g].conn) ELSE Idle)
    /\ mu' = IF mu = g /\ ~Handshaking(g) THEN Unlocked ELSE mu
    /\ UNCHANGED proc

(* conn.call up to its read loop: lock, take an id, write the request. *)
Send(g) ==
    LET p == call[g].conn
        id == lastId[p] + 1
    IN  /\ call[g].pc = "send"
        /\ cmu[p] = Unlocked
        /\ lastId' = [lastId EXCEPT ![p] = id]
        /\ \/ /\ proc[p] = "running"
              /\ cmu' = [cmu EXCEPT ![p] = g]
              /\ asked' = [asked EXCEPT ![p] = @ \union {[id |-> id, about |-> g]}]
              /\ Goto(g, Waiting(p, call[g].in, id))
              /\ UNCHANGED <<mu, proc>>
           \/ /\ proc[p] # "running"
              /\ Fail(g)
              /\ UNCHANGED <<cmu, asked>>
        /\ UNCHANGED <<inited, inst, lines, greeted, closing, bounds>>

(* One turn of the read loop: a line with the wanted id is the answer, a result
   or an error, and any other is dropped. The read fails once everything a process wrote is read
   and it is gone, or its pipes are closed. *)
ReadMutAnyLine(g) ==
    LET p == call[g].conn
    IN  /\ call[g].pc = "wait"
        /\ \/ /\ lines[p] # <<>>
              /\ Succeed(g) \/ Fail(g)
              /\ lines' = [lines EXCEPT ![p] = Tail(@)]
              /\ cmu' = [cmu EXCEPT ![p] = Unlocked]
           \/ /\ \/ proc[p] = "exited" /\ lines[p] = <<>>
                 \/ proc[p] = "stopped"
              /\ Fail(g)
              /\ cmu' = [cmu EXCEPT ![p] = Unlocked]
              /\ UNCHANGED lines
        /\ UNCHANGED <<inited, inst, lastId, asked, greeted, closing, bounds>>
ReadMutRetryOnError(g) ==
    LET p == call[g].conn
    IN  /\ call[g].pc = "wait"
        /\ lines[p] # <<>>
        /\ lines' = [lines EXCEPT ![p] = Tail(@)]
        /\ \/ /\ Head(lines[p]).id = call[g].id
              /\ Succeed(g)
              /\ cmu' = [cmu EXCEPT ![p] = Unlocked]
           \/ /\ Head(lines[p]).id # call[g].id
              /\ UNCHANGED <<mu, proc, cmu, call>>
        /\ UNCHANGED <<inited, inst, lastId, asked, greeted, closing, bounds>>
Read(g) ==
    LET p == call[g].conn
    IN  /\ call[g].pc = "wait"
        /\ \/ /\ lines[p] # <<>>
              /\ Head(lines[p]).id = call[g].id
              /\ Succeed(g) \/ Fail(g)
              /\ lines' = [lines EXCEPT ![p] = Tail(@)]
              /\ cmu' = [cmu EXCEPT ![p] = Unlocked]
           \/ /\ lines[p] # <<>>
              /\ Head(lines[p]).id # call[g].id
              /\ lines' = [lines EXCEPT ![p] = Tail(@)]
              /\ UNCHANGED <<mu, proc, cmu, call>>
           \/ /\ \/ proc[p] = "exited" /\ lines[p] = <<>>
                 \/ proc[p] = "stopped"
              /\ Fail(g)
              /\ cmu' = [cmu EXCEPT ![p] = Unlocked]
              /\ UNCHANGED lines
        /\ UNCHANGED <<inited, inst, lastId, asked, greeted, closing, bounds>>

(* The end of ensure: the notification, whose write error is dropped, and the
   assignment of what the handshake made. *)
Notify(g) ==
    LET p == call[g].conn
    IN  /\ call[g].pc = "notify"
        /\ cmu[p] = Unlocked
        /\ greeted' = IF proc[p] = "running" THEN greeted \union {p} ELSE greeted
        /\ inst' = p
        /\ inited' = TRUE
        /\ mu' = Unlocked
        /\ Goto(g, Ensured(FALSE))
        /\ UNCHANGED <<proc, cmu, lastId, asked, lines, closing, bounds>>

-----------------------------------------------------------------------------
(* Closers. *)

CallClose(k) ==
    /\ k \notin closing
    /\ closes < MaxCloses
    /\ closes' = closes + 1
    /\ closing' = closing \union {k}
    /\ UNCHANGED <<server, proc, conns, call, calls>>

(* Close, under the lock: cancel and Stop kill the process and reap it. *)
CloseMutKeepInited(k) ==
    /\ k \in closing
    /\ mu = Unlocked
    /\ proc' = [p \in Process |-> IF p = inst THEN "stopped" ELSE proc[p]]
    /\ inst' = NoProcess
    /\ call' = [g \in Caller |-> IF call[g].pc = "ensured" /\ inst # NoProcess
                                 THEN Ensured(TRUE) ELSE call[g]]
    /\ closing' = closing \ {k}
    /\ UNCHANGED <<mu, inited, conns, bounds>>
Close(k) ==
    /\ k \in closing
    /\ mu = Unlocked
    /\ proc' = [p \in Process |-> IF p = inst THEN "stopped" ELSE proc[p]]
    /\ inst' = NoProcess
    /\ inited' = (inited /\ inst = NoProcess)
    /\ call' = [g \in Caller |-> IF call[g].pc = "ensured" /\ inst # NoProcess
                                 THEN Ensured(TRUE) ELSE call[g]]
    /\ closing' = closing \ {k}
    /\ UNCHANGED <<mu, conns, bounds>>

-----------------------------------------------------------------------------
(* Processes. *)

(* An answer to something the process was asked, now or before. *)
Answer(p) ==
    /\ proc[p] = "running"
    /\ Len(lines[p]) < MaxLines
    /\ \E r \in asked[p] : lines' = [lines EXCEPT ![p] = Append(@, r)]
    /\ UNCHANGED <<server, proc, cmu, lastId, asked, greeted, call, closing, bounds>>

(* A request of its own (MCP allows a server to ping), with an id it chose. *)
Ask(p) ==
    /\ proc[p] = "running"
    /\ Len(lines[p]) < MaxLines
    /\ \E id \in Id :
          lines' = [lines EXCEPT ![p] = Append(@, [id |-> id, about |-> Self])]
    /\ UNCHANGED <<server, proc, cmu, lastId, asked, greeted, call, closing, bounds>>

Exit(p) ==
    /\ proc[p] = "running"
    /\ proc' = [proc EXCEPT ![p] = "exited"]
    /\ UNCHANGED <<server, conns, call, closing, bounds>>

-----------------------------------------------------------------------------
Step(g) ==
    \/ Ensure(g)
    \/ ReadConn(g)
    \/ Send(g)
    \/ Read(g)
    \/ Notify(g)

Next ==
    \/ \E g \in Caller : Call(g)
    \/ \E g \in Caller : Step(g)
    \/ \E k \in Closer : CallClose(k)
    \/ \E k \in Closer : Close(k)
    \/ \E p \in Process : Answer(p)
    \/ \E p \in Process : Ask(p)
    \/ \E p \in Process : Exit(p)

Spec == Init /\ [][Next]_vars

(* Goroutines are scheduled, and Go's mutex serves its waiters in order after
   a millisecond. Processes owe nobody an answer, and nobody has to call. *)
Fairness ==
    /\ \A g \in Caller : SF_vars(Step(g))
    /\ \A k \in Closer : SF_vars(Close(k))

FairSpec == Spec /\ Fairness

-----------------------------------------------------------------------------
(* Types; in particular a handshake's connection belongs to the holder of the
   server's lock, and whoever waits for an answer holds the connection's lock
   (stdio.go:35-36, 95-97). *)
TypeOK ==
    /\ mu \in Caller \union {Unlocked}
    /\ inst \in Process \union {NoProcess}
    /\ inited \in BOOLEAN
    /\ proc \in [Process -> {"unused", "running", "exited", "stopped"}]
    /\ cmu \in [Process -> Caller \union {Unlocked}]
    /\ lastId \in [Process -> Nat]
    /\ asked \in [Process -> SUBSET Line]
    /\ lines \in [Process -> Seq(Line)]
    /\ greeted \subseteq Process
    /\ closing \subseteq Closer
    /\ call \in [Caller -> CallState]
    /\ \A g \in Caller : Handshaking(g) => mu = g
    /\ \A g \in Caller : call[g].pc = "wait" => cmu[call[g].conn] = g

(* At most one process runs, and it is the one Close will stop, or one that
   the goroutine holding the lock is initialising: a failed handshake, a
   closed server or a racing first use leaves none behind (stdio.go:95-123,
   156-169). *)
NoStray ==
    /\ Running \subseteq {inst} \union {call[g].conn : g \in {h \in Caller : Handshaking(h)}}
    /\ Cardinality(Running) <= 1

(* A process is sent a tools request only after it was initialised and told
   so, whatever connection the unlocked read of s.c sees (stdio.go:115-121,
   130, 152). *)
HandshakeFirst ==
    \A g \in Caller : call[g].pc = "wait" /\ call[g].in = "tools" =>
        call[g].conn \in greeted

(* After ensure, s.c is nil only if a Close overtook the call: no sequence of
   failed launches, handshakes and closes leaves the server initialised with
   no connection (stdio.go:98, 121, 130, 152, 165). *)
NilOnlyAfterClose ==
    \A g \in Caller : call[g].pc = "ensured" /\ inst = NoProcess => call[g].closed

(* A call returns the answer to its own request, or what a request of the
   process's own reads as, never what was meant for another call, whatever
   answers are late or repeated (stdio.go:34-68). *)
OwnAnswer ==
    [][\A g \in Caller : \A p \in Process :
          Read(g) /\ call[g].conn = p /\ call' # call /\ lines'[p] # lines[p] =>
              LET r == Head(lines[p]) IN
              r.about = Self \/ r = [id |-> call[g].id, about |-> g]]_vars

(* A goroutine waits for a process that runs. For ever, if it is silent or
   writes only other things: no call has a timeout. *)
Hung(g) ==
    /\ call[g].pc = "wait"
    /\ proc[call[g].conn] = "running"

(* Close is held up only by a handshake that is never answered, never by calls
   that hang or queue behind each other (stdio.go:95-123, 156-169). *)
CloseReturns ==
    \/ \A k \in Closer : k \in closing ~> k \notin closing
    \/ \E g \in Caller : <>[](Handshaking(g) /\ Hung(g))

(* Calls end, with an answer or an error, unless a running process never
   answers one of them: a process that exits or is stopped releases everybody who
   waits for it or queues behind (stdio.go:34-68, 95-123). *)
CallsEnd ==
    \/ \A g \in Caller : call[g] # Idle ~> call[g] = Idle
    \/ \E g \in Caller : <>[]Hung(g)
=============================================================================

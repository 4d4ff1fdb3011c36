------------------------ MODULE SandboxServerProofs ------------------------
(***************************************************************************)
(* Proofs about SandboxServer, for any callers, closers and processes and   *)
(* any number of calls, closes and lines. The properties rest on each       *)
(* other, and on what the lock and the two pipes guarantee:                 *)
(*                                                                         *)
(*   - Books: inited says whether there is a process, and nobody is in a    *)
(*     handshake while there is one (Server.mu);                            *)
(*   - Served: whatever connection the unlocked read of s.c finds is to a   *)
(*     process that was told notifications/initialized, or is gone;         *)
(*   - Talk: an id names one request of a connection (conn.mu), and a       *)
(*     process answers only what it was asked.                              *)
(***************************************************************************)
EXTENDS SandboxServer, FiniteSetTheorems, TLAPS

Books ==
    /\ inited <=> inst # NoProcess
    /\ \A g \in Caller : Handshaking(g) => ~inited

Handshaken == {call[g].conn : g \in {h \in Caller : Handshaking(h)}}
Known == Running \subseteq {inst} \union Handshaken

ServedBy(p) == p \in greeted \/ proc[p] \in {"exited", "stopped"}
Begun(p) == proc[p] # "unused"
Served ==
    /\ inst # NoProcess => ServedBy(inst)
    /\ \A g \in Caller : InConn(g) /\ call[g].in = "tools" => ServedBy(call[g].conn)
    /\ \A g \in Caller : Handshaking(g) => Begun(call[g].conn)

Talk ==
    /\ \A p \in Process : \A r \in asked[p] : r.id <= lastId[p]
    /\ \A p \in Process : \A r, s \in asked[p] : r.id = s.id => r = s
    /\ \A p \in Process : \A n \in 1..Len(lines[p]) :
          lines[p][n].about = Self \/ lines[p][n] \in asked[p]
    /\ \A g \in Caller : call[g].pc = "wait" =>
          [id |-> call[g].id, about |-> g] \in asked[call[g].conn]

IInv ==
    /\ TypeOK
    /\ Books
    /\ Known
    /\ Served
    /\ HandshakeFirst
    /\ NilOnlyAfterClose
    /\ Talk

(* Nothing is written in a step: what is unread was unread before. *)
OnlyRead ==
    /\ lines' \in [Process -> Seq(Line)]
    /\ \A p \in Process : \A n \in 1..Len(lines'[p]) :
          \E m \in 1..Len(lines[p]) : lines'[p][n] = lines[p][m]

-----------------------------------------------------------------------------
(* What a caller's record has, and where the code's moves lead. *)

LEMMA CallFields ==
    ASSUME NEW c \in CallState
    PROVE  /\ c.pc \in {"idle", "ensure", "ensured", "send", "wait", "notify"}
           /\ c.pc \in {"send", "wait", "notify"} => c.conn \in Process /\ c.in \in Place
           /\ c.pc = "wait" => c.id \in Nat
           /\ c.pc = "notify" => c.in = "handshake"
           /\ c.pc = "ensured" => c.closed \in BOOLEAN /\ c = Ensured(c.closed)
           /\ c.pc = "idle" => c = Idle
           /\ c.pc = "ensure" => c = Ensuring
BY DEF CallState, Idle, Ensuring, Ensured, Notifying, Place

LEMMA CallStates ==
    ASSUME NEW p \in Process, NEW in \in Place, NEW id \in Nat
    PROVE  /\ Idle \in CallState /\ Idle.pc = "idle"
           /\ Ensuring \in CallState /\ Ensuring.pc = "ensure"
           /\ Sending(p, in) \in CallState /\ Sending(p, in).pc = "send"
           /\ Sending(p, in).conn = p /\ Sending(p, in).in = in
           /\ Waiting(p, in, id) \in CallState /\ Waiting(p, in, id).pc = "wait"
           /\ Waiting(p, in, id).conn = p /\ Waiting(p, in, id).in = in
           /\ Waiting(p, in, id).id = id
           /\ Notifying(p) \in CallState /\ Notifying(p).pc = "notify"
           /\ Notifying(p).conn = p /\ Notifying(p).in = "handshake"
BY DEF CallState, Idle, Ensuring, Ensured, Sending, Waiting, Notifying, Place

LEMMA EnsuredState ==
    ASSUME NEW b \in BOOLEAN
    PROVE  Ensured(b) \in CallState /\ Ensured(b).pc = "ensured" /\ Ensured(b).closed = b
BY DEF CallState, Ensured

LEMMA Moved ==
    ASSUME TypeOK, NEW g \in Caller, NEW c \in CallState, Goto(g, c)
    PROVE  /\ call' \in [Caller -> CallState]
           /\ call'[g] = c
           /\ \A h \in Caller : h # g => call'[h] = call[h]
BY DEF TypeOK, Goto

(* The record of each caller, before a step. *)
LEMMA Callers ==
    ASSUME TypeOK, NEW g \in Caller
    PROVE  call[g] \in CallState
BY DEF TypeOK

LEMMA LaunchedUnused ==
    ASSUME Unused # {}
    PROVE  Launched \in Process /\ proc[Launched] = "unused"
BY DEF Unused, Launched

-----------------------------------------------------------------------------
(* A caller that is in no connection before and after a step, while servers
   and connections stay as they are, disturbs nothing; a new `ensured' needs a
   connection to read. *)
LEMMA OutsideConn ==
    ASSUME IInv, NEW g \in Caller, NEW c \in CallState, Goto(g, c),
           call[g].pc \in {"idle", "ensure", "ensured"},
           c.pc \in {"idle", "ensure", "ensured"},
           c.pc = "ensured" => inst # NoProcess,
           UNCHANGED <<server, proc, conns, closing>>
    PROVE  IInv'
<1>1. /\ call' \in [Caller -> CallState]
      /\ call'[g] = c
      /\ \A h \in Caller : h # g => call'[h] = call[h]
  BY Moved DEF IInv
<1>2. /\ UNCHANGED <<mu, inited, inst, proc, cmu, lastId, asked, lines, greeted, closing>>
      /\ \A h \in Caller : InConn(h)' <=> InConn(h)
      /\ \A h \in Caller : InConn(h) => h # g
  BY <1>1 DEF server, conns, InConn
<1>3. \A h \in Caller : Handshaking(h)' <=> Handshaking(h)
  BY <1>1, <1>2 DEF Handshaking
<1>4. TypeOK'
  BY <1>1, <1>2, <1>3 DEF IInv, TypeOK
<1>5. Books'
  BY <1>2, <1>3 DEF IInv, Books
<1>6. Known'
  <2>1. Handshaken' = Handshaken
    BY <1>1, <1>2, <1>3 DEF Handshaken, Handshaking
  <2> QED
    BY <2>1, <1>2 DEF IInv, Known, Running
<1>7. Served' /\ HandshakeFirst'
  <2>1. \A h \in Caller : InConn(h) => call'[h] = call[h]
    BY <1>1, <1>2
  <2> QED
    BY <1>1, <1>2, <1>3, <2>1
       DEF IInv, Served, ServedBy, Begun, HandshakeFirst, InConn, Handshaking
<1>8. NilOnlyAfterClose'
  BY <1>1, <1>2 DEF IInv, NilOnlyAfterClose
<1>9. Talk'
  BY <1>1, <1>2 DEF IInv, Talk
<1> QED
  BY <1>4, <1>5, <1>6, <1>7, <1>8, <1>9 DEF IInv

(* Call, and the two ends of ensure that launch nothing. *)
LEMMA CallStep ==
    ASSUME IInv, NEW g \in Caller, Call(g)
    PROVE  IInv'
<1>1. Ensuring \in CallState /\ Ensuring.pc = "ensure" /\ call[g].pc = "idle"
  BY DEF CallState, Ensuring, Call, Idle
<1> QED
  BY <1>1, OutsideConn DEF Call

(* A launch: the only process in a handshake, and the only one that runs. *)
LEMMA LaunchStep ==
    ASSUME IInv, NEW g \in Caller, call[g] = Ensuring, mu = Unlocked, ~inited,
           Unused # {},
           proc' = [proc EXCEPT ![Launched] = "running"],
           Goto(g, Sending(Launched, "handshake")),
           mu' = g,
           UNCHANGED <<inited, inst, conns, closing>>
    PROVE  IInv'
<1> DEFINE p == Launched
<1>1. p \in Process /\ proc[p] = "unused"
  BY LaunchedUnused
<1> HIDE DEF p
<1>2. /\ Sending(p, "handshake") \in CallState
      /\ Sending(p, "handshake").pc = "send"
      /\ Sending(p, "handshake").conn = p
      /\ Sending(p, "handshake").in = "handshake"
  BY <1>1, CallStates DEF Place
<1>3. /\ call' \in [Caller -> CallState]
      /\ call'[g] = Sending(p, "handshake")
      /\ \A h \in Caller : h # g => call'[h] = call[h]
  BY <1>2, Moved DEF IInv, p
<1>4. /\ UNCHANGED <<inited, inst, cmu, lastId, asked, lines, greeted, closing>>
      /\ call[g].pc = "ensure"
      /\ inst = NoProcess
      /\ \A h \in Caller : ~Handshaking(h)
  BY SandboxAssumption DEF conns, Ensuring, IInv, TypeOK, Books
<1>5. /\ InConn(g)' /\ Handshaking(g)'
      /\ \A h \in Caller : h # g => (InConn(h)' <=> InConn(h)) /\ ~Handshaking(h)'
  BY <1>2, <1>3, <1>4 DEF InConn, Handshaking
<1>6. /\ proc' \in [Process -> {"unused", "running", "exited", "stopped"}]
      /\ proc'[p] = "running"
      /\ \A q \in Process : q # p => proc'[q] = proc[q]
  BY <1>1 DEF IInv, TypeOK, p
<1>7. TypeOK'
  <2>1. \A h \in Caller : call'[h].pc = "wait" => cmu'[call'[h].conn] = h
    BY <1>2, <1>3, <1>4 DEF IInv, TypeOK
  <2>2. \A h \in Caller : Handshaking(h)' => mu' = h
    BY <1>5
  <2> QED
    BY <2>1, <2>2, <1>3, <1>4, <1>6 DEF IInv, TypeOK
<1>8. Books'
  BY <1>4, <1>5 DEF IInv, Books
<1>9. Known'
  <2>1. Running = {}
    BY <1>4, SandboxAssumption DEF IInv, Known, Running, Handshaken
  <2>2. Running' = {p}
    BY <2>1, <1>1, <1>6 DEF Running
  <2>3. p \in Handshaken'
    BY <1>2, <1>3, <1>5 DEF Handshaken
  <2> QED
    BY <2>2, <2>3 DEF Known
<1>10. Served' /\ HandshakeFirst'
  <2>1. \A q \in Process : ServedBy(q) => ServedBy(q)'
    BY <1>1, <1>4, <1>6 DEF ServedBy
  <2>2. \A h \in Caller : InConn(h) => call[h].conn \in Process
    BY Callers, CallFields DEF IInv, InConn
  <2>3. \A h \in Caller : Handshaking(h)' => Begun(call[h].conn)'
    BY <1>2, <1>3, <1>5, <1>6 DEF Begun
  <2> QED
    BY <1>2, <1>3, <1>4, <1>5, <2>1, <2>2, <2>3, SandboxAssumption
       DEF IInv, Served, HandshakeFirst, InConn
<1>11. NilOnlyAfterClose'
  BY <1>2, <1>3, <1>4 DEF IInv, NilOnlyAfterClose
<1>12. Talk'
  BY <1>2, <1>3, <1>4 DEF IInv, Talk
<1> QED
  BY <1>7, <1>8, <1>9, <1>10, <1>11, <1>12 DEF IInv

LEMMA EnsureStep ==
    ASSUME IInv, NEW g \in Caller, Ensure(g)
    PROVE  IInv'
<1>1. CASE inited
  <2>1. Ensured(FALSE) \in CallState /\ Ensured(FALSE).pc = "ensured"
    BY EnsuredState
  <2>3. call[g].pc = "ensure"
    BY DEF Ensure, Ensuring
  <2>2. inst # NoProcess
    BY <1>1 DEF IInv, Books
  <2> QED
    BY <1>1, <2>1, <2>2, <2>3, OutsideConn DEF Ensure
<1>2. CASE ~inited /\ Goto(g, Idle) /\ UNCHANGED <<server, proc>>
  <2>1. Idle \in CallState /\ Idle.pc = "idle" /\ call[g].pc = "ensure"
    BY DEF CallState, Idle, Ensure, Ensuring
  <2> QED
    BY <1>2, <2>1, OutsideConn DEF Ensure
<1>3. CASE /\ ~inited
           /\ Unused # {}
           /\ proc' = [proc EXCEPT ![Launched] = "running"]
           /\ Goto(g, Sending(Launched, "handshake"))
           /\ mu' = g
           /\ UNCHANGED <<inited, inst>>
  BY <1>3, LaunchStep DEF Ensure
<1> QED
  BY <1>1, <1>2, <1>3 DEF Ensure

LEMMA ReadConnStep ==
    ASSUME IInv, NEW g \in Caller, ReadConn(g)
    PROVE  IInv'
<1>1. CASE inst = NoProcess
  <2>1. Idle \in CallState /\ Idle.pc = "idle"
    BY DEF CallState, Idle
  <2> QED
    BY <1>1, <2>1, OutsideConn DEF ReadConn
<1>2. CASE inst # NoProcess
  <2>1. inst \in Process
    BY <1>2 DEF IInv, TypeOK
  <2>2. /\ Sending(inst, "tools") \in CallState
        /\ Sending(inst, "tools").pc = "send"
        /\ Sending(inst, "tools").conn = inst
        /\ Sending(inst, "tools").in = "tools"
    BY <2>1, CallStates DEF Place
  <2>3. /\ call' \in [Caller -> CallState]
        /\ call'[g] = Sending(inst, "tools")
        /\ \A h \in Caller : h # g => call'[h] = call[h]
    BY <1>2, <2>2, Moved DEF IInv, ReadConn
  <2>4. /\ UNCHANGED <<mu, inited, inst, proc, cmu, lastId, asked, lines, greeted, closing>>
        /\ call[g].pc = "ensured"
    BY DEF ReadConn, server, conns
  <2>5. /\ ~Handshaking(g) /\ ~Handshaking(g)'
        /\ \A h \in Caller : Handshaking(h)' <=> Handshaking(h)
        /\ \A h \in Caller : h # g => (InConn(h)' <=> InConn(h))
    BY <2>2, <2>3, <2>4 DEF InConn, Handshaking
  <2>6. TypeOK'
    <3>1. \A h \in Caller : call'[h].pc = "wait" => cmu'[call'[h].conn] = h
      BY <2>2, <2>3, <2>4 DEF IInv, TypeOK
    <3> QED
      BY <3>1, <2>3, <2>4, <2>5 DEF IInv, TypeOK
  <2>7. Books'
    BY <2>4, <2>5 DEF IInv, Books
  <2>8. Known'
    <3>1. Handshaken' = Handshaken
      BY <2>3, <2>4, <2>5 DEF Handshaken
    <3> QED
      BY <3>1, <2>4 DEF IInv, Known, Running
  <2>9. Served' /\ HandshakeFirst'
    BY <1>2, <2>2, <2>3, <2>4, <2>5 DEF IInv, Served, ServedBy, Begun, HandshakeFirst
  <2>10. NilOnlyAfterClose'
    BY <2>2, <2>3, <2>4 DEF IInv, NilOnlyAfterClose
  <2>11. Talk'
    BY <2>2, <2>3, <2>4 DEF IInv, Talk
  <2> QED
    BY <2>6, <2>7, <2>8, <2>9, <2>10, <2>11 DEF IInv
<1> QED
  BY <1>1, <1>2

(* What is still unread is about something that was asked. *)
LEMMA UnreadAsked ==
    ASSUME Talk, OnlyRead, UNCHANGED asked
    PROVE  \A p \in Process : \A n \in 1..Len(lines'[p]) :
              lines'[p][n].about = Self \/ lines'[p][n] \in asked'[p]
<1>1. TAKE p \in Process
<1>2. TAKE n \in 1..Len(lines'[p])
<1>3. PICK m \in 1..Len(lines[p]) : lines'[p][n] = lines[p][m]
  BY DEF OnlyRead
<1>4. lines[p][m].about = Self \/ lines[p][m] \in asked[p]
  BY DEF Talk
<1> QED
  BY <1>3, <1>4

(* conn.call fails: the caller is out of it, the other waiting callers keep
   their connections, and a handshake's process is stopped. *)
LEMMA FailStep ==
    ASSUME IInv, NEW g \in Caller, call[g].pc \in {"send", "wait"}, Fail(g),
           cmu' \in [Process -> Caller \union {Unlocked}],
           \A h \in Caller : h # g /\ call[h].pc = "wait" => cmu'[call[h].conn] = h,
           lastId' \in [Process -> Nat],
           \A p \in Process : lastId'[p] >= lastId[p],
           OnlyRead,
           UNCHANGED <<inited, inst, asked, greeted, closing>>
    PROVE  IInv'
<1> DEFINE p == call[g].conn
<1>1. p \in Process /\ InConn(g)
  BY Callers, CallFields DEF IInv, InConn
<1>2. Idle \in CallState /\ Idle.pc = "idle"
  BY DEF CallState, Idle
<1>3. /\ call' \in [Caller -> CallState]
      /\ call'[g] = Idle
      /\ \A h \in Caller : h # g => call'[h] = call[h]
  BY <1>2, Moved DEF IInv, Fail
<1>4. /\ ~InConn(g)' /\ ~Handshaking(g)'
      /\ \A h \in Caller : h # g => (InConn(h)' <=> InConn(h))
      /\ \A h \in Caller : h # g => (Handshaking(h)' <=> Handshaking(h))
  BY <1>2, <1>3 DEF InConn, Handshaking
<1>5. /\ proc' \in [Process -> {"unused", "running", "exited", "stopped"}]
      /\ \A q \in Process : proc'[q] = proc[q] \/ proc'[q] = "stopped"
      /\ Handshaking(g) => proc'[p] = "stopped"
  BY <1>1 DEF Fail, IInv, TypeOK
<1> HIDE DEF p
<1>6. TypeOK'
  <2>1. \A h \in Caller : Handshaking(h)' => mu' = h
    BY <1>4 DEF IInv, TypeOK, Fail
  <2>2. \A h \in Caller : call'[h].pc = "wait" => cmu'[call'[h].conn] = h
    BY <1>2, <1>3
  <2>3. mu' \in Caller \union {Unlocked}
    BY DEF IInv, TypeOK, Fail
  <2> QED
    BY <2>1, <2>2, <2>3, <1>3, <1>5 DEF IInv, TypeOK, OnlyRead
<1>7. Books'
  BY <1>4 DEF IInv, Books
<1>8. Known'
  <2>1. SUFFICES ASSUME NEW q \in Process, proc'[q] = "running"
                 PROVE  q = inst \/ q \in Handshaken'
    BY DEF Known, Running
  <2>2. proc[q] = "running"
    BY <1>5, <2>1
  <2>3. q = inst \/ q \in Handshaken
    BY <2>2 DEF IInv, Known, Running
  <2>4. ASSUME NEW h \in Caller, Handshaking(h), q = call[h].conn
        PROVE  q \in Handshaken'
    <3>1. h # g
      BY <1>5, <2>1, <2>4 DEF p
    <3> QED
      BY <3>1, <1>3, <1>4, <2>4 DEF Handshaken
  <2> QED
    BY <2>3, <2>4 DEF Handshaken
<1>9. Served' /\ HandshakeFirst'
  <2>1. \A q \in Process : ServedBy(q) => ServedBy(q)'
    BY <1>5 DEF ServedBy
  <2>2. \A h \in Caller : InConn(h) => call[h].conn \in Process
    BY Callers, CallFields DEF IInv, InConn
  <2>3. inst # NoProcess => inst \in Process
    BY DEF IInv, TypeOK
  <2>4. \A q \in Process : Begun(q) => Begun(q)'
    BY <1>5 DEF Begun
  <2>5. \A h \in Caller : Handshaking(h)' => Begun(call[h].conn)'
    BY <1>3, <1>4, <2>2, <2>4 DEF IInv, Served, Handshaking
  <2> QED
    BY <1>2, <1>3, <1>4, <2>1, <2>2, <2>3, <2>5 DEF IInv, Served, HandshakeFirst
<1>10. NilOnlyAfterClose'
  BY <1>2, <1>3 DEF IInv, NilOnlyAfterClose
<1>11. Talk'
  <2>1. \A q \in Process : \A r \in asked[q] : r.id \in Nat
    BY DEF IInv, TypeOK, Line
  <2>2. \A q \in Process : lastId[q] \in Nat
    BY DEF IInv, TypeOK
  <2>3. \A q \in Process : \A r \in asked'[q] : r.id <= lastId'[q]
    BY <2>1, <2>2 DEF IInv, Talk
  <2>4. \A q \in Process : \A n \in 1..Len(lines'[q]) :
            lines'[q][n].about = Self \/ lines'[q][n] \in asked'[q]
    BY UnreadAsked DEF IInv
  <2> QED
    BY <2>3, <2>4, <1>2, <1>3 DEF IInv, Talk
<1> QED
  BY <1>6, <1>7, <1>8, <1>9, <1>10, <1>11 DEF IInv

LEMMA ReadsOnly ==
    ASSUME TypeOK, NEW p \in Process,
           \/ UNCHANGED lines
           \/ lines[p] # <<>> /\ lines' = [lines EXCEPT ![p] = Tail(@)]
    PROVE  OnlyRead
<1>1. lines \in [Process -> Seq(Line)]
  BY DEF TypeOK
<1>2. CASE UNCHANGED lines
  BY <1>1, <1>2 DEF OnlyRead
<1>3. CASE lines[p] # <<>> /\ lines' = [lines EXCEPT ![p] = Tail(@)]
  <2>1. /\ lines[p] \in Seq(Line)
        /\ Tail(lines[p]) \in Seq(Line)
        /\ Len(Tail(lines[p])) = Len(lines[p]) - 1
        /\ \A n \in 1..Len(Tail(lines[p])) : Tail(lines[p])[n] = lines[p][n + 1]
    BY <1>1, <1>3
  <2>2. /\ lines' \in [Process -> Seq(Line)]
        /\ lines'[p] = Tail(lines[p])
        /\ \A q \in Process : q # p => lines'[q] = lines[q]
    BY <1>1, <1>3, <2>1
  <2>3. \A n \in 1..Len(lines'[p]) : n + 1 \in 1..Len(lines[p])
    BY <2>1, <2>2
  <2>4. \A n \in 1..Len(lines'[p]) : \E m \in 1..Len(lines[p]) : lines'[p][n] = lines[p][m]
    BY <2>1, <2>2, <2>3
  <2> QED
    BY <2>2, <2>4 DEF OnlyRead
<1> QED
  BY <1>2, <1>3

(* conn.call succeeds: the caller is done with a tools method, or will notify
   the process it has shaken hands with. *)
LEMMA SucceedStep ==
    ASSUME IInv, NEW g \in Caller, call[g].pc = "wait", Succeed(g),
           cmu' = [cmu EXCEPT ![call[g].conn] = Unlocked],
           OnlyRead,
           UNCHANGED <<inited, inst, lastId, asked, greeted, closing>>
    PROVE  IInv'
<1> DEFINE p == call[g].conn
<1> DEFINE c == IF Handshaking(g) THEN Notifying(p) ELSE Idle
<1>1. p \in Process /\ InConn(g) /\ cmu[p] = g
  BY Callers, CallFields DEF IInv, InConn, TypeOK
<1>2. /\ c \in CallState
      /\ Handshaking(g) => c.pc = "notify" /\ c.conn = p /\ c.in = "handshake"
      /\ ~Handshaking(g) => c.pc = "idle"
  BY <1>1 DEF CallState, Idle, Notifying
<1>3. /\ call' \in [Caller -> CallState]
      /\ call'[g] = c
      /\ \A h \in Caller : h # g => call'[h] = call[h]
  BY <1>2, Moved DEF IInv, Succeed
<1> HIDE DEF p, c
<1>4. /\ \A h \in Caller : Handshaking(h)' <=> Handshaking(h)
      /\ \A h \in Caller : h # g => (InConn(h)' <=> InConn(h))
      /\ InConn(g)' => Handshaking(g)
  BY <1>2, <1>3 DEF InConn, Handshaking
<1>5. UNCHANGED proc
  BY DEF Succeed
<1>6. TypeOK'
  <2>1. \A h \in Caller : Handshaking(h)' => mu' = h
    BY <1>4 DEF IInv, TypeOK, Succeed
  <2>2. \A h \in Caller : call'[h].pc = "wait" => cmu'[call'[h].conn] = h
    <3>1. SUFFICES ASSUME NEW h \in Caller, call'[h].pc = "wait"
                   PROVE  cmu'[call'[h].conn] = h
      OBVIOUS
    <3>2. h # g /\ call'[h] = call[h]
      BY <3>1, <1>2, <1>3
    <3>3. call[h].conn \in Process /\ cmu[call[h].conn] = h
      BY <3>1, <3>2, Callers, CallFields DEF IInv, TypeOK
    <3>4. call[h].conn # p
      BY <3>2, <3>3, <1>1
    <3> QED
      BY <3>2, <3>3, <3>4, <1>1 DEF p, IInv, TypeOK
  <2>3. mu' \in Caller \union {Unlocked}
    BY DEF IInv, TypeOK, Succeed
  <2>4. cmu' \in [Process -> Caller \union {Unlocked}]
    BY DEF IInv, TypeOK
  <2> QED
    BY <2>1, <2>2, <2>3, <2>4, <1>3, <1>5 DEF IInv, TypeOK, OnlyRead
<1>7. Books'
  BY <1>4 DEF IInv, Books
<1>8. Known'
  <2>1. \A h \in Caller : Handshaking(h) => call'[h].conn = call[h].conn
    BY <1>2, <1>3 DEF p
  <2>2. Handshaken' = Handshaken
    BY <2>1, <1>4 DEF Handshaken
  <2> QED
    BY <2>2, <1>5 DEF IInv, Known, Running
<1>9. Served' /\ HandshakeFirst'
  <2>1. \A h \in Caller : Handshaking(h)' => Begun(call[h].conn)'
    BY <1>2, <1>3, <1>4, <1>5 DEF IInv, Served, Begun, p
  <2> QED
    BY <1>2, <1>3, <1>4, <1>5, <2>1 DEF IInv, Served, ServedBy, Begun, HandshakeFirst
<1>10. NilOnlyAfterClose'
  BY <1>2, <1>3 DEF IInv, NilOnlyAfterClose
<1>11. Talk'
  <2>1. \A q \in Process : \A n \in 1..Len(lines'[q]) :
            lines'[q][n].about = Self \/ lines'[q][n] \in asked'[q]
    BY UnreadAsked DEF IInv
  <2> QED
    BY <2>1, <1>2, <1>3 DEF IInv, Talk
<1> QED
  BY <1>6, <1>7, <1>8, <1>9, <1>10, <1>11 DEF IInv

(* A line is dropped: nobody moves. *)
LEMMA DropStep ==
    ASSUME IInv, OnlyRead,
           UNCHANGED <<server, proc, cmu, lastId, asked, greeted, call, closing>>
    PROVE  IInv'
<1>1. /\ UNCHANGED <<mu, inited, inst, proc, cmu, lastId, asked, greeted, call, closing>>
      /\ \A h \in Caller : (InConn(h)' <=> InConn(h)) /\ (Handshaking(h)' <=> Handshaking(h))
  BY DEF server, InConn, Handshaking
<1>2. TypeOK'
  BY <1>1 DEF IInv, TypeOK, OnlyRead
<1>3. Books' /\ Served' /\ HandshakeFirst' /\ NilOnlyAfterClose'
  BY <1>1 DEF IInv, Books, Served, ServedBy, Begun, HandshakeFirst, NilOnlyAfterClose
<1>4. Known'
  <2>1. Handshaken' = Handshaken
    BY <1>1 DEF Handshaken
  <2> QED
    BY <2>1, <1>1 DEF IInv, Known, Running
<1>5. Talk'
  <2>1. \A q \in Process : \A n \in 1..Len(lines'[q]) :
            lines'[q][n].about = Self \/ lines'[q][n] \in asked'[q]
    BY <1>1, UnreadAsked DEF IInv
  <2> QED
    BY <2>1, <1>1 DEF IInv, Talk
<1> QED
  BY <1>2, <1>3, <1>4, <1>5 DEF IInv

(* The connection of a waiting caller is its own. *)
LEMMA OwnConn ==
    ASSUME IInv, NEW g \in Caller, NEW h \in Caller, g # h,
           call[g].pc = "wait", call[h].pc = "wait"
    PROVE  call[g].conn # call[h].conn
BY DEF IInv, TypeOK

LEMMA ReadStep ==
    ASSUME IInv, NEW g \in Caller, Read(g)
    PROVE  IInv'
<1> DEFINE p == call[g].conn
<1>1. p \in Process /\ call[g].pc = "wait"
  BY Callers, CallFields DEF IInv, Read
<1>2. OnlyRead
  BY <1>1, ReadsOnly DEF IInv, Read
<1>3. UNCHANGED <<inited, inst, lastId, asked, greeted, closing>>
  BY DEF Read
<1>4. ASSUME cmu' = [cmu EXCEPT ![p] = Unlocked]
      PROVE  /\ cmu' \in [Process -> Caller \union {Unlocked}]
             /\ \A h \in Caller : h # g /\ call[h].pc = "wait" => cmu'[call[h].conn] = h
  <2>1. cmu' \in [Process -> Caller \union {Unlocked}]
    BY <1>4 DEF IInv, TypeOK
  <2>2. ASSUME NEW h \in Caller, h # g, call[h].pc = "wait"
        PROVE  cmu'[call[h].conn] = h
    <3>1. call[h].conn \in Process /\ call[h].conn # p
      BY <2>2, <1>1, OwnConn, Callers, CallFields DEF IInv
    <3>2. cmu[call[h].conn] = h
      BY <2>2 DEF IInv, TypeOK
    <3> QED
      BY <3>1, <3>2, <1>4 DEF IInv, TypeOK
  <2> QED
    BY <2>1, <2>2
<1>5. CASE Succeed(g) /\ cmu' = [cmu EXCEPT ![p] = Unlocked]
  BY <1>1, <1>2, <1>3, <1>5, SucceedStep
<1>6. CASE Fail(g) /\ cmu' = [cmu EXCEPT ![p] = Unlocked]
  <2>1. /\ lastId' \in [Process -> Nat]
        /\ \A q \in Process : lastId'[q] >= lastId[q]
    BY <1>3 DEF IInv, TypeOK
  <2> QED
    BY <1>1, <1>2, <1>3, <1>4, <1>6, <2>1, FailStep
<1>7. CASE UNCHANGED <<mu, proc, cmu, call>>
  BY <1>2, <1>3, <1>7, DropStep DEF server
<1> QED
  BY <1>5, <1>6, <1>7 DEF Read

LEMMA SendStep ==
    ASSUME IInv, NEW g \in Caller, Send(g)
    PROVE  IInv'
<1> DEFINE p == call[g].conn
<1> DEFINE in == call[g].in
<1> DEFINE id == lastId[p] + 1
<1>1. /\ p \in Process /\ in \in Place /\ id \in Nat
      /\ call[g].pc = "send" /\ InConn(g)
      /\ cmu[p] = Unlocked
  BY Callers, CallFields DEF IInv, TypeOK, Send, InConn
<1>2. /\ lastId' = [lastId EXCEPT ![p] = id]
      /\ lastId' \in [Process -> Nat]
      /\ \A q \in Process : lastId'[q] >= lastId[q]
  BY <1>1 DEF Send, IInv, TypeOK
<1>3. UNCHANGED <<inited, inst, lines, greeted, closing>>
  BY DEF Send
<1>4. \A h \in Caller : call[h].pc = "wait" => call[h].conn # p /\ cmu[call[h].conn] = h
  BY <1>1, SandboxAssumption DEF IInv, TypeOK
<1>5. CASE Fail(g) /\ UNCHANGED <<cmu, asked>>
  <2>1. OnlyRead
    BY <1>1, <1>3, ReadsOnly DEF IInv
  <2>2. cmu' \in [Process -> Caller \union {Unlocked}]
    BY <1>5 DEF IInv, TypeOK
  <2> QED
    BY <1>1, <1>2, <1>3, <1>4, <1>5, <2>1, <2>2, FailStep
<1>6. CASE /\ proc[p] = "running"
           /\ cmu' = [cmu EXCEPT ![p] = g]
           /\ asked' = [asked EXCEPT ![p] = @ \union {[id |-> id, about |-> g]}]
           /\ Goto(g, Waiting(p, in, id))
           /\ UNCHANGED <<mu, proc>>
  <2>1. /\ Waiting(p, in, id) \in CallState
        /\ Waiting(p, in, id).pc = "wait"
        /\ Waiting(p, in, id).conn = p
        /\ Waiting(p, in, id).in = in
        /\ Waiting(p, in, id).id = id
    BY <1>1, CallStates
  <2>2. /\ call' \in [Caller -> CallState]
        /\ call'[g] = Waiting(p, in, id)
        /\ \A h \in Caller : h # g => call'[h] = call[h]
    BY <1>6, <2>1, Moved DEF IInv
  <2>3. /\ cmu' \in [Process -> Caller \union {Unlocked}]
        /\ cmu'[p] = g
        /\ \A q \in Process : q # p => cmu'[q] = cmu[q]
    BY <1>1, <1>6 DEF IInv, TypeOK
  <2>4. /\ asked' \in [Process -> SUBSET Line]
        /\ asked'[p] = asked[p] \union {[id |-> id, about |-> g]}
        /\ \A q \in Process : q # p => asked'[q] = asked[q]
    <3>1. [id |-> id, about |-> g] \in Line
      BY <1>1 DEF Line
    <3> QED
      BY <3>1, <1>1, <1>6 DEF IInv, TypeOK
  <2> HIDE DEF p, in, id
  <2>5. \A h \in Caller : (InConn(h)' <=> InConn(h)) /\ (Handshaking(h)' <=> Handshaking(h))
    BY <1>1, <2>1, <2>2 DEF InConn, Handshaking, in
  <2>6. TypeOK'
    <3>1. \A h \in Caller : call'[h].pc = "wait" => cmu'[call'[h].conn] = h
      <4>1. SUFFICES ASSUME NEW h \in Caller, call'[h].pc = "wait"
                     PROVE  cmu'[call'[h].conn] = h
        OBVIOUS
      <4>2. CASE h = g
        BY <4>2, <2>1, <2>2, <2>3
      <4>3. CASE h # g
        <5>1. call[h].conn \in Process
          BY <4>1, <4>3, <2>2, Callers, CallFields DEF IInv
        <5> QED
          BY <5>1, <4>1, <4>3, <1>4, <2>2, <2>3
      <4> QED
        BY <4>2, <4>3
    <3> QED
      BY <3>1, <1>2, <1>3, <1>6, <2>2, <2>3, <2>4, <2>5 DEF IInv, TypeOK
  <2>7. Books'
    BY <1>3, <2>5 DEF IInv, Books
  <2>8. Known'
    <3>1. \A h \in Caller : Handshaking(h) => call'[h].conn = call[h].conn
      BY <2>1, <2>2 DEF p
    <3>2. Handshaken' = Handshaken
      BY <3>1, <2>5 DEF Handshaken
    <3> QED
      BY <3>2, <1>3, <1>6 DEF IInv, Known, Running
  <2>9. Served' /\ HandshakeFirst'
    <3>1. in = "tools" => p \in greeted
      BY <1>1, <1>6 DEF IInv, Served, ServedBy, in, p
    <3> QED
      BY <3>1, <1>3, <1>6, <2>1, <2>2, <2>5 DEF IInv, Served, ServedBy, Begun, HandshakeFirst
  <2>10. NilOnlyAfterClose'
    BY <1>3, <2>1, <2>2 DEF IInv, NilOnlyAfterClose
  <2>11. Talk'
    <3>1. \A r \in asked[p] : r.id \in Nat /\ r.id <= lastId[p]
      BY <1>1 DEF IInv, TypeOK, Talk, Line
    <3>2. lastId[p] \in Nat /\ lastId'[p] = id /\ id = lastId[p] + 1
      BY <1>1, <1>2 DEF IInv, TypeOK, id
    <3>3. \A q \in Process : \A r \in asked'[q] : r.id <= lastId'[q]
      BY <3>1, <3>2, <1>1, <1>2, <2>4 DEF IInv, Talk, TypeOK
    <3>4. \A q \in Process : \A r, s \in asked'[q] : r.id = s.id => r = s
      BY <3>1, <3>2, <2>4 DEF IInv, Talk
    <3>5. \A q \in Process : asked[q] \subseteq asked'[q]
      BY <2>4
    <3>6. \A q \in Process : \A n \in 1..Len(lines'[q]) :
              lines'[q][n].about = Self \/ lines'[q][n] \in asked'[q]
      BY <3>5, <1>3 DEF IInv, Talk
    <3>7. \A h \in Caller : call'[h].pc = "wait" =>
              [id |-> call'[h].id, about |-> h] \in asked'[call'[h].conn]
      <4>1. SUFFICES ASSUME NEW h \in Caller, call'[h].pc = "wait"
                     PROVE  [id |-> call'[h].id, about |-> h] \in asked'[call'[h].conn]
        OBVIOUS
      <4>2. CASE h = g
        BY <4>2, <2>1, <2>2, <2>4
      <4>3. CASE h # g
        <5>1. call'[h] = call[h] /\ call[h].conn \in Process
          BY <4>1, <4>3, <2>2, Callers, CallFields DEF IInv
        <5> QED
          BY <5>1, <4>1, <3>5 DEF IInv, Talk
      <4> QED
        BY <4>2, <4>3
    <3> QED
      BY <3>3, <3>4, <3>6, <3>7 DEF Talk
  <2> QED
    BY <2>6, <2>7, <2>8, <2>9, <2>10, <2>11 DEF IInv
<1> QED
  BY <1>5, <1>6 DEF Send

LEMMA NotifyStep ==
    ASSUME IInv, NEW g \in Caller, Notify(g)
    PROVE  IInv'
<1> DEFINE p == call[g].conn
<1>1. /\ p \in Process /\ call[g].pc = "notify" /\ Handshaking(g)
      /\ mu = g /\ ~inited /\ inst = NoProcess
  BY Callers, CallFields DEF IInv, TypeOK, Books, Notify, InConn, Handshaking
<1>2. Ensured(FALSE) \in CallState /\ Ensured(FALSE).pc = "ensured"
  BY EnsuredState
<1>3. /\ call' \in [Caller -> CallState]
      /\ call'[g] = Ensured(FALSE)
      /\ \A h \in Caller : h # g => call'[h] = call[h]
  BY <1>2, Moved DEF IInv, Notify
<1>4. /\ UNCHANGED <<proc, cmu, lastId, asked, lines, closing>>
      /\ inst' = p /\ inited' = TRUE /\ mu' = Unlocked
      /\ greeted' = IF proc[p] = "running" THEN greeted \union {p} ELSE greeted
  BY DEF Notify
<1> HIDE DEF p
<1>5. /\ \A h \in Caller : ~Handshaking(h)'
      /\ \A h \in Caller : h # g => (InConn(h)' <=> InConn(h))
      /\ ~InConn(g)'
      /\ \A h \in Caller : h # g => ~Handshaking(h)
  <2>1. \A h \in Caller : h # g => ~Handshaking(h)
    BY <1>1 DEF IInv, TypeOK
  <2> QED
    BY <2>1, <1>2, <1>3 DEF InConn, Handshaking
<1>6. proc[p] \in {"running", "exited", "stopped"}
  BY <1>1 DEF p, IInv, TypeOK, Served, Begun
<1>7. TypeOK'
  BY <1>1, <1>2, <1>3, <1>4, <1>5 DEF IInv, TypeOK
<1>8. Books'
  BY <1>1, <1>4, <1>5, SandboxAssumption DEF Books
<1>9. Known'
  <2>1. Handshaken = {p}
    BY <1>1, <1>5 DEF Handshaken, p
  <2> QED
    BY <2>1, <1>1, <1>4, SandboxAssumption DEF IInv, Known, Running
<1>10. Served' /\ HandshakeFirst'
  BY <1>1, <1>2, <1>3, <1>4, <1>5, <1>6 DEF IInv, Served, ServedBy, Begun, HandshakeFirst
<1>11. NilOnlyAfterClose'
  BY <1>1, <1>4, SandboxAssumption DEF NilOnlyAfterClose
<1>12. Talk'
  BY <1>2, <1>3, <1>4 DEF IInv, Talk
<1> QED
  BY <1>7, <1>8, <1>9, <1>10, <1>11, <1>12 DEF IInv

LEMMA CallCloseStep ==
    ASSUME IInv, NEW k \in Closer, CallClose(k)
    PROVE  IInv'
<1>1. /\ UNCHANGED <<mu, inited, inst, proc, cmu, lastId, asked, lines, greeted, call>>
      /\ closing' = closing \union {k}
      /\ \A h \in Caller : (InConn(h)' <=> InConn(h)) /\ (Handshaking(h)' <=> Handshaking(h))
  BY DEF CallClose, server, conns, InConn, Handshaking
<1>2. TypeOK'
  BY <1>1 DEF IInv, TypeOK
<1>3. Handshaken' = Handshaken
  BY <1>1 DEF Handshaken
<1>4. Books' /\ Known' /\ Served' /\ HandshakeFirst' /\ NilOnlyAfterClose' /\ Talk'
  BY <1>1, <1>3 DEF IInv, Books, Known, Running, Served, ServedBy, Begun, HandshakeFirst,
                    NilOnlyAfterClose, Talk
<1> QED
  BY <1>2, <1>4 DEF IInv

(* Close: nobody is in a handshake, so the process it stops is the only one. *)
LEMMA CloseStep ==
    ASSUME IInv, NEW k \in Closer, Close(k)
    PROVE  IInv'
<1>1. /\ UNCHANGED <<mu, cmu, lastId, asked, lines, greeted>>
      /\ mu = Unlocked /\ mu \notin Caller
      /\ closing' = closing \ {k}
      /\ inst' = NoProcess
      /\ inited' = (inited /\ inst = NoProcess)
      /\ proc' = [q \in Process |-> IF q = inst THEN "stopped" ELSE proc[q]]
      /\ call' = [h \in Caller |-> IF call[h].pc = "ensured" /\ inst # NoProcess
                                    THEN Ensured(TRUE) ELSE call[h]]
  BY SandboxAssumption DEF Close, conns
<1>2. /\ Ensured(TRUE) \in CallState
      /\ Ensured(TRUE).pc = "ensured"
      /\ Ensured(TRUE).closed = TRUE
  BY EnsuredState
<1>3. /\ call' \in [Caller -> CallState]
      /\ \A h \in Caller : \/ call'[h] = call[h]
                           \/ call[h].pc = "ensured" /\ call'[h] = Ensured(TRUE)
  BY <1>1, <1>2 DEF IInv, TypeOK
<1>4. /\ \A h \in Caller : ~Handshaking(h)
      /\ \A h \in Caller : ~Handshaking(h)'
      /\ \A h \in Caller : InConn(h)' => InConn(h) /\ call'[h] = call[h]
  BY <1>1, <1>2, <1>3 DEF IInv, TypeOK, InConn, Handshaking
<1>5. /\ proc' \in [Process -> {"unused", "running", "exited", "stopped"}]
      /\ \A q \in Process : q # inst => proc'[q] = proc[q]
      /\ \A q \in Process : q = inst => proc'[q] = "stopped"
  BY <1>1 DEF IInv, TypeOK
<1>6. TypeOK'
  <2>1. \A h \in Caller : call'[h].pc = "wait" => cmu'[call'[h].conn] = h
    BY <1>1, <1>2, <1>3 DEF IInv, TypeOK
  <2> QED
    BY <2>1, <1>1, <1>3, <1>4, <1>5 DEF IInv, TypeOK
<1>7. Books'
  BY <1>1, <1>4 DEF IInv, Books
<1>8. Known'
  BY <1>4, <1>5 DEF IInv, Known, Running, Handshaken
<1>9. Served' /\ HandshakeFirst'
  <2>1. \A q \in Process : ServedBy(q) => ServedBy(q)'
    BY <1>1, <1>5 DEF ServedBy
  <2>2. \A h \in Caller : InConn(h) => call[h].conn \in Process
    BY Callers, CallFields DEF IInv, InConn
  <2>3. Served'
    BY <1>1, <1>4, <2>1, <2>2 DEF IInv, Served
  <2>4. HandshakeFirst'
    BY <1>1, <1>2, <1>3 DEF IInv, HandshakeFirst
  <2> QED
    BY <2>3, <2>4
<1>10. NilOnlyAfterClose'
  BY <1>1, <1>2, <1>3 DEF IInv, NilOnlyAfterClose
<1>11. Talk'
  BY <1>1, <1>2, <1>3 DEF IInv, Talk
<1> QED
  BY <1>6, <1>7, <1>8, <1>9, <1>10, <1>11 DEF IInv

(* A process writes a line, about something it was asked or its own. *)
LEMMA WriteStep ==
    ASSUME IInv, NEW p \in Process, NEW r \in Line,
           r.about = Self \/ r \in asked[p],
           lines' = [lines EXCEPT ![p] = Append(@, r)],
           UNCHANGED <<server, proc, cmu, lastId, asked, greeted, call, closing>>
    PROVE  IInv'
<1>1. /\ UNCHANGED <<mu, inited, inst, proc, cmu, lastId, asked, greeted, call, closing>>
      /\ \A h \in Caller : (InConn(h)' <=> InConn(h)) /\ (Handshaking(h)' <=> Handshaking(h))
  BY DEF server, InConn, Handshaking
<1>2. /\ lines[p] \in Seq(Line)
      /\ lines'[p] = Append(lines[p], r)
      /\ lines' \in [Process -> Seq(Line)]
      /\ \A q \in Process : q # p => lines'[q] = lines[q]
  BY DEF IInv, TypeOK
<1>3. TypeOK'
  BY <1>1, <1>2 DEF IInv, TypeOK
<1>4. Books' /\ Served' /\ HandshakeFirst' /\ NilOnlyAfterClose'
  BY <1>1 DEF IInv, Books, Served, ServedBy, Begun, HandshakeFirst, NilOnlyAfterClose
<1>5. Known'
  <2>1. Handshaken' = Handshaken
    BY <1>1 DEF Handshaken
  <2> QED
    BY <2>1, <1>1 DEF IInv, Known, Running
<1>6. Talk'
  <2>1. ASSUME NEW q \in Process, NEW n \in 1..Len(lines'[q])
        PROVE  lines'[q][n].about = Self \/ lines'[q][n] \in asked'[q]
    <3>1. CASE q = p /\ n = Len(lines[p]) + 1
      BY <3>1, <1>1, <1>2
    <3>2. CASE q = p /\ n # Len(lines[p]) + 1
      <4>1. n \in 1..Len(lines[p]) /\ lines'[q][n] = lines[q][n]
        BY <3>2, <1>2
      <4> QED
        BY <4>1, <3>2, <1>1 DEF IInv, Talk
    <3>3. CASE q # p
      BY <3>3, <1>1, <1>2 DEF IInv, Talk
    <3> QED
      BY <3>1, <3>2, <3>3
  <2> QED
    BY <2>1, <1>1 DEF IInv, Talk
<1> QED
  BY <1>3, <1>4, <1>5, <1>6 DEF IInv

LEMMA AnswerStep ==
    ASSUME IInv, NEW p \in Process, Answer(p)
    PROVE  IInv'
<1>1. PICK r \in asked[p] : lines' = [lines EXCEPT ![p] = Append(@, r)]
  BY DEF Answer
<1>2. r \in Line
  BY DEF IInv, TypeOK
<1> QED
  BY <1>1, <1>2, WriteStep DEF Answer

LEMMA AskStep ==
    ASSUME IInv, NEW p \in Process, Ask(p)
    PROVE  IInv'
<1>1. PICK id \in Id : lines' = [lines EXCEPT ![p] = Append(@, [id |-> id, about |-> Self])]
  BY DEF Ask
<1>2. [id |-> id, about |-> Self] \in Line
  BY SandboxAssumption DEF Line, Id
<1> QED
  BY <1>1, <1>2, WriteStep DEF Ask

LEMMA ExitStep ==
    ASSUME IInv, NEW p \in Process, Exit(p)
    PROVE  IInv'
<1>1. /\ UNCHANGED <<mu, inited, inst, cmu, lastId, asked, lines, greeted, call, closing>>
      /\ \A h \in Caller : (InConn(h)' <=> InConn(h)) /\ (Handshaking(h)' <=> Handshaking(h))
  BY DEF Exit, server, conns, InConn, Handshaking
<1>2. /\ proc' \in [Process -> {"unused", "running", "exited", "stopped"}]
      /\ \A q \in Process : proc'[q] = proc[q] \/ proc'[q] = "exited"
  BY DEF Exit, IInv, TypeOK
<1>3. TypeOK'
  BY <1>1, <1>2 DEF IInv, TypeOK
<1>4. Books' /\ NilOnlyAfterClose' /\ HandshakeFirst'
  BY <1>1 DEF IInv, Books, NilOnlyAfterClose, HandshakeFirst
<1>5. Known'
  <2>1. Handshaken' = Handshaken
    BY <1>1 DEF Handshaken
  <2> QED
    BY <2>1, <1>1, <1>2 DEF IInv, Known, Running
<1>6. Served'
  <2>1. \A q \in Process : (ServedBy(q) => ServedBy(q)') /\ (Begun(q) => Begun(q)')
    BY <1>1, <1>2 DEF ServedBy, Begun
  <2>2. \A h \in Caller : InConn(h) => call[h].conn \in Process
    BY Callers, CallFields DEF IInv, InConn
  <2>3. inst # NoProcess => inst \in Process
    BY DEF IInv, TypeOK
  <2> QED
    BY <2>1, <2>2, <2>3, <1>1 DEF IInv, Served, Handshaking
<1>7. Talk'
  BY <1>1 DEF IInv, Talk
<1> QED
  BY <1>3, <1>4, <1>5, <1>6, <1>7 DEF IInv

-----------------------------------------------------------------------------
(* A new server (NewServer, stdio.go:86-92) satisfies the invariant. *)
THEOREM InitIInv == Init => IInv
<1> SUFFICES ASSUME Init PROVE IInv
  OBVIOUS
<1>1. Idle \in CallState /\ Idle.pc = "idle"
  BY DEF CallState, Idle
<1>2. \A g \in Caller : call[g] = Idle /\ ~InConn(g) /\ ~Handshaking(g)
  BY <1>1 DEF Init, InConn, Handshaking
<1>3. TypeOK
  <2>1. /\ lines \in [Process -> Seq(Line)]
        /\ asked \in [Process -> SUBSET Line]
        /\ lastId \in [Process -> Nat]
        /\ call \in [Caller -> CallState]
    BY <1>1 DEF Init
  <2>2. \A g \in Caller : call[g].pc # "wait"
    BY <1>1, <1>2
  <2> QED
    BY <2>1, <2>2, <1>2 DEF Init, TypeOK
<1>4. Books /\ Known /\ Served
  BY <1>2 DEF Init, Books, Known, Running, Served
<1>5. HandshakeFirst /\ NilOnlyAfterClose /\ Talk
  BY <1>1, <1>2 DEF Init, HandshakeFirst, NilOnlyAfterClose, Talk
<1> QED
  BY <1>3, <1>4, <1>5 DEF IInv

(* Every step of callers, closers and processes keeps it: the lock, the
   handshake under it, the connection read without it, the two pipes. *)
THEOREM NextIInv == IInv /\ [Next]_vars => IInv'
<1> SUFFICES ASSUME IInv, [Next]_vars PROVE IInv'
  OBVIOUS
<1>1. CASE UNCHANGED vars
  <2>1. OnlyRead
    BY <1>1 DEF vars, OnlyRead, IInv, TypeOK
  <2> QED
    BY <1>1, <2>1, DropStep DEF vars, server
<1>2. ASSUME NEW g \in Caller, Call(g) PROVE IInv'
  BY <1>2, CallStep
<1>3. ASSUME NEW g \in Caller, Step(g) PROVE IInv'
  BY <1>3, EnsureStep, ReadConnStep, SendStep, ReadStep, NotifyStep DEF Step
<1>4. ASSUME NEW k \in Closer, CallClose(k) \/ Close(k) PROVE IInv'
  BY <1>4, CallCloseStep, CloseStep
<1>5. ASSUME NEW p \in Process, Answer(p) \/ Ask(p) \/ Exit(p) PROVE IInv'
  BY <1>5, AnswerStep, AskStep, ExitStep
<1> QED
  BY <1>1, <1>2, <1>3, <1>4, <1>5 DEF Next

(* The inductive invariant holds in every execution of the server: its fields
   agree, its processes are known and were served, its lines answer what was
   asked (stdio.go:34-68, 95-169). *)
THEOREM Invariance == Spec => []IInv
BY InitIInv, NextIInv, PTL DEF Spec

(* Types hold, a handshake's connection belongs to the holder of Server.mu, and
   whoever waits for an answer holds conn.mu (stdio.go:35-36, 95-97). *)
THEOREM TypeCorrect == Spec => []TypeOK
<1>1. IInv => TypeOK
  BY DEF IInv
<1> QED
  BY <1>1, Invariance, PTL

(* Nobody is sent a tools request before notifications/initialized, whatever
   ListTools and CallTool read without the lock (stdio.go:115-121, 130, 152). *)
THEOREM HandshakeFirstAlways == Spec => []HandshakeFirst
<1>1. IInv => HandshakeFirst
  BY DEF IInv
<1> QED
  BY <1>1, Invariance, PTL

(* ListTools and CallTool find a nil s.c after ensure only if a Close overtook
   them (stdio.go:98, 121, 130, 152, 165). *)
THEOREM NilOnlyAfterCloseAlways == Spec => []NilOnlyAfterClose
<1>1. IInv => NilOnlyAfterClose
  BY DEF IInv
<1> QED
  BY <1>1, Invariance, PTL

(* No launch, failed handshake or Close leaves a process behind: at most one
   runs, and it is the server's or the lock holder's (stdio.go:95-123,
   156-169). *)
THEOREM NoStrayAlways == Spec => []NoStray
<1>1. ASSUME IInv PROVE NoStray
  <2>1. Handshaken = {call[g].conn : g \in {h \in Caller : Handshaking(h)}}
    BY DEF Handshaken
  <2>2. PICK x : Running \subseteq {x}
    <3>1. CASE inited
      <4>1. Handshaken = {}
        BY <3>1, <1>1 DEF IInv, Books, Handshaken
      <4> QED
        BY <4>1, <1>1 DEF IInv, Known
    <3>2. CASE ~inited
      <4>1. Running \subseteq Handshaken
        BY <3>2, <1>1, SandboxAssumption DEF IInv, Books, Known, Running
      <4>2. Handshaken \subseteq {call[mu].conn}
        BY <1>1 DEF IInv, TypeOK, Handshaken
      <4> QED
        BY <4>1, <4>2
    <3> QED
      BY <3>1, <3>2
  <2>3. IsFiniteSet({x}) /\ Cardinality({x}) = 1
    BY FS_Singleton
  <2>4. Cardinality(Running) <= Cardinality({x})
    BY <2>2, <2>3, FS_Subset
  <2> QED
    BY <1>1, <2>1, <2>3, <2>4 DEF IInv, Known, NoStray
<1> QED
  BY <1>1, Invariance, PTL

(* conn.call returns the answer to its own request, or what a request of the
   process's own reads as, never what was meant for another call, however late
   or often a process answers (stdio.go:34-68). *)
THEOREM OwnAnswerAlways == Spec => OwnAnswer
<1> DEFINE Own == \A g \in Caller : \A p \in Process :
          Read(g) /\ call[g].conn = p /\ call' # call /\ lines'[p] # lines[p] =>
              LET r == Head(lines[p]) IN
              r.about = Self \/ r = [id |-> call[g].id, about |-> g]
<1>1. ASSUME IInv, Next PROVE Own
  <2>1. SUFFICES ASSUME NEW g \in Caller, NEW p \in Process,
                        Read(g), call[g].conn = p, call' # call, lines'[p] # lines[p]
                 PROVE  \/ Head(lines[p]).about = Self
                        \/ Head(lines[p]) = [id |-> call[g].id, about |-> g]
    OBVIOUS
  <2>2. /\ call[g].pc = "wait"
        /\ lines[p] # <<>>
        /\ Head(lines[p]).id = call[g].id
    BY <2>1 DEF Read
  <2>3. lines[p] \in Seq(Line)
    BY <1>1 DEF IInv, TypeOK
  <2>4. 1 \in 1..Len(lines[p]) /\ Head(lines[p]) = lines[p][1]
    BY <2>2, <2>3
  <2>5. Head(lines[p]).about = Self \/ Head(lines[p]) \in asked[p]
    BY <1>1, <2>4 DEF IInv, Talk
  <2>6. [id |-> call[g].id, about |-> g] \in asked[p]
    BY <1>1, <2>1, <2>2 DEF IInv, Talk
  <2> QED
    BY <1>1, <2>2, <2>5, <2>6 DEF IInv, Talk
<1>2. Spec => [][Own]_vars
  BY <1>1, Invariance, PTL DEF Spec
<1> QED
  BY <1>2 DEF OwnAnswer

=============================================================================

----------------------------- MODULE Lifecycle -----------------------------
(***************************************************************************)
(* What the registry promises about the instances it hands out             *)
(* (downstream.go): each is built for one server and one owner, a user or  *)
(* the organisation, is offered to that owner at most once and alone, is   *)
(* withdrawn with its server or by itself, and is closed once, while it is *)
(* not on offer.  Nothing that was withdrawn is offered again.             *)
(***************************************************************************)

CONSTANTS
    Server, Owner, Instance,
    None        \* nothing on offer

VARIABLES
    waiting,    \* instances built and not yet offered, with server and owner
    offered,    \* what each server offers each owner
    withdrawn,  \* instances that were offered and are still to be closed
    closed

life == <<waiting, offered, withdrawn, closed>>

Nothing == [o \in Owner |-> None]

LifeInit ==
    /\ waiting = {} /\ withdrawn = {} /\ closed = {}
    /\ offered = [s \in Server |-> Nothing]

OnOffer(s) == {offered[s][o] : o \in Owner} \ {None}
Used ==
    closed \union withdrawn \union {w.inst : w \in waiting} \union UNION {OnOffer(s) : s \in Server}

Build(i, s, o) ==
    /\ waiting' = waiting \union {[inst |-> i, server |-> s, owner |-> o]}
    /\ UNCHANGED <<offered, withdrawn, closed>>

(* What waits is offered where there is nothing, ... *)
Offer(w) ==
    /\ offered[w.server][w.owner] = None
    /\ waiting' = waiting \ {w}
    /\ offered' = [offered EXCEPT ![w.server][w.owner] = w.inst]
    /\ UNCHANGED <<withdrawn, closed>>

(* ... or in place of all that its server had on offer, ... *)
Replace(w) ==
    /\ waiting' = waiting \ {w}
    /\ offered' = [offered EXCEPT ![w.server] = [Nothing EXCEPT ![w.owner] = w.inst]]
    /\ withdrawn' = withdrawn \union OnOffer(w.server)
    /\ UNCHANGED closed

(* ... or was built in vain. *)
Abandon(w) ==
    /\ waiting' = waiting \ {w}
    /\ closed' = closed \union {w.inst}
    /\ UNCHANGED <<offered, withdrawn>>

Clear(s) ==
    /\ offered' = [offered EXCEPT ![s] = Nothing]
    /\ withdrawn' = withdrawn \union OnOffer(s)
    /\ UNCHANGED <<waiting, closed>>

Drop(s, o) ==
    /\ offered[s][o] # None
    /\ offered' = [offered EXCEPT ![s][o] = None]
    /\ withdrawn' = withdrawn \union {offered[s][o]}
    /\ UNCHANGED <<waiting, closed>>

Close(i) ==
    /\ withdrawn' = withdrawn \ {i}
    /\ closed' = closed \union {i}
    /\ UNCHANGED <<waiting, offered>>

LifeNext ==
    \/ \E i \in withdrawn : Close(i)
    \/ \E w \in waiting : Offer(w) \/ Replace(w) \/ Abandon(w)
    \/ \E s \in Server : Clear(s) \/ \E o \in Owner : Drop(s, o)
    \/ \E i \in Instance \ Used, s \in Server, o \in Owner : Build(i, s, o)

LifeSpec == LifeInit /\ [][LifeNext]_life
=============================================================================

--------------------------- MODULE EventHandlers ----------------------------
(***************************************************************************)
(* The event handlers of a context.  Goroutines of tunnels and sessions    *)
(* call every handler under a read lock, the application changes the list  *)
(* under the write lock.  sync.RWMutex makes readers wait for a writer     *)
(* that waits.  A callback may close a tunnel or session and so wait until *)
(* another goroutine has delivered its last event.                         *)
(***************************************************************************)
EXTENDS Naturals, Sequences, SequencesExt

CONSTANTS
    Goroutine,     \* each delivers one event
    Handler,
    Initial,       \* the handlers registered at the start
    Waits,         \* the values of waitsFor to consider
    Registers, Unregisters,   \* handlers the application (un)registers
    None

VARIABLES
    eventHandlers,
    rest,      \* rest[g]: handlers still to be called for g's event
    at,        \* at[g]: "start", "calling" (holds the read lock), "done"
    writer,    \* the handler a (Un)RegisterEventHandler call waits with, or None
    asked,     \* handlers (un)registered so far: pairs <<operation, handler>>
    called,    \* called[g]: the handlers called for g's event, in order
    registered,\* what the application has registered and not unregistered, in order
    due,       \* due[g]: what was registered when the event of g was taken up
    waitsFor   \* waitsFor[g]: whose delivery the callbacks for g's event wait for

vars == <<eventHandlers, rest, at, writer, asked, called, registered, due, waitsFor>>

Init ==
    /\ eventHandlers = Initial
    /\ rest = [g \in Goroutine |-> <<>>]
    /\ at = [g \in Goroutine |-> "start"]
    /\ writer = None
    /\ asked = {}
    /\ called = [g \in Goroutine |-> <<>>]
    /\ registered = Initial
    /\ due = [g \in Goroutine |-> <<>>]
    /\ waitsFor \in Waits

readers == {g \in Goroutine : at[g] = "calling"}

\* A variant that takes the lock exclusively.
BeginEventExclusive(g) ==
    /\ at[g] = "start"
    /\ writer = None
    /\ readers = {}
    /\ at' = [at EXCEPT ![g] = "calling"]
    /\ rest' = [rest EXCEPT ![g] = eventHandlers]
    /\ due' = [due EXCEPT ![g] = registered]
    /\ UNCHANGED <<eventHandlers, writer, asked, called, registered, waitsFor>>

\* handleUserEvent: RLock ...
BeginEvent(g) ==
    /\ at[g] = "start"
    /\ writer = None
    /\ at' = [at EXCEPT ![g] = "calling"]
    /\ rest' = [rest EXCEPT ![g] = eventHandlers]
    /\ due' = [due EXCEPT ![g] = registered]
    /\ UNCHANGED <<eventHandlers, writer, asked, called, registered, waitsFor>>

\* ... hdlr.HandleEvent(event) for each of them ...
CallHandler(g) ==
    /\ at[g] = "calling"
    /\ rest[g] # <<>>
    /\ waitsFor[g] # None => at[waitsFor[g]] = "done"
    /\ called' = [called EXCEPT ![g] = Append(@, Head(rest[g]))]
    /\ rest' = [rest EXCEPT ![g] = Tail(@)]
    /\ UNCHANGED <<eventHandlers, at, writer, asked, registered, due, waitsFor>>

\* ... and RUnlock.
EndEvent(g) ==
    /\ at[g] = "calling"
    /\ rest[g] = <<>>
    /\ at' = [at EXCEPT ![g] = "done"]
    /\ UNCHANGED <<eventHandlers, rest, writer, asked, called, registered, due, waitsFor>>

\* The application asks for the write lock.
Ask(op, h) ==
    /\ writer = None
    /\ <<op, h>> \notin asked
    /\ writer' = <<op, h>>
    /\ asked' = asked \cup {<<op, h>>}
    /\ UNCHANGED <<eventHandlers, rest, at, called, registered, due, waitsFor>>

RegisterEventHandler(h) ==
    /\ writer = <<"register", h>>
    /\ readers = {}
    /\ eventHandlers' = Append(eventHandlers, h)
    /\ registered' = Append(registered, h)
    /\ writer' = None
    /\ UNCHANGED <<rest, at, asked, called, due, waitsFor>>

\* A variant that keeps only what comes after h.
withoutEarlier(list, h) ==
    LET at1 == SelectInSeq(list, LAMBDA x : x = h)
    IN  IF at1 = 0 THEN list ELSE SubSeq(list, at1 + 1, Len(list))

\* append(handlers[:], handlers[i+1:]...) for the first i that holds h: h stays,
\* and what comes after it is on the list twice.
withoutFirst(list, h) ==
    LET at1 == SelectInSeq(list, LAMBDA x : x = h)
    IN  IF at1 = 0 THEN list ELSE list \o SubSeq(list, at1 + 1, Len(list))

\* What the application means by it.
remove(list, h) ==
    LET at1 == SelectInSeq(list, LAMBDA x : x = h)
    IN  IF at1 = 0 THEN list ELSE RemoveAt(list, at1)

UnregisterEventHandler(h) ==
    /\ writer = <<"unregister", h>>
    /\ readers = {}
    /\ eventHandlers' = withoutFirst(eventHandlers, h)
    /\ registered' = remove(registered, h)
    /\ writer' = None
    /\ UNCHANGED <<rest, at, asked, called, due, waitsFor>>

Deliver == \E g \in Goroutine : BeginEvent(g) \/ CallHandler(g) \/ EndEvent(g)

Locked == \E h \in Handler : RegisterEventHandler(h) \/ UnregisterEventHandler(h)

Next ==
    \/ Deliver \/ Locked
    \/ \E h \in Registers : Ask("register", h)
    \/ \E h \in Unregisters : Ask("unregister", h)

Spec == Init /\ [][Next]_vars

\* Goroutines run and a lock that is free is given to those who wait.
FairSpec == Spec /\ WF_vars(Deliver) /\ WF_vars(Locked)
-----------------------------------------------------------------------------
\* s occurs in t in the same order, not necessarily in one piece.
isWithin(s, t) ==
    \E place \in [DOMAIN s -> DOMAIN t] :
        /\ \A i \in DOMAIN s : t[place[i]] = s[i]
        /\ \A i, j \in DOMAIN s : i < j => place[i] < place[j]

\* For every event each handler that is registered when handleUserEvent gets the
\* lock is called, as often and in the order in which it was registered, however
\* UnregisterEventHandler has rebuilt the list for others, before it or behind.
CalledForEvent ==
    \A g \in Goroutine : at[g] = "done" => isWithin(due[g], called[g])

independent == \A g \in Goroutine : waitsFor[g] = None

\* Every event is delivered, although the callbacks of handleUserEvent, which
\* run under evtLock, may wait for another goroutine's event; with such
\* callbacks only as long as nobody asks for the write lock meanwhile.
EventsDelivered ==
    independent \/ [](writer = None) => \A g \in Goroutine : <>(at[g] = "done")

\* Every RegisterEventHandler and UnregisterEventHandler call gets evtLock if
\* the callbacks wait for no other event.
CallsReturn == independent => (writer # None ~> writer = None)

\* UnregisterEventHandler: "On return the event handler will not be called on
\* further L2TP events."
NotCalledAfterUnregister ==
    [][\A g \in Goroutine, h \in Handler :
          /\ called'[g] # called[g]
          /\ <<"unregister", h>> \in asked
          /\ writer # <<"unregister", h>>
          => Last(called'[g]) # h]_vars
=============================================================================

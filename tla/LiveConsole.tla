----------------------------- MODULE LiveConsole -----------------------------
(***************************************************************************)
(* The live console (internal/live and auth/live.go): processes publish    *)
(* events through a bounded queue and a worker into PostgreSQL NOTIFY; the *)
(* listener of a replica puts them into its hub, which keeps a ring for    *)
(* replay and fans out to the consoles, server-sent event streams with a   *)
(* bounded buffer each.  Nothing waits: whatever is full drops.            *)
(***************************************************************************)
EXTENDS Naturals, Sequences, SequencesExt

CONSTANTS Emitters,                            \* processes that hold a Publisher
          Consoles,                            \* streams that can be open at once
          QueueCap, RingCap, ReplayTail, BufferCap,
          MaxBackoff,
          MaxEvents, MaxOutages                \* bounds

ASSUME ConsoleAssumption ==
    /\ {QueueCap, ReplayTail, BufferCap, MaxBackoff, MaxEvents, MaxOutages} \subseteq Nat
    /\ RingCap \in Nat \ {0}

VARIABLES emitted,    \* events published so far
          queue,      \* Publisher.q of each process
          wire,       \* notifications on their way to the listener
          listening,  \* the listener's connection is up
          backoff,    \* its next delay, in seconds
          outages,    \* how often it went down
          super,      \* the caller's session is a superadmin's
          ring, subs, \* the hub: Hub.ring and Hub.subs
          buffer,     \* the channel of each subscriber
          console,    \* where each Events handler is
          shown,      \* what it has written to its client
          published,  \* every event the hub has taken, in order
          dropped     \* what a full channel has cost each console

hubVars == <<ring, subs, buffer, published, dropped>>
emitVars == <<emitted, queue>>
listenVars == <<wire, listening, backoff, outages>>
streamVars == <<console, shown, super>>
consoleVars == <<emitVars, listenVars, streamVars, hubVars>>

ConsoleInit ==
    /\ emitted = 0 /\ queue = [p \in Emitters |-> << >>]
    /\ wire = << >> /\ listening = FALSE /\ backoff = 1 /\ outages = 0
    /\ super = TRUE /\ ring = << >> /\ subs = {} /\ published = << >>
    /\ buffer = [c \in Consoles |-> << >>] /\ dropped = [c \in Consoles |-> {}]
    /\ console = [c \in Consoles |-> "closed"] /\ shown = [c \in Consoles |-> << >>]
-----------------------------------------------------------------------------
(* Publisher.                                                              *)

(* An event the console may render has a known type and decision and short *)
(* fields; POST /admin/live/ingest checks the decision only.               *)
Event(p, fits) == [from |-> p, n |-> emitted + 1, fits |-> fits]
valid(e) == e.fits

(* A full queue drops the event.                                           *)
Emit(p, fits) ==
    /\ emitted < MaxEvents /\ emitted' = emitted + 1
    /\ queue' = [queue EXCEPT ![p] =
                   IF Len(@) < QueueCap THEN Append(@, Event(p, fits)) ELSE @]
    /\ UNCHANGED <<listenVars, streamVars, hubVars>>

(* A decision reported by a guard: bearer token and decision are correct,  *)
(* or nothing happens.                                                     *)
Ingest(p) == \E fits \in BOOLEAN : Emit(p, fits)

(* One statement per event, its error ignored; a session that does not     *)
(* listen at its commit never sees it.                                     *)
Notify(p) ==
    /\ queue[p] # << >>
    /\ queue' = [queue EXCEPT ![p] = Tail(@)]
    /\ \/ listening /\ wire' = Append(wire, Head(queue[p]))
       \/ UNCHANGED wire
    /\ UNCHANGED <<emitted, listening, backoff, outages, streamVars, hubVars>>
-----------------------------------------------------------------------------
(* Listen.                                                                 *)

(* A connection that cannot be had, or LISTEN that fails, doubles the      *)
(* delay; a connection resets it.                                          *)
Doubled(b) == IF b < MaxBackoff THEN 2 * b ELSE b

Connect ==
    /\ ~listening
    /\ \/ listening' = TRUE /\ backoff' = 1 /\ UNCHANGED outages
       \/ /\ outages < MaxOutages /\ outages' = outages + 1
          /\ backoff' = Doubled(backoff) /\ UNCHANGED listening
    /\ UNCHANGED <<wire, emitVars, streamVars, hubVars>>

Disconnect ==
    /\ listening /\ outages < MaxOutages
    /\ listening' = FALSE /\ wire' = << >> /\ outages' = outages + 1
    /\ backoff' = Doubled(backoff)
    /\ UNCHANGED <<emitVars, streamVars, hubVars>>

(* Mutant: the slice keeps the front.                                      *)
MutNewest(s, n) == SubSeq(s, 1, IF n < Len(s) THEN n ELSE Len(s))

newest(s, n) == SubSeq(s, IF n < Len(s) THEN Len(s) - n + 1 ELSE 1, Len(s))

(* Under the hub's mutex: the ring, then every subscriber.                 *)
Publish(e) ==
    LET full == {c \in subs : Len(buffer[c]) = BufferCap}
    IN  /\ ring' = newest(Append(ring, e), RingCap)
        /\ buffer' = [c \in Consoles |->
                        IF c \in subs \ full THEN Append(buffer[c], e) ELSE buffer[c]]
        /\ dropped' = [c \in Consoles |-> dropped[c] \cup (IF c \in full THEN {e} ELSE {})]
        /\ published' = Append(published, e)
        /\ UNCHANGED subs

Receive ==
    /\ listening /\ wire # << >>
    /\ wire' = Tail(wire)
    /\ IF valid(Head(wire)) THEN Publish(Head(wire)) ELSE UNCHANGED hubVars
    /\ UNCHANGED <<listening, backoff, outages, emitVars, streamVars>>
-----------------------------------------------------------------------------
(* LiveHandler.Events.                                                     *)

Goes(c, pc) == console' = [console EXCEPT ![c] = pc]

(* The role is looked at once; the stream outlives it.                     *)
Authorize(c) ==
    /\ console[c] = "closed" /\ super /\ Goes(c, "authorized")
    /\ UNCHANGED <<shown, super, emitVars, listenVars, hubVars>>

Demote ==
    /\ super /\ super' = FALSE
    /\ UNCHANGED <<console, shown, emitVars, listenVars, hubVars>>

Subscribe(c) ==
    /\ console[c] = "authorized" /\ Goes(c, "subscribed")
    /\ subs' = subs \cup {c}
    /\ UNCHANGED <<buffer, dropped, ring, published, shown, super, emitVars, listenVars>>

(* The tail of the ring as it is after the subscription.                   *)
ReplayRecent(c) ==
    /\ console[c] = "subscribed" /\ Goes(c, "streaming")
    /\ shown' = [shown EXCEPT ![c] = newest(ring, ReplayTail)]
    /\ UNCHANGED <<super, emitVars, listenVars, hubVars>>

Stream(c) ==
    /\ console[c] = "streaming" /\ buffer[c] # << >>
    /\ shown' = [shown EXCEPT ![c] = Append(@, Head(buffer[c]))]
    /\ buffer' = [buffer EXCEPT ![c] = Tail(@)]
    /\ UNCHANGED <<console, super, ring, subs, published, dropped, emitVars, listenVars>>

(* The client goes away: unsubscribed and closed under the mutex, so that  *)
(* nothing is sent on a closed channel.                                    *)
Stop(c) ==
    /\ console[c] \in {"subscribed", "streaming"} /\ Goes(c, "closed")
    /\ subs' = subs \ {c}
    /\ buffer' = [buffer EXCEPT ![c] = << >>] /\ dropped' = [dropped EXCEPT ![c] = {}]
    /\ shown' = [shown EXCEPT ![c] = << >>]
    /\ UNCHANGED <<super, ring, published, emitVars, listenVars>>

Events(c) == Authorize(c) \/ Subscribe(c) \/ ReplayRecent(c) \/ Stream(c) \/ Stop(c)

ConsoleNext ==
    \/ \E p \in Emitters : Ingest(p) \/ Notify(p)
    \/ Connect \/ Disconnect \/ Receive \/ Demote
    \/ \E c \in Consoles : Events(c)

ConsoleSpec == ConsoleInit /\ [][ConsoleNext]_consoleVars
-----------------------------------------------------------------------------
(* What a console has, shown or waiting in its channel, has no gap except  *)
(* what its own full channel dropped: an event the hub took between two it *)
(* has is among them, although the stream subscribes, replays the ring and *)
(* streams while the hub goes on publishing; and the events of a process   *)
(* reach the hub in the order it published them.                           *)
ConsoleHasNoGap ==
    /\ \A c \in subs :
         LET has == {i \in DOMAIN published :
                       published[i] \in ToSet(shown[c]) \cup ToSet(buffer[c])}
         IN  \A i, k \in has : \A j \in i..k : j \in has \/ published[j] \in dropped[c]
    /\ \A i, j \in DOMAIN published :
         i < j /\ published[i].from = published[j].from => published[i].n < published[j].n
=============================================================================

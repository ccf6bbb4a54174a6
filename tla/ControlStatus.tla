---------------------------- MODULE ControlStatus ----------------------------
(***************************************************************************)
(* What Control knows and shows of its slaves: the poller thread           *)
(* (simpit_control/poller.py), the sync workers (ui/controller.py) and the *)
(* main window (ui/app.py).                                                *)
(*                                                                         *)
(* One poller thread asks each stored slave for its STATUS, in ticks, and  *)
(* writes the verdict into a cache.  Its callback, the sync workers' and   *)
(* mark_syncing's put a refresh into a queue that the main thread drains:  *)
(* a refresh rebuilds every card from the cache, so that the queue is the  *)
(* question whether one is due.  Control and a slave understand each other *)
(* when they hold the same key; a slave drops anything else in silence.    *)
(* A slave is its store id, which is never used again.                     *)
(***************************************************************************)
EXTENDS Naturals, FiniteSets

CONSTANTS
    Slave,     \* slave ids
    NoSlave,   \* no slave is being polled
    NoEntry,   \* the poller's cache holds nothing about a slave
    NoCard,    \* the window shows no card for a slave
    MaxPushes, \* bound on the pushes
    MaxEvents  \* bound on what slaves, network and the operator's keys change

States == {"unknown", "offline", "online", "running", "syncing", "error"}

ASSUME StatusConstants ==
    /\ IsFiniteSet(Slave) /\ NoSlave \notin Slave
    /\ NoEntry \notin States /\ NoCard \notin States
    /\ MaxPushes \in Nat /\ MaxEvents \in Nat

VARIABLES
    stored,  \* ids in the store
    unused,  \* ids not given out yet
    hasKey,  \* does Control have a key?
    sharing, \* the slaves that hold the same key
    cache,   \* the poller's _cache
    polling, \* the poller: "idle", "answered", "notify"
    todo,    \* the slaves this tick has still to poll
    target,  \* the slave whose answer is in, or NoSlave
    verdict, \* that answer
    refresh, \* is a _refresh_dashboard in the result queue?
    shown,   \* the state on each slave's card
    pushing, \* SYNC_PUSH calls in flight to each slave
    pushes,  \* SYNC_PUSH calls so far
    life,    \* each slave: "down", "up", or "flying" when X-Plane runs
    events   \* changes so far

pollVars  == <<polling, todo, target, verdict>>
pushVars  == <<pushing, pushes>>
storeVars == <<stored, unused, hasKey>>
worldVars == <<sharing, life, events>>
vars == <<stored, unused, hasKey, sharing, cache, polling, todo, target,
          verdict, refresh, shown, pushing, pushes, life, events>>

Happens == events < MaxEvents /\ events' = events + 1

-----------------------------------------------------------------------------
(* The poller thread.                                                      *)

\* What a STATUS call to s finds if nothing is lost.
Truth(s) ==
    IF life[s] = "down" \/ s \notin sharing THEN "offline"
    ELSE IF life[s] = "flying" THEN "running" ELSE "online"

TickStart ==
    /\ polling = "idle" /\ todo = {} /\ hasKey
    /\ todo' = stored
    /\ UNCHANGED <<polling, target, verdict, cache, refresh, shown, pushVars,
                   storeVars, worldVars>>

\* A call to the next slave ends: with a verified reply, or without a reply,
\* or, when the slave's clock is at the edge of the tolerance, with one that
\* does not verify.
Call ==
    /\ polling = "idle" /\ polling' = "answered"
    /\ \E s \in todo :
         /\ target' = s /\ todo' = todo \ {s}
         /\ \/ verdict' = Truth(s) /\ UNCHANGED events
            \/ verdict' \in {"offline", "error"} /\ Happens
    /\ UNCHANGED <<cache, refresh, shown, pushVars, storeVars, sharing, life>>

Forget == target' = NoSlave /\ verdict' = "unknown"

\* Mutant: the new state is compared with itself.
StoreQuietly ==
    /\ polling = "answered" /\ polling' = "idle"
    /\ cache' = [cache EXCEPT ![target] = verdict]
    /\ Forget
    /\ UNCHANGED <<todo, refresh, shown, pushVars, storeVars,
                   worldVars>>

\* Mutant: a poll leaves SYNCING alone.
StoreSparingSync ==
    /\ polling = "answered"
    /\ cache' = [cache EXCEPT ![target] =
                   IF @ = "syncing" THEN @ ELSE verdict]
    /\ polling' = IF cache'[target] = cache[target] THEN "idle" ELSE "notify"
    /\ Forget
    /\ UNCHANGED <<todo, refresh, shown, pushVars, storeVars,
                   worldVars>>

\* _set_state: write the verdict; subscribers hear of it when it is news.
Store ==
    /\ polling = "answered"
    /\ cache' = [cache EXCEPT ![target] = verdict]
    /\ polling' = IF verdict = cache[target] THEN "idle" ELSE "notify"
    /\ Forget
    /\ UNCHANGED <<todo, refresh, shown, pushVars, storeVars,
                   worldVars>>

\* _notify, after the lock is released.
Notify ==
    /\ polling = "notify" /\ polling' = "idle"
    /\ refresh' = TRUE
    /\ UNCHANGED <<todo, target, verdict, cache, shown, pushVars, storeVars,
                   worldVars>>

Poll == TickStart \/ Call \/ Store \/ Notify

-----------------------------------------------------------------------------
(* The main thread.                                                        *)

\* _refresh_dashboard with the given stored slaves.
Cards(ids) ==
    [s \in Slave |-> IF s \notin ids THEN NoCard
                     ELSE IF cache[s] = NoEntry THEN "unknown" ELSE cache[s]]

\* _drain_results runs the refreshes that are due.
Drain ==
    /\ refresh /\ refresh' = FALSE
    /\ shown' = Cards(stored)
    /\ UNCHANGED <<cache, pollVars, pushVars, storeVars, worldVars>>

AddSlave(s) ==
    /\ s \in unused
    /\ stored' = stored \cup {s} /\ unused' = unused \ {s}
    /\ shown' = Cards(stored')
    /\ UNCHANGED <<hasKey, cache, refresh, pollVars, pushVars, worldVars>>

DeleteSlave(s) ==
    /\ s \in stored
    /\ stored' = stored \ {s}
    /\ shown' = Cards(stored')
    /\ UNCHANGED <<unused, hasKey, cache, refresh, pollVars, pushVars,
                   worldVars>>

\* sync_push_to_slave for each of the given slaves: the cache says SYNCING,
\* and a worker makes the call.
PushTo(ids) ==
    /\ ids # {} /\ pushes + Cardinality(ids) <= MaxPushes
    /\ pushes'  = pushes + Cardinality(ids)
    /\ pushing' = [s \in Slave |-> pushing[s] + (IF s \in ids THEN 1 ELSE 0)]
    /\ cache'   = [s \in Slave |-> IF s \in ids THEN "syncing" ELSE cache[s]]
    /\ refresh' = TRUE
    /\ UNCHANGED <<shown, pollVars, storeVars, worldVars>>

\* The card's Sync button is dead while the card says offline or syncing.
SyncClick ==
    \E s \in stored : shown[s] \notin {"offline", "syncing"} /\ PushTo({s})

SyncAll == PushTo(stored)

\* _on_key_changed: the old poller ends after the slave it is asking, and a
\* new one starts with an empty cache.  Some slaves may have the key already.
ChangeKey ==
    /\ polling = "idle" /\ Happens
    /\ hasKey' = TRUE /\ sharing' \in SUBSET Slave
    /\ cache' = [s \in Slave |-> NoEntry]
    /\ todo' = {}
    /\ UNCHANGED <<stored, unused, polling, target, verdict, refresh, shown,
                   pushVars, life>>

Window ==
    \/ Drain \/ SyncClick \/ SyncAll \/ ChangeKey
    \/ \E s \in Slave : AddSlave(s) \/ DeleteSlave(s)

\* A sync worker has its answer, or none in time, and reports.
PushEnds(s) ==
    /\ pushing[s] > 0
    /\ pushing' = [pushing EXCEPT ![s] = @ - 1]
    /\ refresh' = TRUE
    /\ UNCHANGED <<pushes, cache, shown, pollVars, storeVars, worldVars>>

-----------------------------------------------------------------------------
(* The slaves.                                                             *)

World ==
    /\ Happens
    /\ \E s \in Slave :
         \/ /\ \E l \in {"down", "up", "flying"} : life' = [life EXCEPT ![s] = l]
            /\ UNCHANGED sharing
         \/ /\ hasKey /\ sharing' = sharing \cup {s}
            /\ UNCHANGED life
    /\ UNCHANGED <<cache, refresh, shown, pollVars, pushVars, storeVars>>

Init ==
    /\ stored \in SUBSET Slave /\ unused = Slave \ stored
    /\ hasKey \in BOOLEAN /\ sharing = IF hasKey THEN Slave ELSE {}
    /\ cache = [s \in Slave |-> NoEntry] /\ shown = Cards(stored)
    /\ polling = "idle" /\ todo = {} /\ target = NoSlave /\ verdict = "unknown"
    /\ refresh = FALSE
    /\ pushing = [s \in Slave |-> 0] /\ pushes = 0
    /\ life \in [Slave -> {"down", "up"}] /\ events = 0

Next == Poll \/ Window \/ (\E s \in Slave : PushEnds(s)) \/ World

\* The poller's calls return within their timeout and its loop goes on, the
\* main loop drains its queue every 50 ms, and a push's socket times out.
Fairness ==
    /\ WF_vars(Poll) /\ WF_vars(Drain)
    /\ \A s \in Slave : WF_vars(PushEnds(s))

Spec     == Init /\ [][Next]_vars
LiveSpec == Spec /\ Fairness

-----------------------------------------------------------------------------
(* Properties.                                                             *)

TypeOK ==
    /\ stored \subseteq Slave /\ unused \subseteq Slave \ stored
    /\ hasKey \in BOOLEAN /\ sharing \subseteq Slave
    /\ cache \in [Slave -> States \cup {NoEntry}]
    /\ shown \in [Slave -> States \cup {NoCard}]
    /\ polling \in {"idle", "answered", "notify"}
    /\ todo \subseteq Slave /\ target \in Slave \cup {NoSlave}
    /\ (target = NoSlave <=> polling # "answered")
    /\ verdict \in States /\ refresh \in BOOLEAN
    /\ pushing \in [Slave -> Nat] /\ pushes \in Nat
    /\ life \in [Slave -> {"down", "up", "flying"}] /\ events \in 0..MaxEvents

\* "the UI re-renders only when something actually changed", and then it
\* does: with no refresh due and none about to be asked for, every card shows
\* what the poller's cache says, whichever thread wrote it last.  (A poller
\* that was just replaced knows nothing yet: the cards keep what they show.)
ShownIsCurrent ==
    ~refresh /\ polling # "notify" =>
        \A s \in stored : cache[s] # NoEntry => shown[s] = cache[s]

\* A card stops changing, and shows what its slave is, once slave and network
\* stop changing: a lost reply, a push, another key or a burst of updates is
\* never what it shows in the end.
CardsSettle ==
    \A s \in Slave :
        <>[](s \in stored /\ hasKey) => <>[](shown[s] = Truth(s))

\* "a slave whose AGENT is up but whose KEY is wrong is ERROR, not OFFLINE".
MismatchIsError ==
    \A s \in Slave :
        <>[](s \in stored /\ hasKey /\ life[s] # "down" /\ s \notin sharing)
            => <>(shown[s] = "error")

=============================================================================

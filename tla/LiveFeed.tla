------------------------------- MODULE LiveFeed -------------------------------
(***************************************************************************)
(* The live feed: services/gateway/src/ws.py, which pushes proposed        *)
(* matches to open sockets, and the web app's useFeedSocket, which keeps a *)
(* socket open while somebody is signed in.                                *)
(*                                                                         *)
(* A socket has two ends that learn of its loss at different times, and    *)
(* the gateway has two tasks that take it out of the registry: its own     *)
(* handler, and the push loop when a send fails.                           *)
(***************************************************************************)
EXTENDS Integers, Sequences, FiniteSets

CONSTANTS
  Users, NoUser,
  Tabs,          \* browser tabs on the feed page
  MaxSockets,    \* as many sockets as the bounds below can open
  MaxMounts,     \* bound: sign-ins and sign-outs
  MaxMatches,    \* bound: matches proposed
  MaxFaults      \* bound: lost connections, refused tokens, failed reads, restarts

ASSUME LiveAssumption ==
  /\ NoUser \notin Users
  /\ {MaxMounts, MaxMatches, MaxFaults, MaxSockets} \subseteq Nat
  /\ MaxSockets >= MaxMounts + MaxFaults * Cardinality(Tabs)

Sockets == 1..MaxSockets
NoSocket == 0

VARIABLES
  tab,           \* per tab, what useFeedSocket holds
  socket,        \* both ends of every socket
  opened,        \* how many sockets were created
  registry,      \* ConnectionManager._sockets
  proposed,      \* matches.proposed: whose match it is
  position,      \* the next message the push loop will take
  loop,          \* where matches_push_loop is
  shown,         \* per tab, the matches that reached the store
  mounts, liveFaults

liveVars == <<tab, socket, opened, registry, proposed, position, loop, shown, mounts, liveFaults>>

\* What one run of the effect holds: its token, the last socket it opened, and its timer.
NoEffect == [token |-> NoUser, socket |-> NoSocket, retry |-> FALSE]

\* client is the browser's end, handler the gateway's task, up whether they are connected.
Unused ==
  [user |-> NoUser, client |-> "none", handler |-> "none", up |-> FALSE, inbox |-> <<>>]

Fresh(u) ==
  [user |-> u, client |-> "connecting", handler |-> "auth", up |-> TRUE, inbox |-> <<>>]

LiveInit ==
  /\ tab = [t \in Tabs |-> NoEffect]
  /\ socket = [s \in Sockets |-> Unused]
  /\ opened = 0
  /\ registry = <<>>
  /\ proposed = <<>> /\ position = 1
  /\ loop = [at |-> "off", left |-> {}]
  /\ shown = [t \in Tabs |-> {}]
  /\ mounts = 0 /\ liveFaults = 0

Fault == liveFaults < MaxFaults /\ liveFaults' = liveFaults + 1

-------------------------------------------------------------------------------
(* useFeedSocket *)

\* connect(): a new socket takes the place of the last one.
Connect(t, u) ==
  /\ opened < MaxSockets
  /\ opened' = opened + 1
  /\ socket' = [socket EXCEPT ![opened + 1] = Fresh(u)]
  /\ tab' = [tab EXCEPT ![t].token = u, ![t].socket = opened + 1, ![t].retry = FALSE]

Mount(t, u) ==
  /\ mounts < MaxMounts /\ tab[t].token = NoUser
  /\ mounts' = mounts + 1
  /\ Connect(t, u)
  /\ UNCHANGED <<registry, proposed, position, loop, shown, liveFaults>>

\* The effect is cleaned up: no more retries, and the socket is told to close.
Unmount(t) ==
  /\ mounts < MaxMounts /\ tab[t].token # NoUser
  /\ mounts' = mounts + 1
  /\ tab' = [tab EXCEPT ![t] = NoEffect]
  /\ socket' = [socket EXCEPT ![tab[t].socket].client = IF @ = "closed" THEN @ ELSE "closing",
                              ![tab[t].socket].up = FALSE]
  /\ UNCHANGED <<opened, registry, proposed, position, loop, shown, liveFaults>>

OnOpen(t) ==
  LET s == tab[t].socket
  IN /\ s # NoSocket /\ socket[s].client = "connecting"
     /\ socket[s].up /\ socket[s].handler \in {"accepted", "serving"}
     /\ socket' = [socket EXCEPT ![s].client = "open"]
     /\ UNCHANGED <<tab, opened, registry, proposed, position, loop, shown, mounts, liveFaults>>

OnMessage(t) ==
  LET s == tab[t].socket
  IN /\ s # NoSocket /\ socket[s].client = "open" /\ socket[s].inbox # <<>>
     /\ shown' = [shown EXCEPT ![t] = @ \cup {Head(socket[s].inbox)}]
     /\ socket' = [socket EXCEPT ![s].inbox = Tail(@)]
     /\ UNCHANGED <<tab, opened, registry, proposed, position, loop, mounts, liveFaults>>

\* Mutant of OnClose: only a socket that was open is opened again.
OnCloseOpened(t) ==
  LET s == tab[t].socket
  IN /\ s # NoSocket /\ socket[s].client \in {"connecting", "open"} /\ ~ socket[s].up
     /\ socket' = [socket EXCEPT ![s].client = "closed"]
     /\ tab' = [tab EXCEPT ![t].retry = socket[s].client = "open"]
     /\ UNCHANGED <<opened, registry, proposed, position, loop, shown, mounts, liveFaults>>

\* The socket is lost while the effect stands: the timer is started.
OnClose(t) ==
  LET s == tab[t].socket
  IN /\ s # NoSocket /\ socket[s].client \in {"connecting", "open"} /\ ~ socket[s].up
     /\ socket' = [socket EXCEPT ![s].client = "closed"]
     /\ tab' = [tab EXCEPT ![t].retry = TRUE]
     /\ UNCHANGED <<opened, registry, proposed, position, loop, shown, mounts, liveFaults>>

\* The socket of an effect that is gone has closed, and nothing is tried again.
OnCloseLate(s) ==
  /\ socket[s].client = "closing"
  /\ socket' = [socket EXCEPT ![s].client = "closed"]
  /\ UNCHANGED <<tab, opened, registry, proposed, position, loop, shown, mounts, liveFaults>>

Retry(t) ==
  /\ tab[t].retry
  /\ Connect(t, tab[t].token)
  /\ UNCHANGED <<registry, proposed, position, loop, shown, mounts, liveFaults>>

-------------------------------------------------------------------------------
(* feed_socket and ConnectionManager *)

Connected(u) == u \in DOMAIN registry

Registered(u) == IF Connected(u) THEN registry[u] ELSE {}

Register(u, s) ==
  [v \in DOMAIN registry \cup {u} |-> IF v = u THEN Registered(u) \cup {s} ELSE registry[v]]

\* Mutant of Unregister: the key stays when the last socket goes.
UnregisterKeeping(u, s) ==
  [v \in DOMAIN registry |-> IF v = u THEN registry[u] \ {s} ELSE registry[v]]

\* A user whose last socket goes has no key any more.
Unregister(u, s) ==
  LET rest == Registered(u) \ {s}
  IN [v \in (DOMAIN registry \ {u}) \cup (IF rest = {} THEN {} ELSE {u}) |->
        IF v = u THEN rest ELSE registry[v]]

\* The user is loaded and the socket accepted; the client may know before it is registered.
Accept(s) ==
  /\ socket[s].handler = "auth" /\ socket[s].up
  /\ socket' = [socket EXCEPT ![s].handler = "accepted"]
  /\ UNCHANGED <<tab, opened, registry, proposed, position, loop, shown, mounts, liveFaults>>

\* The token is not valid: accepted, and closed with 4401; the client will try again.
Refuse(s) ==
  /\ Fault /\ socket[s].handler = "auth" /\ socket[s].up
  /\ socket' = [socket EXCEPT ![s].handler = "done", ![s].up = FALSE]
  /\ UNCHANGED <<tab, opened, registry, proposed, position, loop, shown, mounts>>

\* The client went away before: the handler ends without a registration.
AcceptFails(s) ==
  /\ socket[s].handler \in {"auth", "accepted"} /\ ~ socket[s].up
  /\ socket' = [socket EXCEPT ![s].handler = "done"]
  /\ UNCHANGED <<tab, opened, registry, proposed, position, loop, shown, mounts, liveFaults>>

Serve(s) ==
  /\ socket[s].handler = "accepted"
  /\ socket' = [socket EXCEPT ![s].handler = "serving"]
  /\ registry' = Register(socket[s].user, s)
  /\ UNCHANGED <<tab, opened, proposed, position, loop, shown, mounts, liveFaults>>

\* receive_text raises, and finally takes the socket out.
Disconnect(s) ==
  /\ socket[s].handler = "serving" /\ ~ socket[s].up
  /\ socket' = [socket EXCEPT ![s].handler = "done"]
  /\ registry' = Unregister(socket[s].user, s)
  /\ UNCHANGED <<tab, opened, proposed, position, loop, shown, mounts, liveFaults>>

LoseConnection(s) ==
  /\ Fault /\ socket[s].up
  /\ socket' = [socket EXCEPT ![s].up = FALSE]
  /\ UNCHANGED <<tab, opened, registry, proposed, position, loop, shown, mounts>>

-------------------------------------------------------------------------------
(* matches_push_loop and push_match *)

Propose(u) ==
  /\ Len(proposed) < MaxMatches
  /\ proposed' = Append(proposed, u)
  /\ UNCHANGED <<tab, socket, opened, registry, position, loop, shown, mounts, liveFaults>>

\* The consumer goes on from what it last committed, or from the end if that is nothing.
StartLoop(from) ==
  /\ loop.at = "off"
  /\ from \in 1..position \cup {Len(proposed) + 1}
  /\ loop' = [loop EXCEPT !.at = "poll"] /\ position' = from
  /\ UNCHANGED <<tab, socket, opened, registry, proposed, shown, mounts, liveFaults>>

\* A consumer that cannot start is logged and never tried again.
StartFails ==
  /\ Fault /\ loop.at = "off"
  /\ loop' = [loop EXCEPT !.at = "dead"]
  /\ UNCHANGED <<tab, socket, opened, registry, proposed, position, shown, mounts>>

Polled == loop' = [at |-> "poll", left |-> {}] /\ position' = position + 1

\* Nobody to push to: the match is not even read.
SkipMatch ==
  /\ loop.at = "poll" /\ position <= Len(proposed) /\ ~ Connected(proposed[position])
  /\ Polled
  /\ UNCHANGED <<tab, socket, opened, registry, proposed, shown, mounts, liveFaults>>

TakeMatch ==
  /\ loop.at = "poll" /\ position <= Len(proposed) /\ Connected(proposed[position])
  /\ loop' = [loop EXCEPT !.at = "read"]
  /\ UNCHANGED <<tab, socket, opened, registry, proposed, position, shown, mounts, liveFaults>>

\* The feed item, for the sockets registered by now, or nothing if it is not visible.
ReadItem(visible) ==
  /\ loop.at = "read"
  /\ IF visible
     THEN /\ loop' = [at |-> "send", left |-> Registered(proposed[position])]
          /\ UNCHANGED position
     ELSE Polled
  /\ UNCHANGED <<tab, socket, opened, registry, proposed, shown, mounts, liveFaults>>

\* The query fails: the exception ends the loop for good, and nothing else.
ReadFails ==
  /\ Fault /\ loop.at = "read"
  /\ loop' = [at |-> "dead", left |-> {}]
  /\ UNCHANGED <<tab, socket, opened, registry, proposed, position, shown, mounts>>

\* A send into a lost connection raises, or is swallowed by a buffer.
Send(s, raises) ==
  LET u == proposed[position]
  IN /\ loop.at = "send" /\ s \in loop.left
     /\ raises => ~ socket[s].up
     /\ loop' = [loop EXCEPT !.left = @ \ {s}]
     /\ registry' = IF raises THEN Unregister(u, s) ELSE registry
     /\ socket' = IF socket[s].up THEN [socket EXCEPT ![s].inbox = Append(@, position)]
                  ELSE socket
     /\ UNCHANGED <<tab, opened, proposed, position, shown, mounts, liveFaults>>

\* Mutant of PushDone: the first send that fails or not ends the push.
PushDoneEarly ==
  /\ loop.at = "send" /\ Polled
  /\ UNCHANGED <<tab, socket, opened, registry, proposed, shown, mounts, liveFaults>>

PushDone ==
  /\ loop.at = "send" /\ loop.left = {}
  /\ Polled
  /\ UNCHANGED <<tab, socket, opened, registry, proposed, shown, mounts, liveFaults>>

\* The gateway restarts: every socket is lost, and the loop is started again.
Restart ==
  /\ Fault
  /\ socket' = [s \in Sockets |->
                  IF socket[s] = Unused THEN Unused
                  ELSE [socket[s] EXCEPT !.up = FALSE, !.handler = "done"]]
  /\ registry' = <<>>
  /\ loop' = [at |-> "off", left |-> {}]
  /\ UNCHANGED <<tab, opened, proposed, position, shown, mounts>>

-------------------------------------------------------------------------------

ClientStep(t) == OnOpen(t) \/ OnMessage(t) \/ OnClose(t) \/ Retry(t)

HandlerStep(s) == Accept(s) \/ AcceptFails(s) \/ Serve(s) \/ Disconnect(s)

LoopStep ==
  \/ SkipMatch \/ TakeMatch \/ PushDone
  \/ \E visible \in BOOLEAN : ReadItem(visible)
  \/ \E s \in loop.left, raises \in BOOLEAN : Send(s, raises)
  \/ \E from \in 1..(Len(proposed) + 1) : StartLoop(from)

LiveNext ==
  \/ \E t \in Tabs : ClientStep(t) \/ Unmount(t) \/ (\E u \in Users : Mount(t, u))
  \/ \E s \in Sockets : HandlerStep(s) \/ OnCloseLate(s) \/ Refuse(s) \/ LoseConnection(s)
  \/ LoopStep \/ ReadFails \/ StartFails \/ Restart
  \/ \E u \in Users : Propose(u)

LiveFairness ==
  /\ \A t \in Tabs : WF_liveVars(ClientStep(t))
  /\ \A s \in Sockets : WF_liveVars(HandlerStep(s))
  /\ WF_liveVars(LoopStep)

LiveSpec == LiveInit /\ [][LiveNext]_liveVars

LiveFairSpec == LiveSpec /\ LiveFairness

-------------------------------------------------------------------------------
(* What the live feed promises *)

\* The type of every variable.
LiveTypeOK ==
  /\ tab \in [Tabs -> [token : Users \cup {NoUser}, socket : 0..opened, retry : BOOLEAN]]
  /\ socket \in [Sockets ->
                   [user : Users \cup {NoUser},
                    client : {"none", "connecting", "open", "closing", "closed"},
                    handler : {"none", "auth", "accepted", "serving", "done"},
                    up : BOOLEAN, inbox : Seq(1..MaxMatches)]]
  /\ opened \in 0..MaxSockets
  /\ DOMAIN registry \subseteq Users /\ registry \in [DOMAIN registry -> SUBSET Sockets]
  /\ proposed \in Seq(Users) /\ Len(proposed) <= MaxMatches
  /\ position \in 1..(Len(proposed) + 1)
  /\ loop \in [at : {"off", "poll", "read", "send", "dead"}, left : SUBSET Sockets]
  /\ shown \in [Tabs -> SUBSET (1..MaxMatches)]
  /\ mounts \in 0..MaxMounts /\ liveFaults \in 0..MaxFaults

\* A user has a key exactly while a handler serves a socket of theirs: none is left empty, which
\* would have every match of theirs read for nobody, no socket whose handler is over stays in
\* it, and no connected socket is missing, though both the handler and a push remove sockets.
RegistryExact ==
  /\ \A u \in DOMAIN registry :
       /\ registry[u] # {}
       /\ \A s \in registry[u] : socket[s].user = u /\ socket[s].handler = "serving"
  /\ \A s \in Sockets :
       socket[s].handler = "serving" /\ socket[s].up => s \in Registered(socket[s].user)

\* A tab keeps at most one socket: those it does not hold any more are closed or closing, the one
\* it holds is its user's, it waits for the timer only when that one is closed, and a tab
\* nobody is signed in on waits for nothing.
OneSocketPerTab ==
  /\ \A s \in Sockets :
       socket[s].client \in {"connecting", "open"} => \E t \in Tabs : tab[t].socket = s
  /\ \A t \in Tabs :
       /\ tab[t].token = NoUser => tab[t] = NoEffect
       /\ tab[t].token # NoUser =>
            /\ tab[t].socket # NoSocket /\ socket[tab[t].socket].user = tab[t].token
            /\ tab[t].retry <=> socket[tab[t].socket].client = "closed"
       /\ \A t2 \in Tabs \ {t} : tab[t].socket = tab[t2].socket => tab[t].socket = NoSocket

\* Somebody who stays signed in on the feed gets a socket that is open on both ends and that
\* matches are pushed to, whatever was lost, refused or restarted before.
TabsComeBack ==
  \A t \in Tabs, u \in Users :
    tab[t].token = u ~>
      \/ tab[t].token # u
      \/ /\ tab[t].socket \in Registered(u)
         /\ socket[tab[t].socket].client = "open" /\ socket[tab[t].socket].up

\* A visible match that is about to be sent to a tab's socket reaches that tab's store, whatever
\* happens to the other sockets of its user, unless that socket itself goes.
OpenTabsGetIt ==
  \A t \in Tabs, i \in 1..MaxMatches :
    (/\ loop.at = "send" /\ position = i
     /\ tab[t].socket \in loop.left /\ socket[tab[t].socket].up)
    ~> (i \in shown[t] \/ tab[t].socket = NoSocket \/ ~ socket[tab[t].socket].up)
===============================================================================

---------------------------- MODULE LiveFeedProofs ----------------------------
(***************************************************************************)
(* What holds of the live feed's sockets and registry for any users, tabs, *)
(* faults and matches.                                                     *)
(***************************************************************************)
EXTENDS LiveFeed, SequenceTheorems, TLAPS

-------------------------------------------------------------------------------
(* The inductive invariant *)

TabRows == [token : Users \cup {NoUser}, socket : 0..opened, retry : BOOLEAN]

SocketRows ==
  [user : Users \cup {NoUser}, client : {"none", "connecting", "open", "closing", "closed"},
   handler : {"none", "auth", "accepted", "serving", "done"},
   up : BOOLEAN, inbox : Seq(1..MaxMatches)]

\* Sockets are created in order, and each is somebody's; a match in hand is one that was proposed.
FreshOK ==
  /\ \A s \in Sockets : IF s <= opened THEN socket[s].user \in Users ELSE socket[s] = Unused
  /\ loop.at \in {"read", "send"} => position <= Len(proposed)

\* A tab never holds a socket it has told to close.
HeldOK ==
  \A t \in Tabs :
    tab[t].token # NoUser => socket[tab[t].socket].client \in {"connecting", "open", "closed"}

LiveInv == LiveTypeOK /\ FreshOK /\ RegistryExact /\ OneSocketPerTab /\ HeldOK

\* No socket is open and nobody is registered at first.
LEMMA LiveInitially == LiveInit => LiveInv
<1> SUFFICES ASSUME LiveInit PROVE LiveInv
  OBVIOUS
<1> USE LiveAssumption DEF LiveInit
<1>1. NoEffect \in TabRows /\ Unused \in SocketRows
  BY DEF NoEffect, Unused, TabRows, SocketRows, NoSocket
<1>2. DOMAIN registry = {} /\ Len(proposed) = 0 /\ proposed \in Seq(Users)
  OBVIOUS
<1>3. LiveTypeOK
  <2>1. tab \in [Tabs -> TabRows] /\ socket \in [Sockets -> SocketRows]
    BY <1>1
  <2>2. registry \in [DOMAIN registry -> SUBSET Sockets]
    BY <1>2
  <2> QED
    BY <1>2, <2>1, <2>2 DEF LiveTypeOK, TabRows, SocketRows, LiveAssumption
<1>4. FreshOK
  BY DEF FreshOK, Sockets
<1>5. RegistryExact
  BY <1>2 DEF RegistryExact, Unused
<1>6. OneSocketPerTab /\ HeldOK
  BY DEF OneSocketPerTab, HeldOK, NoEffect, Unused
<1> QED
  BY <1>3, <1>4, <1>5, <1>6 DEF LiveInv

-------------------------------------------------------------------------------
(* What the steps share *)

\* What the type invariant says of tabs, sockets and the registry.
LEMMA LiveTypes ==
  ASSUME LiveTypeOK
  PROVE  /\ tab \in [Tabs -> TabRows] /\ socket \in [Sockets -> SocketRows]
         /\ opened \in 0..MaxSockets /\ MaxSockets \in Nat /\ opened \in Nat
         /\ DOMAIN registry \subseteq Users /\ registry \in [DOMAIN registry -> SUBSET Sockets]
         /\ \A u \in DOMAIN registry : registry[u] \subseteq Sockets
  BY LiveAssumption DEF LiveTypeOK, TabRows, SocketRows, LiveAssumption

\* A step of the clients, which the registry and the handlers do not notice.
LEMMA RegistryKept ==
  ASSUME RegistryExact, registry' = registry, DOMAIN registry \subseteq Users,
         \A u \in DOMAIN registry : registry[u] \subseteq Sockets,
         \A s \in Sockets : /\ socket'[s].handler = "serving" <=> socket[s].handler = "serving"
                            /\ socket'[s].up => socket[s].up
                            /\ socket'[s].user = socket[s].user \/ socket[s].handler # "serving"
  PROVE  RegistryExact'
<1>1. ASSUME NEW u \in DOMAIN registry
      PROVE  /\ registry[u] # {}
             /\ \A s \in registry[u] : socket'[s].user = u /\ socket'[s].handler = "serving"
  BY DEF RegistryExact
<1>2. ASSUME NEW s \in Sockets, socket'[s].handler = "serving", socket'[s].up
      PROVE  (s \in Registered(socket[s].user))'
  BY <1>2 DEF RegistryExact, Registered, Connected
<1> QED
  BY <1>1, <1>2 DEF RegistryExact

\* A step of the gateway, which the tabs do not notice.
LEMMA TabsKept ==
  ASSUME OneSocketPerTab, HeldOK, LiveTypeOK, tab' = tab,
         \A s \in Sockets : /\ socket'[s].client = socket[s].client
                            /\ socket'[s].user = socket[s].user
  PROVE  OneSocketPerTab' /\ HeldOK'
<1>1. \A t \in Tabs : tab[t].token # NoUser => tab[t].socket \in Sockets
  BY LiveTypes DEF OneSocketPerTab, TabRows, Sockets, NoSocket
<1> QED
  BY <1>1 DEF OneSocketPerTab, HeldOK

\* Taking one socket of one user out.
Unregistered(u, s) ==
  /\ DOMAIN registry' \subseteq DOMAIN registry
  /\ registry' \in [DOMAIN registry' -> SUBSET Sockets]
  /\ \A v \in DOMAIN registry' : registry'[v] # {} /\ registry'[v] \subseteq registry[v]
  /\ \A v \in Users : \A x \in Registered(v) : v # u \/ x # s => x \in Registered(v)'
  /\ s \notin Registered(u)'

\* unregister takes one socket out, and the user with the last one.
LEMMA UnregisterOutcome ==
  ASSUME LiveTypeOK, RegistryExact
  PROVE  \A u \in Users, s \in Sockets : registry' = Unregister(u, s) => Unregistered(u, s)
<1> SUFFICES ASSUME NEW u \in Users, NEW s \in Sockets, registry' = Unregister(u, s)
             PROVE  Unregistered(u, s)
  OBVIOUS
<1> DEFINE rest == Registered(u) \ {s}
           keys == (DOMAIN registry \ {u}) \cup (IF rest = {} THEN {} ELSE {u})
<1>1. /\ DOMAIN registry' = keys
      /\ \A v \in keys : registry'[v] = IF v = u THEN rest ELSE registry[v]
      /\ registry' = [v \in keys |-> IF v = u THEN rest ELSE registry[v]]
  BY DEF Unregister
<1>2. keys \subseteq DOMAIN registry
  BY DEF Registered, Connected
<1>3. \A v \in DOMAIN registry : registry[v] \in SUBSET Sockets /\ registry[v] # {}
  BY DEF LiveTypeOK, RegistryExact
<1>4. rest \subseteq Sockets /\ (u \in DOMAIN registry => rest \subseteq registry[u])
  BY <1>3 DEF Registered, Connected
<1>5. registry' \in [DOMAIN registry' -> SUBSET Sockets]
  BY <1>1, <1>2, <1>3, <1>4
<1>6. \A v \in DOMAIN registry' : registry'[v] # {} /\ registry'[v] \subseteq registry[v]
  BY <1>1, <1>2, <1>3, <1>4
<1>7. ASSUME NEW v \in Users, NEW x \in Registered(v), v # u \/ x # s
      PROVE  x \in Registered(v)'
  <2>1. CASE v = u
    <3>1. x \in rest /\ u \in keys
      BY <1>7, <2>1
    <3> QED
      BY <1>1, <2>1, <3>1 DEF Registered, Connected
  <2>2. CASE v # u
    <3>1. v \in DOMAIN registry /\ x \in registry[v] /\ v \in keys
      BY <1>7, <2>2 DEF Registered, Connected
    <3> QED
      BY <1>1, <2>2, <3>1 DEF Registered, Connected
  <2> QED
    BY <2>1, <2>2
<1>8. s \notin Registered(u)'
  BY <1>1 DEF Registered, Connected
<1> QED
  BY <1>1, <1>2, <1>5, <1>6, <1>7, <1>8 DEF Unregistered

-------------------------------------------------------------------------------
(* The steps of the tabs *)

\* A new socket in the place of none, or of one that is closed.
NewSocket(t, u) ==
  /\ opened' = opened + 1 /\ opened' \in Sockets
  /\ tab' \in [Tabs -> [token : Users \cup {NoUser}, socket : 0..opened', retry : BOOLEAN]]
  /\ tab'[t] = [token |-> u, socket |-> opened', retry |-> FALSE]
  /\ \A t2 \in Tabs \ {t} : tab'[t2] = tab[t2]
  /\ socket' \in [Sockets -> SocketRows]
  /\ socket'[opened'] = Fresh(u)
  /\ \A s \in Sockets \ {opened'} : socket'[s] = socket[s]

\* connect opens a socket nobody had.
LEMMA ConnectOutcome ==
  ASSUME LiveTypeOK
  PROVE  \A t \in Tabs, u \in Users : Connect(t, u) => NewSocket(t, u)
<1> SUFFICES ASSUME NEW t \in Tabs, NEW u \in Users, Connect(t, u)
             PROVE  NewSocket(t, u)
  OBVIOUS
<1>1. opened' = opened + 1 /\ opened' \in Sockets /\ opened \in Nat /\ opened' \in Nat
  BY LiveTypes DEF Connect, Sockets
<1>2. tab' = [tab EXCEPT ![t] = [token |-> u, socket |-> opened', retry |-> FALSE]]
  BY <1>1, LiveTypes DEF Connect, TabRows
<1>3. tab \in [Tabs -> [token : Users \cup {NoUser}, socket : 0..opened', retry : BOOLEAN]]
  BY <1>1, LiveTypes DEF TabRows
<1>4. /\ tab' \in [Tabs -> [token : Users \cup {NoUser}, socket : 0..opened', retry : BOOLEAN]]
      /\ tab'[t] = [token |-> u, socket |-> opened', retry |-> FALSE]
      /\ \A t2 \in Tabs \ {t} : tab'[t2] = tab[t2]
  BY <1>1, <1>2, <1>3
<1>5. Fresh(u) \in SocketRows
  BY DEF Fresh, SocketRows
<1>6. socket' = [socket EXCEPT ![opened'] = Fresh(u)]
  BY <1>1 DEF Connect
<1>7. /\ socket' \in [Sockets -> SocketRows]
      /\ socket'[opened'] = Fresh(u)
      /\ \A s \in Sockets \ {opened'} : socket'[s] = socket[s]
  BY <1>1, <1>5, <1>6, LiveTypes
<1> QED
  BY <1>1, <1>4, <1>7 DEF NewSocket

\* A tab that mounts or retries holds one new socket.
LEMMA ConnectKeeps ==
  ASSUME LiveInv
  PROVE  \A t \in Tabs, u \in Users :
           /\ NewSocket(t, u) /\ (tab[t].token = NoUser \/ tab[t].retry)
           /\ UNCHANGED <<registry, proposed, position, loop, shown>>
           /\ mounts' \in 0..MaxMounts /\ liveFaults' = liveFaults
           => LiveInv'
<1> SUFFICES ASSUME NEW t \in Tabs, NEW u \in Users,
                    NewSocket(t, u), tab[t].token = NoUser \/ tab[t].retry,
                    UNCHANGED <<registry, proposed, position, loop, shown>>,
                    mounts' \in 0..MaxMounts, liveFaults' = liveFaults
             PROVE  LiveInv'
  OBVIOUS
<1>0. /\ opened' = opened + 1 /\ opened' \in Sockets /\ opened \in Nat
      /\ tab'[t] = [token |-> u, socket |-> opened', retry |-> FALSE]
      /\ \A t2 \in Tabs \ {t} : tab'[t2] = tab[t2] /\ tab[t2].socket \in 0..opened
      /\ \A s \in Sockets \ {opened'} : socket'[s] = socket[s]
      /\ socket'[opened'] = Fresh(u) /\ socket[opened'] = Unused
  <2>1. socket[opened'] = Unused
    BY LiveTypes DEF NewSocket, LiveInv, FreshOK
  <2> QED
    BY <2>1, LiveTypes DEF NewSocket, LiveInv, TabRows
<1>1. LiveTypeOK'
  <2>1. opened' \in 0..MaxSockets
    BY <1>0, LiveTypes DEF LiveInv, Sockets
  <2> QED
    BY <2>1 DEF NewSocket, SocketRows, LiveInv, LiveTypeOK
<1>2. FreshOK'
  <2>1. \A s \in Sockets : IF s <= opened' THEN socket'[s].user \in Users ELSE socket'[s] = Unused
    <3> TAKE s \in Sockets
    <3>1. CASE s = opened'
      BY <1>0, <3>1 DEF Fresh
    <3>2. CASE s # opened'
      <4>1. s \in Nat /\ (s <= opened' <=> s <= opened) /\ socket'[s] = socket[s]
        BY <1>0, <3>2 DEF Sockets
      <4> QED
        BY <4>1 DEF LiveInv, FreshOK
    <3> QED
      BY <3>1, <3>2
  <2> QED
    BY <2>1 DEF LiveInv, FreshOK
<1>3. RegistryExact'
  <2>1. \A s \in Sockets : s = opened' \/ socket'[s] = socket[s]
    BY <1>0
  <2>2. socket[opened'].handler = "none" /\ socket'[opened'].handler = "auth"
    BY <1>0 DEF Unused, Fresh
  <2>3. ASSUME NEW v \in DOMAIN registry
        PROVE  /\ registry[v] # {}
               /\ \A s \in registry[v] : socket'[s].user = v /\ socket'[s].handler = "serving"
    BY <2>1, <2>2, LiveTypes DEF LiveInv, RegistryExact
  <2>4. ASSUME NEW s \in Sockets, socket'[s].handler = "serving", socket'[s].up
        PROVE  (s \in Registered(socket[s].user))'
    <3>1. socket'[s] = socket[s]
      BY <2>1, <2>2, <2>4
    <3> QED
      BY <2>4, <3>1 DEF LiveInv, RegistryExact, Registered, Connected
  <2> QED
    BY <2>3, <2>4 DEF RegistryExact
<1>4. OneSocketPerTab'
  <2>1. ASSUME NEW s \in Sockets, socket'[s].client \in {"connecting", "open"}
        PROVE  \E t2 \in Tabs : tab'[t2].socket = s
    <3>1. CASE s = opened'
      BY <1>0, <3>1
    <3>2. CASE s # opened'
      <4>1. socket[s].client \in {"connecting", "open"}
        BY <1>0, <2>1, <3>2
      <4>2. PICK t2 \in Tabs : tab[t2].socket = s
        BY <4>1 DEF LiveInv, OneSocketPerTab
      <4>3. t2 # t
        BY <4>1, <4>2 DEF LiveInv, OneSocketPerTab, NoEffect, NoSocket, Sockets
      <4> QED
        BY <1>0, <4>2, <4>3
    <3> QED
      BY <3>1, <3>2
  <2>2. ASSUME NEW t2 \in Tabs
        PROVE  /\ tab'[t2].token = NoUser => tab'[t2] = NoEffect
               /\ tab'[t2].token # NoUser =>
                    /\ tab'[t2].socket # NoSocket
                    /\ socket'[tab'[t2].socket].user = tab'[t2].token
                    /\ tab'[t2].retry <=> socket'[tab'[t2].socket].client = "closed"
    <3>1. CASE t2 = t
      BY <1>0, <3>1, LiveAssumption DEF LiveAssumption, Fresh, NoSocket, Sockets
    <3>2. CASE t2 # t
      <4>1. tab'[t2] = tab[t2] /\ tab[t2].socket \in 0..opened
        BY <1>0, <3>2
      <4>2. tab[t2].token # NoUser => socket'[tab[t2].socket] = socket[tab[t2].socket]
        <5>1. tab[t2].token # NoUser => tab[t2].socket \in Sockets \ {opened'}
          BY <1>0, <4>1, LiveTypes DEF LiveInv, OneSocketPerTab, NoSocket, Sockets
        <5> QED
          BY <1>0, <5>1
      <4> QED
        BY <4>1, <4>2 DEF LiveInv, OneSocketPerTab
    <3> QED
      BY <3>1, <3>2
  <2>3. ASSUME NEW t1 \in Tabs, NEW t2 \in Tabs \ {t1}, tab'[t1].socket = tab'[t2].socket
        PROVE  tab'[t1].socket = NoSocket
    <3>1. CASE t1 = t
      BY <1>0, <2>3, <3>1
    <3>2. CASE t2 = t
      BY <1>0, <2>3, <3>2
    <3>3. CASE t1 # t /\ t2 # t
      BY <1>0, <2>3, <3>3 DEF LiveInv, OneSocketPerTab
    <3> QED
      BY <3>1, <3>2, <3>3
  <2> QED
    BY <2>1, <2>2, <2>3 DEF OneSocketPerTab
<1>5. HeldOK'
  <2>1. ASSUME NEW t2 \in Tabs, tab'[t2].token # NoUser
        PROVE  socket'[tab'[t2].socket].client \in {"connecting", "open", "closed"}
    <3>1. CASE t2 = t
      BY <1>0, <3>1 DEF Fresh
    <3>2. CASE t2 # t
      <4>1. tab'[t2] = tab[t2] /\ tab[t2].socket \in Sockets \ {opened'}
        BY <1>0, <2>1, <3>2, LiveTypes DEF LiveInv, OneSocketPerTab, NoSocket, Sockets
      <4> QED
        BY <1>0, <2>1, <4>1 DEF LiveInv, HeldOK
    <3> QED
      BY <3>1, <3>2
  <2> QED
    BY <2>1 DEF HeldOK
<1> QED
  BY <1>1, <1>2, <1>3, <1>4, <1>5 DEF LiveInv

\* A step of a browser that opens no socket: the gateway's side stays as it was.
LEMMA BrowserKeeps ==
  ASSUME LiveInv, opened' = opened,
         UNCHANGED <<registry, proposed, position, loop, liveFaults>>,
         mounts' \in 0..MaxMounts, shown' \in [Tabs -> SUBSET (1..MaxMatches)],
         tab' \in [Tabs -> TabRows], socket' \in [Sockets -> SocketRows],
         \A s \in Sockets : /\ socket'[s].handler = socket[s].handler
                            /\ socket'[s].user = socket[s].user
                            /\ socket'[s].up => socket[s].up
                            /\ socket'[s] = socket[s] \/ s <= opened
  PROVE  LiveTypeOK' /\ FreshOK' /\ RegistryExact'
<1>1. LiveTypeOK'
  BY DEF LiveInv, LiveTypeOK, TabRows, SocketRows
<1>2. FreshOK'
  <2>1. ASSUME NEW s \in Sockets
        PROVE  IF s <= opened THEN socket'[s].user \in Users ELSE socket'[s] = Unused
    BY DEF LiveInv, FreshOK
  <2> QED
    BY <2>1 DEF LiveInv, FreshOK
<1>3. RegistryExact'
  BY RegistryKept, LiveTypes DEF LiveInv
<1> QED
  BY <1>1, <1>2, <1>3

\* The socket a tab holds is one that was created.
LEMMA TabHolds ==
  ASSUME LiveInv
  PROVE  \A t \in Tabs : /\ tab[t].socket \in 0..opened
                         /\ tab[t].socket # NoSocket => /\ tab[t].socket \in Sockets
                                                        /\ tab[t].socket <= opened
                                                        /\ tab[t].token # NoUser
                         /\ tab[t].token # NoUser => tab[t].socket # NoSocket
<1> TAKE t \in Tabs
<1>1. tab[t].socket \in 0..opened
  BY LiveTypes DEF LiveInv, TabRows
<1>2. tab[t].socket # NoSocket => tab[t].socket \in Sockets /\ tab[t].socket <= opened
  BY <1>1, LiveTypes DEF LiveInv, NoSocket, Sockets
<1>3. tab[t].socket # NoSocket => tab[t].token # NoUser
  BY DEF LiveInv, OneSocketPerTab, NoEffect
<1>4. tab[t].token # NoUser => tab[t].socket # NoSocket
  BY DEF LiveInv, OneSocketPerTab
<1> QED
  BY <1>1, <1>2, <1>3, <1>4

\* Nobody has a socket that was not created.
LEMMA Created ==
  ASSUME LiveInv
  PROVE  \A s \in Sockets : socket[s].client # "none" \/ socket[s].handler # "none" \/ socket[s].up
                            => s <= opened
  BY DEF LiveInv, FreshOK, Unused

\* A tab that goes closes the socket it had.
LEMMA UnmountKeeps ==
  ASSUME LiveInv
  PROVE  \A t \in Tabs : Unmount(t) => LiveInv'
<1> SUFFICES ASSUME NEW t \in Tabs, Unmount(t)
             PROVE  LiveInv'
  OBVIOUS
<1> DEFINE s0 == tab[t].socket
           new == [socket[s0] EXCEPT !.client = IF @ = "closed" THEN @ ELSE "closing", !.up = FALSE]
<1>0. s0 \in Sockets /\ s0 <= opened /\ s0 # NoSocket /\ tab[t].token # NoUser
  BY TabHolds DEF Unmount
<1>1. socket[s0] \in SocketRows /\ socket \in [Sockets -> SocketRows] /\ tab \in [Tabs -> TabRows]
  BY <1>0, LiveTypes DEF LiveInv
<1>2. socket' = [socket EXCEPT ![s0] = new] /\ tab' = [tab EXCEPT ![t] = NoEffect]
  BY <1>0, <1>1 DEF Unmount
<1>3. /\ new \in SocketRows /\ new.handler = socket[s0].handler /\ new.user = socket[s0].user
      /\ new.up = FALSE /\ new.client \in {"closed", "closing"}
  BY <1>1 DEF SocketRows
<1>4. NoEffect \in TabRows
  BY LiveTypes DEF LiveInv, NoEffect, TabRows, NoSocket
<1> HIDE DEF new
<1>5. /\ socket' \in [Sockets -> SocketRows] /\ socket'[s0] = new
      /\ \A s \in Sockets \ {s0} : socket'[s] = socket[s]
  BY <1>0, <1>1, <1>2, <1>3
<1>6. /\ tab' \in [Tabs -> TabRows] /\ tab'[t] = NoEffect
      /\ \A t2 \in Tabs \ {t} : tab'[t2] = tab[t2] /\ tab[t2].socket # s0
  <2>1. \A t2 \in Tabs \ {t} : tab[t2].socket # s0
    BY <1>0 DEF LiveInv, OneSocketPerTab
  <2> QED
    BY <2>1, <1>1, <1>2, <1>4
<1>7. LiveTypeOK' /\ FreshOK' /\ RegistryExact'
  <2>1. \A s \in Sockets : /\ socket'[s].handler = socket[s].handler
                           /\ socket'[s].user = socket[s].user
                           /\ socket'[s].up => socket[s].up
                           /\ socket'[s] = socket[s] \/ s <= opened
    BY <1>0, <1>3, <1>5
  <2>2. mounts' \in 0..MaxMounts /\ shown' \in [Tabs -> SUBSET (1..MaxMatches)]
    BY LiveAssumption DEF Unmount, LiveInv, LiveTypeOK, LiveAssumption
  <2>3. opened' = opened /\ UNCHANGED <<registry, proposed, position, loop, liveFaults>>
    BY DEF Unmount
  <2> QED
    BY <2>1, <2>2, <2>3, <1>5, <1>6, BrowserKeeps
<1>8. \A t2 \in Tabs \ {t} : tab[t2].token # NoUser => tab[t2].socket \in Sockets \ {s0}
  BY <1>6, TabHolds
<1>9. OneSocketPerTab'
  <2>1. ASSUME NEW s \in Sockets, socket'[s].client \in {"connecting", "open"}
        PROVE  \E t2 \in Tabs : tab'[t2].socket = s
    <3>1. s # s0 /\ socket[s].client \in {"connecting", "open"}
      BY <1>3, <1>5, <2>1
    <3>2. PICK t2 \in Tabs : tab[t2].socket = s
      BY <3>1 DEF LiveInv, OneSocketPerTab
    <3> QED
      BY <3>1, <3>2, <1>6
  <2>2. ASSUME NEW t2 \in Tabs
        PROVE  /\ tab'[t2].token = NoUser => tab'[t2] = NoEffect
               /\ tab'[t2].token # NoUser =>
                    /\ tab'[t2].socket # NoSocket
                    /\ socket'[tab'[t2].socket].user = tab'[t2].token
                    /\ tab'[t2].retry <=> socket'[tab'[t2].socket].client = "closed"
    <3>1. CASE t2 = t
      BY <1>6, <3>1 DEF NoEffect
    <3>2. CASE t2 # t
      BY <1>5, <1>6, <1>8, <3>2 DEF LiveInv, OneSocketPerTab
    <3> QED
      BY <3>1, <3>2
  <2>3. ASSUME NEW t1 \in Tabs, NEW t2 \in Tabs \ {t1}, tab'[t1].socket = tab'[t2].socket
        PROVE  tab'[t1].socket = NoSocket
    BY <1>6, <2>3 DEF LiveInv, OneSocketPerTab, NoEffect
  <2> QED
    BY <2>1, <2>2, <2>3 DEF OneSocketPerTab
<1>10. HeldOK'
  <2>1. ASSUME NEW t2 \in Tabs, tab'[t2].token # NoUser
        PROVE  socket'[tab'[t2].socket].client \in {"connecting", "open", "closed"}
    <3>1. t2 # t
      BY <1>6, <2>1 DEF NoEffect
    <3> QED
      BY <1>5, <1>6, <1>8, <2>1, <3>1 DEF LiveInv, HeldOK
  <2> QED
    BY <2>1 DEF HeldOK
<1> QED
  BY <1>7, <1>9, <1>10 DEF LiveInv

\* A tab's own socket opens, is read, or is found lost; a closing one closes.
ClientMove(s0, c, q) ==
  /\ c \in {"connecting", "open", "closed"} /\ q \in Seq(1..MaxMatches)
  /\ s0 <= opened
  /\ opened' = opened /\ mounts' = mounts
  /\ UNCHANGED <<registry, proposed, position, loop, liveFaults>>
  /\ shown' \in [Tabs -> SUBSET (1..MaxMatches)]
  /\ socket' = [socket EXCEPT ![s0] = [socket[s0] EXCEPT !.client = c, !.inbox = q]]
  /\ c \in {"connecting", "open"} => socket[s0].client \in {"connecting", "open"}
  /\ tab' \in [Tabs -> TabRows]
  /\ \A t \in Tabs : /\ tab'[t].token = tab[t].token /\ tab'[t].socket = tab[t].socket
                     /\ tab[t].socket # s0 => tab'[t].retry = tab[t].retry
                     /\ tab[t].socket = s0 => (tab'[t].retry <=> c = "closed")

\* What the browser's end of a socket does is not the registry's business.
LEMMA ClientKeeps ==
  ASSUME LiveInv
  PROVE  \A s0 \in Sockets : \A c, q : ClientMove(s0, c, q) => LiveInv'
<1> SUFFICES ASSUME NEW s0 \in Sockets, NEW c, NEW q, ClientMove(s0, c, q)
             PROVE  LiveInv'
  OBVIOUS
<1> USE DEF ClientMove
<1> DEFINE new == [socket[s0] EXCEPT !.client = c, !.inbox = q]
<1>1. socket[s0] \in SocketRows /\ socket \in [Sockets -> SocketRows] /\ tab \in [Tabs -> TabRows]
  BY LiveTypes DEF LiveInv
<1>2. /\ new \in SocketRows /\ new.handler = socket[s0].handler /\ new.user = socket[s0].user
      /\ new.up = socket[s0].up /\ new.client = c
  BY <1>1 DEF SocketRows
<1> HIDE DEF new
<1>3. /\ socket' \in [Sockets -> SocketRows] /\ socket'[s0] = new
      /\ \A s \in Sockets \ {s0} : socket'[s] = socket[s]
  BY <1>1, <1>2 DEF new
<1>4. LiveTypeOK' /\ FreshOK' /\ RegistryExact'
  <2>1. \A s \in Sockets : /\ socket'[s].handler = socket[s].handler
                           /\ socket'[s].user = socket[s].user
                           /\ socket'[s].up => socket[s].up
                           /\ socket'[s] = socket[s] \/ s <= opened
    BY <1>2, <1>3
  <2>2. mounts' \in 0..MaxMounts
    BY DEF LiveInv, LiveTypeOK
  <2> QED
    BY <2>1, <2>2, <1>3, BrowserKeeps
<1>5. OneSocketPerTab'
  <2>1. ASSUME NEW s \in Sockets, socket'[s].client \in {"connecting", "open"}
        PROVE  \E t2 \in Tabs : tab'[t2].socket = s
    <3>1. socket[s].client \in {"connecting", "open"}
      BY <1>2, <1>3, <2>1
    <3> QED
      BY <3>1 DEF LiveInv, OneSocketPerTab
  <2>2. ASSUME NEW t2 \in Tabs
        PROVE  /\ tab'[t2].token = NoUser => tab'[t2] = NoEffect
               /\ tab'[t2].token # NoUser =>
                    /\ tab'[t2].socket # NoSocket
                    /\ socket'[tab'[t2].socket].user = tab'[t2].token
                    /\ tab'[t2].retry <=> socket'[tab'[t2].socket].client = "closed"
    <3>1. tab[t2] \in TabRows /\ tab'[t2] \in [token : Users \cup {NoUser}, socket : 0..opened', retry : BOOLEAN]
      BY <1>1 DEF TabRows
    <3>2. CASE tab[t2].token = NoUser
      <4>1. tab[t2] = NoEffect /\ tab[t2].socket # s0
        <5>1. tab[t2] = NoEffect
          BY <3>2 DEF LiveInv, OneSocketPerTab
        <5>2. s0 # NoSocket
          BY DEF Sockets, NoSocket
        <5> QED
          BY <5>1, <5>2, <3>2, TabHolds
      <4>2. tab'[t2].retry = tab[t2].retry
        BY <4>1
      <4> QED
        BY <3>1, <3>2, <4>1, <4>2 DEF NoEffect, TabRows
    <3>3. CASE tab[t2].token # NoUser
      <4>1. tab[t2].socket \in Sockets /\ tab[t2].socket # NoSocket
        BY <3>3, TabHolds
      <4>2. CASE tab[t2].socket = s0
        BY <1>2, <1>3, <3>3, <4>1, <4>2 DEF LiveInv, OneSocketPerTab
      <4>3. CASE tab[t2].socket # s0
        BY <1>3, <3>3, <4>1, <4>3 DEF LiveInv, OneSocketPerTab
      <4> QED
        BY <4>2, <4>3
    <3> QED
      BY <3>2, <3>3
  <2>3. ASSUME NEW t1 \in Tabs, NEW t2 \in Tabs \ {t1}, tab'[t1].socket = tab'[t2].socket
        PROVE  tab'[t1].socket = NoSocket
    BY <2>3 DEF LiveInv, OneSocketPerTab
  <2> QED
    BY <2>1, <2>2, <2>3 DEF OneSocketPerTab
<1>6. HeldOK'
  <2>1. ASSUME NEW t2 \in Tabs, tab'[t2].token # NoUser
        PROVE  socket'[tab'[t2].socket].client \in {"connecting", "open", "closed"}
    <3>1. tab[t2].token # NoUser /\ tab[t2].socket \in Sockets
      BY <2>1, TabHolds
    <3> QED
      BY <1>2, <1>3, <3>1 DEF LiveInv, HeldOK
  <2> QED
    BY <2>1 DEF HeldOK
<1> QED
  BY <1>4, <1>5, <1>6 DEF LiveInv

\* The callbacks of a tab's own socket.
LEMMA BrowserStepKeeps ==
  ASSUME LiveInv, NEW t \in Tabs, OnOpen(t) \/ OnMessage(t) \/ OnClose(t)
  PROVE  LiveInv'
<1> DEFINE s0 == tab[t].socket
<1>0. s0 \in Sockets /\ s0 <= opened /\ socket[s0] \in SocketRows /\ tab \in [Tabs -> TabRows]
  BY TabHolds, LiveTypes DEF LiveInv, OnOpen, OnMessage, OnClose
<1>1. /\ shown \in [Tabs -> SUBSET (1..MaxMatches)]
      /\ socket[s0].inbox \in Seq(1..MaxMatches)
  BY <1>0 DEF LiveInv, LiveTypeOK, SocketRows
<1>2. tab[t].retry <=> socket[s0].client = "closed"
  BY <1>0, TabHolds DEF LiveInv, OneSocketPerTab, NoSocket, Sockets
<1>3. \A t2 \in Tabs \ {t} : tab[t2].socket # s0
  BY <1>0 DEF LiveInv, OneSocketPerTab, NoSocket, Sockets
<1>4. CASE OnOpen(t)
  <2>1. socket' = [socket EXCEPT ![s0] = [socket[s0] EXCEPT !.client = "open", !.inbox = socket[s0].inbox]]
    BY <1>0, <1>4 DEF OnOpen, SocketRows
  <2>2. socket[s0].client = "connecting" /\ UNCHANGED <<tab, opened, registry, proposed, position, loop, shown, mounts, liveFaults>>
    BY <1>4 DEF OnOpen
  <2>3. ClientMove(s0, "open", socket[s0].inbox)
    BY <1>0, <1>1, <1>2, <1>3, <2>1, <2>2 DEF ClientMove
  <2> HIDE DEF s0
  <2> QED
    BY <1>0, <2>3, ClientKeeps
<1>5. CASE OnMessage(t)
  <2>1. socket' = [socket EXCEPT ![s0] = [socket[s0] EXCEPT !.client = "open", !.inbox = Tail(socket[s0].inbox)]]
    BY <1>0, <1>5 DEF OnMessage, SocketRows
  <2>2. socket[s0].client = "open" /\ UNCHANGED <<tab, opened, registry, proposed, position, loop, mounts, liveFaults>>
    BY <1>5 DEF OnMessage
  <2>3. socket[s0].inbox # <<>> /\ shown' = [shown EXCEPT ![t] = @ \cup {Head(socket[s0].inbox)}]
    BY <1>5 DEF OnMessage
  <2>4. Head(socket[s0].inbox) \in 1..MaxMatches /\ Tail(socket[s0].inbox) \in Seq(1..MaxMatches)
    <3>1. \A q \in Seq(1..MaxMatches) : q # <<>> =>
            Head(q) \in 1..MaxMatches /\ Tail(q) \in Seq(1..MaxMatches)
      BY HeadTailProperties
    <3> QED
      BY <3>1, <1>1, <2>3
  <2>5. shown' \in [Tabs -> SUBSET (1..MaxMatches)]
    BY <1>1, <2>3, <2>4
  <2>6. ClientMove(s0, "open", Tail(socket[s0].inbox))
    BY <1>0, <1>2, <1>3, <2>1, <2>2, <2>4, <2>5 DEF ClientMove
  <2> HIDE DEF s0
  <2> QED
    BY <1>0, <2>6, ClientKeeps
<1>6. CASE OnClose(t)
  <2>1. socket' = [socket EXCEPT ![s0] = [socket[s0] EXCEPT !.client = "closed", !.inbox = socket[s0].inbox]]
    BY <1>0, <1>6 DEF OnClose, SocketRows
  <2>2. /\ UNCHANGED <<opened, registry, proposed, position, loop, shown, mounts, liveFaults>>
        /\ tab' = [tab EXCEPT ![t].retry = TRUE]
    BY <1>6 DEF OnClose
  <2>3. /\ tab' \in [Tabs -> TabRows]
        /\ tab'[t].token = tab[t].token /\ tab'[t].socket = tab[t].socket /\ tab'[t].retry = TRUE
        /\ \A t2 \in Tabs \ {t} : tab'[t2] = tab[t2]
    BY <1>0, <2>2 DEF TabRows
  <2>4. ClientMove(s0, "closed", socket[s0].inbox)
    BY <1>0, <1>1, <1>3, <2>1, <2>2, <2>3 DEF ClientMove
  <2> HIDE DEF s0
  <2> QED
    BY <1>0, <2>4, ClientKeeps
<1> QED
  BY <1>4, <1>5, <1>6

\* The callback of a socket its tab has already left.
LEMMA OnCloseLateKeeps ==
  ASSUME LiveInv, NEW s0 \in Sockets, OnCloseLate(s0)
  PROVE  LiveInv'
<1>1. s0 <= opened /\ socket[s0] \in SocketRows /\ tab \in [Tabs -> TabRows]
  BY Created, LiveTypes DEF OnCloseLate, LiveInv
<1>2. socket' = [socket EXCEPT ![s0] = [socket[s0] EXCEPT !.client = "closed", !.inbox = socket[s0].inbox]]
  BY <1>1 DEF OnCloseLate, SocketRows
<1>3. \A t \in Tabs : tab[t].socket # s0
  <2> TAKE t \in Tabs
  <2>1. tab[t].socket = s0 => tab[t].token # NoUser
    BY TabHolds DEF Sockets, NoSocket
  <2> QED
    BY <2>1 DEF LiveInv, HeldOK, OnCloseLate
<1>4. socket[s0].inbox \in Seq(1..MaxMatches) /\ shown \in [Tabs -> SUBSET (1..MaxMatches)]
  BY <1>1 DEF LiveInv, LiveTypeOK, SocketRows
<1>5. UNCHANGED <<tab, opened, registry, proposed, position, loop, shown, mounts, liveFaults>>
  BY DEF OnCloseLate
<1>6. ClientMove(s0, "closed", socket[s0].inbox)
  BY <1>1, <1>2, <1>3, <1>4, <1>5 DEF ClientMove
<1> QED
  BY <1>6, ClientKeeps

-------------------------------------------------------------------------------
(* The steps of the gateway *)

\* What a step of the gateway leaves to be shown, once the tabs are seen to.
GatewayMove ==
  /\ tab' = tab /\ opened' = opened /\ shown' = shown /\ mounts' = mounts
  /\ liveFaults' \in 0..MaxFaults
  /\ socket' \in [Sockets -> SocketRows]
  /\ \A s \in Sockets : /\ socket'[s].client = socket[s].client
                        /\ socket'[s].user = socket[s].user
                        /\ socket'[s] = socket[s] \/ s <= opened
  /\ DOMAIN registry' \subseteq Users /\ registry' \in [DOMAIN registry' -> SUBSET Sockets]
  /\ proposed' \in Seq(Users) /\ Len(proposed') <= MaxMatches
  /\ position' \in 1..(Len(proposed') + 1)
  /\ loop' \in [at : {"off", "poll", "read", "send", "dead"}, left : SUBSET Sockets]
  /\ loop'.at \in {"read", "send"} => position' <= Len(proposed')
  /\ RegistryExact'

\* What the gateway does to its own ends of the sockets is not a tab's business.
LEMMA GatewayKeeps == LiveInv /\ GatewayMove => LiveInv'
<1> SUFFICES ASSUME LiveInv, GatewayMove
             PROVE  LiveInv'
  OBVIOUS
<1> USE DEF GatewayMove
<1>1. LiveTypeOK'
  BY DEF LiveInv, LiveTypeOK, SocketRows
<1>2. FreshOK'
  <2>1. ASSUME NEW s \in Sockets
        PROVE  IF s <= opened THEN socket'[s].user \in Users ELSE socket'[s] = Unused
    BY DEF LiveInv, FreshOK
  <2> QED
    BY <2>1 DEF FreshOK
<1>3. OneSocketPerTab' /\ HeldOK'
  BY TabsKept DEF LiveInv
<1> QED
  BY <1>1, <1>2, <1>3 DEF LiveInv

\* The connection is accepted, refused or lost; nothing is registered or taken out.
HandlerMove(s0, handler, up) ==
  /\ UNCHANGED <<tab, opened, registry, proposed, position, loop, shown, mounts>>
  /\ liveFaults' \in 0..MaxFaults
  /\ s0 <= opened
  /\ socket' = [socket EXCEPT ![s0] = [socket[s0] EXCEPT !.handler = handler, !.up = up]]
  /\ handler \in {"none", "auth", "accepted", "serving", "done"} /\ up \in BOOLEAN
  /\ handler = "serving" <=> socket[s0].handler = "serving"
  /\ up => socket[s0].up

\* A handler that was not serving and does not begin to leaves the registry as it is.
LEMMA HandlerMoveKeeps ==
  ASSUME LiveInv
  PROVE  \A s0 \in Sockets : \A handler, up : HandlerMove(s0, handler, up) => LiveInv'
<1> SUFFICES ASSUME NEW s0 \in Sockets, NEW handler, NEW up, HandlerMove(s0, handler, up)
             PROVE  LiveInv'
  OBVIOUS
<1> USE DEF HandlerMove
<1> DEFINE new == [socket[s0] EXCEPT !.handler = handler, !.up = up]
<1>1. socket[s0] \in SocketRows /\ socket \in [Sockets -> SocketRows]
  BY LiveTypes DEF LiveInv
<1>2. /\ new \in SocketRows /\ new.handler = handler /\ new.user = socket[s0].user
      /\ new.up = up /\ new.client = socket[s0].client
  BY <1>1 DEF SocketRows
<1> HIDE DEF new
<1>3. /\ socket' \in [Sockets -> SocketRows] /\ socket'[s0] = new
      /\ \A s \in Sockets \ {s0} : socket'[s] = socket[s]
  BY <1>1, <1>2 DEF new
<1>4. RegistryExact'
  BY <1>2, <1>3, RegistryKept, LiveTypes DEF LiveInv
<1>5. /\ \A s \in Sockets : /\ socket'[s].client = socket[s].client
                            /\ socket'[s].user = socket[s].user
                            /\ socket'[s] = socket[s] \/ s <= opened
      /\ DOMAIN registry' \subseteq Users /\ registry' \in [DOMAIN registry' -> SUBSET Sockets]
  BY <1>2, <1>3, LiveTypes DEF LiveInv
<1>6. /\ proposed' \in Seq(Users) /\ Len(proposed') <= MaxMatches
      /\ position' \in 1..(Len(proposed') + 1)
      /\ loop' \in [at : {"off", "poll", "read", "send", "dead"}, left : SUBSET Sockets]
      /\ loop'.at \in {"read", "send"} => position' <= Len(proposed')
  BY DEF LiveInv, LiveTypeOK, FreshOK
<1>7. GatewayMove
  BY <1>3, <1>4, <1>5, <1>6 DEF GatewayMove
<1> QED
  BY <1>7, GatewayKeeps

\* Faults stay within their bound.
LEMMA FaultCounted == LiveTypeOK /\ Fault => liveFaults' \in 0..MaxFaults
BY LiveAssumption DEF LiveTypeOK, Fault, LiveAssumption

\* Accepting, refusing and losing connections.
LEMMA HandlerStepKeeps ==
  ASSUME LiveInv, NEW s \in Sockets,
         Accept(s) \/ Refuse(s) \/ AcceptFails(s) \/ LoseConnection(s)
  PROVE  LiveInv'
<1>1. s <= opened /\ socket[s] \in SocketRows
  BY Created, LiveTypes DEF LiveInv, Accept, Refuse, AcceptFails, LoseConnection
<1>2. liveFaults' \in 0..MaxFaults
  BY FaultCounted DEF LiveInv, LiveTypeOK, Accept, Refuse, AcceptFails, LoseConnection
<1>3. CASE Accept(s)
  <2>1. HandlerMove(s, "accepted", socket[s].up)
    BY <1>1, <1>2, <1>3 DEF Accept, HandlerMove, SocketRows
  <2> QED
    BY <2>1, HandlerMoveKeeps
<1>4. CASE Refuse(s)
  <2>1. HandlerMove(s, "done", FALSE)
    BY <1>1, <1>2, <1>4 DEF Refuse, HandlerMove, SocketRows
  <2> QED
    BY <2>1, HandlerMoveKeeps
<1>5. CASE AcceptFails(s)
  <2>1. HandlerMove(s, "done", socket[s].up)
    BY <1>1, <1>2, <1>5 DEF AcceptFails, HandlerMove, SocketRows
  <2> QED
    BY <2>1, HandlerMoveKeeps
<1>6. CASE LoseConnection(s)
  <2>1. HandlerMove(s, socket[s].handler, FALSE)
    BY <1>1, <1>2, <1>6 DEF LoseConnection, HandlerMove, SocketRows
  <2> QED
    BY <2>1, HandlerMoveKeeps
<1> QED
  BY <1>3, <1>4, <1>5, <1>6

\* A handler that serves is registered.
LEMMA ServeKeeps ==
  ASSUME LiveInv
  PROVE  \A s0 \in Sockets : Serve(s0) => LiveInv'
<1> SUFFICES ASSUME NEW s0 \in Sockets, Serve(s0)
             PROVE  LiveInv'
  OBVIOUS
<1>1. s0 <= opened /\ socket[s0] \in SocketRows /\ socket \in [Sockets -> SocketRows]
  BY Created, LiveTypes DEF LiveInv, Serve
<1>2. PICK u \in Users : u = socket[s0].user
  BY <1>1 DEF LiveInv, FreshOK
<1>3. /\ socket' \in [Sockets -> SocketRows]
      /\ socket'[s0].handler = "serving" /\ socket'[s0].user = u
      /\ socket'[s0].client = socket[s0].client
      /\ \A s \in Sockets \ {s0} : socket'[s] = socket[s]
  BY <1>1, <1>2 DEF Serve, SocketRows
<1>4. registry' = Register(u, s0)
  BY <1>2 DEF Serve
<1>5. /\ DOMAIN registry' = DOMAIN registry \cup {u}
      /\ \A v \in DOMAIN registry' : registry'[v] = IF v = u THEN Registered(u) \cup {s0} ELSE registry[v]
      /\ registry' = [v \in DOMAIN registry' |-> registry'[v]]
  BY <1>4 DEF Register
<1>6. /\ Registered(u) \subseteq Sockets
      /\ \A s \in Registered(u) : socket[s].user = u /\ socket[s].handler = "serving"
  BY LiveTypes DEF LiveInv, RegistryExact, Registered, Connected
<1>7. /\ DOMAIN registry' \subseteq Users
      /\ \A v \in DOMAIN registry' : registry'[v] \subseteq Sockets
  BY <1>5, <1>6, LiveTypes DEF LiveInv
<1>8. registry' \in [DOMAIN registry' -> SUBSET Sockets]
  BY <1>5, <1>7
<1>9. RegistryExact'
  <2>1. ASSUME NEW v \in DOMAIN registry'
        PROVE  /\ registry'[v] # {}
               /\ \A s \in registry'[v] : socket'[s].user = v /\ socket'[s].handler = "serving"
    <3>1. CASE v = u
      BY <1>3, <1>5, <1>6, <3>1
    <3>2. CASE v # u
      <4>1. v \in DOMAIN registry /\ registry'[v] = registry[v] /\ registry[v] \subseteq Sockets
        BY <1>5, <3>2, LiveTypes DEF LiveInv
      <4> QED
        BY <1>3, <4>1 DEF LiveInv, RegistryExact, Serve
    <3> QED
      BY <3>1, <3>2
  <2>2. ASSUME NEW s \in Sockets, socket'[s].handler = "serving", socket'[s].up
        PROVE  (s \in Registered(socket[s].user))'
    <3>1. CASE s = s0
      <4>1. u \in DOMAIN registry' /\ s0 \in registry'[u] /\ socket'[s].user = u
        BY <1>3, <1>5, <3>1
      <4> QED
        BY <4>1, <3>1 DEF Registered, Connected
    <3>2. CASE s # s0
      <4>1. PICK w : w = socket[s].user
        OBVIOUS
      <4>2. w = socket'[s].user /\ s \in Registered(w)
        BY <1>3, <2>2, <3>2, <4>1 DEF LiveInv, RegistryExact
      <4>3. w \in DOMAIN registry /\ s \in registry[w]
        BY <4>2 DEF Registered, Connected
      <4>4. w \in DOMAIN registry' /\ s \in registry'[w]
        BY <1>5, <4>2, <4>3
      <4> QED
        BY <4>2, <4>4 DEF Registered, Connected
    <3> QED
      BY <3>1, <3>2
  <2> QED
    BY <2>1, <2>2 DEF RegistryExact
<1>10. UNCHANGED <<tab, opened, proposed, position, loop, shown, mounts, liveFaults>>
  BY DEF Serve
<1>11. /\ proposed' \in Seq(Users) /\ Len(proposed') <= MaxMatches
       /\ position' \in 1..(Len(proposed') + 1) /\ liveFaults' \in 0..MaxFaults
       /\ loop' \in [at : {"off", "poll", "read", "send", "dead"}, left : SUBSET Sockets]
       /\ loop'.at \in {"read", "send"} => position' <= Len(proposed')
  BY <1>10 DEF LiveInv, LiveTypeOK, FreshOK
<1>12. \A s \in Sockets : /\ socket'[s].client = socket[s].client
                          /\ socket'[s].user = socket[s].user
                          /\ socket'[s] = socket[s] \/ s <= opened
  BY <1>1, <1>2, <1>3
<1>13. GatewayMove
  <2>1. tab' = tab /\ opened' = opened /\ shown' = shown /\ mounts' = mounts
    BY <1>10
  <2> QED
    BY <2>1, <1>3, <1>7, <1>8, <1>9, <1>11, <1>12 DEF GatewayMove
<1> QED
  BY <1>13, GatewayKeeps

\* A socket that is taken out of the registry is not served any more, or not connected.
LEMMA UnregisteredExact ==
  ASSUME LiveInv, NEW u \in Users, NEW s0 \in Sockets, Unregistered(u, s0),
         \A s \in Sockets : socket'[s].user = socket[s].user /\ (socket'[s].up => socket[s].up),
         \A s \in Sockets \ {s0} : socket'[s].handler = "serving" <=> socket[s].handler = "serving",
         \/ socket'[s0].handler = "serving" <=> socket[s0].handler = "serving"
         \/ socket[s0].user = u,
         ~ (socket'[s0].handler = "serving" /\ socket'[s0].up),
         \A s \in Sockets : socket[s].user \in Users \/ socket[s].handler # "serving"
  PROVE  RegistryExact'
<1>1. ASSUME NEW v \in DOMAIN registry'
      PROVE  /\ registry'[v] # {}
             /\ \A s \in registry'[v] : socket'[s].user = v /\ socket'[s].handler = "serving"
  <2>1. v \in DOMAIN registry /\ registry'[v] # {} /\ registry'[v] \subseteq registry[v]
    BY DEF Unregistered
  <2>2. registry[v] \subseteq Sockets
    BY <2>1, LiveTypes DEF LiveInv
  <2>3. ASSUME NEW s \in registry'[v]
        PROVE  socket'[s].user = v /\ socket'[s].handler = "serving"
    <3>1. s \in Sockets /\ socket[s].user = v /\ socket[s].handler = "serving"
      BY <2>1, <2>2 DEF LiveInv, RegistryExact
    <3>2. ~ (s = s0 /\ v = u)
      BY DEF Unregistered, Registered, Connected
    <3> QED
      BY <3>1, <3>2
  <2> QED
    BY <2>1, <2>3
<1>2. ASSUME NEW s \in Sockets, socket'[s].handler = "serving", socket'[s].up
      PROVE  (s \in Registered(socket[s].user))'
  <2>1. s # s0 /\ socket[s].handler = "serving" /\ socket[s].up
    BY <1>2
  <2>2. PICK w \in Users : w = socket[s].user /\ w = socket'[s].user
    BY <2>1
  <2>3. s \in Registered(w)
    BY <2>1, <2>2 DEF LiveInv, RegistryExact
  <2>4. Registered(w)' = Registered(socket[s].user)'
    BY <2>2 DEF Registered, Connected
  <2> QED
    BY <2>1, <2>3, <2>4 DEF Unregistered
<1> QED
  BY <1>1, <1>2 DEF RegistryExact

\* A handler that ends is not.
LEMMA DisconnectKeeps ==
  ASSUME LiveInv
  PROVE  \A s0 \in Sockets : Disconnect(s0) => LiveInv'
<1> SUFFICES ASSUME NEW s0 \in Sockets, Disconnect(s0)
             PROVE  LiveInv'
  OBVIOUS
<1>1. s0 <= opened /\ socket[s0] \in SocketRows /\ socket \in [Sockets -> SocketRows]
  BY Created, LiveTypes DEF LiveInv, Disconnect
<1>2. PICK u \in Users : u = socket[s0].user
  BY <1>1 DEF LiveInv, FreshOK
<1>3. /\ socket' \in [Sockets -> SocketRows]
      /\ socket'[s0].handler = "done" /\ socket'[s0].user = u
      /\ socket'[s0].client = socket[s0].client /\ socket'[s0].up = socket[s0].up
      /\ \A s \in Sockets \ {s0} : socket'[s] = socket[s]
  BY <1>1, <1>2 DEF Disconnect, SocketRows
<1>4. Unregistered(u, s0)
  <2>1. registry' = Unregister(u, s0)
    BY <1>2 DEF Disconnect
  <2> QED
    BY <2>1, UnregisterOutcome DEF LiveInv
<1>5. \A s \in Sockets : socket[s].user \in Users \/ socket[s].handler # "serving"
  BY DEF LiveInv, FreshOK, Unused
<1>6. RegistryExact'
  <2>1. \A s \in Sockets : socket'[s].user = socket[s].user /\ (socket'[s].up => socket[s].up)
    BY <1>2, <1>3
  <2>2. ~ (socket'[s0].handler = "serving" /\ socket'[s0].up)
    BY <1>3
  <2>3. \A s \in Sockets \ {s0} : socket'[s].handler = "serving" <=> socket[s].handler = "serving"
    BY <1>3
  <2> QED
    BY <1>2, <1>4, <1>5, <2>1, <2>2, <2>3, UnregisteredExact
<1>7. UNCHANGED <<tab, opened, proposed, position, loop, shown, mounts, liveFaults>>
  BY DEF Disconnect
<1>8. /\ proposed' \in Seq(Users) /\ Len(proposed') <= MaxMatches
      /\ position' \in 1..(Len(proposed') + 1) /\ liveFaults' \in 0..MaxFaults
      /\ loop' \in [at : {"off", "poll", "read", "send", "dead"}, left : SUBSET Sockets]
      /\ loop'.at \in {"read", "send"} => position' <= Len(proposed')
  BY <1>7 DEF LiveInv, LiveTypeOK, FreshOK
<1>9. /\ \A s \in Sockets : /\ socket'[s].client = socket[s].client
                            /\ socket'[s].user = socket[s].user
                            /\ socket'[s] = socket[s] \/ s <= opened
      /\ DOMAIN registry' \subseteq Users /\ registry' \in [DOMAIN registry' -> SUBSET Sockets]
  BY <1>1, <1>2, <1>3, <1>4, LiveTypes DEF LiveInv, Unregistered
<1>10. GatewayMove
  <2>1. tab' = tab /\ opened' = opened /\ shown' = shown /\ mounts' = mounts
    BY <1>7
  <2> QED
    BY <2>1, <1>3, <1>6, <1>8, <1>9 DEF GatewayMove
<1> QED
  BY <1>10, GatewayKeeps

\* Steps of the push loop that look at sockets and registry and write neither.
LoopMove ==
  /\ UNCHANGED <<tab, socket, opened, registry, shown, mounts>>
  /\ liveFaults' \in 0..MaxFaults
  /\ proposed' \in Seq(Users) /\ Len(proposed') <= MaxMatches
  /\ position' \in 1..(Len(proposed') + 1)
  /\ loop' \in [at : {"off", "poll", "read", "send", "dead"}, left : SUBSET Sockets]
  /\ loop'.at \in {"read", "send"} => position' <= Len(proposed')

\* A step of the push loop that touches no socket.
LEMMA LoopMoveKeeps == LiveInv /\ LoopMove => LiveInv'
<1> SUFFICES ASSUME LiveInv, LoopMove
             PROVE  LiveInv'
  OBVIOUS
<1>1. /\ socket' = socket /\ registry' = registry
      /\ DOMAIN registry \subseteq Users /\ registry \in [DOMAIN registry -> SUBSET Sockets]
      /\ socket \in [Sockets -> SocketRows]
  BY LiveTypes DEF LoopMove, LiveInv
<1>2. RegistryExact'
  BY <1>1, RegistryKept, LiveTypes DEF LiveInv
<1>3. GatewayMove
  BY <1>1, <1>2 DEF GatewayMove, LoopMove
<1> QED
  BY <1>3, GatewayKeeps

\* What the loop knows between its steps.
LEMMA LoopTypes ==
  ASSUME LiveInv
  PROVE  /\ proposed \in Seq(Users) /\ Len(proposed) \in Nat /\ Len(proposed) <= MaxMatches
         /\ position \in 1..(Len(proposed) + 1)
         /\ loop \in [at : {"off", "poll", "read", "send", "dead"}, left : SUBSET Sockets]
         /\ loop.at \in {"read", "send"} => position <= Len(proposed)
         /\ liveFaults \in 0..MaxFaults /\ MaxMatches \in Nat
         /\ position <= Len(proposed) => proposed[position] \in Users
<1>1. proposed \in Seq(Users) /\ position \in 1..(Len(proposed) + 1)
  BY DEF LiveInv, LiveTypeOK
<1>2. Len(proposed) \in Nat
  BY <1>1
<1>3. position <= Len(proposed) => proposed[position] \in Users
  BY <1>1, <1>2
<1> QED
  BY <1>1, <1>2, <1>3, LiveAssumption DEF LiveInv, LiveTypeOK, FreshOK, LiveAssumption

\* Only sockets are registered.
LEMMA RegisteredTyped ==
  ASSUME LiveTypeOK
  PROVE  \A u : Registered(u) \subseteq Sockets
  BY LiveTypes DEF Registered, Connected

\* The push loop reads, skips and takes matches.
LEMMA LoopStepKeeps ==
  ASSUME LiveInv,
         \/ SkipMatch \/ TakeMatch \/ PushDone \/ ReadFails \/ StartFails
         \/ \E visible \in BOOLEAN : ReadItem(visible)
         \/ \E from \in 1..(Len(proposed) + 1) : StartLoop(from)
         \/ \E u \in Users : Propose(u)
  PROVE  LiveInv'
<1> USE LoopTypes
<1>1. CASE SkipMatch
  <2>1. LoopMove
    BY <1>1 DEF SkipMatch, Polled, LoopMove
  <2> QED
    BY <2>1, LoopMoveKeeps
<1>2. CASE TakeMatch
  <2>1. LoopMove
    BY <1>2 DEF TakeMatch, LoopMove
  <2> QED
    BY <2>1, LoopMoveKeeps
<1>3. CASE PushDone
  <2>1. LoopMove
    BY <1>3 DEF PushDone, Polled, LoopMove
  <2> QED
    BY <2>1, LoopMoveKeeps
<1>4. CASE ReadFails
  <2>1. liveFaults' \in 0..MaxFaults
    BY <1>4, FaultCounted DEF ReadFails, LiveInv
  <2>2. LoopMove
    BY <1>4, <2>1 DEF ReadFails, LoopMove
  <2> QED
    BY <2>2, LoopMoveKeeps
<1>5. CASE StartFails
  <2>1. liveFaults' \in 0..MaxFaults
    BY <1>5, FaultCounted DEF StartFails, LiveInv
  <2>2. LoopMove
    BY <1>5, <2>1 DEF StartFails, LoopMove
  <2> QED
    BY <2>2, LoopMoveKeeps
<1>6. CASE \E visible \in BOOLEAN : ReadItem(visible)
  <2>1. PICK visible \in BOOLEAN : ReadItem(visible)
    BY <1>6
  <2>2. Registered(proposed[position]) \subseteq Sockets
    BY RegisteredTyped DEF LiveInv
  <2>3. CASE visible
    <3>1. LoopMove
      BY <2>1, <2>2, <2>3 DEF ReadItem, LoopMove
    <3> QED
      BY <3>1, LoopMoveKeeps
  <2>4. CASE ~ visible
    <3>1. LoopMove
      BY <2>1, <2>4 DEF ReadItem, Polled, LoopMove
    <3> QED
      BY <3>1, LoopMoveKeeps
  <2> QED
    BY <2>3, <2>4
<1>7. CASE \E from \in 1..(Len(proposed) + 1) : StartLoop(from)
  <2>1. LoopMove
    BY <1>7 DEF StartLoop, LoopMove
  <2> QED
    BY <2>1, LoopMoveKeeps
<1>8. CASE \E u \in Users : Propose(u)
  <2>1. PICK u \in Users : Propose(u)
    BY <1>8
  <2>2. proposed' \in Seq(Users) /\ Len(proposed') = Len(proposed) + 1
    BY <2>1 DEF Propose
  <2>3. LoopMove
    BY <2>1, <2>2 DEF Propose, LoopMove
  <2> QED
    BY <2>3, LoopMoveKeeps
<1> QED
  BY <1>1, <1>2, <1>3, <1>4, <1>5, <1>6, <1>7, <1>8

\* send_to_user unregisters the socket that raises.
LEMMA SendKeeps ==
  ASSUME LiveInv
  PROVE  \A s0 \in loop.left, raises \in BOOLEAN : Send(s0, raises) => LiveInv'
<1> SUFFICES ASSUME NEW s0 \in loop.left, NEW raises \in BOOLEAN, Send(s0, raises)
             PROVE  LiveInv'
  OBVIOUS
<1>1. s0 \in Sockets /\ loop.at = "send" /\ position <= Len(proposed) /\ position \in 1..MaxMatches
  BY LoopTypes DEF Send
<1>2. PICK u \in Users : u = proposed[position]
  BY <1>1, LoopTypes
<1>3. /\ socket[s0] \in SocketRows /\ socket \in [Sockets -> SocketRows]
      /\ socket[s0].up => s0 <= opened
  BY <1>1, Created, LiveTypes DEF LiveInv
<1>4. /\ socket' \in [Sockets -> SocketRows]
      /\ \A s \in Sockets : /\ socket'[s].client = socket[s].client
                            /\ socket'[s].user = socket[s].user
                            /\ socket'[s].handler = socket[s].handler
                            /\ socket'[s].up = socket[s].up
                            /\ socket'[s] = socket[s] \/ s <= opened
  <2>1. CASE socket[s0].up
    <3>1. socket' = [socket EXCEPT ![s0].inbox = Append(@, position)]
      BY <2>1 DEF Send
    <3>2. Append(socket[s0].inbox, position) \in Seq(1..MaxMatches)
      BY <1>1, <1>3 DEF SocketRows
    <3> DEFINE new == [socket[s0] EXCEPT !.inbox = Append(socket[s0].inbox, position)]
    <3>3. /\ new \in SocketRows /\ new.client = socket[s0].client /\ new.user = socket[s0].user
          /\ new.handler = socket[s0].handler /\ new.up = socket[s0].up
      BY <1>3, <3>2 DEF SocketRows
    <3>4. socket' = [socket EXCEPT ![s0] = new]
      BY <1>1, <1>3, <3>1
    <3> HIDE DEF new
    <3> QED
      BY <1>1, <1>3, <2>1, <3>3, <3>4
  <2>2. CASE ~ socket[s0].up
    <3>1. socket' = socket
      BY <2>2 DEF Send
    <3> QED
      BY <1>3, <3>1
  <2> QED
    BY <2>1, <2>2
<1>5. /\ RegistryExact'
      /\ DOMAIN registry' \subseteq Users /\ registry' \in [DOMAIN registry' -> SUBSET Sockets]
  <2>1. CASE raises
    <3>1. registry' = Unregister(u, s0) /\ ~ socket[s0].up
      BY <1>2, <2>1 DEF Send
    <3>2. Unregistered(u, s0)
      BY <1>1, <3>1, UnregisterOutcome DEF LiveInv
    <3>3. \A s \in Sockets : socket[s].user \in Users \/ socket[s].handler # "serving"
      BY DEF LiveInv, FreshOK, Unused
    <3>4. RegistryExact'
      BY <1>1, <1>4, <3>1, <3>2, <3>3, UnregisteredExact
    <3> QED
      BY <3>2, <3>4, LiveTypes DEF LiveInv, Unregistered
  <2>2. CASE ~ raises
    <3>1. registry' = registry
      BY <2>2 DEF Send
    <3> QED
      BY <1>4, <3>1, RegistryKept, LiveTypes DEF LiveInv
  <2> QED
    BY <2>1, <2>2
<1>6. /\ UNCHANGED <<tab, opened, proposed, position, shown, mounts, liveFaults>>
      /\ loop' = [loop EXCEPT !.left = @ \ {s0}]
  BY DEF Send
<1>7. GatewayMove
  BY <1>1, <1>4, <1>5, <1>6, LoopTypes DEF GatewayMove
<1> QED
  BY <1>7, GatewayKeeps

\* A restart leaves no handler and no registry.
LEMMA RestartKeeps ==
  ASSUME LiveInv, Restart
  PROVE  LiveInv'
<1>1. socket \in [Sockets -> SocketRows] /\ \A s \in Sockets : socket[s] \in SocketRows
  BY LiveTypes DEF LiveInv
<1>2. \A s \in Sockets :
        socket'[s] = IF socket[s] = Unused THEN Unused
                     ELSE [socket[s] EXCEPT !.up = FALSE, !.handler = "done"]
  BY DEF Restart
<1>3. \A s \in Sockets : /\ socket'[s] \in SocketRows
                         /\ socket'[s].client = socket[s].client
                         /\ socket'[s].user = socket[s].user
                         /\ socket'[s].handler # "serving"
  <2> TAKE s \in Sockets
  <2>1. CASE socket[s] = Unused
    <3>1. socket'[s] = socket[s] /\ socket[s].handler = "none"
      <4>1. socket'[s] = socket[s]
        BY <1>2, <2>1
      <4>2. socket[s].handler = "none"
        BY <2>1 DEF Unused
      <4> QED
        BY <4>1, <4>2
    <3> QED
      BY <1>1, <3>1
  <2>2. CASE socket[s] # Unused
    <3>1. socket'[s] = [socket[s] EXCEPT !.up = FALSE, !.handler = "done"]
      BY <1>2, <2>2
    <3> QED
      BY <1>1, <3>1 DEF SocketRows
  <2> QED
    BY <2>1, <2>2
<1>4. \A s \in Sockets : socket'[s] = socket[s] \/ s <= opened
  <2> TAKE s \in Sockets
  <2>1. CASE s <= opened
    BY <2>1
  <2>2. CASE ~ (s <= opened)
    <3>1. socket[s] = Unused
      BY <2>2 DEF LiveInv, FreshOK
    <3>2. socket'[s] = Unused
      BY <1>2, <3>1
    <3> QED
      BY <3>1, <3>2
  <2> QED
    BY <2>1, <2>2
<1>5. socket' \in [Sockets -> SocketRows]
  <2>1. socket' = [s \in Sockets |-> socket'[s]]
    BY DEF Restart
  <2> QED
    BY <1>3, <2>1
<1>6. registry' = <<>> /\ DOMAIN registry' = {}
  <2>1. registry' = <<>>
    BY DEF Restart
  <2> QED
    BY <2>1
<1>7. RegistryExact'
  BY <1>3, <1>6 DEF RegistryExact
<1>8. registry' \in [DOMAIN registry' -> SUBSET Sockets] /\ DOMAIN registry' \subseteq Users
  BY <1>6
<1>9. liveFaults' \in 0..MaxFaults
  BY FaultCounted DEF Restart, LiveInv
<1>10. /\ UNCHANGED <<tab, opened, proposed, position, shown, mounts>>
       /\ loop' = [at |-> "off", left |-> {}]
  BY DEF Restart
<1>11. GatewayMove
  BY <1>3, <1>4, <1>5, <1>7, <1>8, <1>9, <1>10, LoopTypes DEF GatewayMove
<1> QED
  BY <1>11, GatewayKeeps

-------------------------------------------------------------------------------
(* The theorems *)

\* LiveInv holds of every reachable state, for any users, tabs, sockets and faults.
THEOREM LiveInvariance == LiveSpec => []LiveInv
<1>1. LiveInit => LiveInv
  BY LiveInitially
<1>2. LiveInv /\ [LiveNext]_liveVars => LiveInv'
  <2> SUFFICES ASSUME LiveInv, [LiveNext]_liveVars
               PROVE  LiveInv'
    OBVIOUS
  <2>1. CASE \E t \in Tabs : OnOpen(t) \/ OnMessage(t) \/ OnClose(t)
    BY <2>1, BrowserStepKeeps
  <2>2. CASE \E t \in Tabs : Retry(t)
    <3>1. PICK t \in Tabs : Retry(t)
      BY <2>2
    <3>2. tab[t].token \in Users
      <4>1. tab[t].token # NoUser
        BY <3>1 DEF Retry, LiveInv, OneSocketPerTab, NoEffect
      <4> QED
        BY <4>1, LiveTypes DEF LiveInv, TabRows
    <3>3. NewSocket(t, tab[t].token)
      BY <3>1, <3>2, ConnectOutcome DEF Retry, LiveInv
    <3>4. /\ UNCHANGED <<registry, proposed, position, loop, shown>>
          /\ mounts' \in 0..MaxMounts /\ liveFaults' = liveFaults /\ tab[t].retry
      BY <3>1 DEF Retry, LiveInv, LiveTypeOK
    <3> QED
      BY <3>2, <3>3, <3>4, ConnectKeeps
  <2>3. CASE \E t \in Tabs, u \in Users : Mount(t, u)
    <3>1. PICK t \in Tabs, u \in Users : Mount(t, u)
      BY <2>3
    <3>2. NewSocket(t, u)
      BY <3>1, ConnectOutcome DEF Mount, LiveInv
    <3>3. /\ UNCHANGED <<registry, proposed, position, loop, shown>>
          /\ mounts' \in 0..MaxMounts /\ liveFaults' = liveFaults /\ tab[t].token = NoUser
      BY <3>1, LiveAssumption DEF Mount, LiveInv, LiveTypeOK, LiveAssumption
    <3> QED
      BY <3>2, <3>3, ConnectKeeps
  <2>4. CASE \E t \in Tabs : Unmount(t)
    BY <2>4, UnmountKeeps
  <2>5. CASE \E s \in Sockets : Accept(s) \/ Refuse(s) \/ AcceptFails(s) \/ LoseConnection(s)
    BY <2>5, HandlerStepKeeps
  <2>6. CASE \E s \in Sockets : OnCloseLate(s)
    BY <2>6, OnCloseLateKeeps
  <2>7. CASE \E s \in Sockets : Serve(s) \/ Disconnect(s)
    BY <2>7, ServeKeeps, DisconnectKeeps
  <2>8. CASE \/ SkipMatch \/ TakeMatch \/ PushDone \/ ReadFails \/ StartFails
             \/ \E visible \in BOOLEAN : ReadItem(visible)
             \/ \E from \in 1..(Len(proposed) + 1) : StartLoop(from)
             \/ \E u \in Users : Propose(u)
    BY <2>8, LoopStepKeeps
  <2>9. CASE \E s \in loop.left, raises \in BOOLEAN : Send(s, raises)
    BY <2>9, SendKeeps
  <2>10. CASE Restart
    BY <2>10, RestartKeeps
  <2>11. CASE UNCHANGED liveVars
    <3>1. LoopMove
      BY <2>11, LoopTypes DEF liveVars, LoopMove
    <3> QED
      BY <3>1, LoopMoveKeeps
  <2> QED
    BY <2>1, <2>2, <2>3, <2>4, <2>5, <2>6, <2>7, <2>8, <2>9, <2>10, <2>11
       DEF LiveNext, ClientStep, HandlerStep, LoopStep
<1> QED
  BY <1>1, <1>2, PTL DEF LiveSpec

\* The variables of the live feed keep their types.
THEOREM LiveTypeCorrect == LiveSpec => []LiveTypeOK
<1>1. LiveInv => LiveTypeOK
  BY DEF LiveInv
<1> QED
  BY <1>1, LiveInvariance, PTL

\* ConnectionManager has a key for a user exactly while a socket of theirs is served, although
\* the handler and the push loop both take sockets out.
THEOREM RegistryExactHolds == LiveSpec => []RegistryExact
<1>1. LiveInv => RegistryExact
  BY DEF LiveInv
<1> QED
  BY <1>1, LiveInvariance, PTL

\* useFeedSocket never has two sockets of one tab open, nor a timer beside an open one.
THEOREM OneSocketPerTabHolds == LiveSpec => []OneSocketPerTab
<1>1. LiveInv => OneSocketPerTab
  BY DEF LiveInv
<1> QED
  BY <1>1, LiveInvariance, PTL
===============================================================================

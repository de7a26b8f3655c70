-------------------------------- MODULE WebApp --------------------------------
(***************************************************************************)
(* The web app's stores: the session, the feed and the follow buttons, and *)
(* what the gateway answers them.                                          *)
(*                                                                         *)
(* Every thunk reads the store when it is dispatched, calls the gateway,   *)
(* and changes the store when the answer arrives.  Nothing cancels a call  *)
(* or checks that its answer is still wanted, so answers are applied in    *)
(* the order they arrive, to whatever the store holds by then.             *)
(***************************************************************************)
EXTENDS Integers, Sequences, FiniteSets, SequencesExt

CONSTANTS
  Users, NoUser,
  Artists, Events,
  Nothing,       \* a call that is about no artist and no event
  Filters,       \* each the set of events that pass it
  NoFilter,      \* the filters of a store that has just been cleared
  Rankings,      \* the orders the gateway may rank a user's shows in
  PageSize,      \* limit of GET /feed
  WalkPages,     \* pages fetchEntireFeed asks for after the first
  MaxCalls,      \* bound: calls under way before another click
  MaxClicks,     \* bound: what the user does
  MaxUpsets      \* bound: new rankings, pushed matches and calls that fail

ASSUME WebAssumption ==
  /\ NoUser \notin Users
  /\ Filters \subseteq SUBSET Events /\ NoFilter \in Filters
  /\ Rankings \subseteq Seq(Events)
  /\ PageSize \in Nat \ {0} /\ WalkPages \in Nat
  /\ {MaxCalls, MaxClicks, MaxUpsets} \subseteq Nat

VARIABLES
  ranked, dismissed, follows,    \* the gateway's tables, per user
  version,       \* how often a user's list changed
  token, user, authStatus,       \* state.auth
  stored,        \* localStorage: the token's user and the profile
  view,          \* the page that is open
  items, cursor, hasMore, status, filters, fresh,   \* state.feed
  artistIds, pendingToggles,     \* state.follows
  calls,         \* requests under way, as asked
  pushes,        \* matches pushed to the open socket that it has not delivered yet
  lined,         \* the version of the list that items are the first pages of (never read)
  returned,      \* dismissed shows that an older answer put back (never read)
  doubt,         \* artists whose button may be wrong after a race (never read)
  mixed,         \* an answer from before a sign-in or sign-out was applied (never read)
  clicks, upsets

tables == <<ranked, dismissed, follows, version>>
auth == <<token, user, authStatus, stored>>
feed == <<items, cursor, hasMore, status, filters, fresh>>
buttons == <<artistIds, pendingToggles>>
history == <<lined, returned, doubt, mixed>>
bounds == <<clicks, upsets>>

vars == <<tables, auth, view, feed, buttons, calls, pushes, history, bounds>>

Views == {"feed", "map", "settings"}
NotLined == -1
SignedOut == [token |-> NoUser, user |-> NoUser]
Account(u) == [token |-> u, user |-> u]

-------------------------------------------------------------------------------
(* Calls.  stale, raced and older are history: the session changed since, which *)
(* artists were toggled meanwhile, and which shows were dismissed meanwhile.    *)

NewCall(op, u) ==
  [op |-> op, user |-> u, what |-> Nothing, on |-> FALSE, cursor |-> 0, filters |-> NoFilter,
   left |-> 0, button |-> FALSE, at |-> "sent", did |-> FALSE, items |-> <<>>, ids |-> {},
   hasMore |-> FALSE, version |-> 0, stale |-> FALSE, raced |-> {}, older |-> {}]

\* Mutant of PageCall: a reset asks from the cursor.
PageCallFromCursor(u, reset, at, passing, left) ==
  [NewCall("page", u) EXCEPT !.on = reset, !.cursor = at, !.filters = passing, !.left = left]

\* fetchFeedPage, with the pages fetchEntireFeed will still ask for.
PageCall(u, reset, at, passing, left) ==
  [NewCall("page", u) EXCEPT !.on = reset, !.cursor = IF reset THEN 0 ELSE at,
                             !.filters = passing, !.left = left]

Toggling(a) == {i \in DOMAIN calls : calls[i].op = "toggle" /\ calls[i].what = a}

LoadCall(u) ==
  [NewCall("load", u) EXCEPT !.raced = {a \in Artists : Toggling(a) # {}}]

\* loadSession reads localStorage when it starts; without a session it does nothing.
SessionCalls(s) ==
  IF s.token = NoUser THEN <<>>
  ELSE <<[NewCall("session", s.token) EXCEPT !.what = s.user]>>

\* Mutant of MountCalls: a page asks without a session too.
MountCallsAlways(v, u, passing) ==
  IF v = "settings" THEN <<>>
  ELSE <<PageCall(u, TRUE, cursor, passing, IF v = "map" THEN WalkPages ELSE 0), LoadCall(u)>>

\* What a page asks for when it opens or the token changes.
MountCalls(v, u, passing) ==
  IF u = NoUser \/ v = "settings" THEN <<>>
  ELSE <<PageCall(u, TRUE, cursor, passing, IF v = "map" THEN WalkPages ELSE 0), LoadCall(u)>>

\* A reset makes the feed wait, an append does not.
Waiting(new) == \E i \in DOMAIN new : new[i].op = "page" /\ new[i].on

\* The list forgets its append when the feed page goes or reloads.
Unmounted(s) == [i \in DOMAIN s |-> [s[i] EXCEPT !.button = FALSE]]

Stale(s) == [i \in DOMAIN s |-> [s[i] EXCEPT !.stale = TRUE]]

Click ==
  /\ clicks < MaxClicks /\ Len(calls) < MaxCalls
  /\ clicks' = clicks + 1

Init ==
  /\ \E ranking \in Rankings : ranked = [u \in Users |-> ranking]
  /\ dismissed = [u \in Users |-> {}]
  /\ \E followed \in SUBSET Artists : follows = [u \in Users |-> followed]
  /\ version = [u \in Users |-> 0]
  /\ token = NoUser /\ user = NoUser /\ authStatus = "idle"
  /\ stored \in {SignedOut} \cup {Account(u) : u \in Users}
  /\ view = "feed"
  /\ items = <<>> /\ cursor = 0 /\ hasMore = FALSE /\ status = "idle"
  /\ filters = NoFilter /\ fresh = {}
  /\ artistIds = {} /\ pendingToggles = {}
  /\ calls = SessionCalls(stored) /\ pushes = <<>>
  /\ lined = NotLined /\ returned = {} /\ doubt = Artists /\ mixed = FALSE
  /\ clicks = 0 /\ upsets = 0

-------------------------------------------------------------------------------
(* The gateway *)

\* What is left of a sequence when only the members of S are kept.
Kept(s, S) ==
  LET kept[n \in 0..Len(s)] ==
        IF n = 0 THEN <<>>
        ELSE IF s[n] \in S THEN Append(kept[n - 1], s[n]) ELSE kept[n - 1]
  IN kept[Len(s)]

\* Upcoming shows in reach that pass the filters, the best first, none of them dismissed.
Listing(u, passing) == Kept(ranked[u], passing \ dismissed[u])

\* get_feed: the rows from the offset on, and whether there are more.
AnswerPage(i) ==
  LET c == calls[i]
      all == Listing(c.user, c.filters)
      last == Min({c.cursor + PageSize, Len(all)})
  IN /\ c.op = "page" /\ c.at = "sent"
     /\ calls' = [calls EXCEPT ![i] =
          [c EXCEPT !.at = "done", !.version = version[c.user],
                    !.items = SubSeq(all, c.cursor + 1, last),
                    !.hasMore = last < Len(all)]]
     /\ UNCHANGED <<tables, auth, view, pushes, feed, buttons, history, bounds>>

AnswerLoad(i) ==
  /\ calls[i].op = "load" /\ calls[i].at = "sent"
  /\ calls' = [calls EXCEPT ![i].at = "done", ![i].ids = follows[calls[i].user]]
  /\ UNCHANGED <<tables, auth, view, pushes, feed, buttons, history, bounds>>

\* create_follow or delete_follow; the new taste ranks the user's shows anew.
AnswerToggle(i, ranking) ==
  LET c == calls[i]
  IN /\ c.op = "toggle" /\ c.at = "sent"
     /\ follows' = [follows EXCEPT ![c.user] = IF c.on THEN @ \ {c.what} ELSE @ \cup {c.what}]
     /\ ranked' = [ranked EXCEPT ![c.user] = ranking]
     /\ version' = [version EXCEPT ![c.user] = @ + 1]
     /\ calls' = [calls EXCEPT ![i].at = "done", ![i].did = TRUE]
     /\ UNCHANGED <<dismissed, auth, view, pushes, feed, buttons, history, bounds>>

\* dismiss_event; what was read before and is still under way may show it.
AnswerDismiss(i) ==
  LET c == calls[i]
  IN /\ c.op = "dismiss" /\ c.at = "sent"
     /\ dismissed' = [dismissed EXCEPT ![c.user] = @ \cup {c.what}]
     /\ version' = [version EXCEPT ![c.user] = @ + 1]
     /\ calls' = [j \in DOMAIN calls |->
                    IF j = i THEN [c EXCEPT !.at = "done", !.did = TRUE]
                    ELSE IF calls[j].op = "page" /\ calls[j].at = "done"
                    THEN [calls[j] EXCEPT !.older = @ \cup {c.what}] ELSE calls[j]]
     /\ pushes' = [j \in DOMAIN pushes |-> [pushes[j] EXCEPT !.older = @ \cup {c.what}]]
     /\ UNCHANGED <<ranked, follows, auth, view, feed, buttons, history, bounds>>

\* A call fails before the gateway did what it asked or after; a token may have expired.
Fail(i, how) ==
  /\ upsets < MaxUpsets
  /\ calls[i].at = "sent" \/ (calls[i].at = "done" /\ calls[i].did)
  /\ how = "refused" => calls[i].op = "session"
  /\ calls' = [calls EXCEPT ![i].at = how]
  /\ upsets' = upsets + 1
  /\ UNCHANGED <<tables, auth, view, pushes, feed, buttons, history, clicks>>

\* New shows, shows that start, and what moves in the ranking.
ListingChange(u, ranking) ==
  /\ upsets < MaxUpsets
  /\ ranked' = [ranked EXCEPT ![u] = ranking]
  /\ version' = [version EXCEPT ![u] = @ + 1]
  /\ upsets' = upsets + 1
  /\ UNCHANGED <<dismissed, follows, auth, view, pushes, feed, buttons, calls, history, clicks>>

\* push_match over an open socket: any visible show, whatever the filters.
PushMatch(e) ==
  /\ upsets < MaxUpsets /\ token # NoUser /\ view = "feed"
  /\ e \in Range(Listing(token, Events))
  /\ pushes' = Append(pushes, [what |-> e, older |-> {}])
  /\ upsets' = upsets + 1
  /\ UNCHANGED <<tables, auth, view, feed, buttons, calls, history, clicks>>

-------------------------------------------------------------------------------
(* feedSlice *)

\* The store after fetchFeedPage is dispatched for new: without a token it only fails.
Asked(new, otherwise) ==
  status' = IF token = NoUser THEN "error" ELSE IF Waiting(new) THEN "loading" ELSE otherwise

\* FeedList's button or its observer: one append at a time.
LoadMore ==
  /\ Click /\ view = "feed" /\ token # NoUser
  /\ status = "idle" /\ items # <<>> /\ hasMore
  /\ \A i \in DOMAIN calls : ~ calls[i].button
  /\ calls' = Append(calls, [PageCall(token, FALSE, cursor, filters, 0) EXCEPT !.button = TRUE])
  /\ UNCHANGED <<tables, auth, view, pushes, feed, buttons, history, upsets>>

\* FilterDrawer: the list is emptied and asked for again, on the map by its effect too.
FiltersChanged(passing) ==
  LET new == <<PageCall(token, TRUE, 0, passing, 0)>>
               \o (IF view = "map" THEN MountCalls("map", token, passing) ELSE <<>>)
  IN /\ Click /\ view # "settings" /\ token # NoUser
     /\ filters' = passing /\ items' = <<>> /\ cursor' = 0 /\ hasMore' = FALSE /\ fresh' = {}
     /\ status' = "loading"
     /\ calls' = calls \o new
     /\ lined' = NotLined /\ returned' = {}
     /\ UNCHANGED <<tables, auth, view, pushes, buttons, doubt, mixed, upsets>>

\* Whether an answer continues what the store shows.
Fits(c) == ~ c.stale /\ c.filters = filters /\ (c.on \/ (c.cursor = cursor /\ c.version = lined))

\* A page is put in place of the list, or at its end; the map then walks on.
PageFulfilled(i) ==
  LET c == calls[i]
      next == IF c.hasMore THEN c.cursor + PageSize ELSE 0
      walk == IF c.left > 0 /\ c.hasMore /\ token # NoUser
              THEN <<PageCall(token, FALSE, next, filters, c.left - 1)>> ELSE <<>>
      older == Range(c.items) \cap (IF c.stale THEN Events ELSE c.older)
  IN /\ c.op = "page" /\ c.at = "done"
     /\ items' = IF c.on THEN c.items ELSE items \o c.items
     /\ cursor' = next /\ hasMore' = c.hasMore
     /\ fresh' = IF c.on THEN {} ELSE fresh
     /\ status' = IF c.left > 0 /\ c.hasMore /\ token = NoUser THEN "error" ELSE "idle"
     /\ calls' = RemoveAt(calls, i) \o walk
     /\ lined' = IF Fits(c) THEN c.version ELSE NotLined
     /\ returned' = (IF c.on THEN {} ELSE returned) \cup older
     /\ UNCHANGED <<tables, auth, view, pushes, filters, buttons, doubt, mixed, bounds>>

\* The list stays as it is, and a walk ends.
PageRejected(i) ==
  /\ calls[i].op = "page" /\ calls[i].at = "failed"
  /\ status' = "error"
  /\ calls' = RemoveAt(calls, i)
  /\ UNCHANGED <<tables, auth, view, pushes, items, cursor, hasMore, filters, fresh, buttons,
                 history, bounds>>

\* A pushed match goes on top unless it is listed; the socket delivers in order.
MatchReceived ==
  LET p == Head(pushes)
      listed == p.what \in Range(items)
  IN /\ pushes # <<>> /\ pushes' = Tail(pushes)
     /\ items' = IF listed THEN items ELSE <<p.what>> \o items
     /\ fresh' = IF listed THEN fresh ELSE fresh \cup {p.what}
     /\ returned' = returned \cup (IF listed THEN {} ELSE {p.what} \cap p.older)
     /\ UNCHANGED <<tables, auth, view, cursor, hasMore, status, filters, buttons, calls, lined,
                    doubt, mixed, bounds>>

DismissEvent(e) ==
  /\ Click /\ view = "feed" /\ token # NoUser /\ status = "idle" /\ e \in Range(items)
  /\ calls' = Append(calls, [NewCall("dismiss", token) EXCEPT !.what = e])
  /\ UNCHANGED <<tables, auth, view, pushes, feed, buttons, history, upsets>>

\* Mutant of DismissFulfilled: the show only stops being fresh.
DismissFulfilledFresh(i) ==
  /\ calls[i].op = "dismiss" /\ calls[i].at = "done"
  /\ fresh' = fresh \ {calls[i].what}
  /\ calls' = RemoveAt(calls, i)
  /\ UNCHANGED <<tables, auth, view, pushes, items, cursor, hasMore, status, filters, buttons,
                 history, bounds>>

DismissFulfilled(i) ==
  LET c == calls[i]
  IN /\ c.op = "dismiss" /\ c.at = "done"
     /\ items' = Kept(items, Events \ {c.what})
     /\ fresh' = fresh \ {c.what}
     /\ calls' = RemoveAt(calls, i)
     /\ lined' = IF c.stale THEN NotLined ELSE lined
     /\ returned' = returned \ {c.what}
     /\ UNCHANGED <<tables, auth, view, pushes, cursor, hasMore, status, filters, buttons, doubt,
                    mixed, bounds>>

\* Nothing handles it: the show stays, dismissed or not.
DismissRejected(i) ==
  LET c == calls[i]
  IN /\ c.op = "dismiss" /\ c.at = "failed"
     /\ calls' = RemoveAt(calls, i)
     /\ returned' = IF c.did THEN returned \cup {c.what} ELSE returned
     /\ UNCHANGED <<tables, auth, view, pushes, feed, buttons, lined, doubt, mixed, bounds>>

-------------------------------------------------------------------------------
(* followsSlice *)

LoadFulfilled(i) ==
  LET c == calls[i]
  IN /\ c.op = "load" /\ c.at = "done"
     /\ artistIds' = c.ids
     /\ calls' = RemoveAt(calls, i)
     /\ doubt' = IF c.stale THEN Artists ELSE c.raced
     /\ UNCHANGED <<tables, auth, view, pushes, feed, pendingToggles, lined, returned, mixed,
                    bounds>>

LoadRejected(i) ==
  /\ calls[i].op = "load" /\ calls[i].at = "failed"
  /\ calls' = RemoveAt(calls, i)
  /\ UNCHANGED <<tables, auth, view, pushes, feed, buttons, history, bounds>>

Flipped(a) == (artistIds \ {a}) \cup ({a} \ artistIds)

\* Mutant of ToggleFollow: the request is made from the store, which is flipped by then.
ToggleFollowFlipped(a) ==
  /\ Click /\ token # NoUser /\ view = "feed" /\ a \notin pendingToggles
  /\ artistIds' = Flipped(a) /\ pendingToggles' = pendingToggles \cup {a}
  /\ calls' = Append(calls, [NewCall("toggle", token) EXCEPT !.what = a, !.on = a \notin artistIds])
  /\ doubt' = doubt \ {a}
  /\ UNCHANGED <<tables, auth, view, pushes, feed, lined, returned, mixed, upsets>>

\* The button flips at once, and the request carries what it showed before the click.
ToggleFollow(a) ==
  LET Raced(c) == IF c.op = "load" THEN [c EXCEPT !.raced = @ \cup {a}] ELSE c
  IN /\ Click /\ token # NoUser /\ view = "feed" /\ a \notin pendingToggles
     /\ artistIds' = Flipped(a)
     /\ pendingToggles' = pendingToggles \cup {a}
     /\ calls' = Append([i \in DOMAIN calls |-> Raced(calls[i])],
                        [NewCall("toggle", token) EXCEPT
                           !.what = a, !.on = a \in artistIds, !.raced = {a} \cap doubt])
     /\ doubt' = IF Toggling(a) = {} THEN doubt \ {a} ELSE doubt \cup {a}
     /\ UNCHANGED <<tables, auth, view, pushes, feed, lined, returned, mixed, upsets>>

\* Mutant of ToggleFulfilled: the button is not let go.
ToggleFulfilledHolding(i) ==
  LET c == calls[i]
      new == IF token = NoUser THEN <<>> ELSE <<PageCall(token, TRUE, cursor, filters, 0)>>
  IN /\ c.op = "toggle" /\ c.at = "done"
     /\ calls' = RemoveAt(calls, i) \o new
     /\ Asked(new, status)
     /\ UNCHANGED <<tables, auth, view, pushes, items, cursor, hasMore, filters, fresh, buttons,
                    history, bounds>>

\* The feed is asked for again, with whatever token the store has now.
ToggleFulfilled(i) ==
  LET c == calls[i]
      new == IF token = NoUser THEN <<>> ELSE <<PageCall(token, TRUE, cursor, filters, 0)>>
  IN /\ c.op = "toggle" /\ c.at = "done"
     /\ pendingToggles' = pendingToggles \ {c.what}
     /\ calls' = RemoveAt(calls, i) \o new
     /\ Asked(new, status)
     /\ UNCHANGED <<tables, auth, view, pushes, items, cursor, hasMore, filters, fresh, artistIds,
                    history, bounds>>

\* Back to what the button showed before the click.
ToggleRejected(i) ==
  LET c == calls[i]
  IN /\ c.op = "toggle" /\ c.at = "failed"
     /\ pendingToggles' = pendingToggles \ {c.what}
     /\ artistIds' = IF c.on THEN artistIds \cup {c.what} ELSE artistIds \ {c.what}
     /\ calls' = RemoveAt(calls, i)
     /\ doubt' = IF c.did \/ c.stale THEN doubt \cup {c.what} ELSE doubt \cup c.raced
     /\ UNCHANGED <<tables, auth, view, pushes, feed, lined, returned, mixed, bounds>>

-------------------------------------------------------------------------------
(* authSlice, notificationsSlice and the pages.  These calls read or write the *)
(* profile only, which the gateway's tables do not keep here.                  *)

\* The token changes to u's: what is under way was asked for another session.
SignIn(u, profile, i) ==
  LET new == MountCalls(view, u, filters)
  IN /\ token' = u /\ user' = profile /\ authStatus' = "authenticated"
     /\ calls' = Stale(Unmounted(RemoveAt(calls, i))) \o new /\ pushes' = <<>>
     /\ status' = IF Waiting(new) THEN "loading" ELSE status
     /\ lined' = NotLined /\ doubt' = Artists /\ returned' = Range(items)

\* The sign-in form, which waits for its answer.
Login(u) ==
  /\ Click /\ token = NoUser /\ view = "feed" /\ authStatus # "loading"
  /\ authStatus' = "loading"
  /\ calls' = Append(calls, NewCall("login", u))
  /\ UNCHANGED <<tables, token, user, stored, view, pushes, feed, buttons, history, upsets>>

\* The settings page after the Spotify callback, whose token is of the account that asked.
AdoptToken(u) ==
  /\ Click /\ view = "settings"
  /\ calls' = Append(calls, [NewCall("login", u) EXCEPT !.on = TRUE])
  /\ UNCHANGED <<tables, auth, view, pushes, feed, buttons, history, upsets>>

LoginFulfilled(i) ==
  LET c == calls[i]
  IN /\ c.op = "login" /\ c.at = "sent"
     /\ stored' = Account(c.user)
     /\ SignIn(c.user, c.user, i)
     /\ mixed' = FALSE
     /\ UNCHANGED <<tables, view, items, cursor, hasMore, filters, fresh, buttons, bounds>>

LoginRejected(i) ==
  /\ calls[i].op = "login" /\ calls[i].at = "failed"
  /\ authStatus' = IF calls[i].on THEN authStatus ELSE "error"
  /\ calls' = RemoveAt(calls, i)
  /\ UNCHANGED <<tables, token, user, stored, view, pushes, feed, buttons, history, bounds>>

\* loadSession: the profile is refreshed, or the stored one is used as it is.
SessionLoaded(i) ==
  LET c == calls[i]
  IN /\ c.op = "session" /\ c.at \in {"sent", "failed"}
     /\ stored' = IF c.at = "sent" THEN Account(c.user) ELSE stored
     /\ SignIn(c.user, IF c.at = "sent" THEN c.user ELSE c.what, i)
     /\ mixed' = (c.at = "failed" /\ (mixed \/ c.stale))
     /\ UNCHANGED <<tables, view, items, cursor, hasMore, filters, fresh, buttons, bounds>>

\* The token is not accepted any more: what is stored now is dropped.
SessionRefused(i) ==
  LET c == calls[i]
  IN /\ c.op = "session" /\ c.at = "refused"
     /\ stored' = SignedOut
     /\ calls' = RemoveAt(calls, i)
     /\ mixed' = (mixed \/ c.stale)
     /\ UNCHANGED <<tables, token, user, authStatus, view, pushes, feed, buttons, lined, returned,
                    doubt, bounds>>

\* Mutant of SignOut: what is stored stays.
SignOutKeeping ==
  /\ Click /\ user # NoUser
  /\ token' = NoUser /\ user' = NoUser /\ authStatus' = "idle"
  /\ items' = <<>> /\ cursor' = 0 /\ hasMore' = FALSE /\ status' = "idle"
  /\ filters' = NoFilter /\ fresh' = {} /\ artistIds' = {} /\ pendingToggles' = {}
  /\ calls' = Stale(Unmounted(calls)) /\ pushes' = <<>>
  /\ lined' = NotLined /\ returned' = {} /\ doubt' = Artists /\ mixed' = FALSE
  /\ UNCHANGED <<tables, stored, view, upsets>>

\* loggedOut, feedCleared and followsCleared; nothing under way is cancelled.
SignOut ==
  /\ Click /\ user # NoUser
  /\ token' = NoUser /\ user' = NoUser /\ authStatus' = "idle" /\ stored' = SignedOut
  /\ items' = <<>> /\ cursor' = 0 /\ hasMore' = FALSE /\ status' = "idle"
  /\ filters' = NoFilter /\ fresh' = {}
  /\ artistIds' = {} /\ pendingToggles' = {}
  /\ calls' = Stale(Unmounted(calls)) /\ pushes' = <<>>
  /\ lined' = NotLined /\ returned' = {} /\ doubt' = Artists /\ mixed' = FALSE
  /\ UNCHANGED <<tables, view, upsets>>

\* Settings are saved by two requests; only the form's token and profile gate it.
SaveSettings ==
  /\ Click /\ view = "settings" /\ token # NoUser /\ user # NoUser
  /\ calls' = Append(calls, [NewCall("patch", token) EXCEPT !.left = 1])
  /\ UNCHANGED <<tables, auth, view, pushes, feed, buttons, history, upsets>>

\* userUpdated with the answer, then savePrefs with whatever token the store has now.
UserUpdated(i) ==
  LET c == calls[i]
      new == IF c.left = 1 /\ token # NoUser THEN <<NewCall("patch", token)>> ELSE <<>>
  IN /\ c.op = "patch" /\ c.at = "sent"
     /\ user' = c.user
     /\ stored' = IF token = NoUser THEN stored ELSE [token |-> token, user |-> c.user]
     /\ calls' = RemoveAt(calls, i) \o new
     /\ mixed' = c.stale
     /\ UNCHANGED <<tables, token, authStatus, view, pushes, feed, buttons, lined, returned,
                    doubt, bounds>>

SaveFailed(i) ==
  /\ calls[i].op = "patch" /\ calls[i].at = "failed"
  /\ calls' = RemoveAt(calls, i)
  /\ UNCHANGED <<tables, auth, view, pushes, feed, buttons, history, bounds>>

\* Another page opens, and asks for what it shows.
Open(v) ==
  LET new == MountCalls(v, token, filters)
  IN /\ Click /\ v # view
     /\ view' = v
     /\ calls' = Unmounted(calls) \o new /\ pushes' = <<>>
     /\ status' = IF Waiting(new) THEN "loading" ELSE status
     /\ UNCHANGED <<tables, auth, items, cursor, hasMore, filters, fresh, buttons, history,
                    upsets>>

\* The browser loads the app again: only localStorage is left.
Reload ==
  /\ Click
  /\ token' = NoUser /\ user' = NoUser /\ authStatus' = "idle"
  /\ items' = <<>> /\ cursor' = 0 /\ hasMore' = FALSE /\ status' = "idle"
  /\ filters' = NoFilter /\ fresh' = {} /\ artistIds' = {} /\ pendingToggles' = {}
  /\ calls' = SessionCalls(stored) /\ pushes' = <<>>
  /\ lined' = NotLined /\ returned' = {} /\ doubt' = Artists
  /\ UNCHANGED <<tables, stored, view, mixed, upsets>>

-------------------------------------------------------------------------------

Answer(i) ==
  \/ AnswerPage(i) \/ AnswerLoad(i) \/ AnswerDismiss(i)
  \/ \E ranking \in Rankings : AnswerToggle(i, ranking)
  \/ \E how \in {"failed", "refused"} : Fail(i, how)

Arrive(i) ==
  \/ PageFulfilled(i) \/ PageRejected(i)
  \/ DismissFulfilled(i) \/ DismissRejected(i)
  \/ LoadFulfilled(i) \/ LoadRejected(i)
  \/ ToggleFulfilled(i) \/ ToggleRejected(i)
  \/ LoginFulfilled(i) \/ LoginRejected(i) \/ SessionLoaded(i) \/ SessionRefused(i)
  \/ UserUpdated(i) \/ SaveFailed(i)

Clicks ==
  \/ LoadMore \/ SignOut \/ SaveSettings \/ Reload
  \/ \E passing \in Filters : FiltersChanged(passing)
  \/ \E e \in Events : DismissEvent(e)
  \/ \E a \in Artists : ToggleFollow(a)
  \/ \E u \in Users : Login(u) \/ AdoptToken(u)
  \/ \E v \in Views : Open(v)

Next ==
  \/ \E i \in DOMAIN calls : Answer(i) \/ Arrive(i)
  \/ Clicks
  \/ \E u \in Users, ranking \in Rankings : ListingChange(u, ranking)
  \/ \E e \in Events : PushMatch(e)
  \/ MatchReceived

Spec == Init /\ [][Next]_vars

-------------------------------------------------------------------------------
(* Properties *)

Call ==
  [op : {"session", "login", "patch", "page", "dismiss", "load", "toggle"},
   user : Users, what : Artists \cup Events \cup Users \cup {Nothing}, on : BOOLEAN,
   cursor : Nat, filters : Filters, left : Nat, button : BOOLEAN,
   at : {"sent", "done", "failed", "refused"}, did : BOOLEAN, items : Seq(Events),
   ids : SUBSET Artists, hasMore : BOOLEAN, version : Nat, stale : BOOLEAN,
   raced : SUBSET Artists, older : SUBSET Events]

\* Every variable has its type.
TypeOK ==
  /\ ranked \in [Users -> Rankings] /\ dismissed \in [Users -> SUBSET Events]
  /\ follows \in [Users -> SUBSET Artists] /\ version \in [Users -> Nat]
  /\ {token, user, stored.token, stored.user} \subseteq Users \cup {NoUser}
  /\ authStatus \in {"idle", "loading", "authenticated", "error"} /\ view \in Views
  /\ items \in Seq(Events) /\ cursor \in Nat /\ hasMore \in BOOLEAN
  /\ status \in {"idle", "loading", "error"} /\ filters \in Filters /\ fresh \subseteq Events
  /\ artistIds \subseteq Artists /\ pendingToggles \subseteq Artists
  /\ calls \in Seq(Call) /\ pushes \in Seq([what : Events, older : SUBSET Events])
  /\ lined \in Nat \cup {NotLined} /\ returned \subseteq Events
  /\ doubt \subseteq Artists /\ mixed \in BOOLEAN
  /\ clicks \in Nat /\ upsets \in Nat

NotFresh(s) == Kept(s, Events \ fresh)

\* What the feed shows, less the pushed matches, is the gateway's list for the signed-in
\* user and the filters up to the cursor, each show once and none skipped; unless an answer
\* was applied to another list than it was asked for, or the list changed since
\* (web/src/store/feedSlice.ts:94).
PagesLineUp ==
  token # NoUser /\ lined # NotLined /\ lined = version[token] =>
    LET all == Listing(token, filters)
    IN /\ hasMore => cursor < Len(all)
       /\ NotFresh(items) = NotFresh(SubSeq(all, 1, IF hasMore THEN cursor ELSE Len(all)))

\* A show the gateway hid for the user is not shown, except by an answer it gave before, or
\* while the answer to the dismissal is under way or lost (web/src/store/feedSlice.ts:107).
DismissedStaysAway ==
  token # NoUser =>
    \A e \in Range(items) \cap dismissed[token] :
      \/ e \in returned
      \/ \E i \in DOMAIN calls :
           calls[i].op = "dismiss" /\ calls[i].what = e /\ calls[i].user = token

\* Once its request is over, a follow button says whether the gateway has the follow, unless
\* the request overlapped a reload of the follows, a sign-in or another request for the
\* artist, or its answer was lost (web/src/store/followsSlice.ts:68).
ButtonsTellTheTruth ==
  token # NoUser =>
    \A a \in Artists \ doubt :
      \/ a \in artistIds <=> a \in follows[token]
      \/ \E i \in Toggling(a) : calls[i].user = token

\* The feed's placeholder, a disabled follow button and a disabled sign-in form always wait
\* for a request that is under way, whatever was cleared or failed meanwhile.
WaitsAreForCalls ==
  /\ status = "loading" => Waiting(calls)
  /\ \A a \in pendingToggles : Toggling(a) # {}
  /\ authStatus = "loading" => \E i \in DOMAIN calls : calls[i].op = "login"

\* The token, the profile and what the browser keeps are of one account, unless an answer
\* from before a sign-in or sign-out was applied after it (web/src/store/authSlice.ts:73).
SessionAgrees ==
  \/ mixed
  \/ user = token /\ stored = Account(token)
  \/ /\ user = NoUser /\ token = NoUser
     /\ \E i \in DOMAIN calls : calls[i].op = "session" /\ calls[i].user = stored.token
===============================================================================

----------------------------- MODULE McpServers -----------------------------
(***************************************************************************)
(* The external MCP servers of one agent: the commands of the bot          *)
(* (telegram/handler.rs, oauth_callback.rs), the internal API of the       *)
(* aggregator (right/internal_api.rs), its proxies, the task that          *)
(* reconnects after a restart and the scheduler that refreshes tokens      *)
(* (right-mcp).  A server is kept three times: a row of mcp_servers, a     *)
(* proxy in memory, and an entry of the scheduler.                         *)
(*                                                                         *)
(* A step is what a task does between two awaits.  There is no clock: a    *)
(* token may be due whenever the code looks.  A token is a grant and a     *)
(* generation; the authorization server rotates the refresh token, and     *)
(* honours the newest generation only.                                     *)
(***************************************************************************)
EXTENDS McpDiscovery

SX == INSTANCE SequencesExt

CONSTANTS
  Names,          \* names of servers
  InboxCap,       \* capacity of the channel to the scheduler
  Attempts,       \* MAX_RETRIES of a reconnect
  MaxBackends,    \* bound on proxies ever made
  MaxGrants,      \* bound on authorizations and keys
  MaxRefreshes,   \* bound on generations of a grant
  MaxCommands,    \* bound on /mcp auth and prompts for a key together
  MaxRestarts     \* bound on restarts of either process

ASSUME McpAssumption ==
  /\ IsFiniteSet(Names) /\ Names \cap {None, "storing"} = {}
  /\ InboxCap \in Nat \ {0} /\ Attempts \in Nat \ {0}
  /\ MaxBackends \in Nat /\ MaxGrants \in Nat /\ MaxRefreshes \in Nat
  /\ MaxCommands \in Nat /\ MaxRestarts \in Nat

VARIABLES
  rows,         \* mcp_servers
  proxies,      \* the proxy registered for a name
  backends,     \* every ProxyBackend made: its token and status
  tasks,        \* what the aggregator has in progress
  inFlight,     \* ReconnectManager: the names with a task it can cancel
  entries, timers, refreshing, inbox,     \* the refresh scheduler
  newest,       \* the authorization servers: the newest generation
  pending,      \* PendingAuthMap
  exchanges,    \* codes being exchanged, per state
  slot, requests,      \* PendingTokenSlot, and the prompts that wait
  auths,        \* names asked to authenticate so far
  restarts,
  unsaved       \* ghost: the names whose row missed the last write

aggregator == <<rows, proxies, backends, tasks, inFlight>>
scheduler == <<entries, timers, refreshing, inbox, unsaved>>
bot == <<pending, exchanges, slot, requests, auths>>
vars == <<aggregator, scheduler, newest, bot, restarts>>

-----------------------------------------------------------------------------
Tok(g, n) == [grant |-> g, gen |-> n]
NoTok == Tok(0, 0)
NoRow == [auth |-> None, access |-> NoTok, refresh |-> NoTok]
Grants == Len(newest)
Made == Len(backends)
Commands == Len(auths) + Len(requests)

(* A reconnect, a connect, an /mcp-add or a /set-token.                    *)
Task(kind, at, s, b, tok, left) ==
  [kind |-> kind, at |-> at, name |-> s, backend |-> b, tok |-> tok, left |-> left,
   cancelled |-> FALSE]
Goes(t, at) == tasks' = (tasks \ {t}) \cup {[t EXCEPT !.at = at]}
Becomes(t, set) == tasks' = (tasks \ {t}) \cup set

Init ==
  /\ rows = [s \in Names |-> NoRow] /\ proxies = [s \in Names |-> 0]
  /\ backends = <<>> /\ tasks = {} /\ inFlight = {}
  /\ entries = [s \in Names |-> [refresh |-> NoTok, backend |-> 0]]
  /\ timers = {} /\ refreshing = None /\ inbox = <<>>
  /\ newest = <<>>
  /\ pending = {} /\ exchanges = [a \in 1 .. MaxCommands |-> 0]
  /\ slot = 0 /\ requests = <<>> /\ auths = <<>>
  /\ restarts = 0 /\ unsaved = {}

SetStatus(b, st) == [backends EXCEPT ![b].status = st]
SetToken(b, tok) == [backends EXCEPT ![b].token = tok]

-----------------------------------------------------------------------------
(* /mcp-add.  The row is inserted, or keeps its columns but the URL; then  *)
(* the fields of authentication are set.  A server of OAuth is registered  *)
(* without a connection.                                                   *)
NewRow(s, auth, tok) == [rows EXCEPT ![s].auth = auth, ![s].access = tok]

AddOAuth(s) ==
  /\ MayBeOAuth /\ Made < MaxBackends
  /\ rows' = NewRow(s, "oauth", NoTok)
  /\ backends' = Append(backends, [token |-> NoTok, status |-> "unreachable"])
  /\ proxies' = [proxies EXCEPT ![s] = Made + 1]
  /\ UNCHANGED <<tasks, inFlight, scheduler, newest, bot, restarts>>

(* A write to a row that exists.  It may fail: then the failure is logged, *)
(* and the caller goes on.                                                 *)
Saves(s, new) ==
  \/ rows' = (IF rows[s] = NoRow THEN rows ELSE new) /\ unsaved' = unsaved \ {s}
  \/ UNCHANGED rows /\ unsaved' = unsaved \cup {s}

(* With a key the server is registered once it has been reached, and its   *)
(* row is removed when it has not.                                         *)
AddWithKey(s, tok) ==
  /\ rows' = NewRow(s, "key", tok)
  /\ backends' = Append(backends, [token |-> tok, status |-> "unreachable"])
  /\ tasks' = tasks \cup {Task("add", "connecting", s, Made + 1, NoTok, 0)}

(* A server that needs no key.                                             *)
AddPlain(s) ==
  /\ \E kind \in KindsWithoutOAuth : ~NeedsKey(kind)
  /\ Made < MaxBackends
  /\ AddWithKey(s, NoTok)
  /\ UNCHANGED <<proxies, inFlight, scheduler, newest, bot, restarts>>

AddSucceeds(t) ==
  /\ t.kind = "add" /\ rows[t.name] # NoRow
  /\ backends' = SetStatus(t.backend, "connected")
  /\ proxies' = [proxies EXCEPT ![t.name] = t.backend]
  /\ tasks' = tasks \ {t}
  /\ UNCHANGED <<rows, inFlight, scheduler, newest, bot, restarts>>

AddFails(t) ==
  /\ t.kind = "add"
  /\ Saves(t.name, [rows EXCEPT ![t.name] = NoRow])
  /\ tasks' = tasks \ {t}
  /\ UNCHANGED <<proxies, backends, inFlight, entries, timers, refreshing, inbox, newest,
                 bot, restarts>>

(* /mcp-remove: the proxy, then the row, whose removal may fail.  Neither  *)
(* the reconnect task nor the scheduler is told.                           *)
Remove(s) ==
  /\ proxies[s] # 0
  /\ proxies' = [proxies EXCEPT ![s] = 0]
  /\ tasks' = tasks \cup {Task("remove", "row", s, 0, NoTok, 0)}
  /\ UNCHANGED <<rows, backends, inFlight, scheduler, newest, bot, restarts>>

RemoveRow(t) ==
  /\ t.kind = "remove"
  /\ rows' \in {rows, [rows EXCEPT ![t.name] = NoRow]}
  /\ tasks' = tasks \ {t}
  /\ UNCHANGED <<proxies, backends, inFlight, scheduler, newest, bot, restarts>>

-----------------------------------------------------------------------------
(* /set-token: the token goes into the proxy, then into the row, where a   *)
(* missing row or a failing write ends it; a reconnect is cancelled, a     *)
(* connection started, and the scheduler told.                             *)
SetStarts(s, tok) ==
  IF proxies[s] = 0 THEN UNCHANGED <<backends, tasks>>
  ELSE /\ backends' = SetToken(proxies[s], tok)
       /\ tasks' = tasks \cup {Task("set", "storing", s, proxies[s], tok, 0)}

OAuthRow(s, access, refresh) ==
  [rows EXCEPT ![s] = [auth |-> "oauth", access |-> access, refresh |-> refresh]]

SetStores(t) ==
  /\ t.kind = "set" /\ t.at = "storing"
  /\ \/ tasks' = tasks \ {t} /\ UNCHANGED <<rows, inFlight>>
     \/ /\ rows[t.name] # NoRow
        /\ rows' = OAuthRow(t.name, t.tok, t.tok)
        /\ inFlight' = inFlight \ {t.name}
        /\ tasks' = {[u EXCEPT !.cancelled = @ \/ (u.kind = "reconnect" /\ u.name = t.name
                                                    /\ t.name \in inFlight)]
                       : u \in tasks \ {t}}
               \cup {[t EXCEPT !.at = "notifying"],
                     Task("connect", "connecting", t.name, t.backend, NoTok, 0)}
  /\ UNCHANGED <<proxies, backends, scheduler, newest, bot, restarts>>

(* RefreshMessage::NewEntry, from /set-token and from a reconnect.         *)
Notify(t, rest) ==
  /\ t.at = "notifying" /\ Len(inbox) < InboxCap
  /\ inbox' = Append(inbox, [name |-> t.name, refresh |-> t.tok, backend |-> t.backend])
  /\ Becomes(t, rest)
  /\ UNCHANGED <<rows, proxies, backends, inFlight, entries, timers, refreshing, unsaved,
                 newest, bot, restarts>>

SetNotifies(t) == t.kind = "set" /\ Notify(t, {})

(* ProxyBackend::connect, which also writes the row's instructions.        *)
Connect(t) ==
  /\ t.kind = "connect"
  /\ \/ rows[t.name] # NoRow /\ backends' = SetStatus(t.backend, "connected")
     \/ UNCHANGED backends
  /\ tasks' = tasks \ {t}
  /\ UNCHANGED <<rows, proxies, inFlight, scheduler, newest, bot, restarts>>

-----------------------------------------------------------------------------
(* The authorization server exchanges a refresh token.                     *)
Redeem(tok) ==
  /\ tok.grant # 0 /\ newest[tok.grant] = tok.gen /\ tok.gen < MaxRefreshes
  /\ newest' = [newest EXCEPT ![tok.grant] = @ + 1]
Fresh(tok) == Tok(tok.grant, tok.gen + 1)

(* reconnect_task: a cancellation is seen before an attempt and during a   *)
(* pause, and not while a request is on its way.                           *)
ReconnectAsks(t) ==
  /\ t.kind = "reconnect" /\ t.at = "starting"
  /\ IF t.cancelled THEN tasks' = tasks \ {t} ELSE Goes(t, "asking")
  /\ UNCHANGED <<rows, proxies, backends, inFlight, scheduler, newest, bot, restarts>>

ReconnectRefreshed(t) ==
  /\ t.kind = "reconnect" /\ t.at = "asking"
  /\ Redeem(t.tok)
  /\ backends' = SetToken(t.backend, Fresh(t.tok))
  /\ Becomes(t, {[t EXCEPT !.at = "storing", !.tok = Fresh(@)]})
  /\ UNCHANGED <<rows, proxies, inFlight, scheduler, bot, restarts>>

(* The answer may be lost, or unreadable, after the token was rotated; an  *)
(* unreadable one is not asked for again.                                  *)
ReconnectRefused(t) ==
  /\ t.kind = "reconnect" /\ t.at = "asking"
  /\ Redeem(t.tok) \/ UNCHANGED newest
  /\ \/ t.left > 1 /\ Becomes(t, {[t EXCEPT !.at = "starting", !.left = @ - 1]})
     \/ Goes(t, "failed")
  /\ UNCHANGED <<rows, proxies, backends, inFlight, scheduler, bot, restarts>>

(* Giving up: the status is read, and set if it was not Connected.         *)
ReconnectGivesUp(t) ==
  /\ t.kind = "reconnect" /\ t.at = "failed"
  /\ IF backends[t.backend].status = "connected" THEN tasks' = tasks \ {t}
     ELSE Goes(t, "marking")
  /\ UNCHANGED <<rows, proxies, backends, inFlight, scheduler, newest, bot, restarts>>

ReconnectMarks(t) ==
  /\ t.kind = "reconnect" /\ t.at = "marking"
  /\ backends' = SetStatus(t.backend, "needs_auth")
  /\ tasks' = tasks \ {t}
  /\ UNCHANGED <<rows, proxies, inFlight, scheduler, newest, bot, restarts>>

(* db_update_oauth_token; a reconnect whose write fails ends.              *)
Refreshed(s, tok) == [rows EXCEPT ![s].access = tok, ![s].refresh = tok]

ReconnectStores(t) ==
  /\ t.kind = "reconnect" /\ t.at = "storing"
  /\ \/ tasks' = tasks \ {t} /\ UNCHANGED rows
     \/ rows[t.name] # NoRow /\ rows' = Refreshed(t.name, t.tok) /\ Goes(t, "notifying")
  /\ UNCHANGED <<proxies, backends, inFlight, scheduler, newest, bot, restarts>>

ReconnectNotifies(t) ==
  /\ t.kind = "reconnect"
  /\ Notify(t, {Task("connect", "connecting", t.name, t.backend, NoTok, 0)})

-----------------------------------------------------------------------------
(* A fault: a new entry is scheduled, and its row left as it was.          *)
TakeMessageOnly ==
  /\ refreshing = None /\ inbox # <<>>
  /\ LET m == Head(inbox)
     IN  /\ timers' = timers \cup {m.name}
         /\ entries' = [entries EXCEPT ![m.name] = [refresh |-> m.refresh,
                                                   backend |-> m.backend]]
  /\ inbox' = Tail(inbox)
  /\ UNCHANGED <<rows, proxies, backends, tasks, inFlight, refreshing, unsaved, newest, bot,
                 restarts>>

(* run_refresh_scheduler.  A message replaces the entry, and the row gets  *)
(* the token the proxy has by now, unless the write fails.                 *)
TakeMessage ==
  /\ refreshing = None /\ inbox # <<>>
  /\ LET m == Head(inbox)
     IN  /\ timers' = timers \cup {m.name}
         /\ entries' = [entries EXCEPT ![m.name] = [refresh |-> m.refresh,
                                                   backend |-> m.backend]]
         /\ Saves(m.name, OAuthRow(m.name, backends[m.backend].token, m.refresh))
  /\ inbox' = Tail(inbox)
  /\ UNCHANGED <<proxies, backends, tasks, inFlight, refreshing, newest, bot, restarts>>

Fire(s) ==
  /\ refreshing = None /\ s \in timers
  /\ refreshing' = s
  /\ UNCHANGED <<aggregator, entries, timers, inbox, unsaved, newest, bot, restarts>>

(* The loop reads no message while it refreshes.                           *)
RefreshSucceeds ==
  /\ refreshing \in Names
  /\ LET en == entries[refreshing]
     IN  /\ Redeem(en.refresh)
         /\ backends' = SetToken(en.backend, Fresh(en.refresh))
         /\ entries' = [entries EXCEPT ![refreshing].refresh = Fresh(@)]
         /\ tasks' = tasks \cup
               {Task("refresh", "storing", refreshing, 0, Fresh(en.refresh), 0)}
  /\ refreshing' = "storing"
  /\ UNCHANGED <<rows, proxies, inFlight, timers, inbox, unsaved, bot, restarts>>

RefreshStores(t) ==
  /\ t.kind = "refresh"
  /\ Saves(t.name, Refreshed(t.name, t.tok))
  /\ refreshing' = None
  /\ tasks' = tasks \ {t}
  /\ UNCHANGED <<proxies, backends, inFlight, entries, timers, inbox, newest, bot, restarts>>

RefreshFails ==
  /\ refreshing \in Names
  /\ Redeem(entries[refreshing].refresh) \/ UNCHANGED newest
  /\ timers' = timers \ {refreshing}
  /\ refreshing' = None
  /\ UNCHANGED <<aggregator, entries, inbox, unsaved, bot, restarts>>

(* The aggregator is started again from the rows: a proxy for each, in any *)
(* order.                                                                  *)
Kept == {s \in Names : rows[s] # NoRow}
Known == {s \in Kept : rows[s].auth = "oauth" /\ rows[s].refresh # NoTok}
Lacking == {s \in Kept \ Known : rows[s].auth = "oauth"}
Number == CHOOSE f \in [Kept -> 1 .. Cardinality(Kept)] :
            \A s, u \in Kept : f[s] = f[u] => s = u
NewBackend(s) == Made + Number[s]

RestoredBackends ==
  [i \in 1 .. Cardinality(Kept) |->
     LET s == CHOOSE u \in Kept : Number[u] = i
     IN  [token |-> rows[s].access,
          status |-> IF s \in Lacking THEN "needs_auth" ELSE "unreachable"]]

(* A server whose token is due is reconnected, another one connected.      *)
RestartTasks(due) ==
  {Task("reconnect", "starting", s, NewBackend(s), rows[s].refresh, Attempts) : s \in due}
    \cup {Task("connect", "connecting", s, NewBackend(s), NoTok, 0) :
             s \in (Kept \ Lacking) \ due}

Scheduled(names) ==
  {[i \in DOMAIN order |-> [name |-> order[i], refresh |-> rows[order[i]].refresh,
                            backend |-> NewBackend(order[i])]]
     : order \in SX!SetToSeqs(names)}

(* Whether a token is due is looked at twice: once to schedule it, and     *)
(* later to reconnect.                                                     *)
Restart ==
  /\ restarts < MaxRestarts /\ restarts' = restarts + 1
  /\ Made + Cardinality(Kept) <= MaxBackends
  /\ proxies' = [s \in Names |-> IF s \in Kept THEN NewBackend(s) ELSE 0]
  /\ backends' = backends \o RestoredBackends
  /\ \E due \in SUBSET Known : \E later \in {d \in SUBSET Known : due \subseteq d} :
       /\ inbox' \in Scheduled(Known \ due)
       /\ inFlight' = later /\ tasks' = RestartTasks(later)
  /\ entries' = [s \in Names |-> [refresh |-> NoTok, backend |-> 0]]
  /\ timers' = {} /\ refreshing' = None /\ unsaved' = {}
  /\ UNCHANGED <<rows, newest, bot>>

-----------------------------------------------------------------------------
(* What the aggregator lists: its proxies, with row or without.            *)
ListedServers == {s \in Names : proxies[s] # 0}
Listed(s) == s \in ListedServers

(* /mcp auth: after discovery and registration of a client a state is      *)
(* drawn and the user sent away ...                                        *)
Authenticate(s) ==
  /\ MayRegister
  /\ Commands < MaxCommands /\ Listed(s)
  /\ auths' = Append(auths, s)
  /\ pending' = pending \cup {Len(auths) + 1}
  /\ UNCHANGED <<aggregator, scheduler, newest, exchanges, slot, requests, restarts>>

(* A fault: the state is looked up and not removed.                        *)
CallbackKept(a) ==
  /\ a \in pending /\ exchanges[a] < 2
  /\ exchanges' = [exchanges EXCEPT ![a] = @ + 1]
  /\ UNCHANGED <<aggregator, scheduler, newest, pending, slot, requests, auths, restarts>>

(* ... whose browser may come back more than once.                         *)
Callback(a) ==
  /\ a \in pending
  /\ pending' = pending \ {a}
  /\ exchanges' = [exchanges EXCEPT ![a] = @ + 1]
  /\ UNCHANGED <<aggregator, scheduler, newest, slot, requests, auths, restarts>>

Expire(a) ==
  /\ a \in pending
  /\ pending' = pending \ {a}
  /\ UNCHANGED <<aggregator, scheduler, newest, exchanges, slot, requests, auths, restarts>>

(* exchange_token: a new grant, or a refusal.                              *)
ExchangeToken ==
  /\ Grants < MaxGrants
  /\ newest' = Append(newest, 1)

(* complete_oauth_flow: the code is exchanged, and the token goes to the   *)
(* server that has the name now.                                           *)
Exchange(a) ==
  /\ exchanges[a] > 0 /\ exchanges' = [exchanges EXCEPT ![a] = @ - 1]
  /\ \/ ExchangeToken /\ SetStarts(auths[a], Tok(Grants + 1, 1))
     \/ UNCHANGED <<newest, backends, tasks>>
  /\ UNCHANGED <<rows, proxies, inFlight, scheduler, pending, slot, requests, auths, restarts>>

(* request_token_and_register: a prompt for a key takes the slot.          *)
Prompt(s) ==
  /\ Commands < MaxCommands
  /\ requests' = [i \in 1 .. Len(requests) + 1 |->
       IF i > Len(requests) THEN [name |-> s, at |-> "waiting"]
       ELSE IF i = slot THEN [requests[i] EXCEPT !.at = "displaced"] ELSE requests[i]]
  /\ slot' = Len(requests) + 1
  /\ UNCHANGED <<aggregator, scheduler, newest, pending, exchanges, auths, restarts>>

(* /mcp add prompts where a key is needed, /mcp auth where the server      *)
(* refuses to register a client.                                           *)
AddPrompts(s) == (\E kind \in KindsWithoutOAuth : NeedsKey(kind)) /\ Prompt(s)
FallsBack(s) == MayBeRefused /\ Listed(s) /\ Prompt(s)

(* /mcp, in a private chat.                                                *)
McpAdd(s) == AddOAuth(s) \/ AddPlain(s) \/ AddPrompts(s)
McpCommand(s) == McpAdd(s) \/ Authenticate(s) \/ FallsBack(s) \/ Remove(s)

(* The next message of the user is the key.                                *)
KeyArrives ==
  /\ slot # 0
  /\ slot' = 0
  /\ requests' = [requests EXCEPT ![slot].at = IF @ = "waiting" THEN "answered" ELSE @]
  /\ UNCHANGED <<aggregator, scheduler, newest, pending, exchanges, auths, restarts>>

(* A wait ends by its timeout, or because a newer prompt displaced it ...  *)
WaitEnds(i) ==
  /\ requests[i].at \in {"waiting", "displaced"}
  /\ requests' = [requests EXCEPT ![i].at = "leaving"]
  /\ UNCHANGED <<aggregator, scheduler, newest, pending, exchanges, slot, auths, restarts>>

(* A fault: whoever leaves clears the slot.                                *)
ClearSlotAny(i) ==
  /\ requests[i].at = "leaving"
  /\ requests' = [requests EXCEPT ![i].at = "over"]
  /\ slot' = 0
  /\ UNCHANGED <<aggregator, scheduler, newest, pending, exchanges, auths, restarts>>

(* ... and the slot is cleared if it is still its own.                     *)
ClearSlot(i) ==
  /\ requests[i].at = "leaving"
  /\ requests' = [requests EXCEPT ![i].at = "over"]
  /\ slot' = IF slot = i THEN 0 ELSE slot
  /\ UNCHANGED <<aggregator, scheduler, newest, pending, exchanges, auths, restarts>>

RegisterKey(i) ==
  /\ requests[i].at = "answered" /\ Made < MaxBackends /\ Grants < MaxGrants
  /\ requests' = [requests EXCEPT ![i].at = "over"]
  /\ newest' = Append(newest, 1)
  /\ AddWithKey(requests[i].name, Tok(Grants + 1, 1))
  /\ UNCHANGED <<proxies, inFlight, scheduler, pending, exchanges, slot, auths, restarts>>

BotRestart ==
  /\ restarts < MaxRestarts /\ restarts' = restarts + 1
  /\ pending' = {} /\ slot' = 0
  /\ exchanges' = [a \in 1 .. MaxCommands |-> 0]
  /\ requests' = [i \in DOMAIN requests |-> [requests[i] EXCEPT !.at = "over"]]
  /\ UNCHANGED <<aggregator, scheduler, newest, auths>>

Next ==
  \/ \E s \in Names : McpCommand(s) \/ Fire(s)
  \/ \E t \in tasks :
       \/ AddSucceeds(t) \/ AddFails(t) \/ RemoveRow(t)
       \/ SetStores(t) \/ SetNotifies(t) \/ Connect(t)
       \/ ReconnectAsks(t) \/ ReconnectRefreshed(t) \/ ReconnectRefused(t)
       \/ ReconnectGivesUp(t) \/ ReconnectMarks(t) \/ ReconnectStores(t) \/ ReconnectNotifies(t)
       \/ RefreshStores(t)
  \/ TakeMessage \/ RefreshSucceeds \/ RefreshFails \/ Restart
  \/ \E a \in 1 .. MaxCommands : Callback(a) \/ Expire(a) \/ Exchange(a)
  \/ \E i \in DOMAIN requests : WaitEnds(i) \/ ClearSlot(i) \/ RegisterKey(i)
  \/ KeyArrives \/ BotRestart

Spec == Init /\ [][Next]_vars

-----------------------------------------------------------------------------
Quiet == tasks = {} /\ inbox = <<>> /\ refreshing = None

(* Whatever the order in which an authorization, a reconnect and a refresh *)
(* finish, in the end the scheduler and the row hold the same refresh      *)
(* token: a restart of the aggregator goes on where it was.  They differ   *)
(* only where the last write to the row failed, and until the next one.    *)
AgreedWhenQuiet ==
  Quiet => \A s \in Names \ unsaved :
    LET en == entries[s]
    IN  en.backend # 0 /\ en.backend = proxies[s] /\ rows[s] # NoRow =>
          rows[s].refresh = en.refresh

(* The key a user is prompted for reaches the prompt: a prompt that waits  *)
(* is the slot's, and no older prompt clears it.                           *)
WaitingIsReachable ==
  \A i \in DOMAIN requests : requests[i].at = "waiting" => slot = i

(* A code is exchanged once, however often the browser calls back.         *)
OneExchange ==
  /\ \A a \in pending : exchanges[a] = 0
  /\ \A a \in 1 .. MaxCommands : exchanges[a] <= 1
=============================================================================

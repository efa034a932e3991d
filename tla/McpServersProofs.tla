--------------------------- MODULE McpServersProofs ---------------------------
(***************************************************************************)
(* For any servers, and any number of commands, grants, refreshes and      *)
(* restarts: a server's row and its entry in the scheduler agree once      *)
(* nothing is under way and no write failed, the prompt that waits is the  *)
(* one a key reaches, and a code is exchanged once.                        *)
(***************************************************************************)
EXTENDS McpServers, FunctionTheorems, FiniteSetTheorems, TLAPS
-----------------------------------------------------------------------------
(* Types.                                                                  *)
Tokens == [grant : Nat, gen : Nat]
Row == [auth : {None, "oauth", "key"}, access : Tokens, refresh : Tokens]
Backends == 0 .. Made
Statuses == {"unreachable", "connected", "needs_auth"}
Proxies == [token : Tokens, status : Statuses]
Messages == [name : Names, refresh : Tokens, backend : 1 .. Made]
Work == {t \in [kind : {"add", "remove", "set", "connect", "reconnect", "refresh"},
                at : {"connecting", "row", "storing", "notifying", "starting", "asking",
                      "failed", "marking"},
                name : Names, backend : Backends, tok : Tokens, left : Nat,
                cancelled : BOOLEAN] :
           t.kind \in {"set", "reconnect"} => t.backend # 0}

ServersTyped ==
  /\ rows \in [Names -> Row] /\ proxies \in [Names -> Backends]
  /\ backends \in Seq(Proxies)
  /\ tasks \subseteq Work /\ inFlight \subseteq Names
SchedulerTyped ==
  /\ entries \in [Names -> [refresh : Tokens, backend : Backends]]
  /\ timers \subseteq Names /\ refreshing \in Names \cup {None, "storing"}
  /\ inbox \in Seq(Messages) /\ newest \in Seq(Nat)

(* The prompts: a newer one displaces the one that waits.                  *)
Prompts == [name : Names, at : {"waiting", "displaced", "answered", "leaving", "over"}]
PromptsInv ==
  /\ requests \in Seq(Prompts)
  /\ slot \in 0 .. Len(requests)
  /\ WaitingIsReachable

(* The states: one that is pending has not been exchanged, one that was    *)
(* not drawn yet is neither pending nor exchanged.                         *)
StatesInv ==
  /\ auths \in Seq(Names) /\ Len(auths) + Len(requests) <= MaxCommands
  /\ exchanges \in [1 .. MaxCommands -> Nat] /\ pending \subseteq 1 .. Len(auths)
  /\ \A a \in 1 .. MaxCommands : a > Len(auths) => exchanges[a] = 0
  /\ OneExchange

(* The proxy that an /mcp-add with a key connects is its own until it is   *)
(* registered: nobody else refers to it.                                   *)
Adding(t) == t.kind = "add"
Refers(b) ==
  \/ \E s \in Names : proxies[s] = b \/ entries[s].backend = b
  \/ \E i \in DOMAIN inbox : inbox[i].backend = b
  \/ \E u \in tasks : u.kind \in {"set", "reconnect"} /\ u.backend = b
OwnProxies ==
  \A t \in tasks : Adding(t) =>
    /\ t.backend # 0 /\ ~Refers(t.backend)
    /\ \A u \in tasks : Adding(u) /\ u # t => u.backend # t.backend

(* One refresh at a time, of the entry as it is.                           *)
Refreshing(t) == t.kind = "refresh"
OneRefresh ==
  \A t \in tasks : Refreshing(t) =>
    /\ refreshing = "storing" /\ t.tok = entries[t.name].refresh
    /\ \A u \in tasks : Refreshing(u) => u = t

(* Entry and row of a server agree, or what makes them agree is under way. *)
Agreed(s) ==
  LET en == entries[s]
  IN  s \notin unsaved /\ en.backend # 0 /\ en.backend = proxies[s] /\ rows[s] # NoRow =>
        rows[s].refresh = en.refresh
Notifying(t) == t.kind \in {"set", "reconnect"} /\ t.at = "notifying"
UnderWay(s) ==
  \/ \E t \in tasks : t.name = s /\ (Adding(t) \/ Refreshing(t) \/ Notifying(t))
  \/ \E i \in DOMAIN inbox : inbox[i].name = s
AgreementInv == \A s \in Names : Agreed(s) \/ UnderWay(s)

Agreement == OwnProxies /\ OneRefresh /\ AgreementInv
Typed == ServersTyped /\ SchedulerTyped

-----------------------------------------------------------------------------
(* The prompts for keys.                                                   *)
LEMMA InitPrompts == Init => PromptsInv
  BY DEF Init, PromptsInv, WaitingIsReachable

LEMMA Restaged ==
  ASSUME NEW q \in Seq(Prompts), NEW f \in [DOMAIN q -> Prompts]
  PROVE  f \in Seq(Prompts) /\ Len(f) = Len(q) /\ DOMAIN f = 1 .. Len(q)
  OBVIOUS

LEMMA PromptKeeps ==
  ASSUME PromptsInv, NEW s \in Names, Prompt(s)
  PROVE  PromptsInv' /\ Len(requests') = Len(requests) + 1
<1> DEFINE n == Len(requests)
<1>1. n \in Nat /\ DOMAIN requests = 1 .. n /\ \A i \in 1 .. n : requests[i] \in Prompts
  BY DEF PromptsInv
<1>2. \A i \in 1 .. n : [requests[i] EXCEPT !.at = "displaced"] \in Prompts
  BY <1>1 DEF Prompts
<1>3. [name |-> s, at |-> "waiting"] \in Prompts
  BY DEF Prompts
<1> HIDE DEF n
<1>4. /\ requests' = [i \in 1 .. n + 1 |-> requests'[i]]
      /\ requests'[n + 1] = [name |-> s, at |-> "waiting"]
      /\ \A i \in 1 .. n :
           requests'[i] = IF i = slot THEN [requests[i] EXCEPT !.at = "displaced"]
                          ELSE requests[i]
  BY <1>1 DEF Prompt, n
<1>5. \A i \in 1 .. n + 1 : requests'[i] \in Prompts
  <2>1. \A i \in 1 .. n : requests'[i] \in Prompts
    BY <1>1, <1>2, <1>4
  <2>2. requests'[n + 1] \in Prompts
    BY <1>3, <1>4
  <2>3. \A i \in 1 .. n + 1 : i \in 1 .. n \/ i = n + 1
    BY <1>1
  <2>4. QED  BY <2>1, <2>2, <2>3
<1>6. requests' \in Seq(Prompts) /\ Len(requests') = n + 1 /\ DOMAIN requests' = 1 .. n + 1
  BY <1>1, <1>4, <1>5
<1>7. \A i \in 1 .. n : requests'[i].at = "waiting" => FALSE
  BY <1>1, <1>4 DEF PromptsInv, WaitingIsReachable, Prompts
<1>8. slot' = n + 1
  BY DEF Prompt, n
<1>9. QED  BY <1>1, <1>6, <1>7, <1>8 DEF PromptsInv, WaitingIsReachable, n

(* A step that moves one prompt, but not to `waiting', and leaves the slot  *)
(* to the one that waits.                                                  *)
LEMMA MoveKeeps ==
  ASSUME PromptsInv, NEW i \in DOMAIN requests, NEW at,
         requests' = [requests EXCEPT ![i].at = at],
         at \in {"displaced", "answered", "leaving", "over"},
         slot' \in 0 .. Len(requests),
         \A j \in DOMAIN requests : j # i /\ slot = j => slot' = j
  PROVE  PromptsInv' /\ Len(requests') = Len(requests)
<1>1. \A j \in DOMAIN requests : requests[j] \in Prompts
  BY DEF PromptsInv
<1>2. requests'[i] = [requests[i] EXCEPT !.at = at]
  OBVIOUS
<1>3. requests'[i] \in Prompts /\ requests'[i].at = at
  BY <1>1, <1>2 DEF Prompts
<1>4. \A j \in DOMAIN requests : j # i => requests'[j] = requests[j]
  OBVIOUS
<1>5. requests' \in [DOMAIN requests -> Prompts]
  BY <1>1, <1>3, <1>4
<1>6. requests' \in Seq(Prompts) /\ Len(requests') = Len(requests)
      /\ DOMAIN requests' = DOMAIN requests
  BY <1>5, Restaged DEF PromptsInv
<1>7. QED
  BY <1>3, <1>4, <1>6 DEF PromptsInv, WaitingIsReachable

LEMMA AnswerKeeps ==
  ASSUME PromptsInv,
         KeyArrives \/ BotRestart
         \/ \E i \in DOMAIN requests : WaitEnds(i) \/ ClearSlot(i) \/ RegisterKey(i)
  PROVE  PromptsInv' /\ Len(requests') = Len(requests)
<1>0. Len(requests) \in Nat /\ DOMAIN requests = 1 .. Len(requests) /\ slot \in 0 .. Len(requests)
  BY DEF PromptsInv
<1>1. CASE KeyArrives
  <2>1. slot \in DOMAIN requests /\ slot' = 0
    BY <1>0, <1>1 DEF KeyArrives
  <2>2. CASE requests[slot].at = "waiting"
    <3>1. requests' = [requests EXCEPT ![slot].at = "answered"]
      BY <1>1, <2>1, <2>2 DEF KeyArrives
    <3>2. \A j \in DOMAIN requests : j # slot /\ slot = j => slot' = j
      OBVIOUS
    <3>3. slot' \in 0 .. Len(requests)
      BY <1>0, <2>1
    <3>4. QED  BY <2>1, <3>1, <3>2, <3>3, MoveKeeps
  <2>3. CASE requests[slot].at # "waiting"
    <3>1. requests[slot] = [requests[slot] EXCEPT !.at = requests[slot].at]
      <4>1. requests[slot] \in Prompts
        BY <2>1 DEF PromptsInv
      <4>2. QED  BY <4>1 DEF Prompts
    <3>2. requests' = requests
      BY <1>1, <2>1, <2>3, <3>1 DEF KeyArrives, PromptsInv
    <3>3. QED  BY <1>0, <2>1, <2>3, <3>2 DEF PromptsInv, WaitingIsReachable
  <2>4. QED  BY <2>2, <2>3
<1>2. CASE BotRestart
  <2>1. \A i \in DOMAIN requests : requests[i] \in Prompts
    BY DEF PromptsInv
  <2>2. /\ requests' = [i \in DOMAIN requests |-> [requests[i] EXCEPT !.at = "over"]]
        /\ slot' = 0
    BY <1>2 DEF BotRestart
  <2>3. \A i \in DOMAIN requests : requests'[i] \in Prompts /\ requests'[i].at = "over"
    BY <2>1, <2>2 DEF Prompts
  <2>4. requests' \in [DOMAIN requests -> Prompts]
    BY <2>2, <2>3
  <2>5. requests' \in Seq(Prompts) /\ Len(requests') = Len(requests)
    BY <2>4, Restaged DEF PromptsInv
  <2>6. QED  BY <1>0, <2>2, <2>3, <2>5 DEF PromptsInv, WaitingIsReachable
<1>3. ASSUME NEW i \in DOMAIN requests, WaitEnds(i) \/ ClearSlot(i) \/ RegisterKey(i)
      PROVE  PromptsInv' /\ Len(requests') = Len(requests)
  <2>1. CASE WaitEnds(i)
    BY <1>0, <2>1, MoveKeeps DEF WaitEnds
  <2>2. CASE ClearSlot(i)
    <3>1. /\ requests' = [requests EXCEPT ![i].at = "over"]
          /\ slot' = IF slot = i THEN 0 ELSE slot
      BY <2>2 DEF ClearSlot
    <3>2. slot' \in 0 .. Len(requests)
      BY <1>0, <3>1
    <3>3. \A j \in DOMAIN requests : j # i /\ slot = j => slot' = j
      BY <3>1
    <3>4. QED  BY <3>1, <3>2, <3>3, MoveKeeps
  <2>3. CASE RegisterKey(i)
    BY <1>0, <2>3, MoveKeeps DEF RegisterKey
  <2>4. QED  BY <1>3, <2>1, <2>2, <2>3
<1>4. QED  BY <1>1, <1>2, <1>3

(* The states of authorizations.                                           *)
LEMMA InitStates == Init => StatesInv
  BY McpAssumption DEF Init, StatesInv, OneExchange

LEMMA AuthenticateKeeps ==
  ASSUME StatesInv, PromptsInv, NEW s \in Names, Authenticate(s)
  PROVE  StatesInv'
<1>1. /\ auths' \in Seq(Names) /\ Len(auths') = Len(auths) + 1
      /\ requests' = requests /\ exchanges' = exchanges
      /\ pending' = pending \cup {Len(auths) + 1}
      /\ Len(auths) + Len(requests) < MaxCommands
  BY DEF Authenticate, StatesInv, Commands
<1>2. Len(auths) \in Nat /\ Len(requests) \in Nat /\ MaxCommands \in Nat
  BY McpAssumption DEF StatesInv, PromptsInv
<1>3. pending' \subseteq 1 .. Len(auths') /\ Len(auths) + 1 \in 1 .. MaxCommands
  <2>1. pending \subseteq 1 .. Len(auths)
    BY DEF StatesInv
  <2>2. \A n \in Nat : \A k \in 1 .. n : k \in 1 .. n + 1 /\ n + 1 \in 1 .. n + 1
    OBVIOUS
  <2>3. \A a \in pending' : a \in pending \/ a = Len(auths) + 1
    BY <1>1
  <2>4. Len(auths) + 1 \in 1 .. Len(auths) + 1
    BY <1>2
  <2>5. pending' \subseteq 1 .. Len(auths) + 1
    BY <1>2, <2>1, <2>2, <2>3, <2>4
  <2>6. QED  BY <1>1, <1>2, <2>5
<1>4. exchanges[Len(auths) + 1] = 0
  BY <1>2, <1>3 DEF StatesInv
<1>5. QED  BY <1>1, <1>2, <1>3, <1>4 DEF StatesInv, OneExchange

LEMMA RequestsCounted ==
  ASSUME StatesInv, PromptsInv, UNCHANGED <<auths, pending, exchanges>>,
         Len(requests') = Len(requests) \/ Len(auths) + Len(requests') <= MaxCommands
  PROVE  StatesInv'
  BY DEF StatesInv, OneExchange

LEMMA StateKeeps ==
  ASSUME StatesInv, NEW a \in 1 .. MaxCommands,
         Callback(a) \/ Expire(a) \/ Exchange(a)
  PROVE  StatesInv'
<1>1. CASE Callback(a)
  BY <1>1 DEF Callback, StatesInv, OneExchange
<1>2. CASE Expire(a)
  BY <1>2 DEF Expire, StatesInv, OneExchange
<1>3. CASE Exchange(a)
  BY <1>3 DEF Exchange, StatesInv, OneExchange
<1>4. QED  BY <1>1, <1>2, <1>3

LEMMA NextPrompts ==
  ASSUME PromptsInv, StatesInv, [Next]_vars
  PROVE  PromptsInv' /\ StatesInv'
<1>1. CASE UNCHANGED bot
  BY <1>1 DEF bot, PromptsInv, WaitingIsReachable, StatesInv, OneExchange
<1>2. ASSUME NEW s \in Names, Prompt(s)
      PROVE  PromptsInv' /\ StatesInv'
  <2>1. PromptsInv' /\ Len(requests') = Len(requests) + 1
    BY <1>2, PromptKeeps
  <2>2. /\ UNCHANGED <<auths, pending, exchanges>>
        /\ Len(auths) + Len(requests) < MaxCommands
    BY <1>2 DEF Prompt, Commands
  <2>3. Len(auths) \in Nat /\ Len(requests) \in Nat /\ MaxCommands \in Nat
    BY McpAssumption DEF StatesInv, PromptsInv
  <2>4. Len(auths) + Len(requests') <= MaxCommands
    BY <2>1, <2>2, <2>3
  <2>5. QED  BY <2>1, <2>2, <2>4, RequestsCounted
<1>3. ASSUME NEW s \in Names, Authenticate(s)
      PROVE  PromptsInv' /\ StatesInv'
  <2>1. PromptsInv'
    BY <1>3 DEF Authenticate, PromptsInv, WaitingIsReachable
  <2>2. QED  BY <1>3, <2>1, AuthenticateKeeps
<1>4. ASSUME NEW a \in 1 .. MaxCommands, Callback(a) \/ Expire(a) \/ Exchange(a)
      PROVE  PromptsInv' /\ StatesInv'
  <2>1. PromptsInv'
    BY <1>4 DEF Callback, Expire, Exchange, PromptsInv, WaitingIsReachable
  <2>2. QED  BY <1>4, <2>1, StateKeeps
<1>5. ASSUME KeyArrives
             \/ \E i \in DOMAIN requests : WaitEnds(i) \/ ClearSlot(i) \/ RegisterKey(i)
      PROVE  PromptsInv' /\ StatesInv'
  <2>1. PromptsInv' /\ Len(requests') = Len(requests)
    BY <1>5, AnswerKeeps
  <2>2. UNCHANGED <<auths, pending, exchanges>>
    BY <1>5 DEF KeyArrives, WaitEnds, ClearSlot, RegisterKey
  <2>3. QED  BY <2>1, <2>2, RequestsCounted
<1>6. CASE BotRestart
  <2>1. PromptsInv' /\ Len(requests') = Len(requests)
    BY <1>6, AnswerKeeps
  <2>2. /\ auths' = auths /\ pending' = {}
        /\ exchanges' = [a \in 1 .. MaxCommands |-> 0]
    BY <1>6 DEF BotRestart
  <2>3. QED  BY <2>1, <2>2 DEF StatesInv, OneExchange
<1>7. ASSUME NEW s \in Names, McpCommand(s) \/ Fire(s)
      PROVE  PromptsInv' /\ StatesInv'
  BY <1>1, <1>2, <1>3, <1>7
     DEF McpCommand, McpAdd, AddOAuth, AddPlain, AddPrompts, FallsBack, Remove, Fire, bot
<1>8. ASSUME NEW t \in tasks,
        \/ AddSucceeds(t) \/ AddFails(t) \/ RemoveRow(t)
        \/ SetStores(t) \/ SetNotifies(t) \/ Connect(t)
        \/ ReconnectAsks(t) \/ ReconnectRefreshed(t) \/ ReconnectRefused(t)
        \/ ReconnectGivesUp(t) \/ ReconnectMarks(t) \/ ReconnectStores(t) \/ ReconnectNotifies(t)
        \/ RefreshStores(t)
      PROVE  UNCHANGED bot
  BY <1>8 DEF AddSucceeds, AddFails, RemoveRow, SetStores, SetNotifies, Notify, Connect,
              ReconnectAsks, ReconnectRefreshed, ReconnectRefused, ReconnectGivesUp,
              ReconnectMarks, ReconnectStores, ReconnectNotifies, RefreshStores
<1>9. CASE TakeMessage \/ RefreshSucceeds \/ RefreshFails \/ Restart
  BY <1>1, <1>9 DEF TakeMessage, RefreshSucceeds, RefreshFails, Restart
<1>10. QED
  BY <1>1, <1>4, <1>5, <1>6, <1>7, <1>8, <1>9 DEF Next, vars

LEMMA PromptsInvariant == Spec => [](PromptsInv /\ StatesInv)
<1>1. Init => PromptsInv /\ StatesInv
  BY InitPrompts, InitStates
<1>2. PromptsInv /\ StatesInv /\ [Next]_vars => (PromptsInv /\ StatesInv)'
  BY NextPrompts
<1>3. QED  BY <1>1, <1>2, PTL DEF Spec

(* A prompt that waits for a key is the one that the user's next message   *)
(* reaches (handler.rs, request_token_and_register).                       *)
THEOREM PromptsAreReachable == Spec => []WaitingIsReachable
<1>1. PromptsInv => WaitingIsReachable
  BY DEF PromptsInv
<1>2. QED  BY <1>1, PromptsInvariant, PTL

(* A code of an authorization is exchanged once (oauth_callback.rs).       *)
THEOREM CodesAreExchangedOnce == Spec => []OneExchange
<1>1. StatesInv => OneExchange
  BY DEF StatesInv
<1>2. QED  BY <1>1, PromptsInvariant, PTL

-----------------------------------------------------------------------------
(* Types of the servers and the scheduler.                                 *)
LEMMA TokensAre ==
  /\ NoTok \in Tokens /\ NoRow \in Row
  /\ \A g, n \in Nat : Tok(g, n) \in Tokens
  /\ \A tok \in Tokens : Fresh(tok) \in Tokens
  BY DEF Tokens, Row, NoTok, NoRow, Tok, Fresh, None

LEMMA TaskIsWork ==
  ASSUME NEW kind \in {"add", "remove", "set", "connect", "reconnect", "refresh"},
         NEW at \in {"connecting", "row", "storing", "notifying", "starting", "asking",
                     "failed", "marking"},
         NEW s \in Names, NEW b \in Backends, NEW tok \in Tokens, NEW left \in Nat,
         kind \in {"set", "reconnect"} => b # 0
  PROVE  Task(kind, at, s, b, tok, left) \in Work
  BY DEF Task, Work

LEMMA WorkMoves ==
  ASSUME NEW t \in Work
  PROVE  /\ \A at \in {"connecting", "row", "storing", "notifying", "starting", "asking",
                       "failed", "marking"} : [t EXCEPT !.at = at] \in Work
         /\ \A tok \in Tokens : [t EXCEPT !.at = "storing", !.tok = tok] \in Work
         /\ t.left > 1 => [t EXCEPT !.at = "starting", !.left = @ - 1] \in Work
         /\ \A b \in BOOLEAN : [t EXCEPT !.cancelled = b] \in Work
<1>1. \A at \in {"connecting", "row", "storing", "notifying", "starting", "asking",
                 "failed", "marking"} : [t EXCEPT !.at = at] \in Work
  BY DEF Work
<1>2. \A tok \in Tokens : [t EXCEPT !.at = "storing", !.tok = tok] \in Work
  BY DEF Work
<1>3. ASSUME t.left > 1
      PROVE  [t EXCEPT !.at = "starting", !.left = @ - 1] \in Work
  <2>1. t.left \in Nat /\ t.left - 1 \in Nat
    BY <1>3 DEF Work
  <2>2. QED  BY <2>1 DEF Work
<1>4. \A b \in BOOLEAN : [t EXCEPT !.cancelled = b] \in Work
  BY DEF Work
<1>5. QED  BY <1>1, <1>2, <1>3, <1>4

(* Proxies are only ever added.                                            *)
LEMMA Growing ==
  ASSUME Made \in Nat, Made' \in Nat, Made <= Made'
  PROVE  /\ Backends \subseteq Backends' /\ Messages \subseteq Messages'
         /\ Work \subseteq Work'
         /\ \A q \in Seq(Messages) : q \in Seq(Messages')
         /\ entries \in [Names -> [refresh : Tokens, backend : Backends]] =>
              entries \in [Names -> [refresh : Tokens, backend : Backends']]
<1>1. Backends \subseteq Backends'
  BY DEF Backends
<1>2. Messages \subseteq Messages' /\ Work \subseteq Work'
  BY <1>1 DEF Messages, Work
<1>3. \A q \in Seq(Messages) : q \in Seq(Messages')
  BY <1>2
<1>4. entries \in [Names -> [refresh : Tokens, backend : Backends]] =>
        entries \in [Names -> [refresh : Tokens, backend : Backends']]
  BY <1>1
<1>5. QED  BY <1>1, <1>2, <1>3, <1>4

LEMMA Counted ==
  ASSUME ServersTyped
  PROVE  /\ Made \in Nat /\ \A tok \in Tokens : tok.grant \in Nat /\ tok.gen \in Nat
         /\ \A b, st : Len(SetStatus(b, st)) = Made
         /\ \A b, tok : Len(SetToken(b, tok)) = Made
         /\ \A b, st : st \in Statuses => SetStatus(b, st) \in Seq(Proxies)
         /\ \A b, tok : tok \in Tokens => SetToken(b, tok) \in Seq(Proxies)
<1>1. backends \in Seq(Proxies)
  BY DEF ServersTyped
<1>2. \A i \in DOMAIN backends : backends[i] \in Proxies
  BY <1>1
<1>3. ASSUME NEW b, NEW st \in Statuses
      PROVE  SetStatus(b, st) \in Seq(Proxies)
  <2>1. \A i \in DOMAIN backends : [backends[i] EXCEPT !.status = st] \in Proxies
    BY <1>2 DEF Proxies
  <2>2. SetStatus(b, st) \in [DOMAIN backends -> Proxies]
    BY <1>2, <2>1 DEF SetStatus
  <2>3. QED  BY <1>1, <2>2
<1>4. ASSUME NEW b, NEW tok \in Tokens
      PROVE  SetToken(b, tok) \in Seq(Proxies)
  <2>1. \A i \in DOMAIN backends : [backends[i] EXCEPT !.token = tok] \in Proxies
    BY <1>2 DEF Proxies
  <2>2. SetToken(b, tok) \in [DOMAIN backends -> Proxies]
    BY <1>2, <2>1 DEF SetToken
  <2>3. QED  BY <1>1, <2>2
<1>5. \A b, st : Len(SetStatus(b, st)) = Made
  BY <1>1 DEF SetStatus, Made
<1>6. \A b, tok : Len(SetToken(b, tok)) = Made
  BY <1>1 DEF SetToken, Made
<1>7. Made \in Nat /\ \A tok \in Tokens : tok.grant \in Nat /\ tok.gen \in Nat
  BY <1>1 DEF Made, Tokens
<1>8. QED  BY <1>3, <1>4, <1>5, <1>6, <1>7

LEMMA InitTyped == Init => Typed
  BY TokensAre DEF Init, Typed, ServersTyped, SchedulerTyped, Backends, Made, None

(* A write to a row: it is made, or there is none to write to, or it fails.*)
LEMMA Saved ==
  ASSUME NEW s, NEW new, Saves(s, new)
  PROVE  /\ \/ rows' = new
            \/ rows' = rows /\ (rows[s] = NoRow \/ s \in unsaved')
         /\ \A u \in unsaved : u # s => u \in unsaved'
  BY DEF Saves

(* A step that moves tasks and writes to proxies only.                     *)
LEMMA ProxiesTyped ==
  ASSUME Typed, UNCHANGED <<rows, proxies, inFlight, scheduler>>,
         backends' \in Seq(Proxies), Made' = Made,
         \A t \in tasks' : t \in tasks \/ t \in Work,
         newest' \in Seq(Nat)
  PROVE  Typed'
<1>1. Made \in Nat
  BY Counted DEF Typed
<1>2. Backends' = Backends /\ Messages' = Messages /\ Work' = Work
  BY DEF Backends, Messages, Work
<1>3. ServersTyped'
  BY <1>2 DEF Typed, ServersTyped
<1>4. SchedulerTyped'
  BY <1>2 DEF Typed, SchedulerTyped, scheduler
<1>5. QED  BY <1>3, <1>4 DEF Typed

(* ... and one that writes to rows and scheduler, too.                     *)
LEMMA StoresTyped ==
  ASSUME Typed, proxies' \in [Names -> Backends], inFlight' \subseteq Names,
         backends' \in Seq(Proxies), Made' = Made,
         \A t \in tasks' : t \in tasks \/ t \in Work, newest' \in Seq(Nat),
         rows' \in [Names -> Row], timers' \subseteq Names,
         refreshing' \in Names \cup {None, "storing"}, inbox' \in Seq(Messages),
         entries' \in [Names -> [refresh : Tokens, backend : Backends]]
  PROVE  Typed'
<1>1. Backends' = Backends /\ Messages' = Messages /\ Work' = Work
  BY DEF Backends, Messages, Work
<1>2. ServersTyped'
  BY <1>1 DEF Typed, ServersTyped
<1>3. SchedulerTyped'
  BY <1>1 DEF Typed, SchedulerTyped
<1>4. QED  BY <1>2, <1>3 DEF Typed

(* ... and one that adds a proxy.                                          *)
LEMMA OneMoreTyped ==
  ASSUME Typed, rows' \in [Names -> Row], proxies' \in [Names -> 0 .. Made + 1],
         inFlight' = inFlight, UNCHANGED scheduler, newest' \in Seq(Nat),
         NEW pr \in Proxies, backends' = Append(backends, pr),
         \A t \in tasks' : t \in tasks \/ t \in Work'
  PROVE  Typed'
<1>1. Made \in Nat /\ backends \in Seq(Proxies)
  BY Counted DEF Typed, ServersTyped
<1>2. backends' \in Seq(Proxies) /\ Made' = Made + 1
  BY <1>1 DEF Made
<1>3. /\ Backends \subseteq Backends' /\ Work \subseteq Work'
      /\ inbox \in Seq(Messages')
      /\ entries \in [Names -> [refresh : Tokens, backend : Backends']]
  BY <1>1, <1>2, Growing DEF Typed, SchedulerTyped
<1>4. Backends' = 0 .. Made + 1
  BY <1>2 DEF Backends
<1>5. ServersTyped'
  BY <1>2, <1>3, <1>4 DEF Typed, ServersTyped
<1>6. SchedulerTyped'
  BY <1>3 DEF Typed, SchedulerTyped, scheduler
<1>7. QED  BY <1>5, <1>6 DEF Typed

LEMMA RowsWritten ==
  ASSUME rows \in [Names -> Row]
  PROVE  /\ \A s : [rows EXCEPT ![s] = NoRow] \in [Names -> Row]
         /\ \A s, auth, tok : auth \in {"oauth", "key"} /\ tok \in Tokens =>
              NewRow(s, auth, tok) \in [Names -> Row]
         /\ \A s, a, r : a \in Tokens /\ r \in Tokens => OAuthRow(s, a, r) \in [Names -> Row]
         /\ \A s, tok : tok \in Tokens => Refreshed(s, tok) \in [Names -> Row]
<1>1. \A s : [rows EXCEPT ![s] = NoRow] \in [Names -> Row]
  BY TokensAre
<1>2. ASSUME NEW s, NEW auth \in {"oauth", "key"}, NEW tok \in Tokens
      PROVE  NewRow(s, auth, tok) \in [Names -> Row]
  <2>1. CASE s \in Names
    <3>1. [[rows[s] EXCEPT !.auth = auth] EXCEPT !.access = tok] \in Row
      BY <2>1 DEF Row
    <3>2. NewRow(s, auth, tok) =
            [rows EXCEPT ![s] = [[rows[s] EXCEPT !.auth = auth] EXCEPT !.access = tok]]
      BY <2>1 DEF NewRow
    <3>3. QED  BY <3>1, <3>2
  <2>2. CASE s \notin Names
    BY <2>2 DEF NewRow
  <2>3. QED  BY <2>1, <2>2
<1>3. ASSUME NEW s, NEW a \in Tokens, NEW r \in Tokens
      PROVE  OAuthRow(s, a, r) \in [Names -> Row]
  <2>1. [auth |-> "oauth", access |-> a, refresh |-> r] \in Row
    BY DEF Row
  <2>2. QED  BY <2>1 DEF OAuthRow
<1>4. ASSUME NEW s, NEW tok \in Tokens
      PROVE  Refreshed(s, tok) \in [Names -> Row]
  <2>1. CASE s \in Names
    <3>1. [[rows[s] EXCEPT !.access = tok] EXCEPT !.refresh = tok] \in Row
      BY <2>1 DEF Row
    <3>2. Refreshed(s, tok) =
            [rows EXCEPT ![s] = [[rows[s] EXCEPT !.access = tok] EXCEPT !.refresh = tok]]
      BY <2>1 DEF Refreshed
    <3>3. QED  BY <3>1, <3>2
  <2>2. CASE s \notin Names
    BY <2>2 DEF Refreshed
  <2>3. QED  BY <2>1, <2>2
<1>5. QED  BY <1>1, <1>2, <1>3, <1>4

LEMMA RedeemTyped ==
  ASSUME newest \in Seq(Nat), NEW tok, Redeem(tok)
  PROVE  newest' \in Seq(Nat)
<1>1. newest \in [DOMAIN newest -> Nat] /\ DOMAIN newest = 1 .. Len(newest)
  OBVIOUS
<1>2. newest' = [newest EXCEPT ![tok.grant] = @ + 1]
  BY DEF Redeem
<1>3. newest' \in [DOMAIN newest -> Nat]
  <2>1. CASE tok.grant \in DOMAIN newest
    <3>1. newest[tok.grant] + 1 \in Nat
      BY <1>1, <2>1
    <3>2. newest' = [newest EXCEPT ![tok.grant] = newest[tok.grant] + 1]
      BY <1>2
    <3>3. QED  BY <1>1, <3>1, <3>2
  <2>2. CASE tok.grant \notin DOMAIN newest
    BY <1>1, <1>2, <2>2
  <2>3. QED  BY <2>1, <2>2
<1>4. QED  BY <1>1, <1>3

LEMMA CommandTyped ==
  ASSUME Typed, NEW s \in Names, McpCommand(s)
  PROVE  Typed'
<1>0. /\ rows \in [Names -> Row] /\ proxies \in [Names -> Backends] /\ Made \in Nat
      /\ newest \in Seq(Nat) /\ tasks \subseteq Work
  BY Counted DEF Typed, ServersTyped, SchedulerTyped
<1>1. CASE UNCHANGED <<aggregator, scheduler, newest>>
  BY <1>1 DEF aggregator, scheduler, Typed, ServersTyped, SchedulerTyped, Backends, Made,
              Messages, Work
<1>2. CASE AddOAuth(s)
  <2>1. [token |-> NoTok, status |-> "unreachable"] \in Proxies
    BY TokensAre DEF Proxies, Statuses
  <2>2. rows' \in [Names -> Row]
    BY <1>0, <1>2, TokensAre, RowsWritten DEF AddOAuth
  <2>3. proxies' \in [Names -> 0 .. Made + 1]
    BY <1>0, <1>2 DEF AddOAuth, Backends
  <2>4. QED
    BY <1>0, <1>2, <2>1, <2>2, <2>3, OneMoreTyped DEF AddOAuth
<1>3. CASE AddPlain(s)
  <2>1. [token |-> NoTok, status |-> "unreachable"] \in Proxies
    BY TokensAre DEF Proxies, Statuses
  <2>2. rows' \in [Names -> Row]
    BY <1>0, <1>3, TokensAre, RowsWritten DEF AddPlain, AddWithKey
  <2>3. proxies' \in [Names -> 0 .. Made + 1]
    BY <1>0, <1>3 DEF AddPlain, Backends
  <2>4. backends' = Append(backends, [token |-> NoTok, status |-> "unreachable"])
    BY <1>3 DEF AddPlain, AddWithKey
  <2>5. Made' = Made + 1
    BY <2>4 DEF Typed, ServersTyped, Made
  <2>6. Task("add", "connecting", s, Made + 1, NoTok, 0) \in Work'
    BY <1>0, <2>5, TokensAre DEF Task, Work, Backends
  <2>7. QED
    BY <1>0, <1>3, <2>1, <2>2, <2>3, <2>4, <2>6, OneMoreTyped DEF AddPlain, AddWithKey
<1>4. CASE Remove(s)
  <2>1. Task("remove", "row", s, 0, NoTok, 0) \in Work
    BY <1>0, TokensAre DEF Task, Work, Backends
  <2>2. proxies' \in [Names -> Backends]
    BY <1>0, <1>4 DEF Remove, Backends
  <2>3. QED
    BY <1>0, <1>4, <2>1, <2>2, StoresTyped
       DEF Remove, Made, Typed, ServersTyped, SchedulerTyped, scheduler
<1>5. QED
  BY <1>1, <1>2, <1>3, <1>4
     DEF McpCommand, McpAdd, AddPrompts, Authenticate, FallsBack, Prompt

LEMMA AddTyped ==
  ASSUME Typed, NEW t \in tasks, AddSucceeds(t) \/ AddFails(t) \/ RemoveRow(t)
  PROVE  Typed'
<1>1. t \in Work /\ t.backend \in Backends
  BY DEF Typed, ServersTyped, Work
<1>2. /\ backends' \in Seq(Proxies) /\ Made' = Made
  BY Counted DEF AddSucceeds, AddFails, RemoveRow, Typed, ServersTyped, Statuses, Made
<1>3. rows' \in [Names -> Row] /\ proxies' \in [Names -> Backends]
  <2>1. rows' \in {rows, [rows EXCEPT ![t.name] = NoRow]}
    BY Saved DEF AddSucceeds, AddFails, RemoveRow
  <2>2. QED
    BY <1>1, <2>1, RowsWritten DEF AddSucceeds, AddFails, RemoveRow, Typed, ServersTyped
<1>4. QED
  BY <1>2, <1>3, StoresTyped
     DEF AddSucceeds, AddFails, RemoveRow, Typed, ServersTyped, SchedulerTyped, scheduler

LEMMA NotifyTyped ==
  ASSUME Typed, NEW t \in tasks, t.kind \in {"set", "reconnect"},
         NEW rest, rest \subseteq Work, Notify(t, rest)
  PROVE  Typed'
<1>1. t \in Work
  BY DEF Typed, ServersTyped
<1>2. [name |-> t.name, refresh |-> t.tok, backend |-> t.backend] \in Messages
  BY <1>1 DEF Work, Messages, Backends
<1>3. inbox' \in Seq(Messages)
  BY <1>2 DEF Notify, Typed, SchedulerTyped
<1>4. Made' = Made
  BY DEF Notify, Made
<1>5. \A u \in tasks' : u \in tasks \/ u \in Work
  BY DEF Notify, Becomes
<1>6. QED
  BY <1>3, <1>4, <1>5, StoresTyped DEF Notify, Typed, ServersTyped, SchedulerTyped

LEMMA SetTyped ==
  ASSUME Typed, NEW t \in tasks, SetStores(t) \/ SetNotifies(t) \/ Connect(t)
  PROVE  Typed'
<1>1. t \in Work /\ tasks \subseteq Work /\ t.backend \in Backends /\ t.name \in Names
      /\ t.tok \in Tokens
  BY DEF Typed, ServersTyped, Work
<1>2. CASE SetStores(t)
  <2>1. rows' \in [Names -> Row] /\ inFlight' \subseteq Names
    BY <1>1, <1>2, RowsWritten DEF SetStores, Typed, ServersTyped
  <2>2. \A u \in tasks : \A b \in BOOLEAN : [u EXCEPT !.cancelled = b] \in Work
    BY <1>1, WorkMoves
  <2>3. \A u \in tasks : u.cancelled \in BOOLEAN
    BY <1>1 DEF Work
  <2>4. \A u \in tasks : [u EXCEPT !.cancelled = @ \/ (u.kind = "reconnect" /\ u.name = t.name
                                                    /\ t.name \in inFlight)] \in Work
    BY <2>2, <2>3
  <2>5. /\ [t EXCEPT !.at = "notifying"] \in Work
        /\ Task("connect", "connecting", t.name, t.backend, NoTok, 0) \in Work
    BY <1>1, WorkMoves, TaskIsWork, TokensAre
  <2>6. \A u \in tasks' : u \in tasks \/ u \in Work
    BY <1>2, <2>4, <2>5 DEF SetStores
  <2>7. QED
    BY <1>2, <2>1, <2>6, StoresTyped
       DEF SetStores, Made, Typed, ServersTyped, SchedulerTyped, scheduler
<1>3. CASE SetNotifies(t)
  BY <1>3, NotifyTyped DEF SetNotifies
<1>4. CASE Connect(t)
  <2>1. backends' \in Seq(Proxies) /\ Made' = Made
    BY <1>4, Counted DEF Connect, Typed, ServersTyped, Statuses, Made
  <2>2. QED
    BY <1>4, <2>1, ProxiesTyped DEF Connect, Typed, SchedulerTyped
<1>5. QED  BY <1>2, <1>3, <1>4

LEMMA ReconnectTyped ==
  ASSUME Typed, NEW t \in tasks,
         \/ ReconnectAsks(t) \/ ReconnectRefreshed(t) \/ ReconnectRefused(t)
         \/ ReconnectGivesUp(t) \/ ReconnectMarks(t)
  PROVE  Typed'
<1>1. t \in Work /\ t.tok \in Tokens /\ Fresh(t.tok) \in Tokens
  BY TokensAre DEF Typed, ServersTyped, Work
<1>2. /\ backends' \in Seq(Proxies) /\ Made' = Made
  BY <1>1, Counted
     DEF ReconnectAsks, ReconnectRefreshed, ReconnectRefused, ReconnectGivesUp, ReconnectMarks,
         Typed, ServersTyped, Statuses, Made
<1>3. newest' \in Seq(Nat)
  BY RedeemTyped
     DEF ReconnectAsks, ReconnectRefreshed, ReconnectRefused, ReconnectGivesUp, ReconnectMarks,
         Typed, SchedulerTyped
<1>4. \A u \in tasks' : u \in tasks \/ u \in Work
  <2>1. CASE ReconnectAsks(t)
    BY <1>1, <2>1, WorkMoves DEF ReconnectAsks, Goes
  <2>2. CASE ReconnectRefreshed(t)
    <3>1. [t EXCEPT !.at = "storing", !.tok = Fresh(@)] =
            [t EXCEPT !.at = "storing", !.tok = Fresh(t.tok)]
      BY <1>1 DEF Work
    <3>2. QED  BY <1>1, <2>2, <3>1, WorkMoves DEF ReconnectRefreshed, Becomes
  <2>3. CASE ReconnectRefused(t)
    BY <1>1, <2>3, WorkMoves DEF ReconnectRefused, Goes, Becomes
  <2>4. CASE ReconnectGivesUp(t) \/ ReconnectMarks(t)
    BY <1>1, <2>4, WorkMoves DEF ReconnectGivesUp, ReconnectMarks, Goes
  <2>5. QED  BY <2>1, <2>2, <2>3, <2>4
<1>5. QED
  BY <1>2, <1>3, <1>4, ProxiesTyped
     DEF ReconnectAsks, ReconnectRefreshed, ReconnectRefused, ReconnectGivesUp, ReconnectMarks

LEMMA ReconnectStoresTyped ==
  ASSUME Typed, NEW t \in tasks,
         ReconnectStores(t) \/ ReconnectNotifies(t) \/ RefreshStores(t)
  PROVE  Typed'
<1>1. t \in Work /\ t.tok \in Tokens /\ t.name \in Names /\ t.backend \in Backends
  BY DEF Typed, ServersTyped, Work
<1>2. CASE ReconnectStores(t)
  <2>1. rows' \in [Names -> Row]
    BY <1>1, <1>2, RowsWritten DEF ReconnectStores, Typed, ServersTyped
  <2>2. \A u \in tasks' : u \in tasks \/ u \in Work
    BY <1>1, <1>2, WorkMoves DEF ReconnectStores, Goes
  <2>3. QED
    BY <1>2, <2>1, <2>2, StoresTyped
       DEF ReconnectStores, Made, Typed, ServersTyped, SchedulerTyped, scheduler
<1>3. CASE ReconnectNotifies(t)
  <2>1. Task("connect", "connecting", t.name, t.backend, NoTok, 0) \in Work
    BY <1>1, TaskIsWork, TokensAre
  <2>2. QED  BY <1>3, <2>1, NotifyTyped DEF ReconnectNotifies
<1>4. CASE RefreshStores(t)
  <2>1. rows' \in [Names -> Row]
    BY <1>1, <1>4, RowsWritten, Saved DEF RefreshStores, Typed, ServersTyped
  <2>2. QED
    BY <1>4, <2>1, StoresTyped
       DEF RefreshStores, Made, Typed, ServersTyped, SchedulerTyped
<1>5. QED  BY <1>2, <1>3, <1>4

LEMMA MessageTyped ==
  ASSUME Typed, TakeMessage
  PROVE  Typed'
<1>0. /\ rows \in [Names -> Row] /\ tasks \subseteq Work /\ newest \in Seq(Nat)
      /\ entries \in [Names -> [refresh : Tokens, backend : Backends]]
      /\ inbox \in Seq(Messages) /\ backends \in Seq(Proxies) /\ timers \subseteq Names
  BY DEF Typed, ServersTyped, SchedulerTyped
<1>1. PICK m \in Messages : m = Head(inbox)
  BY <1>0 DEF TakeMessage
<1>2. m.name \in Names /\ m.refresh \in Tokens /\ m.backend \in 1 .. Made
  BY DEF Messages
<1>3. entries' \in [Names -> [refresh : Tokens, backend : Backends]]
  BY <1>0, <1>1, <1>2 DEF TakeMessage, Backends
<1>4. inbox' \in Seq(Messages)
  BY <1>0 DEF TakeMessage
<1>5. backends[m.backend].token \in Tokens
  <2>1. m.backend \in DOMAIN backends
    BY <1>0, <1>2 DEF Made
  <2>2. backends[m.backend] \in Proxies
    BY <1>0, <2>1
  <2>3. QED  BY <2>2 DEF Proxies
<1>6. rows' \in [Names -> Row]
  <2>1. OAuthRow(m.name, backends[m.backend].token, m.refresh) \in [Names -> Row]
    BY <1>0, <1>2, <1>5, RowsWritten
  <2>2. Saves(m.name, OAuthRow(m.name, backends[m.backend].token, m.refresh))
    BY <1>1 DEF TakeMessage
  <2>3. QED  BY <1>0, <2>1, <2>2, Saved
<1>7. timers' \subseteq Names
  BY <1>0, <1>1, <1>2 DEF TakeMessage
<1>8. QED
  BY <1>0, <1>3, <1>4, <1>6, <1>7, StoresTyped
     DEF TakeMessage, Made, Typed, ServersTyped, SchedulerTyped

LEMMA RefreshTyped ==
  ASSUME Typed, RefreshSucceeds \/ RefreshFails \/ \E s \in Names : Fire(s)
  PROVE  Typed'
<1>0. /\ rows \in [Names -> Row] /\ proxies \in [Names -> Backends] /\ tasks \subseteq Work
      /\ entries \in [Names -> [refresh : Tokens, backend : Backends]]
      /\ inbox \in Seq(Messages) /\ backends \in Seq(Proxies) /\ timers \subseteq Names
      /\ inFlight \subseteq Names /\ Made \in Nat /\ newest \in Seq(Nat)
  BY Counted DEF Typed, ServersTyped, SchedulerTyped
<1>1. CASE RefreshSucceeds
  <2>1. PICK s \in Names : s = refreshing
    BY <1>1 DEF RefreshSucceeds
  <2>2. PICK tok \in Tokens : tok = Fresh(entries[s].refresh)
    BY <1>0, TokensAre
  <2>3. newest' \in Seq(Nat)
    BY <1>0, <1>1, RedeemTyped DEF RefreshSucceeds
  <2>4. backends' \in Seq(Proxies) /\ Made' = Made
    BY <1>0, <1>1, <2>1, <2>2, Counted DEF RefreshSucceeds, Made, Typed
  <2>5. entries' = [entries EXCEPT ![s].refresh = tok]
    BY <1>0, <1>1, <2>1, <2>2 DEF RefreshSucceeds
  <2>6. entries' \in [Names -> [refresh : Tokens, backend : Backends]]
    BY <1>0, <2>5
  <2>7. Task("refresh", "storing", s, 0, tok, 0) \in Work
    BY <1>0, TaskIsWork DEF Backends
  <2>8. tasks' = tasks \cup {Task("refresh", "storing", s, 0, tok, 0)}
    BY <1>1, <2>1, <2>2 DEF RefreshSucceeds
  <2>9. refreshing' = "storing" /\ UNCHANGED <<rows, proxies, inFlight, timers, inbox>>
    BY <1>1 DEF RefreshSucceeds
  <2>10. QED
    BY <1>0, <2>3, <2>4, <2>6, <2>7, <2>8, <2>9, StoresTyped
<1>2. CASE RefreshFails
  BY <1>0, <1>2, RedeemTyped, StoresTyped
     DEF RefreshFails, aggregator, Made, Typed, ServersTyped, SchedulerTyped
<1>3. ASSUME NEW s \in Names, Fire(s)
      PROVE  Typed'
  BY <1>0, <1>3, StoresTyped DEF Fire, aggregator, Made, Typed, ServersTyped, SchedulerTyped
<1>4. QED  BY <1>1, <1>2, <1>3

(* What the bot asks of the servers.                                       *)
LEMMA BotTyped ==
  ASSUME Typed, StatesInv, PromptsInv,
         \/ KeyArrives \/ BotRestart
         \/ \E a \in 1 .. MaxCommands : Callback(a) \/ Expire(a) \/ Exchange(a)
         \/ \E i \in DOMAIN requests : WaitEnds(i) \/ ClearSlot(i) \/ RegisterKey(i)
  PROVE  Typed'
<1>0. /\ rows \in [Names -> Row] /\ proxies \in [Names -> Backends] /\ tasks \subseteq Work
      /\ backends \in Seq(Proxies) /\ Made \in Nat /\ newest \in Seq(Nat) /\ Grants \in Nat
  BY Counted DEF Typed, ServersTyped, SchedulerTyped, Grants
<1>1. CASE UNCHANGED <<aggregator, scheduler, newest>>
  BY <1>1 DEF aggregator, scheduler, Typed, ServersTyped, SchedulerTyped, Backends, Made,
              Messages, Work
<1>2. ASSUME NEW a \in 1 .. MaxCommands, Exchange(a)
      PROVE  Typed'
  <2>1. newest' \in Seq(Nat)
    <3>1. newest' = Append(newest, 1) \/ newest' = newest
      BY <1>2 DEF Exchange, ExchangeToken
    <3>2. \A q \in Seq(Nat) : Append(q, 1) \in Seq(Nat)
      OBVIOUS
    <3>3. QED  BY <1>0, <3>1, <3>2
  <2>2. a <= Len(auths) /\ auths[a] \in Names
    BY <1>2, McpAssumption, SMTT(30) DEF Exchange, StatesInv
  <2>3. PICK s \in Names : s = auths[a]
    BY <2>2
  <2>4. PICK tok \in Tokens : tok = Tok(Grants + 1, 1)
    BY <1>0, TokensAre
  <2>5. CASE SetStarts(s, tok)
    <3>1. backends' \in Seq(Proxies) /\ Made' = Made
      BY <1>0, <2>5, Counted DEF SetStarts, Made, Typed
    <3>2. proxies[s] # 0 => Task("set", "storing", s, proxies[s], tok, 0) \in Work
      BY <1>0, TaskIsWork
    <3>3. \A t \in tasks' : t \in tasks \/ t \in Work
      BY <2>5, <3>2 DEF SetStarts
    <3>4. QED
      BY <1>2, <2>1, <3>1, <3>3, ProxiesTyped DEF Exchange
  <2>6. CASE UNCHANGED <<newest, backends, tasks>>
    BY <1>0, <1>2, <2>6, ProxiesTyped DEF Exchange, Made
  <2>7. QED  BY <1>2, <2>3, <2>4, <2>5, <2>6 DEF Exchange
<1>3. ASSUME NEW i \in DOMAIN requests, RegisterKey(i)
      PROVE  Typed'
  <2>1. PICK tok \in Tokens : tok = Tok(Grants + 1, 1)
    BY <1>0, TokensAre
  <2>2. PICK s \in Names : s = requests[i].name
    <3>1. requests[i] \in Prompts
      BY DEF PromptsInv
    <3>2. QED  BY <3>1 DEF Prompts
  <2>3. newest' \in Seq(Nat)
    BY <1>0, <1>3 DEF RegisterKey
  <2>4. [token |-> tok, status |-> "unreachable"] \in Proxies
    BY DEF Proxies, Statuses
  <2>5. /\ rows' = NewRow(s, "key", tok) /\ proxies' = proxies
        /\ backends' = Append(backends, [token |-> tok, status |-> "unreachable"])
        /\ tasks' = tasks \cup {Task("add", "connecting", s, Made + 1, NoTok, 0)}
        /\ inFlight' = inFlight /\ UNCHANGED scheduler
    BY <1>3, <2>1, <2>2 DEF RegisterKey, AddWithKey
  <2>6. rows' \in [Names -> Row] /\ proxies' \in [Names -> 0 .. Made + 1]
    BY <1>0, <2>5, RowsWritten DEF Backends
  <2>7. Made' = Made + 1
    BY <1>0, <2>5 DEF Made
  <2>8. Task("add", "connecting", s, Made + 1, NoTok, 0) \in Work'
    BY <1>0, <2>7, TokensAre DEF Task, Work, Backends
  <2>9. QED
    BY <2>3, <2>4, <2>5, <2>6, <2>8, OneMoreTyped
<1>4. QED
  BY <1>1, <1>2, <1>3 DEF KeyArrives, BotRestart, Callback, Expire, WaitEnds, ClearSlot

(* The servers that have a row are numbered, and no two alike.             *)
LEMMA Numbered ==
  /\ Kept \subseteq Names /\ IsFiniteSet(Kept) /\ Cardinality(Kept) \in Nat
  /\ Number \in [Kept -> 1 .. Cardinality(Kept)]
  /\ \A s, u \in Kept : Number[s] = Number[u] => s = u
  /\ \A i \in 1 .. Cardinality(Kept) : \E s \in Kept : Number[s] = i
<1> DEFINE n == Cardinality(Kept)
<1>1. Kept \subseteq Names /\ IsFiniteSet(Kept) /\ n \in Nat
  BY McpAssumption, FS_Subset, FS_CardinalityType DEF Kept
<1>2. ExistsBijection(Kept, 1 .. n)
  BY <1>1, FS_CardinalityType, Fun_ExistsBijSymmetric
<1>3. \E f \in [Kept -> 1 .. n] : \A s, u \in Kept : f[s] = f[u] => s = u
  <2>1. PICK f : f \in Bijection(Kept, 1 .. n)
    BY <1>2 DEF ExistsBijection
  <2>2. QED  BY <2>1 DEF Bijection, Injection, IsInjective
<1>4. /\ Number \in [Kept -> 1 .. n]
      /\ \A s, u \in Kept : Number[s] = Number[u] => s = u
  BY <1>3 DEF Number
<1>5. Number \in Injection(Kept, 1 .. n)
  BY <1>4 DEF Injection, IsInjective
<1>6. IsFiniteSet(1 .. n) /\ Cardinality(1 .. n) = n
  BY <1>1, FS_Interval
<1>7. Number \in Surjection(Kept, 1 .. n)
  BY <1>5, <1>6, FS_Injection
<1>8. QED  BY <1>1, <1>4, <1>7 DEF Surjection

LEMMA RestoredTyped ==
  ASSUME Typed
  PROVE  /\ RestoredBackends \in Seq(Proxies)
         /\ Len(RestoredBackends) = Cardinality(Kept)
         /\ \A s \in Kept : NewBackend(s) \in Made + 1 .. Made + Cardinality(Kept)
<1> DEFINE n == Cardinality(Kept)
<1>0. n \in Nat /\ Made \in Nat /\ Kept \subseteq Names /\ rows \in [Names -> Row]
  BY Numbered, Counted DEF Typed, ServersTyped
<1>1. \A s \in Kept : Number[s] \in 1 .. n
  BY Numbered
<1>2. \A s \in Kept : NewBackend(s) \in Made + 1 .. Made + n
  BY <1>0, <1>1 DEF NewBackend
<1>3. ASSUME NEW i \in 1 .. n
      PROVE  RestoredBackends[i] \in Proxies
  <2>1. PICK s \in Kept : s = CHOOSE u \in Kept : Number[u] = i
    BY Numbered
  <2>2. RestoredBackends[i] =
          [token |-> rows[s].access,
           status |-> IF s \in Lacking THEN "needs_auth" ELSE "unreachable"]
    BY <2>1 DEF RestoredBackends
  <2>3. rows[s].access \in Tokens
    BY <1>0 DEF Row
  <2>4. QED  BY <2>2, <2>3 DEF Proxies, Statuses
<1>4. RestoredBackends = [i \in 1 .. n |-> RestoredBackends[i]]
  BY DEF RestoredBackends
<1> HIDE DEF n
<1>5. RestoredBackends \in Seq(Proxies) /\ Len(RestoredBackends) = n
  BY <1>0, <1>3, <1>4
<1>6. QED  BY <1>2, <1>5 DEF n

(* What is scheduled of the rows.                                          *)
LEMMA ScheduledAre ==
  ASSUME Typed, NEW names, names \subseteq Known, NEW box \in Scheduled(names)
  PROVE  /\ \A i \in DOMAIN box : \E s \in names :
              box[i] = [name |-> s, refresh |-> rows[s].refresh, backend |-> NewBackend(s)]
         /\ \A S : (\A s \in names : [name |-> s, refresh |-> rows[s].refresh,
                                      backend |-> NewBackend(s)] \in S) => box \in Seq(S)
<1>1. PICK order \in SX!SetToSeqs(names) :
        box = [i \in DOMAIN order |->
                 [name |-> order[i], refresh |-> rows[order[i]].refresh,
                  backend |-> NewBackend(order[i])]]
  BY DEF Scheduled
<1>2. order \in [1 .. Cardinality(names) -> names]
  BY DEF SX!SetToSeqs, SX!Cardinality, Cardinality
<1>3. Cardinality(names) \in Nat
  <2>1. names \subseteq Kept
    BY DEF Known
  <2>2. QED  BY <2>1, Numbered, FS_Subset, FS_CardinalityType
<1>4. DOMAIN box = 1 .. Cardinality(names)
  BY <1>1, <1>2
<1>5. \A i \in DOMAIN box :
        /\ order[i] \in names
        /\ box[i] = [name |-> order[i], refresh |-> rows[order[i]].refresh,
                     backend |-> NewBackend(order[i])]
  BY <1>1, <1>2
<1>6. ASSUME NEW S,
        \A s \in names : [name |-> s, refresh |-> rows[s].refresh,
                          backend |-> NewBackend(s)] \in S
      PROVE  box \in Seq(S)
  <2>1. \A i \in 1 .. Cardinality(names) : box[i] \in S
    BY <1>4, <1>5, <1>6
  <2>2. box = [i \in 1 .. Cardinality(names) |-> box[i]]
    BY <1>1, <1>2
  <2>3. QED  BY <1>3, <2>1, <2>2
<1>7. QED  BY <1>5, <1>6

LEMMA RestartTasksAre ==
  ASSUME Typed, NEW due \in SUBSET Known, NEW t \in RestartTasks(due)
  PROVE  \E s \in Kept :
           \/ t = Task("reconnect", "starting", s, NewBackend(s), rows[s].refresh, Attempts)
           \/ t = Task("connect", "connecting", s, NewBackend(s), NoTok, 0)
  BY DEF RestartTasks, Known

LEMMA RestartTyped ==
  ASSUME Typed, Restart
  PROVE  Typed'
<1> DEFINE n == Cardinality(Kept)
<1>0. /\ rows \in [Names -> Row] /\ newest \in Seq(Nat) /\ Made \in Nat /\ n \in Nat
      /\ backends \in Seq(Proxies) /\ Kept \subseteq Names /\ Attempts \in Nat
  BY Counted, Numbered, McpAssumption DEF Typed, ServersTyped, SchedulerTyped
<1>1. /\ RestoredBackends \in Seq(Proxies) /\ Len(RestoredBackends) = n
      /\ \A s \in Kept : NewBackend(s) \in Made + 1 .. Made + n
  BY RestoredTyped
<1>2. PICK due \in SUBSET Known, later \in SUBSET Known :
        inbox' \in Scheduled(Known \ due) /\ inFlight' = later /\ tasks' = RestartTasks(later)
  BY DEF Restart
<1>3. /\ proxies' = [s \in Names |-> IF s \in Kept THEN NewBackend(s) ELSE 0]
      /\ backends' = backends \o RestoredBackends
      /\ entries' = [s \in Names |-> [refresh |-> NoTok, backend |-> 0]]
      /\ timers' = {} /\ refreshing' = None /\ rows' = rows /\ newest' = newest
  BY DEF Restart
<1> HIDE DEF n
<1>4. backends' \in Seq(Proxies) /\ Made' = Made + n
  <2>1. \A p, q \in Seq(Proxies) : p \o q \in Seq(Proxies) /\ Len(p \o q) = Len(p) + Len(q)
    OBVIOUS
  <2>2. QED  BY <1>0, <1>1, <1>3, <2>1 DEF Made
<1>5. \A s \in Kept : NewBackend(s) \in 1 .. Made' /\ NewBackend(s) \in Backends'
                      /\ NewBackend(s) # 0
  BY <1>0, <1>1, <1>4 DEF Backends
<1>6. 0 \in Backends'
  BY <1>0, <1>4 DEF Backends
<1>7. proxies' \in [Names -> Backends']
  BY <1>3, <1>5, <1>6
<1>8. entries' \in [Names -> [refresh : Tokens, backend : Backends']]
  BY <1>3, <1>6, TokensAre
<1>9. inbox' \in Seq(Messages')
  <2>1. Known \ due \subseteq Known /\ Known \subseteq Kept
    BY DEF Known
  <2>2. \A s \in Known \ due : [name |-> s, refresh |-> rows[s].refresh,
                                backend |-> NewBackend(s)] \in Messages'
    BY <1>0, <1>5, <2>1 DEF Messages, Row
  <2>3. QED  BY <1>2, <2>1, <2>2, ScheduledAre
<1>10. tasks' \subseteq Work'
  <2>1. ASSUME NEW t \in tasks'
        PROVE  t \in Work'
    <3>1. PICK s \in Kept :
            \/ t = Task("reconnect", "starting", s, NewBackend(s), rows[s].refresh, Attempts)
            \/ t = Task("connect", "connecting", s, NewBackend(s), NoTok, 0)
      BY <1>2, <2>1, RestartTasksAre
    <3>2. rows[s].refresh \in Tokens
      BY <1>0 DEF Row
    <3>3. NewBackend(s) \in Backends' /\ NewBackend(s) # 0 /\ s \in Names
      BY <1>0, <1>5
    <3>4. CASE t = Task("reconnect", "starting", s, NewBackend(s), rows[s].refresh, Attempts)
      BY <1>0, <3>2, <3>3, <3>4 DEF Task, Work
    <3>5. CASE t = Task("connect", "connecting", s, NewBackend(s), NoTok, 0)
      BY <3>3, <3>5, TokensAre DEF Task, Work
    <3>6. QED  BY <3>1, <3>4, <3>5
  <2>2. QED  BY <2>1
<1>11. inFlight' \subseteq Names
  BY <1>0, <1>2 DEF Known
<1>12. ServersTyped'
  BY <1>0, <1>3, <1>4, <1>7, <1>10, <1>11 DEF ServersTyped
<1>13. SchedulerTyped'
  BY <1>0, <1>3, <1>8, <1>9 DEF SchedulerTyped
<1>14. QED  BY <1>12, <1>13 DEF Typed

LEMMA NextTyped ==
  ASSUME Typed, StatesInv, PromptsInv, [Next]_vars
  PROVE  Typed'
<1>1. CASE UNCHANGED vars
  BY <1>1 DEF vars, aggregator, scheduler, Typed, ServersTyped, SchedulerTyped, Backends,
              Made, Messages, Work
<1>2. ASSUME NEW s \in Names, McpCommand(s) \/ Fire(s)
      PROVE  Typed'
  BY <1>2, CommandTyped, RefreshTyped
<1>3. ASSUME NEW t \in tasks,
        \/ AddSucceeds(t) \/ AddFails(t) \/ RemoveRow(t)
        \/ SetStores(t) \/ SetNotifies(t) \/ Connect(t)
        \/ ReconnectAsks(t) \/ ReconnectRefreshed(t) \/ ReconnectRefused(t)
        \/ ReconnectGivesUp(t) \/ ReconnectMarks(t) \/ ReconnectStores(t) \/ ReconnectNotifies(t)
        \/ RefreshStores(t)
      PROVE  Typed'
  BY <1>3, AddTyped, SetTyped, ReconnectTyped, ReconnectStoresTyped
<1>4. CASE TakeMessage \/ RefreshSucceeds \/ RefreshFails \/ Restart
  BY <1>4, MessageTyped, RefreshTyped, RestartTyped
<1>5. CASE \/ KeyArrives \/ BotRestart
           \/ \E a \in 1 .. MaxCommands : Callback(a) \/ Expire(a) \/ Exchange(a)
           \/ \E i \in DOMAIN requests : WaitEnds(i) \/ ClearSlot(i) \/ RegisterKey(i)
  BY <1>5, BotTyped
<1>6. QED  BY <1>1, <1>2, <1>3, <1>4, <1>5 DEF Next

-----------------------------------------------------------------------------
(* Entry and row agree, or something is under way that makes them agree.   *)
LEMMA InitAgreement == Init => Agreement
  BY DEF Init, Agreement, OwnProxies, OneRefresh, AgreementInv, Agreed

LEMMA Referred ==
  ASSUME Typed, NEW b, Refers(b)
  PROVE  b \in Backends
<1>1. /\ proxies \in [Names -> Backends] /\ tasks \subseteq Work
      /\ entries \in [Names -> [refresh : Tokens, backend : Backends]]
      /\ inbox \in Seq(Messages)
  BY DEF Typed, ServersTyped, SchedulerTyped
<1>2. \A i \in DOMAIN inbox : inbox[i].backend \in Backends
  <2>1. \A i \in DOMAIN inbox : inbox[i] \in Messages
    BY <1>1
  <2>2. \A m \in Messages : m.backend \in Backends
    BY DEF Messages, Backends
  <2>3. QED  BY <2>1, <2>2
<1>3. \A u \in tasks : u.backend \in Backends
  BY <1>1 DEF Work
<1>4. QED  BY <1>1, <1>2, <1>3 DEF Refers

(* A step after which nobody refers to more proxies but one that no        *)
(* /mcp-add is connecting.                                                 *)
LEMMA OwnKept ==
  ASSUME OwnProxies, NEW fresh,
         \A b : Refers(b)' => Refers(b) \/ b = 0 \/ b = fresh,
         \A t \in tasks' : Adding(t) => t \in tasks /\ t.backend # fresh
  PROVE  OwnProxies'
<1>1. ASSUME NEW t \in tasks', Adding(t)
      PROVE  /\ t.backend # 0 /\ ~Refers(t.backend)'
             /\ \A u \in tasks' : Adding(u) /\ u # t => u.backend # t.backend
  <2>1. t \in tasks /\ t.backend # fresh
    BY <1>1
  <2>2. t.backend # 0 /\ ~Refers(t.backend)
    BY <1>1, <2>1 DEF OwnProxies
  <2>3. PICK b : b = t.backend
    OBVIOUS
  <2>4. ~Refers(b)'
    BY <2>1, <2>2, <2>3
  <2>5. ~Refers(t.backend)'
    BY <2>3, <2>4
  <2>6. QED  BY <1>1, <2>1, <2>2, <2>5 DEF OwnProxies
<1>2. QED  BY <1>1 DEF OwnProxies, Adding

(* A step of a task that is no /mcp-add, a refresh or a notification, and  *)
(* of what it leaves.                                                      *)
Related(t) ==
  t.kind \in {"set", "reconnect"} =>
    \/ \E s \in Names : proxies[s] = t.backend
    \/ \E u \in tasks : u.kind \in {"set", "reconnect"} /\ u.backend = t.backend
Notable(t) == Adding(t) \/ Refreshing(t) \/ Notifying(t)

LEMMA TasksMove ==
  ASSUME Agreement, UNCHANGED <<rows, proxies, entries, inbox, unsaved>>,
         \/ refreshing' = refreshing
         \/ \A t \in tasks : ~Refreshing(t),
         \A t \in tasks : Notable(t) => t \in tasks',
         \A t \in tasks' : t \in tasks \/ (~Adding(t) /\ ~Refreshing(t) /\ Related(t))
  PROVE  Agreement'
<1>1. OwnProxies'
  <2>1. \A b : Refers(b)' => Refers(b)
    BY DEF Refers, Related
  <2>2. \A t \in tasks' : Adding(t) => t \in tasks /\ t.backend # 0
    BY DEF Agreement, OwnProxies
  <2>3. QED  BY <2>1, <2>2, OwnKept DEF Agreement
<1>2. OneRefresh'
  BY DEF Agreement, OneRefresh, Refreshing
<1>3. AgreementInv'
  BY DEF Agreement, AgreementInv, Agreed, UnderWay, Notable, Adding, Refreshing, Notifying
<1>4. QED  BY <1>1, <1>2, <1>3 DEF Agreement

LEMMA ReconnectMoves ==
  ASSUME Typed, Agreement, NEW t \in tasks,
         \/ Connect(t) \/ ReconnectAsks(t) \/ ReconnectRefreshed(t) \/ ReconnectRefused(t)
         \/ ReconnectGivesUp(t) \/ ReconnectMarks(t)
  PROVE  Agreement'
<1>1. t \in Work
  BY DEF Typed, ServersTyped
<1>2. ~Notable(t)
  BY DEF Connect, ReconnectAsks, ReconnectRefreshed, ReconnectRefused, ReconnectGivesUp,
         ReconnectMarks, Notable, Adding, Refreshing, Notifying
<1>3. UNCHANGED <<rows, proxies, entries, inbox, refreshing, unsaved>>
  BY DEF Connect, ReconnectAsks, ReconnectRefreshed, ReconnectRefused, ReconnectGivesUp,
         ReconnectMarks, scheduler
<1>4. \/ tasks' = tasks \ {t}
      \/ \E u : /\ tasks' = (tasks \ {t}) \cup {u} /\ t.kind = "reconnect"
                /\ u.kind = t.kind /\ u.backend = t.backend
  <2>1. \A at : [t EXCEPT !.at = at].kind = t.kind /\ [t EXCEPT !.at = at].backend = t.backend
    BY <1>1 DEF Work
  <2>2. CASE Connect(t) \/ ReconnectMarks(t) \/ (ReconnectAsks(t) /\ t.cancelled)
    BY <2>2 DEF Connect, ReconnectMarks, ReconnectAsks
  <2>3. CASE ReconnectAsks(t) /\ ~t.cancelled
    <3>1. /\ tasks' = (tasks \ {t}) \cup {[t EXCEPT !.at = "asking"]}
          /\ t.kind = "reconnect"
      BY <2>3 DEF ReconnectAsks, Goes
    <3>2. QED  BY <2>1, <3>1
  <2>4. CASE ReconnectRefreshed(t)
    <3>1. PICK u : u = [t EXCEPT !.at = "storing", !.tok = Fresh(@)]
      OBVIOUS
    <3>2. u.kind = t.kind /\ u.backend = t.backend
      BY <1>1, <3>1 DEF Work
    <3>3. tasks' = (tasks \ {t}) \cup {u} /\ t.kind = "reconnect"
      BY <2>4, <3>1 DEF ReconnectRefreshed, Becomes
    <3>4. QED  BY <3>2, <3>3
  <2>5. CASE ReconnectRefused(t)
    <3>1. PICK u : u = [t EXCEPT !.at = "starting", !.left = @ - 1]
      OBVIOUS
    <3>2. u.kind = t.kind /\ u.backend = t.backend
      BY <1>1, <3>1 DEF Work
    <3>3. PICK v : v = [t EXCEPT !.at = "failed"]
      OBVIOUS
    <3>4. v.kind = t.kind /\ v.backend = t.backend
      BY <2>1, <3>3
    <3>5. /\ tasks' = (tasks \ {t}) \cup {u} \/ tasks' = (tasks \ {t}) \cup {v}
          /\ t.kind = "reconnect"
      BY <2>5, <3>1, <3>3 DEF ReconnectRefused, Becomes, Goes
    <3>6. QED  BY <3>2, <3>4, <3>5
  <2>6. CASE ReconnectGivesUp(t)
    <3>1. /\ \/ tasks' = tasks \ {t}
             \/ tasks' = (tasks \ {t}) \cup {[t EXCEPT !.at = "marking"]}
          /\ t.kind = "reconnect"
      BY <2>6 DEF ReconnectGivesUp, Goes
    <3>2. QED  BY <2>1, <3>1
  <2>7. QED  BY <2>2, <2>3, <2>4, <2>5, <2>6
<1>5. \A u \in tasks : Notable(u) => u \in tasks'
  BY <1>2, <1>4
<1>6. \A u \in tasks' : u \in tasks \/ (~Adding(u) /\ ~Refreshing(u) /\ Related(u))
  BY <1>4 DEF Adding, Refreshing, Related
<1>7. QED  BY <1>3, <1>5, <1>6, TasksMove

(* The steps of the bot, and the scheduler's beginning and end of a        *)
(* refresh.                                                                *)
LEMMA BotMoves ==
  ASSUME Typed, Agreement,
         \/ UNCHANGED <<aggregator, scheduler>> \/ RefreshFails
         \/ \E s \in Names : Fire(s)
         \/ \E a \in 1 .. MaxCommands : StatesInv /\ PromptsInv /\ Exchange(a)
  PROVE  Agreement'
<1>1. CASE UNCHANGED <<aggregator, scheduler>>
  <2>1. UNCHANGED <<rows, proxies, entries, inbox, refreshing, unsaved, tasks>>
    BY <1>1 DEF aggregator, scheduler
  <2>2. QED  BY <2>1, TasksMove
<1>2. CASE RefreshFails \/ \E s \in Names : Fire(s)
  <2>1. UNCHANGED <<rows, proxies, entries, inbox, unsaved, tasks>>
    BY <1>2 DEF RefreshFails, Fire, aggregator
  <2>2. refreshing # "storing"
    BY <1>2, McpAssumption DEF RefreshFails, Fire, None
  <2>3. \A t \in tasks : ~Refreshing(t)
    BY <2>2 DEF Agreement, OneRefresh
  <2>4. QED  BY <2>1, <2>3, TasksMove
<1>3. ASSUME NEW a \in 1 .. MaxCommands, StatesInv, PromptsInv, Exchange(a)
      PROVE  Agreement'
  <2>1. a <= Len(auths) /\ auths[a] \in Names
    <3>1. /\ auths \in Seq(Names) /\ exchanges \in [1 .. MaxCommands -> Nat]
          /\ a > Len(auths) => exchanges[a] = 0
          /\ exchanges[a] > 0
      BY <1>3 DEF Exchange, StatesInv
    <3>2. a \in Nat /\ a >= 1
      BY McpAssumption
    <3>3. QED  BY <3>1, <3>2
  <2>2. UNCHANGED <<rows, proxies, entries, inbox, refreshing, unsaved>>
    BY <1>3 DEF Exchange, scheduler
  <2>3. \/ tasks' = tasks
        \/ \E tok : tasks' = tasks \cup
             {Task("set", "storing", auths[a], proxies[auths[a]], tok, 0)}
    BY <1>3 DEF Exchange, SetStarts
  <2>4. \A tok, b, s : LET t == Task("set", "storing", s, b, tok, 0)
                       IN  ~Adding(t) /\ ~Refreshing(t) /\ t.backend = b
    BY DEF Task, Adding, Refreshing
  <2>5. \A u \in tasks' : u \in tasks \/ (~Adding(u) /\ ~Refreshing(u) /\ Related(u))
    BY <2>1, <2>3, <2>4 DEF Related
  <2>6. tasks \subseteq tasks'
    BY <2>3
  <2>7. QED  BY <2>2, <2>5, <2>6, TasksMove
<1>4. QED  BY <1>1, <1>2, <1>3

(* Steps that write to one server's row, proxy or entry.                   *)
LEMMA RefreshKept ==
  ASSUME OneRefresh, refreshing' = refreshing,
         \A t \in tasks' : Refreshing(t) =>
           t \in tasks /\ entries'[t.name].refresh = entries[t.name].refresh
  PROVE  OneRefresh'
  BY DEF OneRefresh, Refreshing

LEMMA AgreementKept ==
  ASSUME AgreementInv, NEW who,
         \A s \in Names : s # who => /\ rows'[s] = rows[s] /\ entries'[s] = entries[s]
                                     /\ proxies'[s] = proxies[s]
                                     /\ s \in unsaved => s \in unsaved',
         \A t \in tasks : Notable(t) /\ t.name # who =>
           \E u \in tasks' : Notable(u) /\ u.name = t.name,
         \A i \in DOMAIN inbox : inbox[i].name # who =>
           \E j \in DOMAIN inbox' : inbox'[j].name = inbox[i].name,
         Agreed(who)' \/ UnderWay(who)'
  PROVE  AgreementInv'
<1>1. ASSUME NEW s \in Names, s # who
      PROVE  Agreed(s)' \/ UnderWay(s)'
  <2>1. CASE Agreed(s)
    BY <1>1, <2>1 DEF Agreed
  <2>2. CASE UnderWay(s)
    BY <1>1, <2>2 DEF UnderWay, Notable, Adding, Refreshing, Notifying
  <2>3. QED  BY <1>1, <2>1, <2>2 DEF AgreementInv
<1>2. \A s \in Names : s = who => Agreed(s)' \/ UnderWay(s)'
  OBVIOUS
<1>3. QED  BY <1>1, <1>2 DEF AgreementInv

LEMMA AddOAuthAgrees ==
  ASSUME Typed, Agreement, NEW s \in Names, AddOAuth(s)
  PROVE  Agreement'
<1>0. /\ proxies \in [Names -> Backends] /\ rows \in [Names -> Row] /\ Made \in Nat
      /\ tasks \subseteq Work
      /\ entries \in [Names -> [refresh : Tokens, backend : Backends]]
  BY Counted DEF Typed, ServersTyped, SchedulerTyped
<1>1. /\ rows' = NewRow(s, "oauth", NoTok) /\ proxies' = [proxies EXCEPT ![s] = Made + 1]
      /\ tasks' = tasks /\ entries' = entries /\ inbox' = inbox /\ refreshing' = refreshing
      /\ unsaved' = unsaved
  BY DEF AddOAuth, scheduler
<1>2. \A b \in Backends : b # Made + 1
  BY <1>0 DEF Backends
<1>3. OwnProxies'
  <2>1. \A u \in Names : proxies'[u] = proxies[u] \/ proxies'[u] = Made + 1
    BY <1>0, <1>1
  <2>2. \A b : Refers(b)' => Refers(b) \/ b = 0 \/ b = Made + 1
    BY <1>1, <2>1 DEF Refers
  <2>3. \A t \in tasks : t.backend \in Backends
    BY <1>0 DEF Work
  <2>4. \A t \in tasks' : Adding(t) => t \in tasks /\ t.backend # Made + 1
    BY <1>1, <1>2, <2>3
  <2>5. QED  BY <2>2, <2>4, OwnKept DEF Agreement
<1>4. OneRefresh'
  BY <1>1, RefreshKept DEF Agreement
<1>5. AgreementInv'
  <2>1. \A u \in Names : u # s => rows'[u] = rows[u] /\ proxies'[u] = proxies[u]
    BY <1>0, <1>1 DEF NewRow
  <2>2. Agreed(s)'
    <3>1. proxies'[s] = Made + 1
      BY <1>0, <1>1
    <3>2. entries'[s].backend \in Backends
      BY <1>0, <1>1
    <3>3. QED  BY <1>2, <3>1, <3>2 DEF Agreed
  <2>3. QED  BY <1>1, <2>1, <2>2, AgreementKept DEF Agreement
<1>6. QED  BY <1>3, <1>4, <1>5 DEF Agreement

LEMMA AddWithKeyAgrees ==
  ASSUME Typed, Agreement, NEW s \in Names, NEW tok, AddWithKey(s, tok),
         UNCHANGED <<proxies, scheduler>>
  PROVE  Agreement'
<1>0. /\ rows \in [Names -> Row] /\ Made \in Nat /\ tasks \subseteq Work
  BY Counted DEF Typed, ServersTyped, SchedulerTyped
<1>1. PICK new : new = Task("add", "connecting", s, Made + 1, NoTok, 0)
  OBVIOUS
<1>2. new.kind = "add" /\ new.name = s /\ new.backend = Made + 1 /\ new.kind # "refresh"
  BY <1>1 DEF Task
<1>3. /\ rows' = NewRow(s, "key", tok) /\ tasks' = tasks \cup {new} /\ proxies' = proxies
      /\ UNCHANGED <<entries, inbox, refreshing, unsaved>>
  BY <1>1 DEF AddWithKey, scheduler
<1>4. OwnProxies'
  <2>1. \A b : Refers(b)' => Refers(b)
    BY <1>2, <1>3 DEF Refers
  <2>2. Made + 1 # 0 /\ Made + 1 \notin Backends
    BY <1>0 DEF Backends
  <2>3. ~Refers(Made + 1)
    BY <2>2, Referred
  <2>4. \A t \in tasks : t.backend # Made + 1
    BY <1>0, <2>2 DEF Work
  <2>5. ASSUME NEW t \in tasks', Adding(t)
        PROVE  /\ t.backend # 0 /\ ~Refers(t.backend)'
               /\ \A u \in tasks' : Adding(u) /\ u # t => u.backend # t.backend
    <3>1. PICK b : b = t.backend
      OBVIOUS
    <3>2. b # 0 /\ ~Refers(b)
      BY <1>2, <1>3, <2>2, <2>3, <2>5, <3>1 DEF Agreement, OwnProxies
    <3>3. ~Refers(b)'
      BY <2>1, <3>2
    <3>4. \A u \in tasks' : Adding(u) /\ u # t => u.backend # t.backend
      BY <1>2, <1>3, <2>4, <2>5 DEF Agreement, OwnProxies
    <3>5. QED  BY <3>1, <3>2, <3>3, <3>4
  <2>6. QED  BY <2>5 DEF OwnProxies, Adding
<1>5. OneRefresh'
  <2>1. \A t \in tasks' : Refreshing(t) => t \in tasks
    BY <1>2, <1>3 DEF Refreshing
  <2>2. QED  BY <1>3, <2>1, RefreshKept DEF Agreement
<1>6. AgreementInv'
  <2>1. \A u \in Names : u # s => rows'[u] = rows[u]
    BY <1>0, <1>3 DEF NewRow
  <2>2. UnderWay(s)'
    BY <1>2, <1>3 DEF UnderWay, Adding
  <2>3. QED  BY <1>3, <2>1, <2>2, AgreementKept DEF Agreement
<1>7. QED  BY <1>4, <1>5, <1>6 DEF Agreement

LEMMA AddEndsAgrees ==
  ASSUME Typed, Agreement, NEW t \in tasks, AddSucceeds(t) \/ AddFails(t) \/ RemoveRow(t)
  PROVE  Agreement'
<1>0. /\ proxies \in [Names -> Backends] /\ rows \in [Names -> Row] /\ t.name \in Names
  BY DEF Typed, ServersTyped, Work
<1>1. /\ tasks' = tasks \ {t} /\ entries' = entries /\ inbox' = inbox
      /\ refreshing' = refreshing
  BY DEF AddSucceeds, AddFails, RemoveRow, scheduler
<1>2. OneRefresh'
  BY <1>1, RefreshKept DEF Agreement
<1>3. CASE AddSucceeds(t)
  <2>1. /\ proxies' = [proxies EXCEPT ![t.name] = t.backend] /\ rows' = rows /\ Adding(t)
        /\ unsaved' = unsaved
    BY <1>3 DEF AddSucceeds, Adding, scheduler
  <2>2. OwnProxies'
    <3>1. \A u \in Names : proxies'[u] = proxies[u] \/ proxies'[u] = t.backend
      BY <1>0, <2>1
    <3>2. \A b : Refers(b)' => Refers(b) \/ b = 0 \/ b = t.backend
      BY <1>1, <3>1 DEF Refers
    <3>3. \A u \in tasks' : Adding(u) => u \in tasks /\ u.backend # t.backend
      BY <1>1, <2>1 DEF Agreement, OwnProxies
    <3>4. QED  BY <3>2, <3>3, OwnKept DEF Agreement
  <2>3. Agreed(t.name)'
    <3>1. ~Refers(t.backend)
      BY <2>1 DEF Agreement, OwnProxies
    <3>2. entries[t.name].backend # t.backend
      BY <1>0, <3>1 DEF Refers
    <3>3. proxies'[t.name] = t.backend
      BY <1>0, <2>1
    <3>4. QED  BY <1>1, <3>2, <3>3 DEF Agreed
  <2>4. \A u \in Names : u # t.name => proxies'[u] = proxies[u]
    BY <1>0, <2>1
  <2>5. \A u \in tasks : Notable(u) /\ u.name # t.name => u \in tasks'
    BY <1>1
  <2>6. AgreementInv'
    BY <1>1, <2>1, <2>3, <2>4, <2>5, AgreementKept DEF Agreement
  <2>7. QED  BY <1>2, <2>2, <2>6 DEF Agreement
<1>4. CASE RemoveRow(t) /\ rows' = rows
  <2>1. UNCHANGED <<proxies, unsaved>> /\ ~Notable(t)
    BY <1>4 DEF RemoveRow, scheduler, Notable, Adding, Refreshing, Notifying
  <2>2. QED  BY <1>1, <1>4, <2>1, TasksMove
<1>5. CASE AddFails(t) \/ (RemoveRow(t) /\ rows' # rows)
  <2>1. /\ proxies' = proxies
        /\ \/ rows' = [rows EXCEPT ![t.name] = NoRow]
           \/ rows' = rows /\ (rows[t.name] = NoRow \/ t.name \in unsaved')
        /\ \A u \in unsaved : u # t.name => u \in unsaved'
    BY <1>5, Saved DEF AddFails, RemoveRow, scheduler
  <2>2. OwnProxies'
    <3>1. \A b : Refers(b)' => Refers(b)
      BY <1>1, <2>1 DEF Refers
    <3>2. \A u \in tasks' : Adding(u) => u \in tasks /\ u.backend # 0
      BY <1>1 DEF Agreement, OwnProxies
    <3>3. QED  BY <3>1, <3>2, OwnKept DEF Agreement
  <2>3. Agreed(t.name)'
    BY <1>0, <2>1 DEF Agreed, NoRow, NoTok, Tok
  <2>4. \A u \in Names : u # t.name => rows'[u] = rows[u]
    BY <1>0, <2>1
  <2>5. \A u \in tasks : Notable(u) /\ u.name # t.name => u \in tasks'
    BY <1>1
  <2>6. AgreementInv'
    BY <1>1, <2>1, <2>3, <2>4, <2>5, AgreementKept DEF Agreement
  <2>7. QED  BY <1>2, <2>2, <2>6 DEF Agreement
<1>6. QED  BY <1>3, <1>4, <1>5

LEMMA RemoveAgrees ==
  ASSUME Typed, Agreement, NEW s \in Names, Remove(s)
  PROVE  Agreement'
<1>0. proxies \in [Names -> Backends]
  BY DEF Typed, ServersTyped
<1>1. PICK new : new = Task("remove", "row", s, 0, NoTok, 0)
  OBVIOUS
<1>2. ~Adding(new) /\ ~Refreshing(new) /\ new.kind \notin {"set", "reconnect"}
  BY <1>1 DEF Task, Adding, Refreshing
<1>3. /\ proxies' = [proxies EXCEPT ![s] = 0] /\ tasks' = tasks \cup {new} /\ rows' = rows
      /\ UNCHANGED <<entries, inbox, refreshing, unsaved>>
  BY <1>1 DEF Remove, scheduler
<1>4. OwnProxies'
  <2>1. \A u \in Names : proxies'[u] = proxies[u] \/ proxies'[u] = 0
    BY <1>0, <1>3
  <2>2. \A b : Refers(b)' => Refers(b) \/ b = 0
    BY <1>2, <1>3, <2>1 DEF Refers
  <2>3. \A t \in tasks' : Adding(t) => t \in tasks /\ t.backend # 0
    BY <1>2, <1>3 DEF Agreement, OwnProxies
  <2>4. QED  BY <2>2, <2>3, OwnKept DEF Agreement
<1>5. OneRefresh'
  BY <1>2, <1>3, RefreshKept DEF Agreement
<1>6. AgreementInv'
  <2>1. \A u \in Names : u # s => proxies'[u] = proxies[u]
    BY <1>0, <1>3
  <2>2. Agreed(s)'
    BY <1>0, <1>3 DEF Agreed
  <2>3. QED  BY <1>3, <2>1, <2>2, AgreementKept DEF Agreement
<1>7. QED  BY <1>4, <1>5, <1>6 DEF Agreement

LEMMA SetStoresAgrees ==
  ASSUME Typed, Agreement, NEW t \in tasks, SetStores(t)
  PROVE  Agreement'
<1>0. /\ rows \in [Names -> Row] /\ tasks \subseteq Work /\ t \in Work /\ t.name \in Names
      /\ t.kind = "set" /\ t.at = "storing"
  BY DEF Typed, ServersTyped, Work, SetStores
<1>1. /\ proxies' = proxies /\ entries' = entries /\ inbox' = inbox
      /\ refreshing' = refreshing /\ unsaved' = unsaved
  BY DEF SetStores, scheduler
<1>2. ~Notable(t)
  BY <1>0 DEF Notable, Adding, Refreshing, Notifying
<1>3. CASE tasks' = tasks \ {t} /\ rows' = rows
  BY <1>1, <1>2, <1>3, TasksMove
<1>4. CASE ~(tasks' = tasks \ {t} /\ rows' = rows)
  <2> DEFINE hit(u) == u.kind = "reconnect" /\ u.name = t.name /\ t.name \in inFlight
             told(u) == [u EXCEPT !.cancelled = @ \/ hit(u)]
  <2>1. PICK note : note = [t EXCEPT !.at = "notifying"]
    OBVIOUS
  <2>2. PICK new : new = Task("connect", "connecting", t.name, t.backend, NoTok, 0)
    OBVIOUS
  <2>3. /\ tasks' = {told(u) : u \in tasks \ {t}} \cup {note, new}
        /\ rows' = OAuthRow(t.name, t.tok, t.tok)
    BY <1>4, <2>1, <2>2 DEF SetStores
  <2>4. /\ note.kind = "set" /\ note.at = "notifying" /\ note.name = t.name
        /\ note.backend = t.backend
    BY <1>0, <2>1 DEF Work
  <2>5. ~Notable(new) /\ new.kind \notin {"set", "reconnect"}
    BY <2>2 DEF Task, Notable, Adding, Refreshing, Notifying
  <2>6. \A u \in tasks : /\ told(u).kind = u.kind /\ told(u).at = u.at
                         /\ told(u).name = u.name /\ told(u).backend = u.backend
    BY <1>0 DEF Work
  <2>7. \A u \in tasks : u.kind # "reconnect" => told(u) = u
    <3>1. ASSUME NEW u \in tasks, u.kind # "reconnect"
          PROVE  told(u) = u
      <4>1. u \in [kind : {"add", "remove", "set", "connect", "reconnect", "refresh"},
                at : {"connecting", "row", "storing", "notifying", "starting", "asking",
                      "failed", "marking"},
                name : Names, backend : Backends, tok : Tokens, left : Nat,
                cancelled : BOOLEAN]
        BY <1>0 DEF Work
      <4>2. (u.cancelled \/ hit(u)) = u.cancelled
        BY <3>1, <4>1
      <4>3. told(u) = [u EXCEPT !.cancelled = u.cancelled]
        BY <4>2
      <4>4. QED  BY <4>1, <4>3
    <3>2. QED  BY <3>1
  <2> HIDE DEF told
  <2>8. \A v \in tasks' : v = note \/ v = new \/ \E u \in tasks \ {t} : v = told(u)
    BY <2>3
  <2>9. \A u \in tasks \ {t} : told(u) \in tasks'
    BY <2>3
  <2>10. \A v \in tasks' : Adding(v) \/ Refreshing(v) => v \in tasks
    BY <2>4, <2>5, <2>6, <2>7, <2>8 DEF Adding, Refreshing, Notable
  <2>11. OwnProxies'
    <3>1. \A b : Refers(b)' => Refers(b)
      <4>1. \A v \in tasks' : v.kind \in {"set", "reconnect"} =>
              \E u \in tasks : u.kind \in {"set", "reconnect"} /\ u.backend = v.backend
        BY <1>0, <2>4, <2>5, <2>6, <2>8
      <4>2. QED  BY <1>1, <4>1 DEF Refers
    <3>2. \A v \in tasks' : Adding(v) => v \in tasks /\ v.backend # 0
      BY <2>10 DEF Agreement, OwnProxies
    <3>3. QED  BY <3>1, <3>2, OwnKept DEF Agreement
  <2>12. OneRefresh'
    BY <1>1, <2>10, RefreshKept DEF Agreement
  <2>13. AgreementInv'
    <3>1. \A u \in Names : u # t.name => rows'[u] = rows[u]
      BY <1>0, <2>3 DEF OAuthRow
    <3>2. \A u \in tasks : Notable(u) /\ u.name # t.name =>
            \E v \in tasks' : Notable(v) /\ v.name = u.name
      BY <2>6, <2>9 DEF Notable, Adding, Refreshing, Notifying
    <3>3. UnderWay(t.name)'
      BY <2>3, <2>4 DEF UnderWay, Notifying
    <3>4. QED  BY <1>1, <3>1, <3>2, <3>3, AgreementKept DEF Agreement
  <2>14. QED  BY <2>11, <2>12, <2>13 DEF Agreement
<1>5. QED  BY <1>3, <1>4

LEMMA NotifyAgrees ==
  ASSUME Typed, Agreement, NEW t \in tasks, SetNotifies(t) \/ ReconnectNotifies(t)
  PROVE  Agreement'
<1>0. /\ inbox \in Seq(Messages) /\ t \in Work /\ t.kind \in {"set", "reconnect"}
  BY DEF Typed, ServersTyped, SchedulerTyped, SetNotifies, ReconnectNotifies
<1>1. PICK m : m = [name |-> t.name, refresh |-> t.tok, backend |-> t.backend]
  OBVIOUS
<1>2. PICK new : new = Task("connect", "connecting", t.name, t.backend, NoTok, 0)
  OBVIOUS
<1>3. /\ inbox' = Append(inbox, m)
      /\ tasks' = tasks \ {t} \/ tasks' = (tasks \ {t}) \cup {new}
      /\ UNCHANGED <<rows, proxies, entries, refreshing, unsaved>>
  BY <1>1, <1>2 DEF SetNotifies, ReconnectNotifies, Notify, Becomes
<1>4. ~Notable(new) /\ new.kind \notin {"set", "reconnect"}
  BY <1>2 DEF Task, Notable, Adding, Refreshing, Notifying
<1>5. m.name = t.name /\ m.backend = t.backend
  BY <1>1
<1>6. /\ \A i \in DOMAIN inbox' : (i \in DOMAIN inbox /\ inbox'[i] = inbox[i]) \/ inbox'[i] = m
      /\ \A i \in DOMAIN inbox : i \in DOMAIN inbox' /\ inbox'[i] = inbox[i]
      /\ Len(inbox) + 1 \in DOMAIN inbox' /\ inbox'[Len(inbox) + 1] = m
  BY <1>0, <1>3
<1>7. OwnProxies'
  <2>1. \A b : Refers(b)' => Refers(b)
    BY <1>0, <1>3, <1>4, <1>5, <1>6 DEF Refers
  <2>2. \A u \in tasks' : Adding(u) => u \in tasks /\ u.backend # 0
    BY <1>3, <1>4 DEF Agreement, OwnProxies, Notable
  <2>3. QED  BY <2>1, <2>2, OwnKept DEF Agreement
<1>8. OneRefresh'
  <2>1. \A u \in tasks' : Refreshing(u) => u \in tasks
    BY <1>3, <1>4 DEF Notable
  <2>2. QED  BY <1>3, <2>1, RefreshKept DEF Agreement
<1>9. AgreementInv'
  <2>1. \A u \in tasks : Notable(u) /\ u.name # t.name => u \in tasks'
    BY <1>3
  <2>2. UnderWay(t.name)'
    BY <1>5, <1>6 DEF UnderWay
  <2>3. QED  BY <1>3, <1>6, <2>1, <2>2, AgreementKept DEF Agreement
<1>10. QED  BY <1>7, <1>8, <1>9 DEF Agreement

LEMMA ReconnectStoresAgrees ==
  ASSUME Typed, Agreement, NEW t \in tasks, ReconnectStores(t)
  PROVE  Agreement'
<1>0. /\ rows \in [Names -> Row] /\ t \in Work /\ t.name \in Names
      /\ t.kind = "reconnect" /\ t.at = "storing"
  BY DEF Typed, ServersTyped, Work, ReconnectStores
<1>1. UNCHANGED <<proxies, entries, inbox, refreshing, unsaved>>
  BY DEF ReconnectStores, scheduler
<1>2. ~Notable(t)
  BY <1>0 DEF Notable, Adding, Refreshing, Notifying
<1>3. CASE tasks' = tasks \ {t} /\ rows' = rows
  BY <1>1, <1>2, <1>3, TasksMove
<1>4. CASE ~(tasks' = tasks \ {t} /\ rows' = rows)
  <2>1. PICK note : note = [t EXCEPT !.at = "notifying"]
    OBVIOUS
  <2>2. tasks' = (tasks \ {t}) \cup {note} /\ rows' = Refreshed(t.name, t.tok)
    BY <1>4, <2>1 DEF ReconnectStores, Goes
  <2>3. /\ note.kind = "reconnect" /\ note.at = "notifying" /\ note.name = t.name
        /\ note.backend = t.backend
    BY <1>0, <2>1 DEF Work
  <2>4. OwnProxies'
    <3>1. \A b : Refers(b)' => Refers(b)
      BY <1>0, <1>1, <2>2, <2>3 DEF Refers
    <3>2. \A u \in tasks' : Adding(u) => u \in tasks /\ u.backend # 0
      BY <2>2, <2>3 DEF Agreement, OwnProxies, Adding
    <3>3. QED  BY <3>1, <3>2, OwnKept DEF Agreement
  <2>5. OneRefresh'
    <3>1. \A u \in tasks' : Refreshing(u) => u \in tasks
      BY <2>2, <2>3 DEF Refreshing
    <3>2. QED  BY <1>1, <3>1, RefreshKept DEF Agreement
  <2>6. AgreementInv'
    <3>1. \A u \in Names : u # t.name => rows'[u] = rows[u]
      BY <1>0, <2>2 DEF Refreshed
    <3>2. \A u \in tasks : Notable(u) /\ u.name # t.name => u \in tasks'
      BY <2>2
    <3>3. UnderWay(t.name)'
      BY <2>2, <2>3 DEF UnderWay, Notifying
    <3>4. QED  BY <1>1, <3>1, <3>2, <3>3, AgreementKept DEF Agreement
  <2>7. QED  BY <2>4, <2>5, <2>6 DEF Agreement
<1>5. QED  BY <1>3, <1>4

LEMMA MessageAgrees ==
  ASSUME Typed, Agreement, TakeMessage
  PROVE  Agreement'
<1>0. /\ rows \in [Names -> Row] /\ inbox \in Seq(Messages) /\ inbox # <<>>
      /\ entries \in [Names -> [refresh : Tokens, backend : Backends]]
  BY DEF Typed, ServersTyped, SchedulerTyped, TakeMessage
<1>1. PICK m \in Messages : m = Head(inbox)
  BY <1>0
<1>2. m.name \in Names /\ m.refresh \in Tokens
  BY DEF Messages
<1>3. PICK tok : tok = backends[m.backend].token
  OBVIOUS
<1>4. /\ entries' = [entries EXCEPT ![m.name] = [refresh |-> m.refresh,
                                                 backend |-> m.backend]]
      /\ Saves(m.name, OAuthRow(m.name, tok, m.refresh))
      /\ inbox' = Tail(inbox) /\ UNCHANGED <<proxies, tasks>>
      /\ refreshing = None /\ refreshing' = None
  BY <1>1, <1>3 DEF TakeMessage
<1>5. entries'[m.name].refresh = m.refresh /\ entries'[m.name].backend = m.backend
  BY <1>0, <1>2, <1>4
<1>6. /\ \A s \in Names : s # m.name => entries'[s] = entries[s] /\ rows'[s] = rows[s]
      /\ \A s \in unsaved : s # m.name => s \in unsaved'
  <2>1. \A s \in Names : s # m.name => OAuthRow(m.name, tok, m.refresh)[s] = rows[s]
    BY <1>0, <1>2 DEF OAuthRow
  <2>2. QED  BY <1>0, <1>2, <1>4, <2>1, Saved
<1>7. 1 \in DOMAIN inbox /\ inbox[1] = m
  BY <1>0, <1>1
<1>8. /\ \A i \in DOMAIN inbox' : i + 1 \in DOMAIN inbox /\ inbox'[i] = inbox[i + 1]
      /\ \A i \in DOMAIN inbox : i # 1 => i - 1 \in DOMAIN inbox' /\ inbox'[i - 1] = inbox[i]
  BY <1>0, <1>4
<1>9. OwnProxies'
  <2>1. \A s \in Names : entries'[s].backend = entries[s].backend
                         \/ entries'[s].backend = inbox[1].backend
    BY <1>5, <1>6, <1>7
  <2>2. \A b : Refers(b)' => Refers(b)
    BY <1>4, <1>7, <1>8, <2>1 DEF Refers
  <2>3. \A t \in tasks' : Adding(t) => t \in tasks /\ t.backend # 0
    BY <1>4 DEF Agreement, OwnProxies
  <2>4. QED  BY <2>2, <2>3, OwnKept DEF Agreement
<1>10. OneRefresh'
  <2>1. \A t \in tasks : ~Refreshing(t)
    BY <1>4 DEF Agreement, OneRefresh, None
  <2>2. QED  BY <1>4, <2>1 DEF OneRefresh, Refreshing
<1>11. AgreementInv'
  <2>1. Agreed(m.name)'
    <3>1. CASE rows' = rows /\ (rows[m.name] = NoRow \/ m.name \in unsaved')
      BY <3>1 DEF Agreed
    <3>2. CASE rows' = OAuthRow(m.name, tok, m.refresh)
      <4>1. rows'[m.name].refresh = m.refresh
        BY <1>0, <1>2, <3>2 DEF OAuthRow
      <4>2. QED  BY <1>5, <4>1 DEF Agreed
    <3>3. QED  BY <1>4, <3>1, <3>2, Saved
  <2>2. \A i \in DOMAIN inbox : inbox[i].name # m.name =>
          \E j \in DOMAIN inbox' : inbox'[j].name = inbox[i].name
    BY <1>7, <1>8
  <2>3. QED  BY <1>4, <1>6, <2>1, <2>2, AgreementKept DEF Agreement
<1>12. QED  BY <1>9, <1>10, <1>11 DEF Agreement

LEMMA RefreshAgrees ==
  ASSUME Typed, Agreement, RefreshSucceeds
  PROVE  Agreement'
<1>0. /\ entries \in [Names -> [refresh : Tokens, backend : Backends]]
      /\ UNCHANGED <<rows, proxies, inbox, unsaved>> /\ refreshing' = "storing"
      /\ refreshing # "storing"
  BY McpAssumption DEF Typed, SchedulerTyped, RefreshSucceeds
<1>1. PICK s \in Names : s = refreshing
  BY DEF RefreshSucceeds
<1>2. PICK tok : tok = Fresh(entries[s].refresh)
  OBVIOUS
<1>3. PICK new : new = Task("refresh", "storing", s, 0, tok, 0)
  OBVIOUS
<1>4. new.kind = "refresh" /\ new.name = s /\ new.tok = tok
  BY <1>3 DEF Task
<1>5. /\ entries' = [entries EXCEPT ![s].refresh = tok]
      /\ tasks' = tasks \cup {new}
  BY <1>0, <1>1, <1>2, <1>3 DEF RefreshSucceeds
<1>6. /\ \A u \in Names : entries'[u].backend = entries[u].backend
      /\ \A u \in Names : u # s => entries'[u] = entries[u]
      /\ entries'[s].refresh = tok
  BY <1>0, <1>5
<1>7. OwnProxies'
  <2>1. \A b : Refers(b)' => Refers(b)
    BY <1>0, <1>4, <1>5, <1>6 DEF Refers
  <2>2. \A t \in tasks' : Adding(t) => t \in tasks /\ t.backend # 0
    BY <1>4, <1>5 DEF Agreement, OwnProxies, Adding
  <2>3. QED  BY <2>1, <2>2, OwnKept DEF Agreement
<1>8. OneRefresh'
  <2>1. \A t \in tasks : ~Refreshing(t)
    BY <1>0 DEF Agreement, OneRefresh
  <2>2. \A t \in tasks' : Refreshing(t) => t = new
    BY <1>5, <2>1
  <2>3. QED  BY <1>0, <1>4, <1>6, <2>2 DEF OneRefresh, Refreshing
<1>9. AgreementInv'
  <2>1. UnderWay(s)'
    BY <1>4, <1>5 DEF UnderWay, Refreshing
  <2>2. tasks \subseteq tasks'
    BY <1>5
  <2>3. QED  BY <1>0, <1>6, <2>1, <2>2, AgreementKept DEF Agreement
<1>10. QED  BY <1>7, <1>8, <1>9 DEF Agreement

LEMMA RefreshStoresAgrees ==
  ASSUME Typed, Agreement, NEW t \in tasks, RefreshStores(t)
  PROVE  Agreement'
<1>0. /\ rows \in [Names -> Row] /\ t.name \in Names /\ Refreshing(t)
      /\ UNCHANGED <<proxies, entries, inbox>> /\ tasks' = tasks \ {t}
      /\ Saves(t.name, Refreshed(t.name, t.tok))
  BY DEF Typed, ServersTyped, Work, RefreshStores, Refreshing
<1>1. /\ t.tok = entries[t.name].refresh
      /\ \A u \in tasks' : ~Refreshing(u)
  BY <1>0 DEF Agreement, OneRefresh
<1>2. OwnProxies'
  <2>1. \A b : Refers(b)' => Refers(b)
    BY <1>0 DEF Refers
  <2>2. \A u \in tasks' : Adding(u) => u \in tasks /\ u.backend # 0
    BY <1>0 DEF Agreement, OwnProxies
  <2>3. QED  BY <2>1, <2>2, OwnKept DEF Agreement
<1>3. OneRefresh'
  BY <1>1 DEF OneRefresh, Refreshing
<1>4. AgreementInv'
  <2>1. Agreed(t.name)'
    <3>1. CASE rows' = rows /\ (rows[t.name] = NoRow \/ t.name \in unsaved')
      BY <3>1 DEF Agreed
    <3>2. CASE rows' = Refreshed(t.name, t.tok)
      <4>1. rows[t.name] \in Row
        BY <1>0
      <4>2. rows' = [rows EXCEPT ![t.name].access = t.tok, ![t.name].refresh = t.tok]
        BY <3>2 DEF Refreshed
      <4>3. rows'[t.name].refresh = t.tok
        BY <1>0, <4>1, <4>2 DEF Row
      <4>4. QED  BY <1>0, <1>1, <4>3 DEF Agreed
    <3>3. QED  BY <1>0, <3>1, <3>2, Saved
  <2>2. /\ \A u \in Names : u # t.name => rows'[u] = rows[u]
        /\ \A u \in unsaved : u # t.name => u \in unsaved'
    <3>1. \A u \in Names : u # t.name => Refreshed(t.name, t.tok)[u] = rows[u]
      BY <1>0 DEF Refreshed
    <3>2. QED  BY <1>0, <3>1, Saved
  <2>3. \A u \in tasks : Notable(u) /\ u.name # t.name => u \in tasks'
    BY <1>0
  <2>4. QED  BY <1>0, <2>1, <2>2, <2>3, AgreementKept DEF Agreement
<1>5. QED  BY <1>2, <1>3, <1>4 DEF Agreement

LEMMA RestartAgrees ==
  ASSUME Typed, Restart
  PROVE  Agreement'
<1>1. PICK later \in SUBSET Known : tasks' = RestartTasks(later)
  BY DEF Restart
<1>2. \A t \in tasks' : ~Adding(t) /\ ~Refreshing(t)
  <2>1. \A s, b, tok, left :
          /\ Task("reconnect", "starting", s, b, tok, left).kind = "reconnect"
          /\ Task("connect", "connecting", s, b, tok, left).kind = "connect"
    BY DEF Task
  <2>2. \A t \in tasks' : t.kind \in {"reconnect", "connect"}
    BY <1>1, <2>1, RestartTasksAre
  <2>3. QED  BY <2>2 DEF Adding, Refreshing
<1>3. entries' = [s \in Names |-> [refresh |-> NoTok, backend |-> 0]]
  BY DEF Restart
<1>4. QED
  BY <1>2, <1>3 DEF Agreement, OwnProxies, OneRefresh, AgreementInv, Agreed, Adding, Refreshing

LEMMA NextAgrees ==
  ASSUME Typed, StatesInv, PromptsInv, Agreement, [Next]_vars
  PROVE  Agreement'
<1>1. CASE UNCHANGED vars
  BY <1>1, BotMoves DEF vars
<1>2. ASSUME NEW s \in Names, McpCommand(s) \/ Fire(s)
      PROVE  Agreement'
  <2>1. CASE AddPrompts(s) \/ FallsBack(s) \/ Authenticate(s)
    BY <2>1, BotMoves DEF AddPrompts, FallsBack, Authenticate, Prompt
  <2>2. CASE AddPlain(s)
    BY <2>2, AddWithKeyAgrees DEF AddPlain
  <2>3. QED
    BY <1>2, <2>1, <2>2, AddOAuthAgrees, RemoveAgrees, BotMoves DEF McpCommand, McpAdd
<1>3. ASSUME NEW t \in tasks,
        \/ AddSucceeds(t) \/ AddFails(t) \/ RemoveRow(t)
        \/ SetStores(t) \/ SetNotifies(t) \/ Connect(t)
        \/ ReconnectAsks(t) \/ ReconnectRefreshed(t) \/ ReconnectRefused(t)
        \/ ReconnectGivesUp(t) \/ ReconnectMarks(t) \/ ReconnectStores(t) \/ ReconnectNotifies(t)
        \/ RefreshStores(t)
      PROVE  Agreement'
  BY <1>3, AddEndsAgrees, SetStoresAgrees, NotifyAgrees, ReconnectMoves,
     ReconnectStoresAgrees, RefreshStoresAgrees
<1>4. CASE TakeMessage \/ RefreshSucceeds \/ RefreshFails \/ Restart
  BY <1>4, MessageAgrees, RefreshAgrees, BotMoves, RestartAgrees
<1>5. ASSUME NEW a \in 1 .. MaxCommands, Callback(a) \/ Expire(a) \/ Exchange(a)
      PROVE  Agreement'
  BY <1>5, BotMoves DEF Callback, Expire
<1>6. ASSUME NEW i \in DOMAIN requests, WaitEnds(i) \/ ClearSlot(i) \/ RegisterKey(i)
      PROVE  Agreement'
  <2>1. CASE RegisterKey(i)
    <3>1. requests[i].name \in Names
      <4>1. requests[i] \in Prompts
        BY DEF PromptsInv
      <4>2. QED  BY <4>1 DEF Prompts
    <3>2. QED  BY <2>1, <3>1, AddWithKeyAgrees DEF RegisterKey
  <2>2. CASE WaitEnds(i) \/ ClearSlot(i)
    BY <2>2, BotMoves DEF WaitEnds, ClearSlot
  <2>3. QED  BY <1>6, <2>1, <2>2
<1>7. CASE KeyArrives \/ BotRestart
  BY <1>7, BotMoves DEF KeyArrives, BotRestart
<1>8. QED  BY <1>1, <1>2, <1>3, <1>4, <1>5, <1>6, <1>7 DEF Next

LEMMA AgreementInvariant ==
  Spec => [](Typed /\ PromptsInv /\ StatesInv /\ Agreement)
<1>1. Init => Typed /\ PromptsInv /\ StatesInv /\ Agreement
  BY InitTyped, InitPrompts, InitStates, InitAgreement
<1>2. Typed /\ PromptsInv /\ StatesInv /\ Agreement /\ [Next]_vars =>
        (Typed /\ PromptsInv /\ StatesInv /\ Agreement)'
  BY NextTyped, NextPrompts, NextAgrees
<1>3. QED  BY <1>1, <1>2, PTL DEF Spec

(* The rows, proxies, tasks and the scheduler are of their types: what a   *)
(* task, an entry or a message refers to was made.                         *)
THEOREM ServersAreTyped == Spec => []Typed
  BY AgreementInvariant, PTL

(* Whatever the order in which an authorization, a reconnect and a refresh *)
(* finish, in the end the scheduler and the row hold the same refresh      *)
(* token, where the last write to the row did not fail (refresh.rs,        *)
(* run_refresh_scheduler).                                                 *)
THEOREM ServersAgree == Spec => []AgreedWhenQuiet
<1>1. Agreement => AgreedWhenQuiet
  <2>1. SUFFICES ASSUME Agreement, Quiet, NEW s \in Names
                 PROVE  Agreed(s)
    BY DEF AgreedWhenQuiet, Agreed
  <2>2. ~UnderWay(s)
    BY <2>1 DEF Quiet, UnderWay
  <2>3. QED  BY <2>1, <2>2 DEF Agreement, AgreementInv
<1>2. QED  BY <1>1, AgreementInvariant, PTL
=============================================================================

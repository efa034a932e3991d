---------------------------- MODULE McpDiscovery ----------------------------
(***************************************************************************)
(* What the bot finds out about an MCP server before it registers it: its  *)
(* authorization server (right-mcp/oauth.rs: discover_as), whether a       *)
(* client can be registered there, and which key the server wants          *)
(* otherwise (telegram/handler.rs).                                        *)
(*                                                                         *)
(* A web is what the network answers to one discovery.  An URL is asked    *)
(* once, so that a web may be another one the next time.                   *)
(***************************************************************************)
EXTENDS Naturals, Sequences, FiniteSets

LOCAL FX == INSTANCE FiniteSetsExt

(* A GET: no 2xx answer, one that cannot be read, or the metadata.  A      *)
(* resource's metadata may also list no authorization server.              *)
Answers == {"none", "garbled", "found"}
Resources == Answers \cup {"empty"}

Places == {"oauth+path", "openid+path", "path+openid", "oauth", "openid"}

Webs == [challenge    : BOOLEAN,       \* 401, with the URL of the metadata
         pointed      : Resources,     \* at that URL
         wellKnown    : Resources,     \* at the server's well-known place
         serverPath   : BOOLEAN,       \* the server's URL has a path,
         asPath       : BOOLEAN,       \* the authorization server's has
         at           : [Places -> Answers],
         registration : {"absent", "refused", "granted"}]

-----------------------------------------------------------------------------
(* The places of an authorization server's metadata, in their order.       *)
AsMetadataUrls(path) ==
  IF path THEN <<"oauth+path", "openid+path", "path+openid", "oauth", "openid">>
          ELSE <<"oauth", "openid">>

(* The server is asked first for a challenge that says where its metadata  *)
(* is.                                                                     *)
Resource(w) == IF w.challenge THEN w.pointed ELSE w.wellKnown

(* The authorization server a resource names, or the server itself.        *)
Asked(w) == AsMetadataUrls(IF Resource(w) = "found" THEN w.asPath ELSE w.serverPath)

(* One place after the other, until one answers.                           *)
DiscoverAs(w) ==
  LET urls == Asked(w)
      hits == {i \in DOMAIN urls : w.at[urls[i]] # "none"}
  IN  /\ Resource(w) \notin {"garbled", "empty"}
      /\ hits # {}
      /\ w.at[urls[FX!Min(hits)]] = "found"

(* register_client_or_fallback, without a client of one's own: an endpoint *)
(* that refuses is told from one that is missing.                          *)
Registration(w) == IF DiscoverAs(w) THEN w.registration ELSE "absent"

-----------------------------------------------------------------------------
None == "none"

(* What Claude answered: nothing usable, or a kind of authentication, as   *)
(* structured output or, from older versions, as text.                     *)
Kinds == {"bearer", "header", "query_string", "other"}
NeedsKey(kind) == kind \in {"bearer", "header"}
Replies == [sandbox : BOOLEAN, succeeded : BOOLEAN,
            structured : Kinds \cup {None, "unreadable"},
            result     : Kinds \cup {None, "unreadable"}]

(* detect_auth_type_via_haiku                                              *)
Told(h) ==
  IF ~h.sandbox \/ ~h.succeeded THEN None
  ELSE LET reply == IF h.structured # None THEN h.structured ELSE h.result
       IN  IF reply \in Kinds THEN reply ELSE None

(* Whatever goes wrong, a bearer token is assumed.                         *)
Detected(h) == IF Told(h) = None THEN "bearer" ELSE Told(h)

(* The kind of a server that /mcp add found no OAuth for, by its URL.      *)
KindOf(query, public, h) ==
  IF query THEN "query_string" ELSE IF public THEN Detected(h) ELSE "bearer"

(* /mcp auth, which asks for a key in any case.                            *)
KindAfterOAuth(h) == IF NeedsKey(Detected(h)) THEN Detected(h) ELSE "bearer"

-----------------------------------------------------------------------------
(* What follows from all this for the commands.                            *)
MayBeOAuth == \E w \in Webs : DiscoverAs(w)
MayRegister == \E w \in Webs : Registration(w) = "granted"
MayBeRefused == \E w \in Webs : Registration(w) = "refused"
KindsWithoutOAuth ==
  IF \A w \in Webs : DiscoverAs(w) THEN {}
  ELSE {KindOf(q, p, h) : q \in BOOLEAN, p \in BOOLEAN, h \in Replies}

(* A probe that is answered by no metadata is passed over ("the URL simply *)
(* doesn't host metadata"): what is published at one place is found        *)
(* whatever the places before it lack, and only there can it be missed     *)
(* where something before it answers and cannot be read.                   *)
ASSUME DiscoveryAssumption ==
  \A w \in Webs :
    /\ \A i \in DOMAIN Asked(w) :
         /\ Resource(w) \in {"none", "found"}
         /\ w.at[Asked(w)[i]] = "found"
         /\ \A j \in 1 .. i - 1 : w.at[Asked(w)[j]] = "none"
         => DiscoverAs(w)
    /\ DiscoverAs(w) => \E i \in DOMAIN Asked(w) : w.at[Asked(w)[i]] = "found"

(* A key is asked for unless the URL has a query or Claude, having run,    *)
(* says otherwise; after a client was refused, always.                     *)
ASSUME DetectionAssumption ==
  \A h \in Replies :
    /\ \A public \in BOOLEAN :
         ~NeedsKey(KindOf(FALSE, public, h)) => public /\ h.sandbox /\ h.succeeded
    /\ NeedsKey(KindAfterOAuth(h))
=============================================================================

----------------------------- MODULE HttpClient -----------------------------
(***************************************************************************)
(* CurlClient and CurlResponse.  A client sends all its requests with one  *)
(* handle of libcurl, which keeps every option until it is set again.      *)
(***************************************************************************)
EXTENDS Databases

CONSTANTS
    Bases,      \* base URLs, "" among them
    Timeouts    \* timeouts in seconds; 0 is for none

ASSUME HttpAssumption == Timeouts \subseteq Nat

VARIABLES
    curls,      \* client_map_: key |-> handle and the options set on it
    config,     \* base_url_map_, timeout_map_, default_headers_map_
    responses,  \* response_data_map_: key |-> the request it answers, or 0
    requests,   \* requests so far; the number of a request is its name
    sent,       \* the last request: what was asked for and what went out
    before      \* history: key |-> what the handle was used for before

httpVars == <<curls, config, responses, requests, sent, before>>

Verbs    == {"GET", "POST", "PUT", "DELETE"}
Default  == 30
\* The headers a request is given: as an option, by default, or not at all;
\* a map of no headers; one that is refused.
Headers  == {"own", "none", "empty", "refused"}
Uses     == Verbs \cup {"headers", "dropped headers"}
\* The options of a handle; body and headers are the request they came from,
\* or 0, and freed says that the list of headers is gone.
NoCurl   == [easy |-> 0, post |-> FALSE, custom |-> "", body |-> 0, headers |-> 0,
             freed |-> FALSE, timeout |-> 0]
Settings == [base |-> "", timeout |-> Default, headers |-> FALSE]
NoSent   == [n |-> 0, asked |-> "GET", verb |-> "GET", body |-> 0, given |-> "none",
             headers |-> 0, freed |-> FALSE, timeout |-> 0, wanted |-> 0, before |-> {}]

HttpTypeOK ==
    /\ curls \in [Keys -> [easy : Nat, post : BOOLEAN, custom : Verbs \cup {""}, body : Nat,
                           headers : Nat, freed : BOOLEAN, timeout : Nat]]
    /\ config \in [Keys -> [base : Bases \cup {""}, timeout : Nat, headers : BOOLEAN]]
    /\ responses \in [Keys -> Nat]
    /\ requests \in Nat
    /\ before \in [Keys -> SUBSET Uses]

HttpInit ==
    /\ curls = [k \in Keys |-> NoCurl]
    /\ config = [k \in Keys |-> Settings]
    /\ responses = [k \in Keys |-> 0]
    /\ requests = 0 /\ sent = NoSent
    /\ before = [k \in Keys |-> {}]

-----------------------------------------------------------------------------
(* CurlClient: the constructors and the settings. *)

\* Mutant: the settings are reset, and the handle stays.
ResetSettings(k, base) ==
    /\ curls' = IF curls[k].easy # 0 THEN curls
                ELSE [curls EXCEPT ![k].easy = NextHandle(library)]
    /\ library' = IF curls[k].easy # 0 THEN library ELSE Opened(library, "CurlClient", "used")
    /\ config' = [config EXCEPT ![k] = [Settings EXCEPT !.base = base]]
    /\ before' = [before EXCEPT ![k] = {}]
    /\ UNCHANGED <<responses, requests, sent>>

\* A handle for a key, in place of the one that was there, and the settings.
SetUp(k, base) ==
    LET lib == Closed(library, curls[k].easy)
    IN  /\ library' = Opened(lib, "CurlClient", "used")
        /\ curls' = [curls EXCEPT ![k] = [NoCurl EXCEPT !.easy = NextHandle(lib)]]
        /\ config' = [config EXCEPT ![k] = [Settings EXCEPT !.base = base]]
        /\ before' = [before EXCEPT ![k] = {}]
        /\ UNCHANGED <<responses, requests, sent>>

CurlNew          == Make("CurlClient") /\ SetUp(stamps, "")
CurlConstruct(o) == /\ Is(o, "CurlClient") /\ Identify(o)
                    /\ \E base \in Bases : SetUp(Key(o), base)

Configure(o) ==
    /\ Is(o, "CurlClient") /\ Identify(o)
    /\ \/ \E base \in Bases : config' = [config EXCEPT ![Key(o)].base = base]
       \/ \E t \in Timeouts : config' = [config EXCEPT ![Key(o)].timeout = t]
       \/ config' = [config EXCEPT ![Key(o)].headers = TRUE]
    /\ UNCHANGED <<library, curls, responses, requests, sent, before>>

-----------------------------------------------------------------------------
(* CurlClient: a request. *)

\* mergeOptions(): the options of the call go before the settings.
GivenHeaders(k, given) == IF given = "none" /\ config[k].headers THEN "own" ELSE given

\* setTimeout(): a timeout of 0 is not set.
Timed(curl, timeout) == IF timeout > 0 THEN [curl EXCEPT !.timeout = timeout] ELSE curl

\* setHeaders() frees the list before it has another, and tells the library
\* only if there is one.
WithHeaders(curl, given, n) ==
    CASE given = "none" -> curl
      [] given = "own"  -> [curl EXCEPT !.headers = n, !.freed = FALSE]
      [] OTHER          -> [curl EXCEPT !.freed = curl.headers # 0]

\* What each verb sets on the handle; get() sets nothing.  CURLOPT_POSTFIELDS
\* makes a request a POST, and the library keeps the pointer.
Prepared(curl, verb, n) ==
    CASE verb = "GET"    -> curl
      [] verb = "POST"   -> [curl EXCEPT !.post = TRUE, !.body = n]
      [] verb = "PUT"    -> [curl EXCEPT !.custom = "PUT", !.post = TRUE, !.body = n]
      [] verb = "DELETE" -> [curl EXCEPT !.custom = "DELETE"]

\* What the library makes of the options.
VerbOf(curl) == IF curl.custom # "" THEN curl.custom ELSE IF curl.post THEN "POST" ELSE "GET"

UsesOf(verb, given) ==
    {verb} \cup (CASE given = "own" -> {"headers"} [] given = "none" -> {}
                   [] OTHER -> {"dropped headers"})

\* The options, the request, and an object for the response: of a failed
\* transfer too.
Request(o, verb) ==
    \E given \in Headers \ {"refused"}, t \in Timeouts \cup {config[Key(o)].timeout} :
    LET k    == Key(o)
        n    == requests + 1
        hs   == GivenHeaders(k, given)
        curl == Prepared(Timed(WithHeaders(curls[k], hs, n), t), verb, n)
    IN  /\ Make("CurlResponse")
        /\ requests' = n
        /\ curls' = [curls EXCEPT ![k] = curl]
        /\ responses' = [responses EXCEPT ![stamps] = n]
        /\ sent' = [n |-> n, asked |-> verb, verb |-> VerbOf(curl), body |-> curl.body,
                    given |-> hs, headers |-> curl.headers, freed |-> curl.freed,
                    timeout |-> curl.timeout, wanted |-> t, before |-> before[k]]
        /\ before' = [before EXCEPT ![k] = @ \cup UsesOf(verb, hs)]
        /\ UNCHANGED <<library, config>>

\* parseOptions() throws at a header that is no string, with the timeout,
\* the next option by name, still to be set.
RequestRefused(o) ==
    LET k == Key(o)
    IN  /\ curls' = [curls EXCEPT ![k] = WithHeaders(@, "refused", 0)]
        /\ before' = [before EXCEPT ![k] = @ \cup {"dropped headers"}]
        /\ UNCHANGED <<objects, stamps, library, config, responses, requests, sent>>

\* The constructor of CurlResponse, by `new` and by the script.
Blank(k) == /\ responses' = [responses EXCEPT ![k] = 0]
            /\ UNCHANGED <<library, curls, config, requests, sent, before>>

ResponseNew          == Make("CurlResponse") /\ Blank(stamps)
ResponseConstruct(o) == Is(o, "CurlResponse") /\ Identify(o) /\ Blank(Key(o))

-----------------------------------------------------------------------------
HttpCall(o) == \/ CurlConstruct(o) \/ Configure(o) \/ ResponseConstruct(o)
               \/ /\ Is(o, "CurlClient")
                  /\ (\E verb \in Verbs : Request(o, verb)) \/ RequestRefused(o)

HttpNew == CurlNew \/ ResponseNew
=============================================================================

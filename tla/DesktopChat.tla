------------------------------ MODULE DesktopChat ------------------------------
(***************************************************************************)
(* The chat page of the desktop application (useChat over the pywebview    *)
(* bridge) composed with CompanionRuntime.  Every bridge call runs on a    *)
(* thread of its own, its response comes back in any order, and the page   *)
(* stops waiting for a turn after REQUEST_TIMEOUT_MS although the runtime  *)
(* goes on with it.  Handlers act on what was rendered last, which may be  *)
(* older than the state: `offered' are the retry buttons of that rendering.*)
(***************************************************************************)
EXTENDS CompanionRuntime

CONSTANTS
  TurnErrors,  \* error types a turn that was admitted may fail with
  PanelOps,    \* operations the user chooses in the privacy panel
  MaxSends,    \* bound on sends and retries
  MaxEvents    \* bound on restarts, cleared screens, privacy operations and
               \* sends without an id, all together

ChatErrorTypes == {"timeout", "rate_limited", "service_unavailable", "validation",
                   "request_replay", "request_conflict", "configuration", "unknown"}

ASSUME PageAssumption == TurnErrors \subseteq ChatErrorTypes /\ PanelOps \subseteq PrivacyOps

VARIABLES
  mounted,    \* the page is up
  contents,   \* history variable: what was written under each request id, or None
  bubbles,    \* the user's messages on the screen
  replies,    \* the assistant's message shown for a request id, or None
  recalled,   \* turns shown by the loaded history
  offered,    \* request ids with a retry button in the last rendering
  inFlight,   \* inFlightRef
  token,      \* requestTokenRef
  version,    \* localMessagesVersionRef
  screen,     \* screenGenerationRef
  intents,    \* intentGenerationRef: the screen a message may be sent from, or None
  attempt,    \* the attempt sendIntent awaits, or None
  events,     \* those events so far
  serving,    \* the page's call that a thread serves, or None
  responses   \* responses on their way to the page

list == <<bubbles, replies, recalled>>
refs == <<inFlight, token, version, screen, intents, attempt>>
page == <<mounted, contents, list, offered, refs, events>>
bridge == <<serving, responses>>
allVars == <<vars, page, bridge>>

Bubbles == [status : {"pending", "sent", "failed", "unknown"}, retryable : BOOLEAN]

PageCalls == [kind : {"send"}, token : 1..MaxSends]
               \cup [kind : {"history"}, version : Nat]
               \cup [kind : PrivacyOps]

Payloads == [status : {"ok"}, reply : Executions]
              \cup [status : {"error"}, type : ChatErrorTypes]
              \cup [status : {"applied"}]
              \cup [status : {"rows"}, rows : SUBSET Executions]

\* Type invariant.
PageTypeOK ==
  /\ TypeOK
  /\ mounted \in BOOLEAN
  /\ contents \in [RequestIds -> Messages \cup {None}]
  /\ bubbles \in [RequestIds -> Bubbles \cup {None}]
  /\ replies \in [RequestIds -> Executions \cup {None}]
  /\ recalled \in SUBSET Executions
  /\ offered \in SUBSET RequestIds
  /\ inFlight \in BOOLEAN
  /\ token \in 0..MaxSends
  /\ version \in Nat
  /\ screen \in Nat
  /\ intents \in [RequestIds -> Nat \cup {None}]
  /\ attempt \in [token : 1..MaxSends, request : RequestIds, screen : Nat] \cup {None}
  /\ inFlight = (attempt # None)
  /\ events \in 0..MaxEvents
  /\ serving \in [Threads -> PageCalls \cup {None}]
  /\ responses \in SUBSET [to : PageCalls, payload : Payloads]

Nothing == [r \in RequestIds |-> None]

PageInit ==
  /\ Init
  /\ mounted = FALSE
  /\ contents = Nothing
  /\ bubbles = Nothing
  /\ replies = Nothing
  /\ recalled = {}
  /\ offered = {}
  /\ inFlight = FALSE
  /\ token = 0
  /\ version = 0
  /\ screen = 0
  /\ intents = Nothing
  /\ attempt = None
  /\ events = 0
  /\ serving = [t \in Threads |-> None]
  /\ responses = {}

-----------------------------------------------------------------------------
(* What the user and the page do.                                          *)

CountEvent == events < MaxEvents /\ events' = events + 1

\* The first rendering asks for the history.
Mount(t) ==
  /\ ~mounted
  /\ mounted' = TRUE
  /\ CallRead(t)
  /\ serving' = [serving EXCEPT ![t] = [kind |-> "history", version |-> version]]
  /\ UNCHANGED <<contents, list, offered, refs, events, responses>>

\* React has committed the last state.
Rendered == {r \in RequestIds : bubbles[r] # None /\ bubbles[r].retryable}

Render ==
  /\ offered # Rendered
  /\ offered' = Rendered
  /\ UNCHANGED <<vars, mounted, contents, list, refs, events, bridge>>

\* The turn goes to a bridge thread, or the bridge is missing.
CallBridge(t, r, m) ==
  \/ /\ SendTurn(t, r, m)
     /\ serving' = [serving EXCEPT ![t] = [kind |-> "send", token |-> token + 1]]
     /\ UNCHANGED responses
  \/ /\ responses' = responses \cup {[to |-> [kind |-> "send", token |-> token + 1],
                                      payload |-> [status |-> "error", type |-> "unknown"]]}
     /\ UNCHANGED <<vars, serving>>

\* sendIntent, up to its await; g is the screen the intent belongs to.
sendIntent(t, r, m, g) ==
  /\ mounted
  /\ ~inFlight
  /\ token < MaxSends
  /\ g = screen
  /\ inFlight' = TRUE
  /\ version' = version + 1
  /\ bubbles' = [bubbles EXCEPT ![r] = [status |-> "pending", retryable |-> FALSE]]
  /\ token' = token + 1
  /\ attempt' = [token |-> token + 1, request |-> r, screen |-> g]
  /\ CallBridge(t, r, m)
  /\ UNCHANGED <<mounted, replies, recalled, offered, screen, events>>

\* A new message gets a new request id.
handleSend(t, r, m) ==
  /\ contents[r] = None
  /\ contents' = [contents EXCEPT ![r] = m]
  /\ intents' = [intents EXCEPT ![r] = screen]
  /\ sendIntent(t, r, m, screen)

\* crypto.randomUUID is missing or throws: a notice is shown, nothing is sent.
NoRequestId ==
  /\ mounted
  /\ ~inFlight
  /\ CountEvent
  /\ version' = version + 1
  /\ UNCHANGED <<vars, mounted, contents, list, offered, inFlight, token, screen,
                 intents, attempt, bridge>>

\* A click on a rendered retry button, with the original content and id.
retryMessage(t, r) ==
  /\ r \in offered
  /\ intents[r] # None
  /\ sendIntent(t, r, contents[r], intents[r])
  /\ UNCHANGED <<contents, intents>>

clearScreen ==
  /\ version' = version + 1
  /\ screen' = screen + 1
  /\ intents' = Nothing
  /\ bubbles' = Nothing
  /\ replies' = Nothing
  /\ recalled' = {}
  /\ UNCHANGED <<mounted, contents, offered, inFlight, token, attempt>>

ClickClear ==
  /\ mounted
  /\ CountEvent
  /\ clearScreen
  /\ UNCHANGED <<vars, bridge>>

\* One operation at a time per privacy panel, but the panel comes and goes.
runPrivacyOp(t, op) ==
  /\ mounted
  /\ CallPrivacy(t, op)
  /\ serving' = [serving EXCEPT ![t] = [kind |-> op]]
  /\ CountEvent
  /\ UNCHANGED <<mounted, contents, list, offered, refs, responses>>

-----------------------------------------------------------------------------
(* What the bridge threads do.                                             *)

\* The call of a thread is over and its result is sent to the page.
Respond(t, payload) ==
  /\ responses' = responses \cup {[to |-> serving[t], payload |-> payload]}
  /\ serving' = [serving EXCEPT ![t] = None]

RespondIfOver(t, payload) ==
  IF call'[t] = None THEN Respond(t, payload) ELSE UNCHANGED bridge

OkPayload(reply) == [status |-> "ok", reply |-> reply]
ErrorPayload(type) == [status |-> "error", type |-> type]

Admitted(t) ==
  /\ Admit(t)
  /\ RespondIfOver(t, IF ReserveDecision(call[t].request, call[t].message) = "replay"
                      THEN OkPayload(requests[call[t].request].reply)
                      ELSE ErrorPayload("request_conflict"))

BridgeStep(t) ==
  /\ \/ (Check(t) \/ Open(t) \/ Assign(t) \/ LoadState(t) \/ ProviderFails(t)) /\ UNCHANGED bridge
     \/ Admitted(t)
     \/ Commit(t) /\ RespondIfOver(t, OkPayload(call[t].execution))
     \/ Release(t) /\ \E e \in TurnErrors : Respond(t, ErrorPayload(e))
     \/ StorageFails(t) /\ RespondIfOver(t, ErrorPayload("service_unavailable"))
     \/ ApplyPrivacy(t) /\ Respond(t, [status |-> "applied"])
     \/ ReadStore(t) /\ Respond(t, [status |-> "rows", rows |-> chatLogs])
  /\ UNCHANGED page

-----------------------------------------------------------------------------
(* What the page does with a response.                                     *)

Received(x) ==
  /\ x \in responses
  /\ responses' = responses \ {x}
  /\ UNCHANGED <<vars, serving, events>>

NON_RETRYABLE_DESKTOP_ERRORS == {"configuration", "request_replay", "validation"}

\* Mutant: an uncertain outcome is shown as a failure.
MutDeliveryStatus(type) == "failed"

DeliveryStatus(type) ==
  IF type \in {"timeout", "unknown", "service_unavailable", "request_conflict"}
  THEN "unknown" ELSE "failed"

Failure(type) == [status |-> DeliveryStatus(type),
                  retryable |-> type \notin NON_RETRYABLE_DESKTOP_ERRORS]

\* Mutant: an attempt still owns its message on a screen that was cleared.
MutOwnsVisibleIntent == mounted

ownsVisibleIntent == mounted /\ attempt.screen = screen

\* The finally block: only the token decides, not the screen.
ReleaseComposer ==
  /\ inFlight' = FALSE
  /\ attempt' = None

\* The rest of sendIntent.
Settle(payload) ==
  LET r == attempt.request IN
  /\ IF ~ownsVisibleIntent
     THEN UNCHANGED <<bubbles, replies, intents>>
     ELSE IF payload.status = "ok"
     THEN /\ bubbles' = [bubbles EXCEPT ![r] = [status |-> "sent", retryable |-> FALSE]]
          /\ replies' = [replies EXCEPT ![r] = payload.reply]
          /\ intents' = [intents EXCEPT ![r] = None]
     ELSE /\ bubbles' = [bubbles EXCEPT ![r] = Failure(payload.type)]
          /\ intents' = IF Failure(payload.type).retryable THEN intents
                        ELSE [intents EXCEPT ![r] = None]
          /\ UNCHANGED replies
  /\ ReleaseComposer
  /\ UNCHANGED <<mounted, contents, recalled, offered, token, version, screen>>

\* Mutant: a reply that comes back late is taken for the answer to the last
\* attempt.
MutAwaited(x) == attempt # None /\ (attempt.token = x.to.token \/ x.payload.status = "ok")

\* raceAbort: after the timeout nobody listens to the response any more.
Awaited(x) == attempt # None /\ attempt.token = x.to.token

ReceiveTurn(x) ==
  /\ Received(x)
  /\ x.to.kind = "send"
  /\ IF Awaited(x)
     THEN Settle(x.payload)
     ELSE UNCHANGED <<mounted, contents, list, offered, refs>>

\* The guard timer aborts the attempt.
Timeout ==
  /\ attempt # None
  /\ Settle(ErrorPayload("timeout"))
  /\ UNCHANGED <<vars, events, bridge>>

FreshHistory(x) == x.to.version = version

ReceiveHistory(x) ==
  /\ Received(x)
  /\ x.to.kind = "history"
  /\ IF x.payload.status = "rows" /\ FreshHistory(x)
     THEN bubbles' = Nothing /\ replies' = Nothing /\ recalled' = x.payload.rows
     ELSE UNCHANGED list
  /\ UNCHANGED <<mounted, contents, offered, refs>>

\* onHistoryDeleted.
ReceivePrivacy(x) ==
  /\ Received(x)
  /\ x.to.kind \in PrivacyOps
  /\ IF x.to.kind = "delete_history" /\ x.payload.status = "applied"
     THEN clearScreen
     ELSE UNCHANGED <<mounted, contents, list, offered, refs>>

\* The application ends and starts again: a new page over the same file.
RestartPage ==
  /\ Restart
  /\ mounted' = FALSE
  /\ bubbles' = Nothing /\ replies' = Nothing /\ recalled' = {} /\ offered' = {}
  /\ inFlight' = FALSE /\ attempt' = None /\ intents' = Nothing
  /\ version' = 0 /\ screen' = 0
  /\ serving' = [t \in Threads |-> None] /\ responses' = {}
  /\ CountEvent
  /\ UNCHANGED <<contents, token>>

PageNext ==
  \/ \E t \in Threads :
       \/ Mount(t)
       \/ \E r \in RequestIds, m \in Messages : handleSend(t, r, m)
       \/ \E r \in RequestIds : retryMessage(t, r)
       \/ \E op \in PanelOps : runPrivacyOp(t, op)
       \/ BridgeStep(t)
  \/ Render \/ NoRequestId \/ ClickClear \/ Timeout \/ RestartPage
  \/ \E x \in responses : ReceiveTurn(x) \/ ReceiveHistory(x) \/ ReceivePrivacy(x)

PageSpec == PageInit /\ [][PageNext]_allVars

-----------------------------------------------------------------------------
(* Properties.                                                             *)

\* A message shown as sent has its answer next to it, and that answer is what
\* the runtime returned for this very message, not for an earlier attempt at
\* another one.
SentIsAnswered ==
  \A r \in RequestIds : (bubbles[r] # None /\ bubbles[r].status = "sent") =>
    [request |-> r, message |-> contents[r], reply |-> replies[r]] \in answered

\* A deletion of the history that the page has not heard of yet.
Erasing ==
  \/ \E t \in Threads : serving[t] = [kind |-> "delete_history"]
  \/ \E x \in responses : x.to.kind = "delete_history"

\* Once a deletion of the history is over, nothing on the screen is older than
\* it: neither a late answer nor a late history brings deleted turns back.
ShownIsStored ==
  ~Erasing => /\ recalled \subseteq chatLogs
              /\ \A r \in RequestIds : replies[r] # None => replies[r] \in chatLogs

\* A message is called failed only when its attempt has come to an end in the
\* runtime; if only the page's patience is over, its fate is unknown.
FailedMeansOver ==
  [][ \A r \in RequestIds :
        (/\ bubbles'[r] # None /\ bubbles'[r].status = "failed"
         /\ bubbles'[r] # bubbles[r]) =>
           \A t \in Threads : serving[t] # [kind |-> "send", token |-> attempt.token] ]_allVars
=============================================================================

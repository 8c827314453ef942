---------------------------- MODULE TrustedContext ----------------------------
(***************************************************************************)
(* The prompt of a turn: the last rows of the conversation and the         *)
(* retrieved memories are loaded, validated, and as much of them as the    *)
(* budget allows is put around the policy and the message.  A text is its  *)
(* length in units, 0 for a blank one; the canonical JSON of a message or  *)
(* of a context item costs Frame more.                                     *)
(***************************************************************************)
EXTENDS Naturals, Sequences, FiniteSets, SequencesExt

CONSTANTS
  MessageSizes,   \* lengths of what the user types and of the replies
  Documents,      \* answers of the memory search, sequences of documents
  OptionalSizes,  \* lengths of profile and persona, 0 if there is none
  PolicySize,     \* trusted policy with its boundary rule
  Frame,          \* cost of the JSON around a text
  MaxUnits,       \* PROVIDER_INPUT_MAX_ESTIMATED_UNITS
  HistoryLimit,   \* rows load_recent_history asks for
  MaxRows         \* bound on the conversation

VARIABLES
  chat,    \* chat_logs of the user, in the order of their ids
  prompt   \* what the last turn loaded and built

promptVars == <<chat, prompt>>

Unanswered == "unanswered"

-----------------------------------------------------------------------------
(* memory.py: the reads.                                                   *)

\* Both rows of a turn carry the time of its transaction; the id breaks the tie.
Before(a, b) == a.at < b.at \/ (a.at = b.at /\ a.id < b.id)

load_recent_history ==
  LET n == Len(chat) IN SubSeq(chat, IF n > HistoryLimit THEN n - HistoryLimit + 1 ELSE 1, n)

\* A document that is not of the supported version, not approved or without a
\* confidence in range is skipped.
retrieve_relevant_entries(documents) ==
  SelectSeq(documents, LAMBDA d : /\ d.size > 0
                                  /\ d.schema_version = 1
                                  /\ d.approved
                                  /\ d.confidence \in 0..100)

\* The page trims its input line and sends nothing if nothing is left.
TypedMessages == MessageSizes \ {0}

\* Whether LoadedContextData accepts what was loaded.
LoadedContextData(history, memories) ==
  /\ \A i \in DOMAIN history : history[i].role \in {"user", "assistant"} /\ history[i].size > 0
  /\ \A i \in DOMAIN memories : memories[i].approved /\ memories[i].schema_version = 1

\* build_context_bundle: memories in retrieval order, profile, persona.
ContextItems(memories, profile, persona) ==
  LET Item(kind, size) == IF size = 0 THEN <<>> ELSE <<[kind |-> kind, size |-> size]>>
  IN [i \in DOMAIN memories |-> [kind |-> "memory", size |-> memories[i].size]]
       \o Item("profile", profile) \o Item("persona", persona)

-----------------------------------------------------------------------------
(* trusted_context.py: build_envelope.                                     *)

Sizes(s) ==
  LET sum[i \in 0..Len(s)] == IF i = 0 THEN 0 ELSE sum[i - 1] + s[i].size + Frame
  IN sum[Len(s)]

\* System message, context in one message, history oldest first, message.
Envelope(items, history, message) ==
  <<[role |-> "system", size |-> PolicySize]>>
    \o (IF items = <<>> THEN <<>> ELSE <<[role |-> "user", size |-> Sizes(items)]>>)
    \o SortSeq(history, Before)
    \o <<[role |-> "user", size |-> message]>>

estimate_messages_units(messages) == Sizes(messages)

Fits(items, history, message) ==
  estimate_messages_units(Envelope(items, history, message)) <= MaxUnits

\* Mutant: the oldest rows are considered first.
MutSelectHistory(history, message) ==
  FoldLeft(LAMBDA kept, row : IF Fits(<<>>, Append(kept, row), message)
                              THEN Append(kept, row) ELSE kept,
           <<>>, history)

\* The newest rows that fit; one that does not fit is passed over.
SelectHistory(history, message) ==
  IF Fits(<<>>, history, message) THEN history
  ELSE FoldLeft(LAMBDA kept, row : IF Fits(<<>>, Append(kept, row), message)
                                   THEN Append(kept, row) ELSE kept,
                <<>>, Reverse(history))

SelectItems(items, history, message) ==
  FoldLeft(LAMBDA taken, item : IF Fits(Append(taken, item), history, message)
                                THEN Append(taken, item) ELSE taken,
           <<>>, items)

OfKind(items, kind) == Len(SelectSeq(items, LAMBDA i : i.kind = kind))

TruncationReport(history, items, kept, taken) ==
  [omitted_history |-> Len(history) - Len(kept),
   omitted |-> [kind \in {"memory", "profile", "persona"} |->
                 OfKind(items, kind) - OfKind(taken, kind)]]

\* The prompt, or the reason there is none.
build_envelope(history, items, message) ==
  IF ~Fits(<<>>, <<>>, message)
  THEN [error |-> "mandatory_budget_exceeded", messages |-> <<>>, kept |-> <<>>,
        taken |-> <<>>, report |-> TruncationReport(<<>>, <<>>, <<>>, <<>>)]
  ELSE LET kept == SelectHistory(history, message)
           taken == SelectItems(items, kept, message)
       IN [error |-> IF Fits(taken, kept, message) THEN "none"
                     ELSE "budget_exceeded_after_selection",
           messages |-> Envelope(taken, kept, message),
           kept |-> kept, taken |-> taken,
           report |-> TruncationReport(history, items, kept, taken)]

\* provider_envelope.py, called by the adapter before the request.
validate_provider_input(messages) ==
  /\ messages # <<>>
  /\ \A i \in DOMAIN messages : messages[i].role \in {"system", "user", "assistant"}
  /\ estimate_messages_units(messages) <= MaxUnits

-----------------------------------------------------------------------------

PromptInit ==
  /\ chat = <<>>
  /\ prompt = [outcome |-> Unanswered]

Rows(message, reply) ==
  <<[id |-> Len(chat) + 1, at |-> Len(chat) \div 2, role |-> "user", size |-> message],
    [id |-> Len(chat) + 2, at |-> Len(chat) \div 2, role |-> "assistant", size |-> reply]>>

\* A turn up to its commit: only an answered one stores its two rows, and the
\* adapter refuses a blank answer.
Turn(message, reply, documents, profile, persona) ==
  LET history == load_recent_history
      memories == retrieve_relevant_entries(documents)
      items == ContextItems(memories, profile, persona)
      built == build_envelope(history, items, message)
      outcome == IF ~LoadedContextData(history, memories) THEN "context_refused"
                 ELSE IF built.error # "none" THEN built.error
                 ELSE IF ~validate_provider_input(built.messages) THEN "provider_refused"
                 ELSE IF reply = 0 THEN "invalid_response"
                 ELSE "answered"
  IN /\ Len(chat) + 2 <= MaxRows
     /\ prompt' = [outcome |-> outcome, history |-> history, items |-> items,
                   message |-> message, built |-> built]
     /\ chat' = IF outcome = "answered" THEN chat \o Rows(message, reply) ELSE chat

\* delete_history.
DeleteHistory == chat' = <<>> /\ UNCHANGED prompt

PromptNext ==
  \/ DeleteHistory
  \/ \E message \in TypedMessages, reply \in MessageSizes, documents \in Documents,
        profile \in OptionalSizes, persona \in OptionalSizes :
       Turn(message, reply, documents, profile, persona)

Built == prompt.outcome \notin {Unanswered, "context_refused", "mandatory_budget_exceeded"}

-----------------------------------------------------------------------------

\* A message that fits beside the policy gets a prompt, whatever the history, the
\* memories and the profile weigh: selection never overshoots the budget, the
\* adapter's own check never refuses its result, and the strict loading accepts
\* every row that earlier turns stored, so that no message blocks the
\* conversation.  "A large profile (or memory/persona) cannot expel more-recent
\* history messages": a row is left out only because it does not fit beside the
\* newer rows that were kept, and no item left out would still have fitted.
PromptServesTurn ==
  /\ prompt.outcome \notin {"context_refused", "budget_exceeded_after_selection",
                            "provider_refused"}
  /\ Built =>
       LET h == prompt.history
           kept == ToSet(prompt.built.kept)
           WithNewer(i) ==
             SelectSeq(h, LAMBDA r : r = h[i] \/ (r \in kept /\ Before(h[i], r)))
       IN /\ \A i \in DOMAIN h :
               h[i] \notin kept => ~Fits(<<>>, WithNewer(i), prompt.message)
          /\ \A kind \in {"memory", "profile", "persona"} :
               prompt.built.report.omitted[kind] > 0 =>
                 \E i \in DOMAIN prompt.items :
                   /\ prompt.items[i].kind = kind
                   /\ ~Fits(Append(prompt.built.taken, prompt.items[i]),
                            prompt.built.kept, prompt.message)

=============================================================================

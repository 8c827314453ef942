------------------------------ MODULE ContextFit ------------------------------
(***************************************************************************)
(* The prompts of the conversation engine that are cut to the provider's   *)
(* budget: fit_optional_context puts as many optional sections as fit      *)
(* between the header and the safety suffix, and the archival prompt       *)
(* shortens the message it quotes.  A text is its length, as in            *)
(* TrustedContext.                                                         *)
(***************************************************************************)
EXTENDS TrustedContext

Newline == 2       \* units of an escaped newline
OmissionMarker == 5

Larger(a, b) == IF a > b THEN a ELSE b

-----------------------------------------------------------------------------
(* provider_envelope.py.                                                   *)

\* The length of a text cut to max_bytes; lost is what goes with a character
\* that the cut would split.
_truncate_utf8_safe(text, max_bytes, lost) ==
  IF text <= max_bytes THEN text
  ELSE LET available == Larger(max_bytes - OmissionMarker, 1)
       IN (IF lost < available THEN available - lost ELSE 0) + OmissionMarker

\* Head and tail around the marker; both ends may lose a split character.
_truncate_utf8_safe_head_tail(text, max_bytes, lost) ==
  IF text <= max_bytes THEN text
  ELSE IF max_bytes < OmissionMarker + 4 THEN _truncate_utf8_safe(text, max_bytes, lost)
  ELSE LET total_data == max_bytes - OmissionMarker
           head == Larger(1, (total_data * 6) \div 10)
           tail == Larger(1, total_data - head)
           Whole(end) == IF lost < end THEN end - lost ELSE 0
       IN Whole(head) + OmissionMarker + Whole(tail)

Prompt(system, user) ==
  <<[role |-> "system", size |-> system], [role |-> "user", size |-> user]>>

\* The suffix with the blank line before it.
SuffixPayload(suffix) == IF suffix = 0 THEN 0 ELSE 2 * Newline + suffix

\* The unescaped length of the same text is what is held back for it.
_estimate_remaining_budget(messages, suffix) ==
  Larger(0, MaxUnits - estimate_messages_units(messages)
              - (IF suffix = 0 THEN 0 ELSE 2 + suffix))

\* The system message with the chosen sections in visual order, each on a line
\* of its own; size gives the length of a section.
BuiltContent(header, selected, size) ==
  header + FoldSet(LAMBDA i, sum : sum + Newline + size[i], 0, selected)

\* Mutant: a section is accepted if it fits without the suffix.
MutTrySection(st, i, c) ==
  LET with == st.selected \cup {i}
      built == BuiltContent(c.header, with, c.sections)
  IN IF c.sections[i] > 0 /\ validate_provider_input(Prompt(built, c.user))
     THEN [selected |-> with, content |-> built] ELSE st

\* One round of the loop: the section is taken whole, or shortened if that is
\* asked for and the shortened one fits, or left out.  Sections taken before
\* are put in again with their full length.
TrySection(st, i, c) ==
  LET with == st.selected \cup {i}
      Fitting(built) ==
        validate_provider_input(Prompt(built + SuffixPayload(c.suffix), c.user))
      whole == BuiltContent(c.header, with, c.sections)
      remaining == _estimate_remaining_budget(Prompt(st.content, c.user), c.suffix)
      shortened == _truncate_utf8_safe(c.sections[i], remaining, c.lost)
      cut == BuiltContent(c.header, with, [c.sections EXCEPT ![i] = shortened])
  IN CASE c.sections[i] = 0 -> st
       [] c.sections[i] > 0 /\ Fitting(whole) -> [selected |-> with, content |-> whole]
       [] /\ c.sections[i] > 0 /\ ~Fitting(whole)
          /\ c.truncate_long_messages /\ remaining > 0
          /\ shortened # c.sections[i] /\ Fitting(cut) -> [selected |-> with, content |-> cut]
       [] OTHER -> st

\* The content of the system message, the sections in it and whether one was
\* left out, or the reason there is no prompt.
fit_optional_context(c) ==
  LET n == Len(c.sections)
      chosen[k \in 0..n] == IF k = 0 THEN [selected |-> {}, content |-> c.header]
                            ELSE TrySection(chosen[k - 1], c.priority[k], c)
      content == chosen[n].content + SuffixPayload(c.suffix)
  IN IF /\ validate_provider_input(Prompt(c.header, c.user))
        /\ validate_provider_input(Prompt(content, c.user))
     THEN [error |-> "none", messages |-> Prompt(content, c.user),
           selected_indices |-> chosen[n].selected,
           pruned |-> Cardinality(chosen[n].selected) < n]
     ELSE [error |-> "budget_exceeded", messages |-> <<>>,
           selected_indices |-> {}, pruned |-> FALSE]

-----------------------------------------------------------------------------
(* engine.py: the sections of a generation prompt.                         *)

Sections(ctx) ==
  LET Section(label, size) == IF size = 0 THEN <<>> ELSE <<[label |-> label, size |-> size]>>
      Labelled(label, sizes) == [i \in DOMAIN sizes |-> [label |-> label, size |-> sizes[i]]]
  IN Section("persona", ctx.persona)
       \o Labelled("history", ctx.history_list)
       \o Labelled("memory", SelectSeq(ctx.memory_entries, LAMBDA e : e > 0))
       \o Section("profile", ctx.user_profile)

\* Persona, newest history first, memories in retrieval order, profile.
selection_priority(sections) ==
  LET Of(label) == SetToSortSeq({i \in DOMAIN sections : sections[i].label = label}, <)
  IN Of("persona") \o Reverse(Of("history")) \o Of("memory") \o Of("profile")

_build_generation_messages(ctx) ==
  LET sections == Sections(ctx)
  IN fit_optional_context(
       [header |-> ctx.header, user |-> ctx.user, suffix |-> ctx.suffix,
        sections |-> [i \in DOMAIN sections |-> sections[i].size],
        priority |-> selection_priority(sections),
        truncate_long_messages |-> ctx.truncate_long_messages, lost |-> ctx.lost])

-----------------------------------------------------------------------------
(* engine.py: the archival prompt.  A byte of the message costs escaping   *)
(* units, the prompt around it overhead; lengths are real ones here.       *)

ArchivalFits(bytes, m) == m.overhead + bytes * m.escaping <= m.max_units

\* The shares of the first estimate that are tried in turn.
ArchivalFactors == <<100, 80, 60, 40, 20, 10>>

\* The length of the quoted message, or 0 if the extraction is given up.
ArchivalMessage(m) ==
  LET max_content_bytes == (Larger(100, m.max_units - m.overhead) * 9) \div 10
      Bytes(k) == (max_content_bytes * ArchivalFactors[k]) \div 100
      Cut(k) == _truncate_utf8_safe_head_tail(m.bytes, Bytes(k), m.lost)
      fitting == {k \in DOMAIN ArchivalFactors :
                    (k = 1 \/ Bytes(k) >= 10) /\ ArchivalFits(Cut(k), m)}
  IN IF ArchivalFits(m.bytes, m) THEN m.bytes
     ELSE IF fitting = {} THEN 0
     ELSE Cut(CHOOSE k \in fitting : \A j \in fitting : k <= j)

-----------------------------------------------------------------------------

\* What the engine's prompt promises whatever the lengths: there is a prompt
\* exactly if header, suffix and message fit on their own, it is within the
\* budget with the suffix in it, and without shortening a section is left out
\* only because it does not fit beside the more important ones that were kept:
\* persona, newer history, memories in retrieval order, profile.
SectionsByImportance(ctx) ==
  LET sections == Sections(ctx)
      fit == _build_generation_messages(ctx)
      Rank(s) == CHOOSE k \in 1..4 : <<"persona", "history", "memory", "profile">>[k] = s.label
      Before2(i, j) == \/ Rank(sections[i]) < Rank(sections[j])
                       \/ /\ Rank(sections[i]) = Rank(sections[j])
                          /\ IF sections[i].label = "history" THEN i > j ELSE i < j
      FitTogether(chosen) ==
        validate_provider_input(
          Prompt(BuiltContent(ctx.header, chosen, [i \in DOMAIN sections |-> sections[i].size])
                   + SuffixPayload(ctx.suffix), ctx.user))
  IN /\ fit.error = "none" <=> FitTogether({})
     /\ fit.error = "none" => validate_provider_input(fit.messages)
     /\ (fit.error = "none" /\ ~ctx.truncate_long_messages) =>
          \A i \in DOMAIN sections \ fit.selected_indices :
            ~FitTogether({j \in fit.selected_indices : Before2(j, i)} \cup {i})

\* The archival prompt is always within the budget, and a message is given up
\* only when the prompt around it leaves next to nothing for it, however large
\* the message and however much of it has to be escaped.
ArchivalAlwaysSent(m) ==
  LET sent == ArchivalMessage(m)
  IN /\ sent > 0 => ArchivalFits(sent, m)
     /\ m.overhead + 120 <= m.max_units => sent > 0

===============================================================================

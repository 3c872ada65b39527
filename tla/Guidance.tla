------------------------------ MODULE Guidance ------------------------------
(***************************************************************************)
(* The ha-agent's drawer conversation and the guidance it leads to: turns  *)
(* that are suspended while the LLM loop of the dispatcher runs, proposals *)
(* in the transcript, confirmations that write several stores one after    *)
(* the other (commit_guidance), the pages that change the same entries,    *)
(* and the rule cache of the triage path.                                  *)
(*                                                                         *)
(* Handlers run on one event loop and the stores are synchronous, so only  *)
(* the awaits of the LLM loop interleave.  A confirmation can be cut short *)
(* by a write that raises (a locked or full database) or by the end of the *)
(* process; what is durable then is a prefix of its writes.                *)
(***************************************************************************)
EXTENDS Integers, Sequences, FiniteSets, SequencesExt

CONSTANTS
  Users,
  Tabs,      \* POST /api/drawer/turn handlers that may run at a time
  Classes,       \* storage classes a proposal can name
  Names,         \* slugs that rule names lead to
  Areas,         \* areas that proposals name ...
  KnownAreas,    \* ... and those that exist
  MaxToolRounds, \* LLMDispatcherProvider.max_tool_rounds
  MaxUtterances, \* bound on the user turns
  MaxCommits,    \* bound on the confirmations
  MaxSessions,   \* bound on the sessions
  MaxPageEdits       \* bound on the changes made on pages

ASSUME GuidanceAssumption ==
  /\ MaxToolRounds \in Nat /\ MaxUtterances \in Nat /\ MaxCommits \in Nat /\ MaxSessions \in Nat /\ MaxPageEdits \in Nat
  /\ Classes \subseteq {"rule", "preference", "transient_intent", "dismissal_policy",
                        "situational_context", "access_profile", "area_posture"}
  /\ KnownAreas \subseteq Areas

VARIABLES
  sessions,   \* the table sessions, in the order of opened_at
  turns,      \* the table transcripts; a session's turn_index is the order of its own rows
  prov,       \* the table guidance_provenance: guidance id -> row
  guidance,    \* guidance id -> row of the rules, policies, areas or preferences store
  graph,      \* policy id -> node of the memory graph
  request,    \* request -> the suspended api_drawer_turn, or Free
  dirty,      \* RulesStore._dirty
  ruleCache,      \* RulesRuntime._cache, or NotLoaded
  commits, pageEdits

guidanceStores == <<prov, guidance, graph>>
rt     == <<dirty, ruleCache>>
guidanceVars   == <<sessions, turns, guidanceStores, request, rt, commits, pageEdits>>

NoId      == [fam |-> "none"]
Prefs     == [fam |-> "preference"]
Area(a)   == [fam |-> "area_posture", area |-> a]
NoProp    == [class |-> "none"]
Free      == [turn |-> 0]
NotLoaded == {<<NoId, 0>>}

Calls == MaxToolRounds + 2

PolicyClasses == {"transient_intent", "dismissal_policy", "situational_context"}

\* _classify_guidance_id gives the family of an id; commit_guidance maps a class to one.
Family(class) == IF class \in PolicyClasses THEN "policy" ELSE class

\* Store-assigned ids: a policy's is a uuid, a rule's is the slug of its name.
Generated(id) == id.fam \in {"rule", "policy"}

-----------------------------------------------------------------------------
(* The transcript.                                                         *)

TurnsOf(s) == {i \in DOMAIN turns : turns[i].sess = s}
UserTurns  == {i \in DOMAIN turns : turns[i].role = "user"}
Proposals  == {i \in DOMAIN turns : turns[i].prop # NoProp}
Markers    == {i \in DOMAIN turns : turns[i].committed # NoId}

Says(s)        == [sess |-> s, role |-> "user", prop |-> NoProp, answers |-> 0, committed |-> NoId]
Proposes(r, p) == [sess |-> r.sess, role |-> "system", prop |-> p, answers |-> r.turn, committed |-> NoId]
Marks(s, id)   == [sess |-> s, role |-> "system", prop |-> NoProp, answers |-> 0, committed |-> id]

Unclosed(u) == {s \in DOMAIN sessions : sessions[s].user = u /\ sessions[s].open}
Latest(S)   == CHOOSE s \in S : \A t \in S : t <= s

\* A write to a session's transcript ends its idleness.
Touched(ss, s) == [ss EXCEPT ![s].idle = FALSE]

\* get_or_open_session: the sessions after it, and the one it returns.
Reopen(ss, u) ==
  LET closed == IF Unclosed(u) = {} THEN ss ELSE [ss EXCEPT ![Latest(Unclosed(u))].open = FALSE]
  IN  Append(closed, [user |-> u, open |-> TRUE, idle |-> FALSE])

Session(u) ==
  IF Unclosed(u) # {} /\ ~sessions[Latest(Unclosed(u))].idle
  THEN [after |-> sessions, id |-> Latest(Unclosed(u))]
  ELSE [after |-> Reopen(sessions, u), id |-> Len(sessions) + 1]

-----------------------------------------------------------------------------
(* What can be proposed.                                                   *)

\* The ids a turn's context shows to the LLM: those its session has committed to.
Shown(s) == {turns[i].committed : i \in TurnsOf(s) \cap Markers}

Scopes(class) == IF class = "area_posture" THEN Areas ELSE IF class = "rule" THEN Names ELSE {"any"}

\* validate_proposal passes what has the right shape, whatever it says.
LlmProposals(s) ==
  {[class |-> c, scope |-> x, refines |-> g] :
     c \in Classes, x \in UNION {Scopes(c) : c \in Classes}, g \in Shown(s) \cup {NoId}}

WellScoped(p) == p.scope \in Scopes(p.class)

\* HeuristicDispatcherProvider never refines.
HeuristicProposals ==
  {[class |-> c, scope |-> x, refines |-> NoId] :
     c \in Classes \cap {"rule", "preference", "transient_intent", "dismissal_policy"},
     x \in Names \cup {"any"}}

GuidanceInit ==
  /\ sessions = <<>> /\ turns = <<>>
  /\ prov = <<>> /\ graph = <<>>
  /\ guidance = [id \in {Prefs} \cup {Area(a) : a \in KnownAreas} |->
                  [class |-> id.fam, by |-> 0, gone |-> FALSE, enabled |-> TRUE]]
  /\ request = [q \in Tabs |-> Free]
  /\ dirty = FALSE /\ ruleCache = NotLoaded
  /\ commits = 0 /\ pageEdits = 0

-----------------------------------------------------------------------------
(* POST /api/drawer/turn.                                                  *)

\* Up to the first await: the session, the user's turn, the context.
Turn(q, u) ==
  /\ request[q] = Free
  /\ Cardinality(UserTurns) < MaxUtterances
  /\ LET s == Session(u)
     IN  /\ Len(s.after) <= MaxSessions
         /\ sessions' = Touched(s.after, s.id)
         /\ turns' = Append(turns, Says(s.id))
         /\ request' = [request EXCEPT ![q] =
              [turn |-> Len(turns) + 1, sess |-> s.id, left |-> Calls, retried |-> FALSE]]
  /\ UNCHANGED <<guidanceStores, rt, commits, pageEdits>>

Busy(q) == request[q] # Free

\* The end of the handler: the proposal goes into the transcript.
Reply(q, p) ==
  /\ turns' = Append(turns, Proposes(request[q], p))
  /\ sessions' = Touched(sessions, request[q].sess)
  /\ request' = [request EXCEPT ![q] = Free]
  /\ UNCHANGED <<guidanceStores, rt, commits, pageEdits>>

\* CompositeDispatcherProvider: whatever the LLM provider raises, the heuristic
\* answers.
FallBack(q) == \E p \in HeuristicProposals : WellScoped(p) /\ Reply(q, p)

\* One call of the chat model has returned something that is not a proposal; the
\* loop goes on unless its calls are used up.
NextCall(q, r) ==
  IF r.left = 0 THEN FallBack(q)
  ELSE /\ request' = [request EXCEPT ![q] = r]
       /\ UNCHANGED <<sessions, turns, guidanceStores, rt, commits, pageEdits>>

AsksTools(q) ==
  /\ Busy(q)
  /\ NextCall(q, [request[q] EXCEPT !.left = @ - 1])

AnswersBadly(q) ==
  /\ Busy(q)
  /\ IF request[q].retried THEN FallBack(q)
     ELSE NextCall(q, [request[q] EXCEPT !.left = @ - 1, !.retried = TRUE])

CallFails(q) == Busy(q) /\ FallBack(q)

Answers(q) ==
  /\ Busy(q)
  /\ \E p \in LlmProposals(request[q].sess) : WellScoped(p) /\ Reply(q, p)

LlmReturns(q) == AsksTools(q) \/ AnswersBadly(q) \/ CallFails(q) \/ Answers(q)

\* The page with the drawer: a session is opened when there is no usable one.
ShowDrawer(u) ==
  /\ Session(u).after # sessions
  /\ Len(sessions) < MaxSessions
  /\ sessions' = Session(u).after
  /\ UNCHANGED <<turns, guidanceStores, request, rt, commits, pageEdits>>

\* SESSION_IDLE_TIMEOUT_S passes without a turn in session s.
GoesIdle(s) ==
  /\ Len(sessions) < MaxSessions
  /\ sessions[s].open /\ ~sessions[s].idle
  /\ sessions' = [sessions EXCEPT ![s].idle = TRUE]
  /\ UNCHANGED <<turns, guidanceStores, request, rt, commits, pageEdits>>

-----------------------------------------------------------------------------
(* POST /api/drawer/confirm.                                               *)

\* What a uuid is: no id generated before has it.
Fresh == commits + pageEdits + 1

\* Mutant: a slug that is taken only by a retired rule is used again.
SlugOfLive(name, n) ==
  LET plain == [fam |-> "rule", name |-> name, n |-> 0]
  IN  IF plain \in DOMAIN guidance /\ ~guidance[plain].gone THEN [plain EXCEPT !.n = n] ELSE plain

\* RulesStore.create: the slug, with a fresh suffix when any row has it already.
SlugFor(name, n) ==
  LET plain == [fam |-> "rule", name |-> name, n |-> 0]
  IN  IF plain \in DOMAIN guidance THEN [plain EXCEPT !.n = n] ELSE plain

NewId(p) ==
  CASE p.class = "rule"          -> SlugFor(p.scope, Fresh)
    [] p.class = "preference"    -> Prefs
    [] p.class = "area_posture"  -> Area(p.scope)
    [] p.class \in PolicyClasses -> [fam |-> "policy", n |-> Fresh]

Set(f, id, v) == [x \in DOMAIN f \cup {id} |-> IF x = id THEN v ELSE f[x]]

\* The utterance on record is the last user turn before the proposal.
Utterance(t) ==
  LET before == {i \in TurnsOf(turns[t].sess) \cap UserTurns : i < t}
  IN  IF before = {} THEN 0 ELSE Latest(before)

\* _commit_rule, _commit_preference, ...: a new row, or new values in a row that
\* is always there; an area that does not exist is left alone.
Created(id, p, t) ==
  IF id.fam = "area_posture" /\ id \notin DOMAIN guidance THEN guidance
  ELSE IF id \in DOMAIN guidance /\ ~Generated(id) THEN [guidance EXCEPT ![id].by = t]
  ELSE Set(guidance, id, [class |-> p.class, by |-> t, gone |-> FALSE, enabled |-> TRUE])

\* _update_rule, _update_policy, ...: values only, so what was retired stays so.
Updated(id, p, t) ==
  LET at == IF id.fam = "area_posture" THEN Area(p.scope) ELSE id
  IN  IF at \in DOMAIN guidance THEN [guidance EXCEPT ![at].by = t] ELSE guidance

\* The class guard of commit_guidance.
Refines(p) == p.refines \in DOMAIN prov /\ p.refines.fam = Family(p.class)

\* Mutant: a refinement replaces the row.
RefinedAnew(id, t) == [prov EXCEPT ![id].turn = t]

\* append_refinement.
Refined(id, t) ==
  IF t \in Range(prov[id].refs) THEN prov ELSE [prov EXCEPT ![id].refs = Append(@, t)]

\* record_provenance: INSERT OR REPLACE.
Recorded(id, t) == Set(prov, id, [turn |-> t, says |-> Utterance(t), refs |-> <<>>])

\* The stores after the first k writes of commit_guidance; the mirror swallows its
\* own errors.  Mutant: the provenance row is written before the entry.
AuditFirst(id, p, t, k) ==
  /\ prov'    = IF k >= 1 THEN Recorded(id, t) ELSE prov
  /\ guidance' = IF k >= 2 THEN Created(id, p, t) ELSE guidance
  /\ graph' \in {graph, IF k >= 2 /\ id.fam = "policy" THEN Set(graph, id, t) ELSE graph}

Create(id, p, t, k) ==
  /\ guidance' = IF k >= 1 THEN Created(id, p, t) ELSE guidance
  /\ prov'    = IF k >= 2 THEN Recorded(id, t) ELSE prov
  /\ graph' \in {graph, IF k >= 2 /\ id.fam = "policy" THEN Set(graph, id, t) ELSE graph}

Refine(id, p, t, k) ==
  /\ guidance' = IF k >= 1 THEN Updated(id, p, t) ELSE guidance
  /\ prov'    = IF k >= 2 THEN Refined(id, t) ELSE prov
  /\ UNCHANGED graph

\* k of its three durable writes: the entry, the provenance, the marker turn.
Confirm(t, k) ==
  LET p  == turns[t].prop
      id == IF Refines(p) THEN p.refines ELSE NewId(p)
  IN  /\ commits < MaxCommits
      /\ p.class # "access_profile"     \* raises before anything is written
      /\ IF Refines(p) THEN Refine(id, p, t, k) ELSE Create(id, p, t, k)
      /\ dirty' = (dirty \/ (p.class = "rule" /\ k >= 1))
      /\ IF k = 3
         THEN /\ turns' = Append(turns, Marks(turns[t].sess, id))
              /\ sessions' = Touched(sessions, turns[t].sess)
         ELSE UNCHANGED <<turns, sessions>>
      /\ commits' = commits + 1
      /\ UNCHANGED <<request, ruleCache, pageEdits>>

-----------------------------------------------------------------------------
(* The pages, the triage path, and the process.                            *)

\* Every write of RulesStore sets the dirty bit.
Dirtied(id) == dirty \/ id.fam = "rule"

\* /intent: enable, disable, delete a rule; /policies: revoke a policy.
Edit(id, row) ==
  /\ pageEdits < MaxPageEdits /\ Generated(id)
  /\ row # guidance[id]
  /\ guidance' = [guidance EXCEPT ![id] = row]
  /\ dirty' = Dirtied(id)
  /\ pageEdits' = pageEdits + 1
  /\ UNCHANGED <<sessions, turns, prov, graph, request, ruleCache, commits>>

Enable(id, on) == id.fam = "rule" /\ Edit(id, [guidance[id] EXCEPT !.enabled = on])
Withdraw(id)   == Edit(id, [guidance[id] EXCEPT !.gone = TRUE])

\* /intent: a rule written in the form, without commit_guidance.
SaveRule(name) ==
  /\ pageEdits < MaxPageEdits
  /\ LET id == SlugFor(name, Fresh)
     IN  guidance' = Set(guidance, id, [class |-> "rule", by |-> 0, gone |-> FALSE, enabled |-> TRUE])
  /\ dirty' = TRUE
  /\ pageEdits' = pageEdits + 1
  /\ UNCHANGED <<sessions, turns, prov, graph, request, ruleCache, commits>>

\* /intent: the preferences section.
SavePreferences ==
  /\ pageEdits < MaxPageEdits
  /\ guidance' = [guidance EXCEPT ![Prefs].by = 0]
  /\ pageEdits' = pageEdits + 1
  /\ UNCHANGED <<sessions, turns, prov, graph, request, rt, commits>>

\* RulesStore.active_rules: what triage and the prompt go by.
ActiveRules == {<<id, guidance[id].by>> : id \in {i \in DOMAIN guidance :
                  i.fam = "rule" /\ guidance[i].enabled /\ ~guidance[i].gone}}

\* RulesRuntime.active_rules, called for every alert.
ReadRules ==
  /\ IF ruleCache = NotLoaded
     THEN ruleCache' = ActiveRules /\ UNCHANGED dirty
     ELSE /\ ruleCache' = IF dirty THEN ActiveRules ELSE ruleCache
          /\ dirty' = FALSE
  /\ UNCHANGED <<sessions, turns, guidanceStores, request, commits, pageEdits>>

\* The process ends and starts again; SQLite and the graph stay.
AgentRestarts ==
  /\ request' = [q \in Tabs |-> Free]
  /\ dirty' = FALSE /\ ruleCache' = NotLoaded
  /\ UNCHANGED <<sessions, turns, guidanceStores, commits, pageEdits>>

GuidanceNext ==
  \/ \E q \in Tabs : LlmReturns(q) \/ \E u \in Users : Turn(q, u)
  \/ \E u \in Users : ShowDrawer(u)
  \/ \E s \in DOMAIN sessions : GoesIdle(s)
  \/ \E t \in Proposals, k \in 1..3 : Confirm(t, k)
  \/ \E id \in DOMAIN guidance : Withdraw(id) \/ \E on \in BOOLEAN : Enable(id, on)
  \/ \E name \in Names : SaveRule(name)
  \/ SavePreferences
  \/ ReadRules
  \/ AgentRestarts

GuidanceSpec == GuidanceInit /\ [][GuidanceNext]_guidanceVars

\* The LLM client has a timeout, so every call of it returns or raises.
GuidanceFairSpec == GuidanceSpec /\ \A q \in Tabs : WF_guidanceVars(LlmReturns(q))

-----------------------------------------------------------------------------
(* Properties.                                                             *)

GuidanceTypeOK ==
  /\ \A s \in DOMAIN sessions : sessions[s] \in [user : Users, open : BOOLEAN, idle : BOOLEAN]
  /\ \A i \in DOMAIN turns : turns[i].sess \in DOMAIN sessions /\ turns[i].role \in {"user", "system"}
  /\ \A q \in Tabs : Busy(q) => request[q].left \in 1..Calls /\ request[q].turn \in UserTurns
  /\ \A id \in DOMAIN guidance : guidance[id].by \in {0} \cup Proposals
  /\ ruleCache = NotLoaded \/ \A r \in ruleCache : r[1] \in DOMAIN guidance

\* A user has one drawer thread: the session a turn goes to is never ambiguous,
\* however turns, idle timeouts and pages follow each other.
OneOpenSession == \A u \in Users : Cardinality(Unclosed(u)) <= 1

\* What the audit trail claims has happened, whatever write of a confirmation was
\* the last that succeeded: a marker turn has its provenance, a provenance row of
\* a rule or policy has its entry, a node of the graph has its policy.
AuditIsTrue ==
  /\ \A i \in Markers : turns[i].committed \in DOMAIN prov
  /\ \A id \in DOMAIN prov : Generated(id) => id \in DOMAIN guidance
  /\ DOMAIN graph \subseteq DOMAIN guidance

\* A rule stays a rule and a policy a policy, whatever the LLM says it refines:
\* the proposals an entry was made and refined by are of its family.
FamiliesAreKept ==
  \A id \in DOMAIN prov :
    \A t \in {prov[id].turn} \cup Range(prov[id].refs) : Family(turns[t].prop.class) = id.fam

\* The refinement history of a rule or policy only grows: no later confirmation,
\* of a new rule with the same name for one, takes over its provenance.
HistoryIsKept ==
  [][\A id \in DOMAIN prov : Generated(id) =>
       /\ prov'[id].turn = prov[id].turn
       /\ IsPrefix(prov[id].refs, prov'[id].refs)]_guidanceVars

\* A rule the user deleted or a policy the user revoked does not come back into
\* force, by no confirmation, double submit or refinement of it.
WithdrawnStaysSo == [][\A id \in DOMAIN guidance : guidance[id].gone => guidance'[id].gone]_guidanceVars

\* Triage sees every change of the rules: a cache that is not marked is current.
CacheIsCurrent == ruleCache # NotLoaded /\ ~dirty => ruleCache = ActiveRules

\* The drawer never deadends: a turn gets its proposal however the model behaves,
\* unless the process ends.
EveryTurnIsAnswered == \A q \in Tabs : Busy(q) ~> ~Busy(q)

\* "Find the user turn that generated this proposal": refuted by two turns that
\* are suspended at the same time.
UtteranceIsTheAsked == \A id \in DOMAIN prov : prov[id].says = turns[prov[id].turn].answers

\* "Every guidance write funnels through one function": refuted by SaveRule.
EveryRuleHasProvenance == \A id \in DOMAIN guidance : Generated(id) => id \in DOMAIN prov

\* A confirmation names an entry that exists: refuted by an area that does not.
CommittedExists == \A i \in Markers : turns[i].committed \in DOMAIN guidance

\* "marks the proposal turn with the new guidance entry id": a proposal is
\* confirmed once.  Refuted by confirming it twice.
ConfirmedOnce ==
  \A id1, id2 \in DOMAIN prov : prov[id1].turn = prov[id2].turn => id1 = id2

\* "a refined proposal updates the entry's data in its store": refuted by the
\* refinement of an area's posture that is scoped to another area.
RefinementReachesEntry ==
  [][\A id \in DOMAIN prov \cap DOMAIN guidance :
       prov'[id].refs # prov[id].refs => guidance'[id].by = Last(prov'[id].refs)]_guidanceVars
=============================================================================

------------------------------- MODULE Proposer -------------------------------
(***************************************************************************)
(* How one pass gets its proposal (llm.propose, finalize_proposal,         *)
(* review_fallback; core._handle_no_signal, _propose_with_subagent, the    *)
(* primary loop of _refine_once and the checks of who answered).           *)
(*                                                                         *)
(* A pass asks the model one question after another.  Each question is a   *)
(* host call with a schema, and when the host or the reply cannot do with  *)
(* a schema a second one in JSON mode.  The first question gets the        *)
(* proposal; the others repair one field of it each.  A reply may name the *)
(* model that answered, and the host may have moved the call elsewhere.    *)
(***************************************************************************)
EXTENDS Integers, FiniteSets, FiniteSetsExt

CONSTANTS
  Setups,      \* what a pass may run on: a subset of AllSetups
  Offered,     \* the fingerprints rendered to the model
  NoPrint,     \* a fingerprint that is empty, malformed or was never offered
  MaxPatches   \* skill patches in one transaction (max_edits_per_proposal)

ASSUME ProposerAssumption == NoPrint \notin Offered /\ MaxPatches \in Nat \ {0}

VARIABLES
  setup,       \* what this pass runs on
  at,          \* where the pass is
  ask,         \* the open question
  mode,        \* the transport of the open call
  preferJson,  \* _call_transport.preferred_output_mode of this thread
  calls,       \* host calls of the proposal under way
  attempt,     \* of _MAX_PRIMARY_ATTEMPTS
  arm,         \* the proposal comes from the subagent or from a structured call
  prop,        \* the proposal as far as it is finished
  pin,         \* the fingerprint the grounding repair selected
  failure,     \* why the attempt gave no proposal
  heard,       \* history: a reply since the arm began named the route
  named,       \* who the thread's call metadata says answered (_record_call_meta)
  meta,        \* the same for the whole pass (_primary_llm_meta)
  child,       \* the route the subagent's handle names, which overrides it
  result       \* how the conversation ended

proposerVars == <<setup, at, ask, mode, preferJson, calls, attempt, arm, prop, pin, failure,
                  named, heard, meta, child, result>>

Prints == Offered \cup {NoPrint}
Answerers == {"route", "other"}
Questions == {"review", "proposal", "ground", "content", "shorten", "note", "patch"}
Shapes == {"no_op", "complete", "empty", "long", "badnote", "patch", "multi", "invalid"}
ProposalRecords == [shape : Shapes, print : Prints, patches : 0..MaxPatches]

NoProposal == [shape |-> "no_op", print |-> NoPrint, patches |-> 0]

\* What a model may reply: a transaction has patches to regenerate, nothing else has.
Replies == {p \in ProposalRecords : p.shape # "multi" => p.patches = 0}

AllSetups == [route : {"bound", "pinned", "free"}, subagent : BOOLEAN, strict : BOOLEAN,
              quiet : BOOLEAN, offered : {{}, Offered}]

\* strict is a mode of the subagent; without a signal there is no failure to offer.
ASSUME SetupsAssumption ==
  Setups \subseteq {s \in AllSetups : (s.strict => s.subagent) /\ (s.quiet => s.offered = {})}

\* Metadata and transport of the thread are whatever its last pass left.
ProposerInit ==
  /\ setup \in Setups
  /\ at = (IF setup.quiet THEN "reviewing" ELSE "starting")
  /\ ask = "proposal" /\ mode = "schema" /\ preferJson \in BOOLEAN
  /\ calls = 0 /\ attempt = 1 /\ arm = "structured"
  /\ prop = NoProposal /\ pin = NoPrint /\ failure = "none"
  /\ named \in Answerers \cup {"none"} /\ heard = FALSE /\ meta = "none"
  /\ child = "unknown"
  /\ result = "open"

-----------------------------------------------------------------------------
(* Questions. *)

\* The failures that _refine_once tries again, once and not on a bound route.
RetryFailures == {"llm_call_error", "llm_timeout", "no_final_text"}
AttemptLimit == IF setup.route = "bound" THEN 1 ELSE 2

\* A question starts with a schema unless JSON mode has worked for this proposal.
Open(q) ==
  /\ at' = "asking" /\ ask' = q
  /\ mode' = (IF preferJson' THEN "json" ELSE "schema")

\* The attempt is over, with a proposal or with the failure f.
Settle(f) ==
  /\ at' = "judging" /\ failure' = f
  /\ ask' = "proposal" /\ mode' = "schema"

\* _ground_parsed: only a single create or patch, valid or not, and only the first answer.
Ungrounded(p, stage) ==
  /\ stage = "first" /\ setup.offered # {}
  /\ p.shape \notin {"no_op", "multi"} /\ p.print \notin setup.offered

\* _finalize_edit, _finalize_edits: the question the proposal still calls for.
Missing(p, stage) ==
  IF Ungrounded(p, stage) THEN {"ground"}
  ELSE CASE p.shape = "empty" -> {"content"}
         [] p.shape = "long" -> {"shorten"}
         [] p.shape = "badnote" /\ p.print # NoPrint -> {"note"}
         [] p.shape = "patch" \/ (p.shape = "multi" /\ p.patches > 0) -> {"patch"}
         [] OTHER -> {}

\* Fields that are missing, or still missing after the retry.
Unusable(p, stage) == p.shape = "invalid" \/ (p.shape = "empty" /\ stage = "retried")

\* The proposal is p: ask what it calls for, or be done.  What is wrong with one that cannot
\* be used may be its action, and then it is not grounded.  The current text of a patch
\* target may not load (local_safety).
Proceed(p, stage) ==
  /\ prop' = p
  /\ \/ Unusable(p, stage) /\ Settle("malformed")
     \/ /\ ~Unusable(p, stage) \/ Ungrounded(p, stage)
        /\ \/ Missing(p, stage) = {} /\ Settle("none")
           \/ \E q \in Missing(p, stage) : Open(q) /\ UNCHANGED failure
           \/ Missing(p, stage) = {"patch"} /\ Settle("local_safety")

-----------------------------------------------------------------------------
(* The arms. *)

\* _handle_no_signal asks the reviewer.
StartReview ==
  /\ at = "reviewing"
  /\ at' = "asking" /\ ask' = "review" /\ mode' = "schema"
  /\ calls' = 0 /\ named' = "none" /\ heard' = FALSE
  /\ UNCHANGED <<setup, preferJson, attempt, arm, prop, pin, failure, meta, child, result>>

UsesSubagent == setup.subagent /\ setup.route # "pinned" /\ attempt = 1 /\ arm = "structured"

\* A plausible bug: the thread keeps what an earlier pass was told.
TransportAfresh == preferJson' = FALSE /\ UNCHANGED named

\* propose(): metadata and transport of the thread start afresh.
Afresh == preferJson' = FALSE /\ named' = "none"

StartStructured ==
  /\ (at = "starting" /\ ~UsesSubagent) \/ at = "fallback"
  /\ arm' = "structured"
  /\ Afresh /\ Open("proposal")
  /\ calls' = 0 /\ heard' = FALSE
  /\ prop' = NoProposal /\ pin' = NoPrint /\ failure' = "none"
  /\ UNCHANGED <<setup, attempt, meta, child, result>>

\* The subagent answers and its answer is finalized like a structured one.
SubagentAnswers ==
  /\ at = "starting" /\ UsesSubagent
  /\ arm' = "subagent" /\ calls' = 0 /\ heard' = FALSE
  /\ child' \in Answerers \cup {"none"}
  /\ UNCHANGED <<setup, preferJson, attempt, pin, named, meta, result>>
  /\ \E p \in Replies : Proceed(p, "first")

\* It cannot be launched, times out or answers nothing that can be parsed.  Strict mode
\* ends the pass, but not for a timeout.
SubagentFails ==
  /\ at = "starting" /\ UsesSubagent
  /\ arm' = "subagent"
  /\ child' \in Answerers \cup {"none", "unknown"}
  /\ \/ ~setup.strict /\ at' = "fallback" /\ UNCHANGED result
     \/ setup.strict /\ at' = "ended" /\ result' = "subagent_strict_error"
     \/ setup.strict /\ child' = "unknown" /\ at' = "fallback" /\ UNCHANGED result
  /\ UNCHANGED <<setup, ask, mode, preferJson, calls, attempt, prop, pin, failure, named, heard,
                 meta>>

-----------------------------------------------------------------------------
(* A host call returns. *)

\* The reply names who, or nobody.
Named(who) ==
  \/ UNCHANGED <<named, heard>>
  \/ named' = who /\ heard' = (heard \/ who = "route")

\* The reply cannot be used, or the host rejects the schema: JSON mode, same question.
FallBackToJson ==
  /\ at = "asking" /\ mode = "schema"
  /\ mode' = "json" /\ calls' = calls + 1
  /\ \E who \in Answerers : Named(who)
  /\ UNCHANGED <<setup, at, ask, preferJson, attempt, arm, prop, pin, failure, meta, child,
                 result>>

\* JSON mode gives no answer either.
NoAnswer ==
  /\ at = "asking" /\ mode = "json" /\ ask # "review"
  /\ \E f \in {"no_final_text", "malformed"} : Settle(f)
  /\ calls' = calls + 1
  /\ \E who \in Answerers : Named(who)
  /\ UNCHANGED <<setup, preferJson, attempt, arm, prop, pin, meta, child, result>>

\* The call raises.  The subagent's arm takes it as its own failure.
CallRaises ==
  /\ at = "asking" /\ ask # "review"
  /\ calls' = calls + 1
  /\ IF arm = "structured"
     THEN /\ \E f \in {"llm_call_error", "llm_timeout", "llm_route_error", "llm_trust_denied"} :
               Settle(f)
          /\ UNCHANGED result
     ELSE /\ IF setup.strict THEN at' = "ended" /\ result' = "subagent_strict_error"
             ELSE at' = "fallback" /\ UNCHANGED result
          /\ UNCHANGED <<ask, mode, failure>>
  /\ UNCHANGED <<setup, preferJson, attempt, arm, prop, pin, named, heard, meta, child>>

Answer(q) == at = "asking" /\ ask = q /\ calls' = calls + 1 /\ \E who \in Answerers : Named(who)

\* A plausible bug: a working JSON mode is not remembered.
TransportForgotten == UNCHANGED preferJson

\* JSON mode is remembered when it worked.
Transport == preferJson' = (preferJson \/ mode = "json")

Asked == UNCHANGED <<setup, attempt, arm, meta, child, result>>

Proposed ==
  /\ Answer("proposal") /\ Transport
  /\ \E p \in Replies : Proceed(p, "first")
  /\ UNCHANGED pin /\ Asked

\* The repair selects one of the offered fingerprints, with a pointer to its evidence.
Grounded ==
  /\ Answer("ground") /\ Transport
  /\ \/ \E f \in setup.offered : pin' = f /\ Proceed([prop EXCEPT !.print = f], "grounded")
     \/ Settle("fingerprint_retry_failed") /\ UNCHANGED <<prop, pin>>
  /\ Asked

\* A plausible bug: the retry's own fingerprint wins.
ContentWrittenAnew ==
  /\ Answer("content") /\ Transport
  /\ \E p \in {r \in Replies : r.shape \notin {"multi"}} : Proceed(p, "retried")
  /\ UNCHANGED pin /\ Asked

\* The retry of a create without content is a proposal of its own; only a fingerprint
\* that was there stays.
ContentWritten ==
  /\ Answer("content") /\ Transport
  /\ \E p \in {r \in Replies : r.shape \notin {"multi"}} :
       Proceed([p EXCEPT !.print = IF prop.print # NoPrint THEN prop.print ELSE @],
               "retried")
  /\ UNCHANGED pin /\ Asked

\* Only the text is taken from the reply.
Shortened ==
  /\ Answer("shorten") /\ Transport
  /\ \/ Proceed([prop EXCEPT !.shape = "complete"], "retried")
     \/ /\ \E f \in {"memory_shortening_refused", "memory_entry_too_long"} : Settle(f)
        /\ UNCHANGED prop
  /\ UNCHANGED pin /\ Asked

NoteRepaired ==
  /\ Answer("note") /\ Transport
  /\ \/ Proceed([prop EXCEPT !.shape = "complete"], "retried")
     \/ Settle("prompt_note_repair_failed") /\ UNCHANGED prop
  /\ UNCHANGED pin /\ Asked

\* The complete replacement.  Its fingerprint wins unless one was pinned: then another
\* one is a contradiction.  A transaction goes on with its next patch.
PatchWritten ==
  /\ Answer("patch") /\ Transport
  /\ \/ \E f \in Prints :
          LET print == IF pin # NoPrint \/ f = NoPrint THEN prop.print ELSE f
          IN IF pin # NoPrint /\ f \notin {pin, NoPrint}
             THEN Settle("patch_retry_fingerprint_changed") /\ UNCHANGED prop
             ELSE IF prop.shape = "multi"
             THEN Proceed([prop EXCEPT !.patches = @ - 1], "retried")
             ELSE Proceed([prop EXCEPT !.shape = "complete", !.print = print], "retried")
     \/ \E f \in {"malformed", "local_safety"} : Settle(f) /\ UNCHANGED prop
  /\ UNCHANGED pin /\ Asked

-----------------------------------------------------------------------------
(* What becomes of it. *)

\* A verdict of the reviewer, or none.  A decline, a failure or a verdict of another
\* model than a bound route's ends the pass.
Reviewed ==
  /\ Answer("review")
  /\ \/ at' = "starting" /\ UNCHANGED result
        /\ (setup.route = "bound" => named' = "route")
     \/ at' = "ended" /\ result' \in {"no_op", "llm_error", "llm_incomplete", "route_refused"}
  /\ ask' = "proposal" /\ mode' = "schema"
  /\ UNCHANGED <<setup, preferJson, attempt, arm, prop, pin, failure, meta, child>>

\* What an attempt names replaces what an earlier one named.
Meta == IF named # "none" THEN named ELSE meta

Retry ==
  /\ at = "judging"
  /\ failure \in RetryFailures /\ attempt < AttemptLimit
  /\ attempt' = attempt + 1
  /\ at' = "starting" /\ meta' = Meta
  /\ prop' = NoProposal /\ pin' = NoPrint /\ calls' = 0
  /\ UNCHANGED <<setup, ask, mode, preferJson, arm, failure, named, heard, child, result>>

\* What the pass goes by: the subagent's handle has the last word where there is one.
Attributed == IF child # "unknown" THEN child ELSE Meta

Judgement ==
  IF failure # "none" THEN failure
  ELSE IF setup.route = "pinned" /\ Attributed = "other" THEN "configured_model_substituted"
  ELSE IF prop.shape = "no_op" THEN "no_op"
  ELSE IF setup.route = "bound" /\ Attributed # "route" THEN "route_refused" ELSE "usable"

\* A denied permission is never tried again.  Only a usable proposal outlives the call.
Judge ==
  /\ at = "judging"
  /\ (failure \in RetryFailures /\ attempt < AttemptLimit) => failure = "llm_call_error"
  /\ at' = "ended" /\ result' = Judgement
  /\ \/ Judgement = "usable" /\ UNCHANGED <<prop, pin>>
     \/ Judgement # "usable" /\ prop' = NoProposal /\ pin' = NoPrint
  /\ calls' = 0 /\ meta' = Meta
  /\ UNCHANGED <<setup, ask, mode, preferJson, attempt, arm, failure, named, heard, child>>

-----------------------------------------------------------------------------
ProposerNext ==
  \/ StartReview \/ StartStructured \/ SubagentAnswers \/ SubagentFails
  \/ FallBackToJson \/ NoAnswer \/ CallRaises
  \/ Proposed \/ Grounded \/ ContentWritten \/ Shortened \/ NoteRepaired \/ PatchWritten
  \/ Reviewed \/ Retry \/ Judge

ProposerSpec == ProposerInit /\ [][ProposerNext]_proposerVars

-----------------------------------------------------------------------------
ProposerTypeOK ==
  /\ setup \in Setups /\ prop \in ProposalRecords /\ pin \in Prints
  /\ at \in {"reviewing", "starting", "fallback", "asking", "judging", "ended"}
  /\ ask \in Questions /\ mode \in {"schema", "json"} /\ preferJson \in BOOLEAN
  /\ calls \in Nat /\ attempt \in 1..2 /\ arm \in {"structured", "subagent"}
  /\ {named, meta, child} \subseteq Answerers \cup {"none", "unknown"}

\* A failure the repair grounded the edit in is the failure the edit is filed under,
\* whatever later questions answered (_ground_parsed, _finalize_edit).
GroundedStays == result = "usable" /\ pin # NoPrint => prop.print = pin

\* One proposal costs at most one call more than it has questions: a schema the host or
\* the model cannot do with is paid for once (preferred_output_mode).
FewCalls == calls <= 1 + Max({4, 1 + MaxPatches})

\* On a bound route a proposal is used only if a reply to this very pass named the
\* session's model: neither silence nor what the thread was told before will do
\* (_route_refusal; propose and review_fallback clear _call_meta).
AnsweredByRoute ==
  result = "usable" /\ setup.route = "bound" /\ child = "unknown" => heard
=============================================================================

--------------------------- MODULE MCEditLifecycle ---------------------------
(* Small instances of EditLifecycle. *)
EXTENDS EditLifecycle

MCSymmetry == Permutations(Actors) \cup Permutations(Entries)

\* The kinds of edits that are proposed, under way or recorded.
MCKinds ==
  {x.kind : x \in ({draft[a] : a \in Actors} \cup {edit[e] : e \in Entries}) \ {NoEdit}}

\* Skill edits and memory edits meet in the budget and in the lock alone, which are the same
\* for both: an instance with a skill and lessons keeps to one kind in each behaviour, over
\* an empty store of the other one.
MCOneKind ==
  /\ Cardinality(MCKinds) <= 1
  /\ "skill" \in MCKinds => memory = <<>>
  /\ "memory" \in MCKinds => \A s \in Skills : skills[s].text = Absent

\* The user writes on the first day only, and a day with such a write has no midnight: the
\* dedup window and what others do to a text meet in the proofs.
MCQuietNight == userEdits = 0 \/ \A d \in Days : today <= d
=============================================================================

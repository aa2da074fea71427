----------------------------- MODULE MCComponents -----------------------------
(* The safety of six components, each on an instance of its own.  A behaviour  *)
(* is one of the component `focus` names, and the others rest in a state they  *)
(* may start in.                                                               *)
EXTENDS RefinePass, Proposer, Installer, Migration, TurnMarks, EditLifecycle, TLC

VARIABLE focus

MCSymmetry == Permutations(Runs)

\* A route, a kind of proposer and what the session shows.
Run(route, kind, shows) ==
  [route |-> route, subagent |-> kind # "structured", strict |-> kind = "strict",
   quiet |-> shows = "quiet", offered |-> IF shows = "patterns" THEN Offered ELSE {}]

MCSetups ==
  {Run("bound", "strict", "patterns"), Run("free", "lax", "patterns"),
   Run("pinned", "lax", "corrections"), Run("bound", "structured", "patterns"),
   Run("bound", "structured", "quiet")}

MCInit ==
  /\ focus \in {"pass", "proposer", "installer", "migration", "marks", "skills"}
  /\ PassInit /\ (focus = "pass" \/ dry = {})
  /\ IF focus = "proposer" THEN ProposerInit
     ELSE /\ ProposerInit /\ setup = Run("bound", "strict", "patterns")
          /\ ~preferJson /\ named = "none"
  /\ IF focus = "installer" THEN InstallerInit
     ELSE /\ InstallerInit /\ \A f \in Files : hostFile[f] = AtHead(f)
          /\ \A n \in UserLimits : limit <= n
  /\ MigrationInit /\ (focus = "migration" \/ \A f \in DataFiles : legacy[f] # None)
  /\ MarksInit /\ (focus = "marks" \/ \A s \in Chats : length[s] = 0)
  /\ Init /\ memory = <<>>
  /\ focus = "skills" \/ \A s \in Skills : skills[s].text = Absent

PassAlone ==
  /\ focus = "pass" /\ PassNext
  /\ UNCHANGED <<focus, proposerVars, installerVars, migrationVars, marksVars, vars>>
ProposerAlone ==
  /\ focus = "proposer" /\ ProposerNext
  /\ UNCHANGED <<focus, passVars, installerVars, migrationVars, marksVars, vars>>
InstallerAlone ==
  /\ focus = "installer" /\ InstallerNext
  /\ UNCHANGED <<focus, passVars, proposerVars, migrationVars, marksVars, vars>>
MigrationAlone ==
  /\ focus = "migration" /\ MigrationNext
  /\ UNCHANGED <<focus, passVars, proposerVars, installerVars, marksVars, vars>>
MarksAlone ==
  /\ focus = "marks" /\ MarksNext
  /\ UNCHANGED <<focus, passVars, proposerVars, installerVars, migrationVars, vars>>
SkillsAlone ==
  /\ focus = "skills" /\ Next
  /\ UNCHANGED <<focus, passVars, proposerVars, installerVars, migrationVars, marksVars>>

MCNext ==
  \/ PassAlone \/ ProposerAlone \/ InstallerAlone \/ MigrationAlone \/ MarksAlone
  \/ SkillsAlone

componentVars == <<focus, passVars, proposerVars, installerVars, migrationVars, marksVars,
                   vars>>
MCSpec == MCInit /\ [][MCNext]_componentVars
=============================================================================

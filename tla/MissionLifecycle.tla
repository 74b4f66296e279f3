--------------------------- MODULE MissionLifecycle ---------------------------
(***************************************************************************)
(* The mission lifecycle of src/domain/lifecycle.js: the twelve permanent  *)
(* states and the table of legal transitions every other module consults.  *)
(***************************************************************************)

\* ACTIVE_MISSION_STATES.
ActiveStates == { "INTAKE", "CLARIFYING", "CONTRACTED", "PROVISIONING",
                  "EXECUTING", "VERIFYING", "REPAIRING" }

\* TERMINAL_MISSION_STATES.
TerminalStates == { "SUCCEEDED", "FAILED", "BLOCKED", "EXHAUSTED", "CANCELLED" }

MissionStates == ActiveStates \union TerminalStates

\* isTerminalMissionState.
IsTerminal(s) == s \in TerminalStates

\* The targets every active state has, whatever else it allows.
ForcedTerminalTargets == { "EXHAUSTED", "CANCELLED" }

\* LEGAL_TRANSITIONS, as the set of its pairs.
LegalTransitions ==
  (ActiveStates \X ForcedTerminalTargets) \union
  { <<"INTAKE", "CLARIFYING">>,     <<"INTAKE", "CONTRACTED">>,
    <<"CLARIFYING", "INTAKE">>,     <<"CLARIFYING", "BLOCKED">>,
    <<"CONTRACTED", "PROVISIONING">>,
    <<"PROVISIONING", "EXECUTING">>, <<"PROVISIONING", "FAILED">>,
    <<"EXECUTING", "VERIFYING">>,   <<"EXECUTING", "FAILED">>,
    <<"VERIFYING", "SUCCEEDED">>,   <<"VERIFYING", "REPAIRING">>,
    <<"VERIFYING", "FAILED">>,
    <<"REPAIRING", "EXECUTING">>,   <<"REPAIRING", "FAILED">>,
    <<"REPAIRING", "BLOCKED">> }

\* isLegalTransition.
IsLegalTransition(from, to) == <<from, to>> \in LegalTransitions

===============================================================================

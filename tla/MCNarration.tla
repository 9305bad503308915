---------------------------- MODULE MCNarration ----------------------------
(***************************************************************************)
(* TLC instances of Narration: two API processes during a deploy, one with *)
(* the team question still on its contested list, one without; a team      *)
(* question and a QB question, which have prompt versions of their own.    *)
(***************************************************************************)
EXTENDS Narration

CONSTANTS old, new, teamKey, qbKey, teamPrompt, qbPrompt, r1, r2

MCProcessOf == [r \in Requests |-> IF r = r1 THEN old ELSE new]
MCPromptOf == [k \in Keys |-> IF k = teamKey THEN teamPrompt ELSE qbPrompt]
MCContestedIn == [p \in Processes |-> IF p = old THEN {teamKey} ELSE {}]
=============================================================================

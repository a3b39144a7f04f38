----------------------------- MODULE MCAvatarLinks -----------------------------
(* Constants for model checking AvatarLinks: one event with a manager, a         *)
(* participant, a session and two contributions.                                 *)
EXTENDS AvatarLinks

CONSTANTS a, b, e, manager, participant, session, talk, poster, s, t

MCEventOf == [o \in Objects |-> e]
MCRoleOf == [o \in Objects |-> IF o \in {talk, poster} THEN "contribution_manager"
                               ELSE IF o = manager THEN "conference_manager"
                               ELSE IF o = session THEN "session_manager"
                               ELSE "conference_participant"]

Symmetry == Permutations(Avatars) \cup Permutations(Sessions)
===============================================================================

----------------------------- MODULE MCTerminal -----------------------------
EXTENDS Terminal, TLC
CONSTANTS a, b, n1, s1, e1, k1, k2

Tour(stops, agents, library) == [stops |-> stops, agents |-> agents, skills |-> library]
Library(v1, v2) == [k \in Skills |-> IF k = k1 THEN v1 ELSE v2]

\* Agents, their memory, and the skills they use: nothing is typed into a form.
\* With typed commands, two agents are shown in any order against their reads.
DeskTours ==
    {Tour({"agents", "profiles", "notes"}, {a, b}, Library(1, 0)),
     Tour({"agents", "notes", "history", "episodes"}, {a, b}, Library(1, 0)),
     Tour({"agents", "notes", "drafts", "deletion"}, {a, b}, Library(1, 0)),
     Tour({"agents", "notes", "deletion", "suggestions"}, {a, b}, Library(1, 0)),
     Tour({"agents", "assignments"}, {a}, Library(2, 0)),
     Tour({"shelf", "assignments"}, {a, b}, Library(2, 1)),
     Tour({"shelf", "versions", "assignments"}, {a}, Library(2, 1)),
     Tour({"commands", "shelf"}, {a}, Library(1, 1)),
     Tour({"agents", "commands"}, {a, b}, Library(0, 0)),
     Tour({"workflows", "commands"}, {a}, Library(2, 0))}

\* The forms of agents and skills, alone and against each other.
FormTours ==
    {Tour({"agents", "editing", "typing"}, {a}, Library(1, 0)),
     Tour({"editing", "assignments"}, {a}, Library(1, 0)),
     Tour({"agents", "notes", "drafts", "editing"}, {a}, Library(1, 0)),
     Tour({"agents", "notes", "drafts", "suggestions"}, {a}, Library(0, 0)),
     Tour({"shelf", "skills"}, {a}, Library(2, 0)),
     Tour({"skills", "versions"}, {a}, Library(0, 0)),
     Tour({"skills", "references"}, {a}, Library(0, 0)),
     Tour({"shelf", "versions"}, {a}, Library(1, 0))}

\* Notes written and deleted, and nothing else.
NoteTours == {Tour({"agents", "notes", "drafts"}, {a, b}, Library(0, 0))}
=============================================================================

------------------------------ MODULE MCProjects ------------------------------
(* What surrounds the issues of one project, each on its own in the same run:  *)
(* its members and blocks, the doors into it, its context pages and its repeat *)
(* schedules.  The part under way is chosen at the start and the others stay   *)
(* as they begin.                                                              *)
EXTENDS Doors, ContextPages, RepeatSchedules

VARIABLE part

projectVars == <<doorVars, pageVars, repeatVars, part>>

Key(freq, interval, days, monthDay, month) ==
    [freq |-> freq, interval |-> interval, days |-> days, monthDay |-> monthDay,
     month |-> month]

\* Rules that meet short months, leap years and weeks that begin between dates.
Rules ==
    {Shorthand(f) : f \in {"WEEKLY", "MONTHLY", "YEARLY", "CRON"}}
    \cup {Key("DAILY", n, {}, 0, 0) : n \in {1, 3, 100}}
    \cup {Key("WEEKLY", 2, {<<0, 0>>, <<0, 3>>}, 0, 0),
          Key("WEEKLY", 3, {<<0, 6>>}, 0, 0),
          Key("MONTHLY", 0, {<<3, 2>>}, 0, 0), Key("MONTHLY", 3, {<<-1, 4>>}, 0, 0),
          Key("MONTHLY", 0, {}, 31, 0), Key("MONTHLY", 5, {}, -1, 0),
          Key("YEARLY", 0, {}, 29, 2), Key("YEARLY", 3, {}, 29, 2),
          Key("YEARLY", 0, {}, 30, 2)}

\* 2096 is a leap year and 2100 is none.
Starts == {civilDate(2096, 1, 31), civilDate(2096, 2, 29), civilDate(2099, 12, 30)}

Delays == {-20, 0, 1, 16, 400}

ProjectsInit ==
    /\ part \in {"settings", "doors", "pages", "repeats"}
    /\ request = Waiting /\ PagesInit /\ RepeatsInit
    /\ IF part = "doors" THEN DoorsInit ELSE SettingsInit
    /\ part \in {"pages", "repeats"} => project.mode = "private" /\ project.role = "none"

ProjectsNext ==
    \/ /\ part = "settings" /\ SettingsNext
       /\ UNCHANGED <<request, pageVars, repeatVars, part>>
    \/ /\ part = "doors" /\ DoorsNext
       /\ UNCHANGED <<pageVars, repeatVars, part>>
    \/ /\ part = "pages" /\ PagesNext
       /\ UNCHANGED <<doorVars, repeatVars, part>>
    \/ /\ part = "repeats" /\ RepeatsNext
       /\ UNCHANGED <<doorVars, pageVars, part>>

ProjectsSpec == ProjectsInit /\ [][ProjectsNext]_projectVars

\* The state of the part under way stays within its types.
ProjectsTypeOK ==
    CASE part = "settings" -> PermissionsTypeOK
      [] part = "doors" -> DoorsTypeOK
      [] part = "pages" -> PagesTypeOK
      [] part = "repeats" -> RepeatsTypeOK
===============================================================================

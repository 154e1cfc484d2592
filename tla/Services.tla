-------------------------------- MODULE Services --------------------------------
(* The services whose tables and numbers have nothing in common, side by side: *)
(* a statistic (StatCache), saved maps (MapSaves), comments (NoteComments) and *)
(* the migrations.  A behaviour is about one of them: part says which, and the *)
(* others do not begin.                                                        *)
EXTENDS StatCache, MapSaves, NoteComments, Migrations

CONSTANT MaxHints  \* bound on the messages, where hints are looked at

VARIABLE part

ServicesInit ==
  /\ part \in {"statistic", "saved maps", "comments", "upgrades"}
  /\ Init /\ SavesInit /\ CommentsInit /\ MigrationInit
  /\ part # "statistic" => kind = "stat"
  /\ part # "upgrades" => live = {} /\ owner = [x \in Saves |-> CHOOSE u \in Owners : TRUE]

(* Any number of hints are read at a time, and any number of times. *)
Counting ==
  /\ part = "statistic" /\ Next
  /\ kind = "hint" => started' <= MaxHints
  /\ UNCHANGED <<part, saveVars, commentVars, migrationVars>>
SavingMaps ==
  /\ part = "saved maps" /\ SavesNext
  /\ UNCHANGED <<part, vars, commentVars, migrationVars>>
Commenting ==
  /\ part = "comments" /\ CommentsNext
  /\ UNCHANGED <<part, vars, saveVars, migrationVars>>
Upgrading ==
  /\ part = "upgrades" /\ MigrationNext
  /\ UNCHANGED <<part, vars, saveVars, commentVars>>

ServicesNext == Counting \/ SavingMaps \/ Commenting \/ Upgrading
servicesVars == <<part, vars, saveVars, commentVars, migrationVars>>

ServicesSpec == ServicesInit /\ [][ServicesNext]_servicesVars

(* Types *)
ServicesTypeOK == TypeOK /\ SavesTypeOK /\ CommentsTypeOK /\ MigrationsTypeOK
=================================================================================

----------------------------- MODULE SideBySide -----------------------------
(* The machines that keep to themselves, side by side in one specification: a *)
(* behaviour is one of a single machine, and the others stand still. They     *)
(* share no state in the code, and what is true of all of them together is    *)
(* true of each.                                                              *)
EXTENDS ParsedCache, Surfaces, Cli, PageWalk, ImaHistory, ClientLife,
        Registry, CsvScan

VARIABLE used             \* the machine that moves

allVars == <<used, vars, surfaceVars, cliVars, pageVars, imaVars, clientVars,
             registryVars, csvVars>>

OperationsInit ==
  /\ used \in {"cache", "server", "commands", "pages", "histories", "clients",
               "registry", "csv"}
  /\ Init /\ SurfaceInit /\ CliInit /\ PageInit /\ ImaInit /\ ClientInit
  /\ RegistryInit /\ CsvInit
  /\ used # "server" => guarded
  /\ used # "pages" => walk = "siconfi" /\ Last(versions) = << >>

CacheMoves == used = "cache" /\ Next
  /\ UNCHANGED <<used, surfaceVars, cliVars, pageVars, imaVars, clientVars, registryVars, csvVars>>
ServerMoves == used = "server" /\ SurfaceNext
  /\ UNCHANGED <<used, vars, cliVars, pageVars, imaVars, clientVars, registryVars, csvVars>>
CommandMoves == used = "commands" /\ CliNext
  /\ UNCHANGED <<used, vars, surfaceVars, pageVars, imaVars, clientVars, registryVars, csvVars>>
PagesMove == used = "pages" /\ PageNext
  /\ UNCHANGED <<used, vars, surfaceVars, cliVars, imaVars, clientVars, registryVars, csvVars>>
HistoriesMove == used = "histories" /\ ImaNext
  /\ UNCHANGED <<used, vars, surfaceVars, cliVars, pageVars, clientVars, registryVars, csvVars>>
ClientsMove == used = "clients" /\ ClientNext
  /\ UNCHANGED <<used, vars, surfaceVars, cliVars, pageVars, imaVars, registryVars, csvVars>>
RegistryMoves == used = "registry" /\ RegistryNext
  /\ UNCHANGED <<used, vars, surfaceVars, cliVars, pageVars, imaVars, clientVars, csvVars>>
FilesMove == used = "csv" /\ CsvNext
  /\ UNCHANGED <<used, vars, surfaceVars, cliVars, pageVars, imaVars, clientVars, registryVars>>

OperationsNext ==
  \/ CacheMoves \/ ServerMoves \/ CommandMoves \/ PagesMove
  \/ HistoriesMove \/ ClientsMove \/ RegistryMoves \/ FilesMove

OperationsSpec == OperationsInit /\ [][OperationsNext]_allVars

-----------------------------------------------------------------------------
\* The variables of every machine have their types.
OperationsTypeOK ==
  /\ TypeOK /\ RegistryTypeOK /\ CsvTypeOK
  /\ SurfaceTypeOK /\ CliTypeOK /\ PageTypeOK /\ ImaTypeOK /\ ClientTypeOK
=============================================================================

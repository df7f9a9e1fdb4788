-------------------------- MODULE OperationsProofs --------------------------
(* The machines of SideBySide: a behaviour of all of them is one of each, so  *)
(* what is proved of each holds of them together.                             *)
EXTENDS SideBySide, ProcessProofs, SourceProofs, SurfaceProofs
-----------------------------------------------------------------------------
\* A step of the machines is one of a single machine, or stutters, and leaves the
\* variables of every other machine as they are.
LEMMA OneMachineMoves ==
  [OperationsNext]_allVars =>
    /\ [Next]_vars
    /\ [SurfaceNext]_surfaceVars
    /\ [CliNext]_cliVars
    /\ [PageNext]_pageVars
    /\ [ImaNext]_imaVars
    /\ [ClientNext]_clientVars
    /\ [RegistryNext]_registryVars
    /\ [CsvNext]_csvVars
<1> HAVE [OperationsNext]_allVars
<1>1. CASE CacheMoves
  BY <1>1 DEF CacheMoves
<1>2. CASE ServerMoves
  BY <1>2 DEF ServerMoves
<1>3. CASE CommandMoves
  BY <1>3 DEF CommandMoves
<1>4. CASE PagesMove
  BY <1>4 DEF PagesMove
<1>5. CASE HistoriesMove
  BY <1>5 DEF HistoriesMove
<1>6. CASE ClientsMove
  BY <1>6 DEF ClientsMove
<1>7. CASE RegistryMoves
  BY <1>7 DEF RegistryMoves
<1>8. CASE FilesMove
  BY <1>8 DEF FilesMove
<1>9. CASE UNCHANGED allVars
  BY <1>9 DEF allVars
<1> QED BY <1>1, <1>2, <1>3, <1>4, <1>5, <1>6, <1>7, <1>8, <1>9 DEF OperationsNext

\* So a behaviour of all the machines is one of each.
LEMMA MachinesStandApart ==
  OperationsSpec =>
    /\ Spec
    /\ SurfaceSpec
    /\ CliSpec
    /\ PageSpec
    /\ ImaSpec
    /\ ClientSpec
    /\ RegistrySpec
    /\ CsvSpec
<1>1. OperationsInit =>
        /\ Init
        /\ SurfaceInit
        /\ CliInit
        /\ PageInit
        /\ ImaInit
        /\ ClientInit
        /\ RegistryInit
        /\ CsvInit
  BY DEF OperationsInit
<1> QED BY <1>1, OneMachineMoves, PTL DEF OperationsSpec, Spec, SurfaceSpec, CliSpec, PageSpec, ImaSpec, ClientSpec, RegistrySpec, CsvSpec

\* Whatever the sources, the clients and the callers do, the state of every machine
\* is of its type: the caches, the server, the command line, the walks, the
\* histories, the clients, the registry and the scan.
THEOREM OperationsAreTyped == OperationsSpec => []OperationsTypeOK
<1>1. /\ TypeOK /\ SurfaceTypeOK /\ CliTypeOK /\ PageTypeOK
      /\ ImaTypeOK /\ ClientTypeOK /\ RegistryTypeOK /\ CsvTypeOK
      => OperationsTypeOK
  BY DEF OperationsTypeOK
<1> QED BY <1>1, MachinesStandApart, ParsedTypeCorrect, ServerIsTyped, CommandLineIsTyped, WalksAreTyped,
           ImaTypeCorrect, ClientTypeCorrect, RegistryIsTyped, ScansAreTyped, PTL
=============================================================================
